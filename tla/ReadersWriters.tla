--------------------------- MODULE ReadersWriters ---------------------------
(***************************************************************************)
(* What a readers-writers lock promises: any number of readers, or one     *)
(* writer alone.  RWLock implements it.                                    *)
(***************************************************************************)
CONSTANT Thread

VARIABLES readers, writers   \* the threads that hold the lock, by role

BeginRead(t)  == /\ t \notin readers \cup writers /\ writers = {}
                 /\ readers' = readers \cup {t} /\ UNCHANGED writers
BeginWrite(t) == /\ readers \cup writers = {}
                 /\ writers' = {t} /\ UNCHANGED readers
EndRead(t)    == /\ t \in readers
                 /\ readers' = readers \ {t} /\ UNCHANGED writers
EndWrite(t)   == /\ t \in writers
                 /\ writers' = {} /\ UNCHANGED readers

Init == readers = {} /\ writers = {}
Next == \E t \in Thread :
          BeginRead(t) \/ BeginWrite(t) \/ EndRead(t) \/ EndWrite(t)
Spec == Init /\ [][Next]_<<readers, writers>>
=============================================================================
