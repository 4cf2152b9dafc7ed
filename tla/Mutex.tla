------------------------------- MODULE Mutex -------------------------------
(***************************************************************************)
(* What locks promise: a lock passes from nobody to a thread, and from     *)
(* that thread back to nobody.  Threads implements it; RWLock uses it.     *)
(***************************************************************************)
CONSTANTS Thread, Lock, None

VARIABLE holder

Acquire(t, l) == holder[l] = None /\ holder' = [holder EXCEPT ![l] = t]
Release(t, l) == holder[l] = t /\ holder' = [holder EXCEPT ![l] = None]

Init == holder = [l \in Lock |-> None]
Next == \E t \in Thread, l \in Lock : Acquire(t, l) \/ Release(t, l)
Spec == Init /\ [][Next]_holder
=============================================================================
