----------------------------- MODULE ExitStatus -----------------------------
(***************************************************************************)
(* What processes promise about exit statuses: a process has one when it   *)
(* ends, and its parent receives that one, once, after the end.  Process   *)
(* implements it.                                                          *)
(***************************************************************************)
EXTENDS Sequences

CONSTANTS Pid, Status

VARIABLES
  life,      \* "unborn", "running" or "dead"
  status,    \* the status a process ends with
  returned   \* what has been returned to the parent so far

Start(c) ==
  /\ life[c] = "unborn"
  /\ life' = [life EXCEPT ![c] = "running"]
  /\ \E s \in Status : status' = [status EXCEPT ![c] = s]
  /\ UNCHANGED returned
SetStatus(c) ==
  /\ life[c] = "running"
  /\ \E s \in Status : status' = [status EXCEPT ![c] = s]
  /\ UNCHANGED <<life, returned>>
End(c) ==
  /\ life[c] = "running"
  /\ life' = [life EXCEPT ![c] = "dead"]
  /\ UNCHANGED <<status, returned>>
Return(c) ==
  /\ life[c] = "dead" /\ returned[c] = <<>>
  /\ returned' = [returned EXCEPT ![c] = <<status[c]>>]
  /\ UNCHANGED <<life, status>>

Init == /\ life = [c \in Pid |-> "unborn"]
        /\ status \in [Pid -> Status]
        /\ returned = [c \in Pid |-> <<>>]
Next == \E c \in Pid : Start(c) \/ SetStatus(c) \/ End(c) \/ Return(c)
Spec == Init /\ [][Next]_<<life, status, returned>>
=============================================================================
