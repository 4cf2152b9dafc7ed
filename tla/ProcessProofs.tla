---------------------------- MODULE ProcessProofs ----------------------------
(***************************************************************************)
(* Proofs about Process where only main threads call exit() and wait() and *)
(* are killed (ByOthers = {}; every other thread still runs, creates,      *)
(* joins and ends as it likes): the inductive invariant ProcessInv, kept   *)
(* by every step of ProcessSteps, and from it that the reference count of  *)
(* a wait_status is the number of its holders, that no thread outlives its *)
(* process but to go or in a circle of joins, and that ExitStatus is       *)
(* implemented.                                                            *)
(***************************************************************************)
EXTENDS ProcessSteps

-----------------------------------------------------------------------------
(* The invariant.                                                          *)

\* Threads that have no process yet; that run in one; that end one.
Early   == {"none", "start_process", "start_pthread"}
Working == {"link", "setup", "user", "load_done", "pthread_load_done", "wait", "dead", "reap",
            "joining", "join"}
Leaving == {"exit", "exit_joining", "exit_join", "children", "wait_status", "release", "free",
            "exit_main", "main_joining", "main_join"}

\* In the sema_down of pthread_join and before it; past the loop over thread_list; in a
\* call about a child.
Joining == {"join", "exit_join", "main_join"}
Testing == {"joining", "exit_joining", "main_joining"}
Late    == {"children", "wait_status", "release", "free"}
OnChild  == {"load_done", "dead", "reap"}

Elements(s) == {s[i] : i \in 1 .. Len(s)}
Distinct(s) == \A i, j \in 1 .. Len(s) : s[i] = s[j] => i = j

\* The process of a thread, and the main thread of a process.
TreeInv ==
  /\ \A t \in Thread :
       /\ pc[t] \in Early => pcb[t] = None /\ stateOf[t] = "none"
       /\ pc[t] \in Working \/ pc[t] \in Leaving \/ pc[t] = "dying" => pcb[t] # None
       /\ pc[t] \in Leaving => pcb[t] = t /\ Live(t)
  /\ \A t, p \in Thread : pcb[t] = p => stateOf[p] # "none" /\ (p = Root => t = Root)
  /\ \A p \in Thread :
       /\ Live(p) => pcb[p] = p /\ pc[p] \notin {"link", "setup"} /\ (pc[p] \in Working \/ pc[p] \in Leaving)
       /\ stateOf[p] = "freed" => pc[p] = "gone" /\ pcb[p] = None
       /\ ~ Live(p) => childrenOf[p] = {} /\ joinsOf[p] = {} /\ listOf[p] = <<>>
  /\ Live(Root) /\ pc[Root] \in Working /\ ~ markedOf[Root]

\* Who creates a thread waits until it is set up.
CreateInv ==
  /\ \A n \in Thread :
       /\ pc[n] \in Early \/ pc[n] \in {"link", "setup"} => load[n] = "pending"
       /\ pc[n] \in {"start_pthread", "pthread_load_done"} => arg[n] # None
  /\ \A n, p \in Thread : pc[n] = "start_pthread" /\ arg[n] = p =>
       /\ p # Root /\ Live(p)
       /\ \E t \in Thread : pc[t] = "pthread_load_done" /\ arg[t] = n /\ pcb[t] = p
  /\ \A n, p \in Thread : pc[n] = "link" /\ pcb[n] = p =>
       \E t \in Thread : pc[t] = "pthread_load_done" /\ arg[t] = n /\ pcb[t] = p

\* thread_list holds the threads of a process, each once, from their Link on.
MembersInv ==
  /\ \A p \in Thread : Distinct(listOf[p])
  /\ \A p, t \in Thread : Live(p) /\ p # Root =>
       (t \in Elements(listOf[p]) <=> pcb[t] = p /\ pc[t] # "link")

\* A thread that runs can be joined, by threads of its process, and raises join at its
\* end.
JoinInv ==
  /\ \A p, x \in Thread : x \in joinsOf[p] => pcb[x] = p
  /\ \A x \in Thread :
       /\ pc[x] \in Early \/ pc[x] \in Working => joinOf[x] = 0
       /\ pc[x] \in {"exit_main", "main_joining", "main_join", "dying"} => joinOf[x] <= 1
       /\ joinOf[x] \in 0 .. 2
       /\ pc[x] \in Early => ~ joinedOf[x]
       /\ pc[x] \in Joining \/ pc[x] \in Testing => arg[x] # None
  /\ \A y, x \in Thread : pc[y] \in Joining /\ arg[y] = x => joinedOf[x]
  /\ \A y, x, p \in Thread :
       (pc[y] \in Joining \/ pc[y] \in Testing) /\ arg[y] = x /\ pcb[y] = p /\ Live(p) => pcb[x] = p
  /\ \A x, p \in Thread : pc[x] \in Working /\ x # Root /\ pcb[x] = p /\ Live(p) => x \in joinsOf[p]

\* Somebody waits for a thread that is joined and has not ended.
JoinerInv ==
  \A x, p \in Thread :
    pc[x] \in Working /\ x # Root /\ pcb[x] = p /\ Live(p) /\ joinedOf[x] =>
      \E y \in Thread : pc[y] \in Joining /\ arg[y] = x /\ pcb[y] = p

\* Where the loops over thread_list are.
LoopInv ==
  \A p \in Thread :
    /\ pc[p] \notin {"exit", "exit_joining", "exit_join", "exit_main", "main_joining", "main_join"}
         => at[p] = 0
    /\ pc[p] \in {"exit", "exit_main"} => at[p] \in 1 .. Len(listOf[p]) + 1
    /\ pc[p] \in {"exit_joining", "exit_join", "main_joining", "main_join"} =>
         StandsFor(p, arg[p])

\* The loop of process p need not wait for x.
Passed(x, p) ==
  \/ x = p \/ pc[x] \notin Working
  \/ \E y \in Thread : y # p /\ pc[y] = "join" /\ arg[y] = x /\ pcb[y] = p

\* What the loop of process_exit leaves behind.
PassedInv ==
  \A p \in Thread : pc[p] \in {"exit", "exit_joining", "exit_join"} =>
    \A i \in 1 .. Len(listOf[p]) : i < at[p] => Passed(listOf[p][i], p)

\* After the loop, the threads other than the main one have ended or wait for each
\* other for ever, and none is about to start.
Finished(t, p) ==
  \/ pc[t] \in {"dying", "gone"}
  \/ pc[t] = "join" /\ \E x \in Thread : arg[t] = x /\ x # p /\ pcb[x] = p /\ pc[x] = "join"
LateInv ==
  /\ \A t, p \in Thread : (pc[p] \in Late \/ stateOf[p] = "freed") /\ t # p /\ pcb[t] = p => Finished(t, p)
  /\ \A n, p \in Thread : ~ ((pc[p] \in Late \/ stateOf[p] = "freed") /\ pc[n] = "start_pthread" /\ arg[n] = p)

\* A thread in process_execute or process_wait for c.
Holds(t, c) == pc[t] \in OnChild /\ arg[t] = c

\* A process has one parent, which has it as child or is in one call for it.
FamilyInv ==
  /\ \A p \in Thread : pc[p] \in {"wait_status", "release", "free"} => childrenOf[p] = {}
  /\ \A p, c \in Thread : c \in childrenOf[p] => c # Root /\ stateOf[c] # "none" /\ load[c] = "ok"
  /\ \A p, q, c \in Thread : c \in childrenOf[p] /\ c \in childrenOf[q] => p = q
  /\ \A p, t, c \in Thread : c \in childrenOf[p] => ~ Holds(t, c)
  /\ \A t \in Thread : pc[t] \in OnChild => arg[t] # None
  /\ \A t \in Thread : pc[t] = "wait" => pcb[t] = t /\ arg[t] \in childrenOf[t]
  /\ \A t, u, c \in Thread : Holds(t, c) /\ Holds(u, c) => t = u
  /\ \A t, c \in Thread : Holds(t, c) =>
       /\ c # Root
       /\ pc[t] = "load_done" /\ load[c] = "pending" => pc[c] = "start_process"
       /\ pc[t] = "load_done" /\ load[c] = "ok" => stateOf[c] # "none"
       /\ pc[t] \in {"dead", "reap"} => load[c] = "ok" /\ stateOf[c] # "none"
  /\ \A c \in Thread : pc[c] = "start_process" =>
        \E t \in Thread : pc[t] = "load_done" /\ arg[t] = c

\* Nobody waits for the end of a process before it comes, and its status is
\* returned once.
StatusInv ==
  /\ refOf[Root] = 0
  /\ \A c \in Thread :
       /\ stateOf[c] = "none" => ~ liveOf[c] /\ returned[c] = <<>> /\ codeOf[c] = -1
       /\ stateOf[c] # "none" /\ c # Root => load[c] = "ok"
       /\ ~ (stateOf[c] = "freed" \/ pc[c] \in {"release", "free"}) => deadOf[c] = 0
       /\ deadOf[c] \in 0 .. 1
       /\ pc[c] \in Working \/ pc[c] \in {"exit_main", "main_joining", "main_join"} => codeOf[c] = -1
  /\ \A p, c \in Thread : c \in childrenOf[p] => returned[c] = <<>>
  /\ \A t, c \in Thread : pc[t] \in {"load_done", "dead"} /\ arg[t] = c => returned[c] = <<>>

\* The holders of a wait_status.
Parent(c) ==
  \/ \E p \in Thread : c \in childrenOf[p]
  \/ \E t \in Thread : Holds(t, c) /\ ~ (pc[t] = "load_done" /\ load[c] = "failed")
Self(c) == Live(c) /\ pc[c] # "free"
Holders(c) == (IF Parent(c) THEN 1 ELSE 0) + (IF Self(c) THEN 1 ELSE 0)

\* The reference count of a wait_status, and who frees it.
RefInv ==
  /\ \A t \in Thread : freeing[t] # Root
  /\ \A c \in Thread : c # Root =>
       /\ liveOf[c] => /\ refOf[c] = Holders(c)
                       /\ (\E t \in Thread : freeing[t] = c) <=> refOf[c] = 0
       /\ ~ liveOf[c] => /\ refOf[c] \in 0 .. 2
                         /\ \A t \in Thread : freeing[t] # c
                         /\ Holders(c) = 0 \/ pc[c] = "start_process"
       /\ \A t, u \in Thread : freeing[t] = c /\ freeing[u] = c => t = u

ProcessInv ==
  /\ RecordInv /\ FieldInv /\ ShapeInv /\ TreeInv /\ CreateInv /\ MembersInv /\ JoinInv /\ JoinerInv
  /\ LoopInv /\ PassedInv /\ LateInv /\ FamilyInv /\ StatusInv /\ RefInv /\ wild \in BOOLEAN

\* What every step keeps: threads that have ended stay so, a thread in pthread_join
\* stays there until join is raised, and keeps its process while that lives.
Flow ==
  /\ \A x \in Thread :
       /\ pc[x] \notin Early /\ pc[x] \notin Working => pc'[x] \notin Early /\ pc'[x] \notin Working
       /\ pc[x] \in {"dying", "gone"} => pc'[x] \in {"dying", "gone"}
       /\ pc[x] \in Joining => (pc'[x] = pc[x] /\ arg'[x] = arg[x]) \/ joinOf[arg[x]] > 0
       /\ pcb[x] \in Thread /\ pc[x] # "free" => pcb'[x] = pcb[x]
       /\ pcb'[x] \in Thread => \/ pcb'[x] = pcb[x]
                                \/ pc[x] = "start_process" /\ pcb'[x] = x
                                \/ pc[x] = "start_pthread" /\ pcb'[x] = arg[x]
       /\ pc[x] = "join" /\ joinOf[x] = 0 => joinOf'[x] = 0
       /\ pc'[x] \in Working => pc[x] \in Working \/ (pc[x] \in Early /\ joinedOf'[x] = joinedOf[x])
       /\ pc'[x] \in Late => pc[x] \in Late \/ (pc[x] = "exit" /\ at[x] > Len(listOf[x]))
       /\ pc'[x] = "start_process" => pc[x] \in {"none", "start_process"}
  /\ \A p \in Thread :
       stateOf'[p] = stateOf[p] \/ (pc[p] = "start_process" /\ stateOf'[p] = "live")
                                \/ (pc[p] = "free" /\ stateOf'[p] = "freed")
  /\ \A n \in Thread : pc'[n] = "start_pthread" =>
       \/ pc[n] = "start_pthread" /\ arg'[n] = arg[n]
       \/ \E t \in Thread : pc[t] = "user" /\ arg'[n] = pcb[t]
  /\ \A x \in Thread : joinedOf'[x] /\ ~ joinedOf[x] /\ pc'[x] \in Working =>
       \E y \in Thread : pc'[y] \in Joining /\ arg'[y] = x /\ pcb'[y] = pcb'[x]

\* A step that leaves the holders of every wait_status as they are.
SameHolders ==
  /\ UNCHANGED <<refOf, liveOf, freeing>>
  /\ \A c \in Thread : c # Root =>
       \/ /\ Parent(c)' <=> Parent(c)
          /\ Self(c)' <=> Self(c)
          /\ pc[c] = "start_process" => pc'[c] = "start_process"
       \/ ~ liveOf[c] /\ (pc'[c] = "start_process" \/ (~ Parent(c)' /\ ~ Self(c)'))

\* What a step does to the loop of process_exit: it passes a thread that is woken,
\* gone, or joined by somebody else.
Passes(p, x) ==
  \/ joinOf[x] > 0 \/ pc[x] = "gone"
  \/ pc[p] = "exit" /\ (x \notin joinsOf[p] \/ joinedOf[x])
LoopFlow ==
  \A p \in Thread : pc'[p] \in {"exit", "exit_joining", "exit_join"} =>
    /\ listOf'[p] = listOf[p] \/ \E n \in Thread : listOf'[p] = Append(listOf[p], n)
    /\ \/ at'[p] = 1
       \/ /\ pc[p] \in {"exit", "exit_joining", "exit_join"}
          /\ \/ at'[p] = at[p]
             \/ at'[p] = at[p] + 1 /\ \E x \in Thread : Reaches(p, x) /\ Passes(p, x)

-----------------------------------------------------------------------------
(* Each part of the invariant, step by step.                               *)

\* What every step does to the threads' processes.
LEMMA TreeKept ==
  ASSUME TreeInv, CreateInv, NEW t \in Thread, Step(t)
  PROVE  TreeInv'
<1> USE Basics DEF Becomes, Acts, SameRecords, SameProcesses, SameElems, SameStatuses, TreeInv,
        CreateInv, Early, Working, Leaving, Live
<1>1. CASE StartStep(t)
  BY <1>1 DEF StartStep
<1>2. CASE StartFailsStep(t)
  BY <1>2 DEF StartFailsStep
<1>3. ASSUME NEW p \in Thread, NEW c \in Thread, ExecuteStep(t, p, c)
      PROVE  TreeInv'
  BY <1>3 DEF ExecuteStep
<1>4. ASSUME NEW p \in Thread, NEW c \in Thread, ExecutedStep(t, p, c)
      PROVE  TreeInv'
  BY <1>4 DEF ExecutedStep
<1>5. ASSUME NEW p \in Thread, NEW c \in Thread, NotExecutedStep(t, p, c)
      PROVE  TreeInv'
  BY <1>5 DEF NotExecutedStep
<1>6. ASSUME NEW c \in Thread, FindStep(t, c)
      PROVE  TreeInv'
  BY <1>6 DEF FindStep
<1>7. ASSUME NEW p \in Thread, NEW c \in Thread, RemoveStep(t, p, c)
      PROVE  TreeInv'
  BY <1>7 DEF RemoveStep
<1>8. ASSUME NEW p \in Thread, NEW c \in Thread, ChildDeadStep(t, p, c)
      PROVE  TreeInv'
  BY <1>8 DEF ChildDeadStep
<1>9. ASSUME NEW p \in Thread, NEW c \in Thread, ReapStep(t, p, c)
      PROVE  TreeInv'
  BY <1>9 DEF ReapStep, Releases
<1>10. ASSUME NEW p \in Thread, NEW c \in Thread, ExecuteThreadStep(t, p, c)
      PROVE  TreeInv'
  BY <1>10 DEF ExecuteThreadStep
<1>11. ASSUME NEW p \in Thread, NEW c \in Thread, ExecutedThreadStep(t, p, c)
      PROVE  TreeInv'
  BY <1>11 DEF ExecutedThreadStep
<1>12. ASSUME NEW p \in Thread, NEW c \in Thread, JoinStep(t, p, c)
      PROVE  TreeInv'
  BY <1>12 DEF JoinStep, Tests
<1>13. ASSUME NEW p \in Thread, NEW c \in Thread, BeginStep(t, p, c)
      PROVE  TreeInv'
  BY <1>13 DEF BeginStep, Begins
<1>14. ASSUME NEW p \in Thread, NEW c \in Thread, JoinedStep(t, p, c)
      PROVE  TreeInv'
  BY <1>14 DEF JoinedStep, Joined
<1>15. ASSUME NEW p \in Thread, StartThreadStep(t, p)
      PROVE  TreeInv'
  BY <1>15 DEF StartThreadStep
<1>16. ASSUME NEW p \in Thread, LinkStep(t, p)
      PROVE  TreeInv'
  BY <1>16 DEF LinkStep
<1>17. ASSUME NEW p \in Thread, SetupStep(t, p)
      PROVE  TreeInv'
  BY <1>17 DEF SetupStep
<1>18. ASSUME NEW p \in Thread, SetupFailsStep(t, p)
      PROVE  TreeInv'
  BY <1>18 DEF SetupFailsStep
<1>19. ASSUME NEW p \in Thread, ThreadExitStep(t, p)
      PROVE  TreeInv'
  BY <1>19 DEF ThreadExitStep, Woken
<1>20. ASSUME NEW p \in Thread, GoneStep(t, p)
      PROVE  TreeInv'
  BY <1>20 DEF GoneStep
<1>21. CASE MainExitStep(t)
  BY <1>21 DEF MainExitStep, Woken
<1>22. CASE ExitStep(t, "user")
  BY <1>22 DEF ExitStep, Woken
<1>23. CASE ExitStep(t, "exit_main")
  BY <1>23 DEF ExitStep, Woken
<1>24. ASSUME NEW c \in Thread, PassStep(t, c, "exit")
      PROVE  TreeInv'
  BY <1>24 DEF PassStep
<1>25. ASSUME NEW c \in Thread, PassStep(t, c, "exit_main")
      PROVE  TreeInv'
  BY <1>25 DEF PassStep
<1>26. ASSUME NEW c \in Thread, LoopJoinStep(t, c, "exit", "exit_joining")
      PROVE  TreeInv'
  BY <1>26 DEF LoopJoinStep, Tests, StandsFor
<1>27. ASSUME NEW c \in Thread, LoopBeginStep(t, c, "exit_joining", "exit_join")
      PROVE  TreeInv'
  BY <1>27 DEF LoopBeginStep, Begins, StandsFor
<1>28. ASSUME NEW c \in Thread, LoopJoinStep(t, c, "exit_main", "main_joining")
      PROVE  TreeInv'
  BY <1>28 DEF LoopJoinStep, Tests, StandsFor
<1>29. ASSUME NEW c \in Thread, LoopBeginStep(t, c, "main_joining", "main_join")
      PROVE  TreeInv'
  BY <1>29 DEF LoopBeginStep, Begins, StandsFor
<1>30. ASSUME NEW c \in Thread, LoopJoinedStep(t, c, "exit_join", "exit")
      PROVE  TreeInv'
  BY <1>30 DEF LoopJoinedStep, Joined, StandsFor
<1>31. ASSUME NEW c \in Thread, LoopJoinedStep(t, c, "main_join", "exit_main")
      PROVE  TreeInv'
  BY <1>31 DEF LoopJoinedStep, Joined, StandsFor
<1>32. ASSUME NEW c \in Thread, OrphanStep(t, c)
      PROVE  TreeInv'
  BY <1>32 DEF OrphanStep, Releases
<1>33. ASSUME NEW c \in Thread, FreeStatusStep(t, c)
      PROVE  TreeInv'
  BY <1>33 DEF FreeStatusStep
<1>34. CASE TablesStep(t)
  BY <1>34 DEF TablesStep
<1>35. CASE ChildlessStep(t)
  BY <1>35 DEF ChildlessStep
<1>36. CASE WakeStep(t)
  BY <1>36 DEF WakeStep
<1>37. CASE OwnStep(t)
  BY <1>37 DEF OwnStep, Releases
<1>38. CASE FreeStep(t)
  BY <1>38 DEF FreeStep
<1>39. CASE IdleStep
  BY <1>39 DEF IdleStep
<1> HIDE DEF Becomes, Acts, SameRecords, SameProcesses, SameElems, SameStatuses, TreeInv,
        CreateInv, Early, Working, Leaving, Live
<1> QED BY <1>1, <1>2, <1>3, <1>4, <1>5, <1>6, <1>7, <1>8, <1>9, <1>10, <1>11, <1>12,
           <1>13, <1>14, <1>15, <1>16, <1>17, <1>18, <1>19, <1>20, <1>21, <1>22, <1>23,
           <1>24, <1>25, <1>26, <1>27, <1>28, <1>29, <1>30, <1>31, <1>32, <1>33, <1>34,
           <1>35, <1>36, <1>37, <1>38, <1>39 DEF Step

\* pthread_execute waits for start_pthread.
LEMMA CreateKept ==
  ASSUME CreateInv, TreeInv, LateInv, NEW t \in Thread, Step(t)
  PROVE  CreateInv'
<1> USE Basics DEF Becomes, Acts, SameRecords, SameProcesses, SameElems, SameStatuses,
        CreateInv, TreeInv, LateInv, Late, Finished, Early, Working, Leaving, Live
<1>1. CASE StartStep(t)
  BY <1>1 DEF StartStep
<1>2. CASE StartFailsStep(t)
  BY <1>2 DEF StartFailsStep
<1>3. ASSUME NEW p \in Thread, NEW c \in Thread, ExecuteStep(t, p, c)
      PROVE  CreateInv'
  BY <1>3 DEF ExecuteStep
<1>4. ASSUME NEW p \in Thread, NEW c \in Thread, ExecutedStep(t, p, c)
      PROVE  CreateInv'
  BY <1>4 DEF ExecutedStep
<1>5. ASSUME NEW p \in Thread, NEW c \in Thread, NotExecutedStep(t, p, c)
      PROVE  CreateInv'
  BY <1>5 DEF NotExecutedStep
<1>6. ASSUME NEW c \in Thread, FindStep(t, c)
      PROVE  CreateInv'
  BY <1>6 DEF FindStep
<1>7. ASSUME NEW p \in Thread, NEW c \in Thread, RemoveStep(t, p, c)
      PROVE  CreateInv'
  BY <1>7 DEF RemoveStep
<1>8. ASSUME NEW p \in Thread, NEW c \in Thread, ChildDeadStep(t, p, c)
      PROVE  CreateInv'
  BY <1>8 DEF ChildDeadStep
<1>9. ASSUME NEW p \in Thread, NEW c \in Thread, ReapStep(t, p, c)
      PROVE  CreateInv'
  BY <1>9 DEF ReapStep, Releases
<1>10. ASSUME NEW p \in Thread, NEW c \in Thread, ExecuteThreadStep(t, p, c)
      PROVE  CreateInv'
  BY <1>10 DEF ExecuteThreadStep
<1>11. ASSUME NEW p \in Thread, NEW c \in Thread, ExecutedThreadStep(t, p, c)
      PROVE  CreateInv'
  BY <1>11 DEF ExecutedThreadStep
<1>12. ASSUME NEW p \in Thread, NEW c \in Thread, JoinStep(t, p, c)
      PROVE  CreateInv'
  BY <1>12 DEF JoinStep, Tests
<1>13. ASSUME NEW p \in Thread, NEW c \in Thread, BeginStep(t, p, c)
      PROVE  CreateInv'
  BY <1>13 DEF BeginStep, Begins
<1>14. ASSUME NEW p \in Thread, NEW c \in Thread, JoinedStep(t, p, c)
      PROVE  CreateInv'
  BY <1>14 DEF JoinedStep, Joined
<1>15. ASSUME NEW p \in Thread, StartThreadStep(t, p)
      PROVE  CreateInv'
  BY <1>15 DEF StartThreadStep
<1>16. ASSUME NEW p \in Thread, LinkStep(t, p)
      PROVE  CreateInv'
  BY <1>16 DEF LinkStep
<1>17. ASSUME NEW p \in Thread, SetupStep(t, p)
      PROVE  CreateInv'
  BY <1>17 DEF SetupStep
<1>18. ASSUME NEW p \in Thread, SetupFailsStep(t, p)
      PROVE  CreateInv'
  BY <1>18 DEF SetupFailsStep
<1>19. ASSUME NEW p \in Thread, ThreadExitStep(t, p)
      PROVE  CreateInv'
  BY <1>19 DEF ThreadExitStep, Woken
<1>20. ASSUME NEW p \in Thread, GoneStep(t, p)
      PROVE  CreateInv'
  BY <1>20 DEF GoneStep
<1>21. CASE MainExitStep(t)
  BY <1>21 DEF MainExitStep, Woken
<1>22. CASE ExitStep(t, "user")
  BY <1>22 DEF ExitStep, Woken
<1>23. CASE ExitStep(t, "exit_main")
  BY <1>23 DEF ExitStep, Woken
<1>24. ASSUME NEW c \in Thread, PassStep(t, c, "exit")
      PROVE  CreateInv'
  BY <1>24 DEF PassStep
<1>25. ASSUME NEW c \in Thread, PassStep(t, c, "exit_main")
      PROVE  CreateInv'
  BY <1>25 DEF PassStep
<1>26. ASSUME NEW c \in Thread, LoopJoinStep(t, c, "exit", "exit_joining")
      PROVE  CreateInv'
  BY <1>26 DEF LoopJoinStep, Tests, StandsFor
<1>27. ASSUME NEW c \in Thread, LoopBeginStep(t, c, "exit_joining", "exit_join")
      PROVE  CreateInv'
  BY <1>27 DEF LoopBeginStep, Begins, StandsFor
<1>28. ASSUME NEW c \in Thread, LoopJoinStep(t, c, "exit_main", "main_joining")
      PROVE  CreateInv'
  BY <1>28 DEF LoopJoinStep, Tests, StandsFor
<1>29. ASSUME NEW c \in Thread, LoopBeginStep(t, c, "main_joining", "main_join")
      PROVE  CreateInv'
  BY <1>29 DEF LoopBeginStep, Begins, StandsFor
<1>30. ASSUME NEW c \in Thread, LoopJoinedStep(t, c, "exit_join", "exit")
      PROVE  CreateInv'
  BY <1>30 DEF LoopJoinedStep, Joined, StandsFor
<1>31. ASSUME NEW c \in Thread, LoopJoinedStep(t, c, "main_join", "exit_main")
      PROVE  CreateInv'
  BY <1>31 DEF LoopJoinedStep, Joined, StandsFor
<1>32. ASSUME NEW c \in Thread, OrphanStep(t, c)
      PROVE  CreateInv'
  BY <1>32 DEF OrphanStep, Releases
<1>33. ASSUME NEW c \in Thread, FreeStatusStep(t, c)
      PROVE  CreateInv'
  BY <1>33 DEF FreeStatusStep
<1>34. CASE TablesStep(t)
  BY <1>34 DEF TablesStep
<1>35. CASE ChildlessStep(t)
  BY <1>35 DEF ChildlessStep
<1>36. CASE WakeStep(t)
  BY <1>36 DEF WakeStep
<1>37. CASE OwnStep(t)
  BY <1>37 DEF OwnStep, Releases
<1>38. CASE FreeStep(t)
  BY <1>38 DEF FreeStep
<1>39. CASE IdleStep
  BY <1>39 DEF IdleStep
<1> HIDE DEF Becomes, Acts, SameRecords, SameProcesses, SameElems, SameStatuses, CreateInv,
        TreeInv, LateInv, Late, Finished, Early, Working, Leaving, Live
<1> QED BY <1>1, <1>2, <1>3, <1>4, <1>5, <1>6, <1>7, <1>8, <1>9, <1>10, <1>11, <1>12,
           <1>13, <1>14, <1>15, <1>16, <1>17, <1>18, <1>19, <1>20, <1>21, <1>22, <1>23,
           <1>24, <1>25, <1>26, <1>27, <1>28, <1>29, <1>30, <1>31, <1>32, <1>33, <1>34,
           <1>35, <1>36, <1>37, <1>38, <1>39 DEF Step

\* The elements of a list that has one, none, or one more.
LEMMA ListElements ==
  /\ \A x \in Thread : Elements(<<x>>) = {x} /\ Distinct(<<x>>)
  /\ Elements(<<>>) = {} /\ Distinct(<<>>)
  /\ \A s \in Seq(Thread), x \in Thread :
       /\ Elements(Append(s, x)) = Elements(s) \cup {x}
       /\ Distinct(s) /\ x \notin Elements(s) => Distinct(Append(s, x))
<1>1. ASSUME NEW x \in Thread
      PROVE  Elements(<<x>>) = {x} /\ Distinct(<<x>>)
  BY <1>1 DEF Elements, Distinct
<1>2. Elements(<<>>) = {} /\ Distinct(<<>>)
  BY DEF Elements, Distinct
<1>3. ASSUME NEW s \in Seq(Thread), NEW x \in Thread
      PROVE  /\ Elements(Append(s, x)) = Elements(s) \cup {x}
             /\ Distinct(s) /\ x \notin Elements(s) => Distinct(Append(s, x))
  <2>1. /\ Len(Append(s, x)) = Len(s) + 1 /\ Len(s) \in Nat
        /\ \A i \in 1 .. Len(s) : Append(s, x)[i] = s[i]
        /\ Append(s, x)[Len(s) + 1] = x
    BY <1>3, AppendProperties
  <2>2. 1 .. Len(Append(s, x)) = (1 .. Len(s)) \cup {Len(s) + 1}
    BY <2>1
  <2> QED BY <2>1, <2>2 DEF Elements, Distinct
<1> QED BY <1>1, <1>2, <1>3

\* start_process: a process of one thread.
LEMMA StartMembers ==
  ASSUME MembersInv, TreeInv, FieldInv, NEW t \in Thread, StartStep(t)
  PROVE  MembersInv'
<1>1. \A z \in Thread : pcb[z] # t
  BY DEF TreeInv, StartStep, Live, Early, Working, Leaving
<1>2. /\ \A z \in Thread : pcb'[z] = t <=> z = t
      /\ \A z, p \in Thread : p # t => (pcb'[z] = p <=> pcb[z] = p)
      /\ \A z \in Thread : pc'[z] = "link" <=> pc[z] = "link"
  BY <1>1, Basics DEF StartStep, Becomes, TreeInv, Early
<1>3. ASSUME NEW p \in Thread
      PROVE  /\ Distinct(listOf'[p])
             /\ \A z \in Thread : Live(p)' /\ p # Root =>
                  (z \in Elements(listOf'[p]) <=> pcb'[z] = p /\ pc'[z] # "link")
  <2>1. CASE p = t
    <3>1. Elements(listOf'[t]) = {t} /\ Distinct(listOf'[t]) /\ pc'[t] # "link"
      BY ListElements DEF StartStep, Becomes
    <3> QED BY <1>2, <2>1, <3>1
  <2>2. CASE p # t
    BY <1>1, <1>2, <2>2 DEF StartStep, Becomes, Live, MembersInv
  <2> QED BY <2>1, <2>2
<1> QED BY <1>3 DEF MembersInv

\* The second insertion of start_pthread: one more.
LEMMA LinkMembers ==
  ASSUME MembersInv, TreeInv, FieldInv, NEW t \in Thread, NEW q \in Thread, LinkStep(t, q)
  PROVE  MembersInv'
<1>1. pcb[t] = q /\ Live(q) /\ pc[t] = "link" /\ q # Root
  <2>1. pcb[t] = q /\ Live(q) /\ pc[t] = "link"
    BY DEF LinkStep, Acts
  <2>2. q = Root => pcb[Root] = Root /\ pc[Root] # "link" /\ t = Root
    BY <2>1, Basics DEF TreeInv
  <2> QED BY <2>1, <2>2
<1>2. listOf[q] \in Seq(Thread) /\ t \notin Elements(listOf[q])
  BY <1>1 DEF FieldInv, MembersInv
<1>3. ASSUME NEW p \in Thread
      PROVE  /\ Distinct(listOf'[p])
             /\ \A z \in Thread : Live(p)' /\ p # Root =>
                  (z \in Elements(listOf'[p]) <=> pcb'[z] = p /\ pc'[z] # "link")
  <2>1. CASE p = q
    <3>1. Elements(listOf'[q]) = Elements(listOf[q]) \cup {t} /\ Distinct(listOf'[q])
      BY <1>2, ListElements DEF LinkStep, Becomes, MembersInv
    <3>2. \A z \in Thread : pcb'[z] = q /\ pc'[z] # "link" <=>
                             (pcb[z] = q /\ pc[z] # "link") \/ z = t
      BY <1>1 DEF LinkStep, Becomes
    <3>3. \A z \in Thread : z \in Elements(listOf[q]) <=> pcb[z] = q /\ pc[z] # "link"
      BY <1>1 DEF MembersInv
    <3> QED BY <2>1, <3>1, <3>2, <3>3
  <2>2. CASE p # q
    <3>1. listOf'[p] = listOf[p] /\ (Live(p)' <=> Live(p))
      BY <2>2 DEF LinkStep, Becomes, Live
    <3>2. \A z \in Thread : pcb'[z] = p /\ pc'[z] # "link" <=> pcb[z] = p /\ pc[z] # "link"
      BY <1>1, <2>2 DEF LinkStep, Becomes
    <3> QED BY <3>1, <3>2 DEF MembersInv
  <2> QED BY <2>1, <2>2
<1> QED BY <1>3 DEF MembersInv

\* The pcb is freed, and its list with it.
LEMMA FreeMembers ==
  ASSUME MembersInv, TreeInv, NEW t \in Thread, FreeStep(t)
  PROVE  MembersInv'
<1>3. ASSUME NEW p \in Thread
      PROVE  /\ Distinct(listOf'[p])
             /\ \A z \in Thread : Live(p)' /\ p # Root =>
                  (z \in Elements(listOf'[p]) <=> pcb'[z] = p /\ pc'[z] # "link")
  <2>1. CASE p = t
    <3>1. Distinct(listOf'[t])
      BY ListElements DEF FreeStep, Becomes
    <3> QED BY <2>1, <3>1 DEF FreeStep, Becomes, Live
  <2>2. CASE p # t
    BY <2>2, Basics DEF FreeStep, Becomes, Live, MembersInv, Acts
  <2> QED BY <2>1, <2>2
<1> QED BY <1>3 DEF MembersInv

\* Every step keeps thread_list in step with the threads of a process.
LEMMA MembersKept ==
  ASSUME MembersInv, TreeInv, CreateInv, FieldInv, NEW t \in Thread, Step(t)
  PROVE  MembersInv'
<1>1. CASE StartStep(t)
  BY <1>1, StartMembers
<1>2. ASSUME NEW p \in Thread, LinkStep(t, p)
      PROVE  MembersInv'
  BY <1>2, LinkMembers
<1>3. CASE FreeStep(t)
  BY <1>3, FreeMembers
<1> USE Basics DEF Becomes, Acts, SameRecords, SameProcesses, SameElems, SameStatuses,
        MembersInv, TreeInv, CreateInv, Early, Working, Leaving, Live
<1>4. CASE StartFailsStep(t)
  BY <1>4 DEF StartFailsStep
<1>5. ASSUME NEW p \in Thread, NEW c \in Thread, ExecuteStep(t, p, c)
      PROVE  MembersInv'
  BY <1>5 DEF ExecuteStep
<1>6. ASSUME NEW p \in Thread, NEW c \in Thread, ExecutedStep(t, p, c)
      PROVE  MembersInv'
  BY <1>6 DEF ExecutedStep
<1>7. ASSUME NEW p \in Thread, NEW c \in Thread, NotExecutedStep(t, p, c)
      PROVE  MembersInv'
  BY <1>7 DEF NotExecutedStep
<1>8. ASSUME NEW c \in Thread, FindStep(t, c)
      PROVE  MembersInv'
  BY <1>8 DEF FindStep
<1>9. ASSUME NEW p \in Thread, NEW c \in Thread, RemoveStep(t, p, c)
      PROVE  MembersInv'
  BY <1>9 DEF RemoveStep
<1>10. ASSUME NEW p \in Thread, NEW c \in Thread, ChildDeadStep(t, p, c)
      PROVE  MembersInv'
  BY <1>10 DEF ChildDeadStep
<1>11. ASSUME NEW p \in Thread, NEW c \in Thread, ReapStep(t, p, c)
      PROVE  MembersInv'
  BY <1>11 DEF ReapStep, Releases
<1>12. ASSUME NEW p \in Thread, NEW c \in Thread, ExecuteThreadStep(t, p, c)
      PROVE  MembersInv'
  BY <1>12 DEF ExecuteThreadStep
<1>13. ASSUME NEW p \in Thread, NEW c \in Thread, ExecutedThreadStep(t, p, c)
      PROVE  MembersInv'
  BY <1>13 DEF ExecutedThreadStep
<1>14. ASSUME NEW p \in Thread, NEW c \in Thread, JoinStep(t, p, c)
      PROVE  MembersInv'
  BY <1>14 DEF JoinStep, Tests
<1>15. ASSUME NEW p \in Thread, NEW c \in Thread, BeginStep(t, p, c)
      PROVE  MembersInv'
  BY <1>15 DEF BeginStep, Begins
<1>16. ASSUME NEW p \in Thread, NEW c \in Thread, JoinedStep(t, p, c)
      PROVE  MembersInv'
  BY <1>16 DEF JoinedStep, Joined
<1>17. ASSUME NEW p \in Thread, SetupStep(t, p)
      PROVE  MembersInv'
  BY <1>17 DEF SetupStep
<1>18. ASSUME NEW p \in Thread, SetupFailsStep(t, p)
      PROVE  MembersInv'
  BY <1>18 DEF SetupFailsStep
<1>19. ASSUME NEW p \in Thread, ThreadExitStep(t, p)
      PROVE  MembersInv'
  BY <1>19 DEF ThreadExitStep, Woken
<1>20. ASSUME NEW p \in Thread, GoneStep(t, p)
      PROVE  MembersInv'
  BY <1>20 DEF GoneStep
<1>21. CASE MainExitStep(t)
  BY <1>21 DEF MainExitStep, Woken
<1>22. CASE ExitStep(t, "user")
  BY <1>22 DEF ExitStep, Woken
<1>23. CASE ExitStep(t, "exit_main")
  BY <1>23 DEF ExitStep, Woken
<1>24. ASSUME NEW c \in Thread, PassStep(t, c, "exit")
      PROVE  MembersInv'
  BY <1>24 DEF PassStep
<1>25. ASSUME NEW c \in Thread, PassStep(t, c, "exit_main")
      PROVE  MembersInv'
  BY <1>25 DEF PassStep
<1>26. ASSUME NEW c \in Thread, LoopJoinStep(t, c, "exit", "exit_joining")
      PROVE  MembersInv'
  BY <1>26 DEF LoopJoinStep, Tests, StandsFor
<1>27. ASSUME NEW c \in Thread, LoopBeginStep(t, c, "exit_joining", "exit_join")
      PROVE  MembersInv'
  BY <1>27 DEF LoopBeginStep, Begins, StandsFor
<1>28. ASSUME NEW c \in Thread, LoopJoinStep(t, c, "exit_main", "main_joining")
      PROVE  MembersInv'
  BY <1>28 DEF LoopJoinStep, Tests, StandsFor
<1>29. ASSUME NEW c \in Thread, LoopBeginStep(t, c, "main_joining", "main_join")
      PROVE  MembersInv'
  BY <1>29 DEF LoopBeginStep, Begins, StandsFor
<1>30. ASSUME NEW c \in Thread, LoopJoinedStep(t, c, "exit_join", "exit")
      PROVE  MembersInv'
  BY <1>30 DEF LoopJoinedStep, Joined, StandsFor
<1>31. ASSUME NEW c \in Thread, LoopJoinedStep(t, c, "main_join", "exit_main")
      PROVE  MembersInv'
  BY <1>31 DEF LoopJoinedStep, Joined, StandsFor
<1>32. ASSUME NEW c \in Thread, OrphanStep(t, c)
      PROVE  MembersInv'
  BY <1>32 DEF OrphanStep, Releases
<1>33. ASSUME NEW c \in Thread, FreeStatusStep(t, c)
      PROVE  MembersInv'
  BY <1>33 DEF FreeStatusStep
<1>34. CASE TablesStep(t)
  BY <1>34 DEF TablesStep
<1>35. CASE ChildlessStep(t)
  BY <1>35 DEF ChildlessStep
<1>36. CASE WakeStep(t)
  BY <1>36 DEF WakeStep
<1>37. CASE OwnStep(t)
  BY <1>37 DEF OwnStep, Releases
<1>38. CASE IdleStep
  BY <1>38 DEF IdleStep
<1>39. ASSUME NEW p \in Thread, StartThreadStep(t, p)
      PROVE  MembersInv'
  BY <1>39 DEF StartThreadStep
<1> HIDE DEF Becomes, Acts, SameRecords, SameProcesses, SameElems, SameStatuses, MembersInv,
        TreeInv, CreateInv, Early, Working, Leaving, Live
<1> QED BY <1>1, <1>2, <1>3, <1>4, <1>5, <1>6, <1>7, <1>8, <1>9, <1>10, <1>11, <1>12,
           <1>13, <1>14, <1>15, <1>16, <1>17, <1>18, <1>19, <1>20, <1>21, <1>22, <1>23,
           <1>24, <1>25, <1>26, <1>27, <1>28, <1>29, <1>30, <1>31, <1>32, <1>33, <1>34,
           <1>35, <1>36, <1>37, <1>38, <1>39 DEF Step

\* A thread that starts can be joined.
LEMMA StartThreadJoin ==
  ASSUME JoinInv, TreeInv, CreateInv, NEW t \in Thread, NEW p \in Thread, StartThreadStep(t, p)
  PROVE  JoinInv'
<1>1. /\ pc[t] = "start_pthread" /\ pcb[t] = None /\ joinOf[t] = 0 /\ ~ joinedOf[t]
      /\ UNCHANGED <<joinOf, joinedOf, stateOf>>
      /\ Becomes(pc, pc', t, "link") /\ Becomes(pcb, pcb', t, p) /\ Becomes(arg, arg', t, None)
  BY DEF StartThreadStep, SameElems, TreeInv, JoinInv, Early
<1>2. \A q, x \in Thread : x \in joinsOf'[q] <=> x \in joinsOf[q] \/ (q = p /\ x = t)
  BY DEF StartThreadStep, Becomes
<1>3. \A x, q \in Thread : pcb'[x] = q <=> pcb[x] = q \/ (x = t /\ q = p)
  BY <1>1, Basics DEF Becomes
<1>4. \A y \in Thread : pc'[y] \in Joining \/ pc'[y] \in Testing =>
                         y # t /\ pc'[y] = pc[y] /\ arg'[y] = arg[y]
  BY <1>1 DEF Becomes, Joining, Testing
<1>5. \A q, x \in Thread : x \in joinsOf'[q] => pcb'[x] = q
  BY <1>2, <1>3 DEF JoinInv
<1>6. \A x \in Thread :
       /\ pc'[x] \in Early \/ pc'[x] \in Working => joinOf'[x] = 0
       /\ pc'[x] \in {"exit_main", "main_joining", "main_join", "dying"} => joinOf'[x] <= 1
       /\ joinOf'[x] \in 0 .. 2
       /\ pc'[x] \in Early => ~ joinedOf'[x]
       /\ pc'[x] \in Joining \/ pc'[x] \in Testing => arg'[x] # None
  BY <1>1, <1>4 DEF JoinInv, Becomes, Early, Working
<1>7. \A x, q \in Thread : pc'[x] \in Working /\ x # Root /\ pcb'[x] = q /\ Live(q)' => x \in joinsOf'[q]
  BY <1>1, <1>2, <1>3 DEF JoinInv, Becomes, Live
<1>8. \A y, x, q \in Thread :
        (pc'[y] \in Joining \/ pc'[y] \in Testing) /\ arg'[y] = x /\ pcb'[y] = q /\ Live(q)'
          => pcb'[x] = q
  BY <1>1, <1>3, <1>4 DEF JoinInv, Live
<1>9. \A y, x \in Thread : pc'[y] \in Joining /\ arg'[y] = x => joinedOf'[x]
  BY <1>1, <1>4 DEF JoinInv
<1> QED BY <1>5, <1>6, <1>7, <1>8, <1>9 DEF JoinInv

\* The loop of process_exit, or of pthread_exit_main, goes on after a join.
LEMMA LoopJoinedJoin ==
  ASSUME JoinInv, TreeInv, NEW t \in Thread, NEW c \in Thread,
         NEW from \in {"exit_join", "main_join"}, NEW to \in {"exit", "exit_main"},
         to = "exit_main" <=> from = "main_join", LoopJoinedStep(t, c, from, to)
  PROVE  JoinInv'
<1>1. /\ pc[t] = from /\ pcb[t] = t /\ arg[t] = c /\ joinOf[c] > 0
      /\ UNCHANGED <<pcb, stateOf, joinedOf>>
      /\ Becomes(pc, pc', t, to) /\ Becomes(arg, arg', t, None)
      /\ Becomes(joinOf, joinOf', c, joinOf[c] - 1)
      /\ Becomes(joinsOf, joinsOf', t, joinsOf[t] \ {c})
  BY DEF LoopJoinedStep, Joined, Acts
<1>2. \A q, x \in Thread : x \in joinsOf'[q] <=> x \in joinsOf[q] /\ ~ (q = t /\ x = c)
  BY <1>1 DEF Becomes
<1>3. \A y \in Thread : pc'[y] \in Joining \/ pc'[y] \in Testing =>
                         y # t /\ pc'[y] = pc[y] /\ arg'[y] = arg[y]
  BY <1>1 DEF Becomes, Joining, Testing
<1>4. pc[c] \notin Early /\ pc[c] \notin Working
  BY <1>1 DEF JoinInv
<1>5. \A x \in Thread : pc'[x] \in Early \cup Working \cup {"exit_main", "main_joining", "main_join", "dying"} =>
                         pc[x] = pc'[x] \/ (x = t /\ to = "exit_main" /\ pc[x] = "main_join")
  BY <1>1 DEF Becomes, Early, Working
<1>6. \A x \in Thread : joinOf'[x] <= joinOf[x] /\ (x # c => joinOf'[x] = joinOf[x])
  BY <1>1 DEF Becomes, JoinInv
<1>7. \A q, x \in Thread : x \in joinsOf'[q] => pcb'[x] = q
  BY <1>1, <1>2 DEF JoinInv
<1>8. \A x \in Thread : /\ pc'[x] \in Early \/ pc'[x] \in Working => joinOf'[x] = 0
                        /\ joinOf'[x] \in 0 .. 2
                        /\ pc'[x] \in Early => ~ joinedOf'[x]
  BY <1>1, <1>4, <1>5, <1>6 DEF JoinInv, Becomes, Early, Working
<1>9. \A x \in Thread : pc'[x] \in {"exit_main", "main_joining", "main_join", "dying"} => joinOf'[x] <= 1
  BY <1>1, <1>5, <1>6 DEF JoinInv, Becomes
<1>10. /\ \A y, x \in Thread : pc'[y] \in Joining /\ arg'[y] = x => joinedOf'[x]
       /\ \A x \in Thread : pc'[x] \in Joining \/ pc'[x] \in Testing => arg'[x] # None
  BY <1>1, <1>3 DEF JoinInv
<1>11. \A y, x, q \in Thread :
         (pc'[y] \in Joining \/ pc'[y] \in Testing) /\ arg'[y] = x /\ pcb'[y] = q /\ Live(q)'
           => pcb'[x] = q
  BY <1>1, <1>3 DEF JoinInv, Live
<1>12. \A x, q \in Thread :
         pc'[x] \in Working /\ x # Root /\ pcb'[x] = q /\ Live(q)' => x \in joinsOf'[q]
  <2> SUFFICES ASSUME NEW x \in Thread, NEW q \in Thread,
                      pc'[x] \in Working, x # Root, pcb'[x] = q, Live(q)'
               PROVE  x \in joinsOf'[q]
    OBVIOUS
  <2>1. x # t /\ pc[x] \in Working /\ pcb[x] = q /\ Live(q)
    BY <1>1 DEF Becomes, Working, Live
  <2> QED BY <1>2, <1>4, <2>1 DEF JoinInv
<1>13. \A x \in Thread :
         /\ pc'[x] \in Early \/ pc'[x] \in Working => joinOf'[x] = 0
         /\ pc'[x] \in {"exit_main", "main_joining", "main_join", "dying"} => joinOf'[x] <= 1
         /\ joinOf'[x] \in 0 .. 2
         /\ pc'[x] \in Early => ~ joinedOf'[x]
         /\ pc'[x] \in Joining \/ pc'[x] \in Testing => arg'[x] # None
  <2> TAKE x \in Thread
  <2> QED BY <1>8, <1>9, <1>10
<1> QED BY <1>7, <1>10, <1>11, <1>12, <1>13 DEF JoinInv

\* start_process: a process of one thread, which nobody has joined.
LEMMA StartJoin ==
  ASSUME JoinInv, TreeInv, CreateInv, NEW t \in Thread, StartStep(t)
  PROVE  JoinInv'
<1>1. /\ pc[t] = "start_process" /\ pcb[t] = None /\ joinOf[t] = 0 /\ ~ joinedOf[t]
      /\ \A x \in Thread : pcb[x] # t
      /\ UNCHANGED <<arg, joinOf, joinedOf>>
      /\ Becomes(pc, pc', t, "user") /\ Becomes(pcb, pcb', t, t)
      /\ Becomes(joinsOf, joinsOf', t, {t}) /\ \A x \in Thread : x # t => stateOf'[x] = stateOf[x]
  <2>1. pc[t] = "start_process" /\ pc[t] \in Early
    BY DEF StartStep, Early
  <2>2. pcb[t] = None /\ stateOf[t] = "none"
    BY <2>1 DEF TreeInv
  <2>3. \A x \in Thread : pcb[x] # t
    BY <2>2 DEF TreeInv
  <2>4. joinOf[t] = 0 /\ ~ joinedOf[t]
    BY <2>1 DEF JoinInv
  <2>5. /\ UNCHANGED <<arg, joinOf, joinedOf>>
        /\ Becomes(pc, pc', t, "user") /\ Becomes(pcb, pcb', t, t)
        /\ Becomes(joinsOf, joinsOf', t, {t}) /\ \A x \in Thread : x # t => stateOf'[x] = stateOf[x]
    BY DEF StartStep, SameElems, Becomes
  <2> QED BY <2>1, <2>2, <2>3, <2>4, <2>5
<1>2. \A q, x \in Thread : x \in joinsOf'[q] <=> (x \in joinsOf[q] /\ q # t) \/ (q = t /\ x = t)
  BY <1>1 DEF Becomes
<1>3. \A y \in Thread : pc'[y] \in Joining \/ pc'[y] \in Testing => y # t /\ pc'[y] = pc[y]
  BY <1>1 DEF Becomes, Joining, Testing
<1>4. \A q, x \in Thread : x \in joinsOf'[q] => pcb'[x] = q
  BY <1>1, <1>2, Basics DEF JoinInv, Becomes
<1>5. \A x \in Thread :
        /\ pc'[x] \in Early \/ pc'[x] \in Working => joinOf'[x] = 0
        /\ pc'[x] \in {"exit_main", "main_joining", "main_join", "dying"} => joinOf'[x] <= 1
        /\ joinOf'[x] \in 0 .. 2
        /\ pc'[x] \in Early => ~ joinedOf'[x]
        /\ pc'[x] \in Joining \/ pc'[x] \in Testing => arg'[x] # None
  BY <1>1, <1>3 DEF JoinInv, Becomes, Early, Working
<1>6. \A y, x \in Thread : pc'[y] \in Joining /\ arg'[y] = x => joinedOf'[x]
  BY <1>1, <1>3 DEF JoinInv
<1>7. \A y, x, q \in Thread :
        (pc'[y] \in Joining \/ pc'[y] \in Testing) /\ arg'[y] = x /\ pcb'[y] = q /\ Live(q)'
          => pcb'[x] = q
  <2> SUFFICES ASSUME NEW y \in Thread, NEW x \in Thread, NEW q \in Thread,
                      pc'[y] \in Joining \/ pc'[y] \in Testing, arg'[y] = x, pcb'[y] = q, Live(q)'
               PROVE  pcb'[x] = q
    OBVIOUS
  <2>1. y # t /\ pc'[y] = pc[y] /\ arg[y] = x /\ pcb[y] = q /\ q # t /\ Live(q)
    BY <1>1, <1>3 DEF Becomes, Live
  <2>2. pcb[x] = q
    BY <2>1 DEF JoinInv
  <2> QED BY <1>1, <2>2, Basics DEF Becomes
<1>8. \A x, q \in Thread :
        pc'[x] \in Working /\ x # Root /\ pcb'[x] = q /\ Live(q)' => x \in joinsOf'[q]
  <2>1. \A x, q \in Thread : pc'[x] \in Working /\ pcb'[x] = q /\ Live(q)' =>
          (x = t /\ q = t) \/ (pc[x] \in Working /\ pcb[x] = q /\ q # t /\ Live(q))
    BY <1>1 DEF Becomes, Working, Live
  <2> QED BY <1>2, <2>1 DEF JoinInv
<1> QED BY <1>4, <1>5, <1>6, <1>7, <1>8 DEF JoinInv

\* sema_down of the semaphore dead joins nobody.
LEMMA ChildDeadJoin ==
  ASSUME JoinInv, NEW t \in Thread, NEW p \in Thread, NEW c \in Thread, ChildDeadStep(t, p, c)
  PROVE  JoinInv'
<1>1. /\ pc[t] = "dead" /\ Becomes(pc, pc', t, "reap")
      /\ UNCHANGED <<arg, pcb, stateOf, joinsOf, joinOf, joinedOf>>
  BY DEF ChildDeadStep, Acts, SameProcesses, SameElems
<1>2. \A x \in Thread : pc'[x] = pc[x] \/ (pc[x] = "dead" /\ pc'[x] = "reap")
  BY <1>1 DEF Becomes
<1>3. \A x \in Thread : /\ pc'[x] \in Joining => pc[x] \in Joining
                        /\ pc'[x] \in Testing => pc[x] \in Testing
                        /\ pc'[x] \in Working => pc[x] \in Working
                        /\ pc'[x] \in Early => pc[x] \in Early
  BY <1>2 DEF Joining, Testing, Working, Early
<1>4. \A x \in Thread : pc'[x] \in {"exit_main", "main_joining", "main_join", "dying"} =>
                           pc[x] \in {"exit_main", "main_joining", "main_join", "dying"}
  BY <1>2
<1>5. \A q \in Thread : Live(q)' <=> Live(q)
  BY <1>1 DEF Live
<1> QED BY <1>1, <1>3, <1>4, <1>5 DEF JoinInv

\* Every step keeps the semaphore join of a thread at 0 until the thread exits.
LEMMA JoinKept ==
  ASSUME JoinInv, TreeInv, CreateInv, LoopInv, NEW t \in Thread, Step(t)
  PROVE  JoinInv'
<1>1. ASSUME NEW p \in Thread, StartThreadStep(t, p)
      PROVE  JoinInv'
  BY <1>1, StartThreadJoin
<1>2. ASSUME NEW c \in Thread, LoopJoinedStep(t, c, "exit_join", "exit")
      PROVE  JoinInv'
  BY <1>2, LoopJoinedJoin
<1>3. ASSUME NEW c \in Thread, LoopJoinedStep(t, c, "main_join", "exit_main")
      PROVE  JoinInv'
  BY <1>3, LoopJoinedJoin
<1>4. CASE StartStep(t)
  BY <1>4, StartJoin
<1>5. ASSUME NEW p \in Thread, NEW c \in Thread, ChildDeadStep(t, p, c)
      PROVE  JoinInv'
  BY <1>5, ChildDeadJoin
<1> USE Basics DEF Becomes, Acts, SameRecords, SameProcesses, SameElems, SameStatuses, JoinInv,
        TreeInv, CreateInv, LoopInv, Joining, Testing, Early, Working, Leaving, Live
<1>6. CASE StartFailsStep(t)
  BY <1>6 DEF StartFailsStep
<1>7. ASSUME NEW p \in Thread, NEW c \in Thread, ExecuteStep(t, p, c)
      PROVE  JoinInv'
  BY <1>7 DEF ExecuteStep
<1>8. ASSUME NEW p \in Thread, NEW c \in Thread, ExecutedStep(t, p, c)
      PROVE  JoinInv'
  BY <1>8 DEF ExecutedStep
<1>9. ASSUME NEW p \in Thread, NEW c \in Thread, NotExecutedStep(t, p, c)
      PROVE  JoinInv'
  BY <1>9 DEF NotExecutedStep
<1>10. ASSUME NEW c \in Thread, FindStep(t, c)
      PROVE  JoinInv'
  BY <1>10 DEF FindStep
<1>11. ASSUME NEW p \in Thread, NEW c \in Thread, RemoveStep(t, p, c)
      PROVE  JoinInv'
  BY <1>11 DEF RemoveStep
<1>12. ASSUME NEW p \in Thread, NEW c \in Thread, ReapStep(t, p, c)
      PROVE  JoinInv'
  BY <1>12 DEF ReapStep, Releases
<1>13. ASSUME NEW p \in Thread, NEW c \in Thread, ExecuteThreadStep(t, p, c)
      PROVE  JoinInv'
  BY <1>13 DEF ExecuteThreadStep
<1>14. ASSUME NEW p \in Thread, NEW c \in Thread, ExecutedThreadStep(t, p, c)
      PROVE  JoinInv'
  BY <1>14 DEF ExecutedThreadStep
<1>15. ASSUME NEW p \in Thread, NEW c \in Thread, JoinStep(t, p, c)
      PROVE  JoinInv'
  BY <1>15 DEF JoinStep, Tests
<1>16. ASSUME NEW p \in Thread, NEW c \in Thread, BeginStep(t, p, c)
      PROVE  JoinInv'
  BY <1>16 DEF BeginStep, Begins
<1>17. ASSUME NEW p \in Thread, NEW c \in Thread, JoinedStep(t, p, c)
      PROVE  JoinInv'
  BY <1>17 DEF JoinedStep, Joined
<1>18. ASSUME NEW p \in Thread, SetupStep(t, p)
      PROVE  JoinInv'
  BY <1>18 DEF SetupStep
<1>19. ASSUME NEW p \in Thread, SetupFailsStep(t, p)
      PROVE  JoinInv'
  BY <1>19 DEF SetupFailsStep
<1>20. ASSUME NEW p \in Thread, ThreadExitStep(t, p)
      PROVE  JoinInv'
  BY <1>20 DEF ThreadExitStep, Woken
<1>21. ASSUME NEW p \in Thread, GoneStep(t, p)
      PROVE  JoinInv'
  BY <1>21 DEF GoneStep
<1>22. CASE MainExitStep(t)
  BY <1>22 DEF MainExitStep, Woken
<1>23. CASE ExitStep(t, "user")
  BY <1>23 DEF ExitStep, Woken
<1>24. CASE ExitStep(t, "exit_main")
  BY <1>24 DEF ExitStep, Woken
<1>25. ASSUME NEW c \in Thread, PassStep(t, c, "exit")
      PROVE  JoinInv'
  BY <1>25 DEF PassStep
<1>26. ASSUME NEW c \in Thread, PassStep(t, c, "exit_main")
      PROVE  JoinInv'
  BY <1>26 DEF PassStep
<1>27. ASSUME NEW c \in Thread, LoopJoinStep(t, c, "exit", "exit_joining")
      PROVE  JoinInv'
  BY <1>27 DEF LoopJoinStep, Tests, StandsFor
<1>28. ASSUME NEW c \in Thread, LoopBeginStep(t, c, "exit_joining", "exit_join")
      PROVE  JoinInv'
  BY <1>28 DEF LoopBeginStep, Begins, StandsFor
<1>29. ASSUME NEW c \in Thread, LoopJoinStep(t, c, "exit_main", "main_joining")
      PROVE  JoinInv'
  BY <1>29 DEF LoopJoinStep, Tests, StandsFor
<1>30. ASSUME NEW c \in Thread, LoopBeginStep(t, c, "main_joining", "main_join")
      PROVE  JoinInv'
  BY <1>30 DEF LoopBeginStep, Begins, StandsFor
<1>31. ASSUME NEW c \in Thread, OrphanStep(t, c)
      PROVE  JoinInv'
  BY <1>31 DEF OrphanStep, Releases
<1>32. ASSUME NEW c \in Thread, FreeStatusStep(t, c)
      PROVE  JoinInv'
  BY <1>32 DEF FreeStatusStep
<1>33. CASE TablesStep(t)
  BY <1>33 DEF TablesStep
<1>34. CASE ChildlessStep(t)
  BY <1>34 DEF ChildlessStep
<1>35. CASE WakeStep(t)
  BY <1>35 DEF WakeStep
<1>36. CASE OwnStep(t)
  BY <1>36 DEF OwnStep, Releases
<1>37. CASE FreeStep(t)
  BY <1>37 DEF FreeStep
<1>38. CASE IdleStep
  BY <1>38 DEF IdleStep
<1>39. ASSUME NEW p \in Thread, LinkStep(t, p)
      PROVE  JoinInv'
  <2>1. /\ pc[t] = "link" /\ Becomes(pc, pc', t, "setup")
        /\ UNCHANGED <<arg, pcb, stateOf, joinsOf, joinOf, joinedOf>>
    BY <1>39 DEF LinkStep
  <2> QED BY <2>1
<1> HIDE DEF Becomes, Acts, SameRecords, SameProcesses, SameElems, SameStatuses, JoinInv,
        TreeInv, CreateInv, LoopInv, Joining, Testing, Early, Working, Leaving, Live
<1> QED BY <1>1, <1>2, <1>3, <1>4, <1>5, <1>6, <1>7, <1>8, <1>9, <1>10, <1>11, <1>12,
           <1>13, <1>14, <1>15, <1>16, <1>17, <1>18, <1>19, <1>20, <1>21, <1>22, <1>23,
           <1>24, <1>25, <1>26, <1>27, <1>28, <1>29, <1>30, <1>31, <1>32, <1>33, <1>34,
           <1>35, <1>36, <1>37, <1>38, <1>39 DEF Step

\* Whoever sets joined waits until the thread exits.
LEMMA JoinerKept ==
  ASSUME JoinerInv, JoinInv, TreeInv, CreateInv, NEW t \in Thread, Step(t)
  PROVE  JoinerInv'
<1> USE Basics DEF Becomes, Acts, SameRecords, SameProcesses, SameElems, SameStatuses,
        JoinerInv, JoinInv, TreeInv, CreateInv, Joining, Testing, Early, Working, Leaving, Live
<1>1. CASE StartStep(t)
  BY <1>1 DEF StartStep
<1>2. CASE StartFailsStep(t)
  BY <1>2 DEF StartFailsStep
<1>3. ASSUME NEW p \in Thread, NEW c \in Thread, ExecuteStep(t, p, c)
      PROVE  JoinerInv'
  BY <1>3 DEF ExecuteStep
<1>4. ASSUME NEW p \in Thread, NEW c \in Thread, ExecutedStep(t, p, c)
      PROVE  JoinerInv'
  BY <1>4 DEF ExecutedStep
<1>5. ASSUME NEW p \in Thread, NEW c \in Thread, NotExecutedStep(t, p, c)
      PROVE  JoinerInv'
  BY <1>5 DEF NotExecutedStep
<1>6. ASSUME NEW c \in Thread, FindStep(t, c)
      PROVE  JoinerInv'
  BY <1>6 DEF FindStep
<1>7. ASSUME NEW p \in Thread, NEW c \in Thread, RemoveStep(t, p, c)
      PROVE  JoinerInv'
  BY <1>7 DEF RemoveStep
<1>8. ASSUME NEW p \in Thread, NEW c \in Thread, ChildDeadStep(t, p, c)
      PROVE  JoinerInv'
  BY <1>8 DEF ChildDeadStep
<1>9. ASSUME NEW p \in Thread, NEW c \in Thread, ReapStep(t, p, c)
      PROVE  JoinerInv'
  BY <1>9 DEF ReapStep, Releases
<1>10. ASSUME NEW p \in Thread, NEW c \in Thread, ExecuteThreadStep(t, p, c)
      PROVE  JoinerInv'
  BY <1>10 DEF ExecuteThreadStep
<1>11. ASSUME NEW p \in Thread, NEW c \in Thread, ExecutedThreadStep(t, p, c)
      PROVE  JoinerInv'
  BY <1>11 DEF ExecutedThreadStep
<1>12. ASSUME NEW p \in Thread, NEW c \in Thread, JoinStep(t, p, c)
      PROVE  JoinerInv'
  BY <1>12 DEF JoinStep, Tests
<1>13. ASSUME NEW p \in Thread, NEW c \in Thread, BeginStep(t, p, c)
      PROVE  JoinerInv'
  BY <1>13 DEF BeginStep, Begins
<1>14. ASSUME NEW p \in Thread, NEW c \in Thread, JoinedStep(t, p, c)
      PROVE  JoinerInv'
  BY <1>14 DEF JoinedStep, Joined
<1>15. ASSUME NEW p \in Thread, StartThreadStep(t, p)
      PROVE  JoinerInv'
  BY <1>15 DEF StartThreadStep
<1>16. ASSUME NEW p \in Thread, LinkStep(t, p)
      PROVE  JoinerInv'
  BY <1>16 DEF LinkStep
<1>17. ASSUME NEW p \in Thread, SetupStep(t, p)
      PROVE  JoinerInv'
  BY <1>17 DEF SetupStep
<1>18. ASSUME NEW p \in Thread, SetupFailsStep(t, p)
      PROVE  JoinerInv'
  BY <1>18 DEF SetupFailsStep
<1>19. ASSUME NEW p \in Thread, ThreadExitStep(t, p)
      PROVE  JoinerInv'
  BY <1>19 DEF ThreadExitStep, Woken
<1>20. ASSUME NEW p \in Thread, GoneStep(t, p)
      PROVE  JoinerInv'
  BY <1>20 DEF GoneStep
<1>21. CASE MainExitStep(t)
  BY <1>21 DEF MainExitStep, Woken
<1>22. CASE ExitStep(t, "user")
  BY <1>22 DEF ExitStep, Woken
<1>23. CASE ExitStep(t, "exit_main")
  BY <1>23 DEF ExitStep, Woken
<1>24. ASSUME NEW c \in Thread, PassStep(t, c, "exit")
      PROVE  JoinerInv'
  BY <1>24 DEF PassStep
<1>25. ASSUME NEW c \in Thread, PassStep(t, c, "exit_main")
      PROVE  JoinerInv'
  BY <1>25 DEF PassStep
<1>26. ASSUME NEW c \in Thread, LoopJoinStep(t, c, "exit", "exit_joining")
      PROVE  JoinerInv'
  BY <1>26 DEF LoopJoinStep, Tests, StandsFor
<1>27. ASSUME NEW c \in Thread, LoopBeginStep(t, c, "exit_joining", "exit_join")
      PROVE  JoinerInv'
  BY <1>27 DEF LoopBeginStep, Begins, StandsFor
<1>28. ASSUME NEW c \in Thread, LoopJoinStep(t, c, "exit_main", "main_joining")
      PROVE  JoinerInv'
  BY <1>28 DEF LoopJoinStep, Tests, StandsFor
<1>29. ASSUME NEW c \in Thread, LoopBeginStep(t, c, "main_joining", "main_join")
      PROVE  JoinerInv'
  BY <1>29 DEF LoopBeginStep, Begins, StandsFor
<1>30. ASSUME NEW c \in Thread, LoopJoinedStep(t, c, "exit_join", "exit")
      PROVE  JoinerInv'
  BY <1>30 DEF LoopJoinedStep, Joined, StandsFor
<1>31. ASSUME NEW c \in Thread, LoopJoinedStep(t, c, "main_join", "exit_main")
      PROVE  JoinerInv'
  BY <1>31 DEF LoopJoinedStep, Joined, StandsFor
<1>32. ASSUME NEW c \in Thread, OrphanStep(t, c)
      PROVE  JoinerInv'
  BY <1>32 DEF OrphanStep, Releases
<1>33. ASSUME NEW c \in Thread, FreeStatusStep(t, c)
      PROVE  JoinerInv'
  BY <1>33 DEF FreeStatusStep
<1>34. CASE TablesStep(t)
  BY <1>34 DEF TablesStep
<1>35. CASE ChildlessStep(t)
  BY <1>35 DEF ChildlessStep
<1>36. CASE WakeStep(t)
  BY <1>36 DEF WakeStep
<1>37. CASE OwnStep(t)
  BY <1>37 DEF OwnStep, Releases
<1>38. CASE FreeStep(t)
  BY <1>38 DEF FreeStep
<1>39. CASE IdleStep
  BY <1>39 DEF IdleStep
<1> HIDE DEF Becomes, Acts, SameRecords, SameProcesses, SameElems, SameStatuses, JoinerInv,
        JoinInv, TreeInv, CreateInv, Joining, Testing, Early, Working, Leaving, Live
<1> QED BY <1>1, <1>2, <1>3, <1>4, <1>5, <1>6, <1>7, <1>8, <1>9, <1>10, <1>11, <1>12,
           <1>13, <1>14, <1>15, <1>16, <1>17, <1>18, <1>19, <1>20, <1>21, <1>22, <1>23,
           <1>24, <1>25, <1>26, <1>27, <1>28, <1>29, <1>30, <1>31, <1>32, <1>33, <1>34,
           <1>35, <1>36, <1>37, <1>38, <1>39 DEF Step

\* The loops over thread_list stay inside it.
LEMMA LoopKept ==
  ASSUME LoopInv, TreeInv, CreateInv, NEW t \in Thread, Step(t)
  PROVE  LoopInv'
<1> USE Basics DEF Becomes, Acts, SameRecords, SameProcesses, SameElems, SameStatuses, LoopInv, Reaches, StandsFor,
        TreeInv, CreateInv, Early, Working, Leaving, Live
<1>1. CASE StartStep(t)
  BY <1>1 DEF StartStep
<1>2. CASE StartFailsStep(t)
  BY <1>2 DEF StartFailsStep
<1>3. ASSUME NEW p \in Thread, NEW c \in Thread, ExecuteStep(t, p, c)
      PROVE  LoopInv'
  BY <1>3 DEF ExecuteStep
<1>4. ASSUME NEW p \in Thread, NEW c \in Thread, ExecutedStep(t, p, c)
      PROVE  LoopInv'
  BY <1>4 DEF ExecutedStep
<1>5. ASSUME NEW p \in Thread, NEW c \in Thread, NotExecutedStep(t, p, c)
      PROVE  LoopInv'
  BY <1>5 DEF NotExecutedStep
<1>6. ASSUME NEW c \in Thread, FindStep(t, c)
      PROVE  LoopInv'
  BY <1>6 DEF FindStep
<1>7. ASSUME NEW p \in Thread, NEW c \in Thread, RemoveStep(t, p, c)
      PROVE  LoopInv'
  BY <1>7 DEF RemoveStep
<1>8. ASSUME NEW p \in Thread, NEW c \in Thread, ChildDeadStep(t, p, c)
      PROVE  LoopInv'
  BY <1>8 DEF ChildDeadStep
<1>9. ASSUME NEW p \in Thread, NEW c \in Thread, ReapStep(t, p, c)
      PROVE  LoopInv'
  BY <1>9 DEF ReapStep, Releases
<1>10. ASSUME NEW p \in Thread, NEW c \in Thread, ExecuteThreadStep(t, p, c)
      PROVE  LoopInv'
  BY <1>10 DEF ExecuteThreadStep
<1>11. ASSUME NEW p \in Thread, NEW c \in Thread, ExecutedThreadStep(t, p, c)
      PROVE  LoopInv'
  BY <1>11 DEF ExecutedThreadStep
<1>12. ASSUME NEW p \in Thread, NEW c \in Thread, JoinStep(t, p, c)
      PROVE  LoopInv'
  BY <1>12 DEF JoinStep, Tests
<1>13. ASSUME NEW p \in Thread, NEW c \in Thread, BeginStep(t, p, c)
      PROVE  LoopInv'
  BY <1>13 DEF BeginStep, Begins
<1>14. ASSUME NEW p \in Thread, NEW c \in Thread, JoinedStep(t, p, c)
      PROVE  LoopInv'
  BY <1>14 DEF JoinedStep, Joined
<1>15. ASSUME NEW p \in Thread, StartThreadStep(t, p)
      PROVE  LoopInv'
  BY <1>15 DEF StartThreadStep
<1>16. ASSUME NEW p \in Thread, LinkStep(t, p)
      PROVE  LoopInv'
  BY <1>16 DEF LinkStep
<1>17. ASSUME NEW p \in Thread, SetupStep(t, p)
      PROVE  LoopInv'
  BY <1>17 DEF SetupStep
<1>18. ASSUME NEW p \in Thread, SetupFailsStep(t, p)
      PROVE  LoopInv'
  BY <1>18 DEF SetupFailsStep
<1>19. ASSUME NEW p \in Thread, ThreadExitStep(t, p)
      PROVE  LoopInv'
  BY <1>19 DEF ThreadExitStep, Woken
<1>20. ASSUME NEW p \in Thread, GoneStep(t, p)
      PROVE  LoopInv'
  BY <1>20 DEF GoneStep
<1>21. CASE MainExitStep(t)
  BY <1>21 DEF MainExitStep, Woken
<1>22. CASE ExitStep(t, "user")
  BY <1>22 DEF ExitStep, Woken
<1>23. CASE ExitStep(t, "exit_main")
  BY <1>23 DEF ExitStep, Woken
<1>24. ASSUME NEW c \in Thread, PassStep(t, c, "exit")
      PROVE  LoopInv'
  BY <1>24 DEF PassStep, Reaches
<1>25. ASSUME NEW c \in Thread, PassStep(t, c, "exit_main")
      PROVE  LoopInv'
  BY <1>25 DEF PassStep, Reaches
<1>26. ASSUME NEW c \in Thread, LoopJoinStep(t, c, "exit", "exit_joining")
      PROVE  LoopInv'
  BY <1>26 DEF LoopJoinStep, Tests
<1>27. ASSUME NEW c \in Thread, LoopBeginStep(t, c, "exit_joining", "exit_join")
      PROVE  LoopInv'
  BY <1>27 DEF LoopBeginStep, Begins
<1>28. ASSUME NEW c \in Thread, LoopJoinStep(t, c, "exit_main", "main_joining")
      PROVE  LoopInv'
  BY <1>28 DEF LoopJoinStep, Tests
<1>29. ASSUME NEW c \in Thread, LoopBeginStep(t, c, "main_joining", "main_join")
      PROVE  LoopInv'
  BY <1>29 DEF LoopBeginStep, Begins
<1>30. ASSUME NEW c \in Thread, LoopJoinedStep(t, c, "exit_join", "exit")
      PROVE  LoopInv'
  BY <1>30 DEF LoopJoinedStep, Joined, StandsFor, Reaches
<1>31. ASSUME NEW c \in Thread, LoopJoinedStep(t, c, "main_join", "exit_main")
      PROVE  LoopInv'
  BY <1>31 DEF LoopJoinedStep, Joined, StandsFor, Reaches
<1>32. ASSUME NEW c \in Thread, OrphanStep(t, c)
      PROVE  LoopInv'
  BY <1>32 DEF OrphanStep, Releases
<1>33. ASSUME NEW c \in Thread, FreeStatusStep(t, c)
      PROVE  LoopInv'
  BY <1>33 DEF FreeStatusStep
<1>34. CASE TablesStep(t)
  BY <1>34 DEF TablesStep
<1>35. CASE ChildlessStep(t)
  BY <1>35 DEF ChildlessStep
<1>36. CASE WakeStep(t)
  BY <1>36 DEF WakeStep
<1>37. CASE OwnStep(t)
  BY <1>37 DEF OwnStep, Releases
<1>38. CASE FreeStep(t)
  BY <1>38 DEF FreeStep
<1>39. CASE IdleStep
  BY <1>39 DEF IdleStep
<1> HIDE DEF Becomes, Acts, SameRecords, SameProcesses, SameElems, SameStatuses, LoopInv, Reaches, StandsFor,
        TreeInv, CreateInv, Early, Working, Leaving, Live
<1> QED BY <1>1, <1>2, <1>3, <1>4, <1>5, <1>6, <1>7, <1>8, <1>9, <1>10, <1>11, <1>12,
           <1>13, <1>14, <1>15, <1>16, <1>17, <1>18, <1>19, <1>20, <1>21, <1>22, <1>23,
           <1>24, <1>25, <1>26, <1>27, <1>28, <1>29, <1>30, <1>31, <1>32, <1>33, <1>34,
           <1>35, <1>36, <1>37, <1>38, <1>39 DEF Step

\* Every step goes with the flow.
LEMMA FlowHolds ==
  ASSUME TreeInv, JoinInv, LoopInv, CreateInv, NEW t \in Thread, Step(t)
  PROVE  Flow
<1> USE Basics DEF Becomes, Acts, SameRecords, SameProcesses, SameElems, SameStatuses, TreeInv,
        JoinInv, LoopInv, CreateInv, Joining, Testing, Flow, Late, Early, Working, Leaving, Live
<1>1. CASE StartStep(t)
  BY <1>1 DEF StartStep
<1>2. CASE StartFailsStep(t)
  BY <1>2 DEF StartFailsStep
<1>3. ASSUME NEW p \in Thread, NEW c \in Thread, ExecuteStep(t, p, c)
      PROVE  Flow
  BY <1>3 DEF ExecuteStep
<1>4. ASSUME NEW p \in Thread, NEW c \in Thread, ExecutedStep(t, p, c)
      PROVE  Flow
  BY <1>4 DEF ExecutedStep
<1>5. ASSUME NEW p \in Thread, NEW c \in Thread, NotExecutedStep(t, p, c)
      PROVE  Flow
  BY <1>5 DEF NotExecutedStep
<1>6. ASSUME NEW c \in Thread, FindStep(t, c)
      PROVE  Flow
  BY <1>6 DEF FindStep
<1>7. ASSUME NEW p \in Thread, NEW c \in Thread, RemoveStep(t, p, c)
      PROVE  Flow
  BY <1>7 DEF RemoveStep
<1>8. ASSUME NEW p \in Thread, NEW c \in Thread, ChildDeadStep(t, p, c)
      PROVE  Flow
  BY <1>8 DEF ChildDeadStep
<1>9. ASSUME NEW p \in Thread, NEW c \in Thread, ReapStep(t, p, c)
      PROVE  Flow
  BY <1>9 DEF ReapStep, Releases
<1>10. ASSUME NEW p \in Thread, NEW c \in Thread, ExecuteThreadStep(t, p, c)
      PROVE  Flow
  BY <1>10 DEF ExecuteThreadStep
<1>11. ASSUME NEW p \in Thread, NEW c \in Thread, ExecutedThreadStep(t, p, c)
      PROVE  Flow
  BY <1>11 DEF ExecutedThreadStep
<1>12. ASSUME NEW p \in Thread, NEW c \in Thread, JoinStep(t, p, c)
      PROVE  Flow
  BY <1>12 DEF JoinStep, Tests
<1>13. ASSUME NEW p \in Thread, NEW c \in Thread, BeginStep(t, p, c)
      PROVE  Flow
  BY <1>13 DEF BeginStep, Begins
<1>14. ASSUME NEW p \in Thread, NEW c \in Thread, JoinedStep(t, p, c)
      PROVE  Flow
  BY <1>14 DEF JoinedStep, Joined
<1>15. ASSUME NEW p \in Thread, StartThreadStep(t, p)
      PROVE  Flow
  BY <1>15 DEF StartThreadStep
<1>16. ASSUME NEW p \in Thread, LinkStep(t, p)
      PROVE  Flow
  BY <1>16 DEF LinkStep
<1>17. ASSUME NEW p \in Thread, SetupStep(t, p)
      PROVE  Flow
  BY <1>17 DEF SetupStep
<1>18. ASSUME NEW p \in Thread, SetupFailsStep(t, p)
      PROVE  Flow
  BY <1>18 DEF SetupFailsStep
<1>19. ASSUME NEW p \in Thread, ThreadExitStep(t, p)
      PROVE  Flow
  BY <1>19 DEF ThreadExitStep, Woken
<1>20. ASSUME NEW p \in Thread, GoneStep(t, p)
      PROVE  Flow
  BY <1>20 DEF GoneStep
<1>21. CASE MainExitStep(t)
  BY <1>21 DEF MainExitStep, Woken
<1>22. CASE ExitStep(t, "user")
  BY <1>22 DEF ExitStep, Woken
<1>23. CASE ExitStep(t, "exit_main")
  BY <1>23 DEF ExitStep, Woken
<1>24. ASSUME NEW c \in Thread, PassStep(t, c, "exit")
      PROVE  Flow
  BY <1>24 DEF PassStep, Reaches
<1>25. ASSUME NEW c \in Thread, PassStep(t, c, "exit_main")
      PROVE  Flow
  BY <1>25 DEF PassStep, Reaches
<1>26. ASSUME NEW c \in Thread, LoopJoinStep(t, c, "exit", "exit_joining")
      PROVE  Flow
  BY <1>26 DEF LoopJoinStep, Tests, StandsFor
<1>27. ASSUME NEW c \in Thread, LoopBeginStep(t, c, "exit_joining", "exit_join")
      PROVE  Flow
  BY <1>27 DEF LoopBeginStep, Begins, StandsFor
<1>28. ASSUME NEW c \in Thread, LoopJoinStep(t, c, "exit_main", "main_joining")
      PROVE  Flow
  BY <1>28 DEF LoopJoinStep, Tests, StandsFor
<1>29. ASSUME NEW c \in Thread, LoopBeginStep(t, c, "main_joining", "main_join")
      PROVE  Flow
  BY <1>29 DEF LoopBeginStep, Begins, StandsFor
<1>30. ASSUME NEW c \in Thread, LoopJoinedStep(t, c, "exit_join", "exit")
      PROVE  Flow
  BY <1>30 DEF LoopJoinedStep, Joined, StandsFor, Reaches
<1>31. ASSUME NEW c \in Thread, LoopJoinedStep(t, c, "main_join", "exit_main")
      PROVE  Flow
  BY <1>31 DEF LoopJoinedStep, Joined, StandsFor, Reaches
<1>32. ASSUME NEW c \in Thread, OrphanStep(t, c)
      PROVE  Flow
  BY <1>32 DEF OrphanStep, Releases
<1>33. ASSUME NEW c \in Thread, FreeStatusStep(t, c)
      PROVE  Flow
  BY <1>33 DEF FreeStatusStep
<1>34. CASE TablesStep(t)
  BY <1>34 DEF TablesStep
<1>35. CASE ChildlessStep(t)
  BY <1>35 DEF ChildlessStep
<1>36. CASE WakeStep(t)
  BY <1>36 DEF WakeStep
<1>37. CASE OwnStep(t)
  BY <1>37 DEF OwnStep, Releases
<1>38. CASE FreeStep(t)
  BY <1>38 DEF FreeStep
<1>39. CASE IdleStep
  BY <1>39 DEF IdleStep
<1> HIDE DEF Becomes, Acts, SameRecords, SameProcesses, SameElems, SameStatuses, TreeInv,
        JoinInv, LoopInv, CreateInv, Joining, Testing, Flow, Late, Early, Working, Leaving, Live
<1> QED BY <1>1, <1>2, <1>3, <1>4, <1>5, <1>6, <1>7, <1>8, <1>9, <1>10, <1>11, <1>12,
           <1>13, <1>14, <1>15, <1>16, <1>17, <1>18, <1>19, <1>20, <1>21, <1>22, <1>23,
           <1>24, <1>25, <1>26, <1>27, <1>28, <1>29, <1>30, <1>31, <1>32, <1>33, <1>34,
           <1>35, <1>36, <1>37, <1>38, <1>39 DEF Step

\* And passes threads as the loop may.
LEMMA LoopFlowHolds ==
  ASSUME TreeInv, CreateInv, NEW t \in Thread, Step(t)
  PROVE  LoopFlow
<1> USE Basics DEF Becomes, Acts, SameRecords, SameProcesses, SameElems, SameStatuses, TreeInv,
        CreateInv, LoopFlow, Reaches, Passes, StandsFor, Early, Working, Leaving, Live
<1>1. CASE StartStep(t)
  BY <1>1 DEF StartStep
<1>2. CASE StartFailsStep(t)
  BY <1>2 DEF StartFailsStep
<1>3. ASSUME NEW p \in Thread, NEW c \in Thread, ExecuteStep(t, p, c)
      PROVE  LoopFlow
  BY <1>3 DEF ExecuteStep
<1>4. ASSUME NEW p \in Thread, NEW c \in Thread, ExecutedStep(t, p, c)
      PROVE  LoopFlow
  BY <1>4 DEF ExecutedStep
<1>5. ASSUME NEW p \in Thread, NEW c \in Thread, NotExecutedStep(t, p, c)
      PROVE  LoopFlow
  BY <1>5 DEF NotExecutedStep
<1>6. ASSUME NEW c \in Thread, FindStep(t, c)
      PROVE  LoopFlow
  BY <1>6 DEF FindStep
<1>7. ASSUME NEW p \in Thread, NEW c \in Thread, RemoveStep(t, p, c)
      PROVE  LoopFlow
  BY <1>7 DEF RemoveStep
<1>8. ASSUME NEW p \in Thread, NEW c \in Thread, ChildDeadStep(t, p, c)
      PROVE  LoopFlow
  BY <1>8 DEF ChildDeadStep
<1>9. ASSUME NEW p \in Thread, NEW c \in Thread, ReapStep(t, p, c)
      PROVE  LoopFlow
  BY <1>9 DEF ReapStep, Releases
<1>10. ASSUME NEW p \in Thread, NEW c \in Thread, ExecuteThreadStep(t, p, c)
      PROVE  LoopFlow
  BY <1>10 DEF ExecuteThreadStep
<1>11. ASSUME NEW p \in Thread, NEW c \in Thread, ExecutedThreadStep(t, p, c)
      PROVE  LoopFlow
  BY <1>11 DEF ExecutedThreadStep
<1>12. ASSUME NEW p \in Thread, NEW c \in Thread, JoinStep(t, p, c)
      PROVE  LoopFlow
  BY <1>12 DEF JoinStep, Tests
<1>13. ASSUME NEW p \in Thread, NEW c \in Thread, BeginStep(t, p, c)
      PROVE  LoopFlow
  BY <1>13 DEF BeginStep, Begins
<1>14. ASSUME NEW p \in Thread, NEW c \in Thread, JoinedStep(t, p, c)
      PROVE  LoopFlow
  BY <1>14 DEF JoinedStep, Joined
<1>15. ASSUME NEW p \in Thread, StartThreadStep(t, p)
      PROVE  LoopFlow
  BY <1>15 DEF StartThreadStep
<1>16. ASSUME NEW p \in Thread, LinkStep(t, p)
      PROVE  LoopFlow
  BY <1>16 DEF LinkStep
<1>17. ASSUME NEW p \in Thread, SetupStep(t, p)
      PROVE  LoopFlow
  BY <1>17 DEF SetupStep
<1>18. ASSUME NEW p \in Thread, SetupFailsStep(t, p)
      PROVE  LoopFlow
  BY <1>18 DEF SetupFailsStep
<1>19. ASSUME NEW p \in Thread, ThreadExitStep(t, p)
      PROVE  LoopFlow
  BY <1>19 DEF ThreadExitStep, Woken
<1>20. ASSUME NEW p \in Thread, GoneStep(t, p)
      PROVE  LoopFlow
  BY <1>20 DEF GoneStep
<1>21. CASE MainExitStep(t)
  BY <1>21 DEF MainExitStep, Woken
<1>22. CASE ExitStep(t, "user")
  BY <1>22 DEF ExitStep, Woken
<1>23. CASE ExitStep(t, "exit_main")
  BY <1>23 DEF ExitStep, Woken
<1>24. ASSUME NEW c \in Thread, PassStep(t, c, "exit")
      PROVE  LoopFlow
  BY <1>24 DEF PassStep
<1>25. ASSUME NEW c \in Thread, PassStep(t, c, "exit_main")
      PROVE  LoopFlow
  BY <1>25 DEF PassStep
<1>26. ASSUME NEW c \in Thread, LoopJoinStep(t, c, "exit", "exit_joining")
      PROVE  LoopFlow
  BY <1>26 DEF LoopJoinStep, Tests
<1>27. ASSUME NEW c \in Thread, LoopBeginStep(t, c, "exit_joining", "exit_join")
      PROVE  LoopFlow
  BY <1>27 DEF LoopBeginStep, Begins
<1>28. ASSUME NEW c \in Thread, LoopJoinStep(t, c, "exit_main", "main_joining")
      PROVE  LoopFlow
  BY <1>28 DEF LoopJoinStep, Tests
<1>29. ASSUME NEW c \in Thread, LoopBeginStep(t, c, "main_joining", "main_join")
      PROVE  LoopFlow
  BY <1>29 DEF LoopBeginStep, Begins
<1>30. ASSUME NEW c \in Thread, LoopJoinedStep(t, c, "exit_join", "exit")
      PROVE  LoopFlow
  BY <1>30 DEF LoopJoinedStep, Joined
<1>31. ASSUME NEW c \in Thread, LoopJoinedStep(t, c, "main_join", "exit_main")
      PROVE  LoopFlow
  BY <1>31 DEF LoopJoinedStep, Joined
<1>32. ASSUME NEW c \in Thread, OrphanStep(t, c)
      PROVE  LoopFlow
  BY <1>32 DEF OrphanStep, Releases
<1>33. ASSUME NEW c \in Thread, FreeStatusStep(t, c)
      PROVE  LoopFlow
  BY <1>33 DEF FreeStatusStep
<1>34. CASE TablesStep(t)
  BY <1>34 DEF TablesStep
<1>35. CASE ChildlessStep(t)
  BY <1>35 DEF ChildlessStep
<1>36. CASE WakeStep(t)
  BY <1>36 DEF WakeStep
<1>37. CASE OwnStep(t)
  BY <1>37 DEF OwnStep, Releases
<1>38. CASE FreeStep(t)
  BY <1>38 DEF FreeStep
<1>39. CASE IdleStep
  BY <1>39 DEF IdleStep
<1> HIDE DEF Becomes, Acts, SameRecords, SameProcesses, SameElems, SameStatuses, TreeInv,
        CreateInv, LoopFlow, Reaches, Passes, StandsFor, Early, Working, Leaving, Live
<1> QED BY <1>1, <1>2, <1>3, <1>4, <1>5, <1>6, <1>7, <1>8, <1>9, <1>10, <1>11, <1>12,
           <1>13, <1>14, <1>15, <1>16, <1>17, <1>18, <1>19, <1>20, <1>21, <1>22, <1>23,
           <1>24, <1>25, <1>26, <1>27, <1>28, <1>29, <1>30, <1>31, <1>32, <1>33, <1>34,
           <1>35, <1>36, <1>37, <1>38, <1>39 DEF Step

\* Who need not be waited for need not be waited for later.
LEMMA PassedStays ==
  ASSUME TreeInv, JoinInv, Flow, NEW p \in Thread, pc[p] \in {"exit", "exit_joining", "exit_join"},
         NEW x \in Thread,
         pcb[x] = p, Passed(x, p)
  PROVE  Passed(x, p)'
<1>1. CASE x = p
  BY <1>1 DEF Passed
<1>2. CASE pc[x] \notin Working
  BY <1>2, Basics DEF Passed, Flow, TreeInv
<1>3. CASE \E y \in Thread : y # p /\ pc[y] = "join" /\ arg[y] = x /\ pcb[y] = p
  <2>1. PICK y \in Thread : y # p /\ pc[y] = "join" /\ arg[y] = x /\ pcb[y] = p
    BY <1>3
  <2>2. CASE pc'[y] = pc[y] /\ arg'[y] = arg[y]
    <3>1. pcb'[y] = pcb[y]
      BY <2>1 DEF Flow
    <3> QED BY <2>1, <2>2, <3>1 DEF Passed
  <2>3. CASE joinOf[x] > 0
    <3>1. pc[x] \notin Early /\ pc[x] \notin Working
      BY <2>3 DEF JoinInv
    <3>2. pc'[x] \notin Working
      BY <3>1 DEF Flow
    <3> QED BY <3>2 DEF Passed
  <2> QED BY <2>1, <2>2, <2>3 DEF Flow, Joining
<1> QED BY <1>1, <1>2, <1>3 DEF Passed

\* A thread that the loop passes need not be waited for.
LEMMA PassedNow ==
  ASSUME TreeInv, JoinInv, JoinerInv, NEW p \in Thread, pc[p] \in {"exit", "exit_joining", "exit_join"},
         NEW x \in Thread,
         pcb[x] = p, Passes(p, x)
  PROVE  Passed(x, p)
<1>1. Live(p) /\ p # Root /\ x # Root
  BY DEF TreeInv, Leaving, Working
<1>2. CASE pc[x] \notin Working
  BY <1>2 DEF Passed
<1>3. CASE pc[x] \in Working
  <2>1. joinOf[x] = 0 /\ x \in joinsOf[p] /\ pc[x] # "gone"
    BY <1>1, <1>3 DEF JoinInv, Working
  <2>2. pc[p] = "exit" /\ joinedOf[x]
    BY <2>1 DEF Passes
  <2>3. PICK y \in Thread : pc[y] \in Joining /\ arg[y] = x /\ pcb[y] = p
    BY <1>1, <1>3, <2>2 DEF JoinerInv
  <2>4. y # p /\ pc[y] = "join"
    BY <2>2, <2>3 DEF Joining, TreeInv, Leaving
  <2> QED BY <2>3, <2>4 DEF Passed
<1> QED BY <1>2, <1>3

\* At the end of a step, the threads that the loop of process_exit has passed need not be waited for.
LEMMA PassedStep ==
  ASSUME FieldInv, TreeInv, MembersInv, JoinInv, JoinerInv, LoopInv, PassedInv, Flow, LoopFlow
  PROVE  PassedInv'
<1> SUFFICES ASSUME NEW p \in Thread, pc'[p] \in {"exit", "exit_joining", "exit_join"},
                    NEW i \in 1 .. Len(listOf'[p]), i < at'[p]
             PROVE  Passed(listOf[p][i], p)'
  BY DEF PassedInv
<1>1. /\ pc[p] \in {"exit", "exit_joining", "exit_join"}
      /\ \/ at'[p] = at[p]
         \/ at'[p] = at[p] + 1 /\ \E x \in Thread : Reaches(p, x) /\ Passes(p, x)
  <2>1. at'[p] # 1
    OBVIOUS
  <2> QED BY <2>1 DEF LoopFlow
<1>2. listOf[p] \in Seq(Thread) /\ Len(listOf[p]) \in Nat /\ at[p] \in 1 .. Len(listOf[p]) + 1
  <2>1. listOf[p] \in Seq(Thread)
    BY DEF FieldInv
  <2>2. Len(listOf[p]) \in Nat
    BY <2>1, LenProperties
  <2>3. CASE pc[p] = "exit"
    BY <2>1, <2>2, <2>3 DEF LoopInv
  <2>4. CASE pc[p] \in {"exit_joining", "exit_join"}
    BY <2>1, <2>2, <2>4 DEF LoopInv, StandsFor, Reaches
  <2> QED BY <1>1, <2>3, <2>4
<1>3. i \in 1 .. Len(listOf[p])
  <2>1. CASE at'[p] = at[p]
    BY <1>2, <2>1
  <2>2. CASE at'[p] = at[p] + 1 /\ at[p] \in 1 .. Len(listOf[p])
    BY <1>2, <2>2
  <2> QED BY <1>1, <2>1, <2>2 DEF Reaches
<1>4. listOf'[p][i] = listOf[p][i]
  <2>1. CASE listOf'[p] = listOf[p]
    BY <2>1
  <2>2. CASE \E n \in Thread : listOf'[p] = Append(listOf[p], n)
    BY <1>2, <1>3, <2>2, AppendProperties
  <2> QED BY <2>1, <2>2 DEF LoopFlow
<1>5. PICK x \in Thread : x = listOf[p][i] /\ pcb[x] = p
  <2>1. listOf[p][i] \in Thread /\ listOf[p][i] \in Elements(listOf[p])
    BY <1>2, <1>3 DEF Elements
  <2>2. Live(p) /\ p # Root
    BY <1>1 DEF TreeInv, Leaving, Working
  <2> QED BY <2>1, <2>2 DEF MembersInv
<1>6. Passed(x, p)
  <2>1. CASE i < at[p]
    BY <1>1, <1>3, <1>5, <2>1 DEF PassedInv
  <2>2. CASE ~ (i < at[p])
    <3>1. i = at[p] /\ at'[p] = at[p] + 1
      BY <1>1, <1>2, <1>3, <2>2
    <3>2. Passes(p, x)
      BY <1>1, <1>2, <1>5, <3>1 DEF Reaches
    <3> QED BY <1>1, <1>5, <3>2, PassedNow
  <2> QED BY <2>1, <2>2
<1>7. Passed(x, p)'
  BY <1>1, <1>5, <1>6, PassedStays
<1> QED BY <1>4, <1>5, <1>7 DEF Passed

\* Threads each of which another of them joins all join each other.
LEMMA JoinedByEachOther ==
  ASSUME NEW D, IsFiniteSet(D),
         \A x \in D : \E y \in D : pc[y] = "join" /\ arg[y] = x
  PROVE  \A x \in D : pc[x] = "join" /\ arg[x] \in D
<1> DEFINE E == {y \in D : pc[y] = "join" /\ arg[y] \in D}
           f == [y \in E |-> arg[y]]
<1>1. IsFiniteSet(E) /\ Cardinality(E) <= Cardinality(D) /\ (Cardinality(E) = Cardinality(D) => E = D)
  BY FS_Subset
<1>2. f \in Surjection(E, D)
  BY DEF Surjection
<1>3. Cardinality(D) <= Cardinality(E)
  <2> HIDE DEF E, f
  <2> QED BY <1>1, <1>2, FS_Surjection
<1>4. Cardinality(D) \in Nat /\ Cardinality(E) \in Nat
  BY <1>1, FS_CardinalityType
<1>5. E = D
  <2> HIDE DEF E, f
  <2> QED BY <1>1, <1>3, <1>4
<1> QED BY <1>5

\* When the loop is over, the threads of the process are done: those that have not ended
\* were passed as joined by others, and so wait for each other.
LEMMA TablesLate ==
  ASSUME ShapeInv, FieldInv, TreeInv, CreateInv, MembersInv, LoopInv, PassedInv, LateInv,
         NEW t \in Thread, TablesStep(t)
  PROVE  LateInv'
<1> DEFINE D == {x \in Thread : pcb[x] = t /\ x # t /\ pc[x] \in Working /\ pc[x] # "link"}
<1>1. pc[t] = "exit" /\ Live(t) /\ t # Root
  BY DEF TablesStep, Acts, TreeInv, Working
<1>2. \A x \in Thread : pcb[x] = t /\ pc[x] # "link" => Passed(x, t)
  <2>1. ASSUME NEW x \in Thread, pcb[x] = t, pc[x] # "link"
        PROVE  Passed(x, t)
    <3>1. x \in Elements(listOf[t])
      BY <1>1, <2>1 DEF MembersInv
    <3>2. PICK i \in 1 .. Len(listOf[t]) : x = listOf[t][i]
      BY <3>1 DEF Elements
    <3>3. listOf[t] \in Seq(Thread) /\ Len(listOf[t]) \in Nat
      BY LenProperties DEF FieldInv
    <3>4. i < at[t]
      BY <1>1, <3>3 DEF TablesStep, LoopInv
    <3> QED BY <1>1, <3>2, <3>4 DEF PassedInv
  <2> QED BY <2>1
<1>3. \A x \in D : pc[x] = "join" /\ arg[x] \in D
  <2>1. IsFiniteSet(D)
    BY FS_Subset, ProcessAssumption
  <2>2. \A x \in D : \E y \in D : pc[y] = "join" /\ arg[y] = x
    BY <1>2 DEF Passed, Working
  <2> HIDE DEF D
  <2> QED BY <2>1, <2>2, JoinedByEachOther
<1>4. \A u \in Thread : pcb[u] = t => pc[u] # "pthread_load_done"
  <2>1. \A u \in Thread : pcb[u] = t /\ pc[u] = "pthread_load_done" => u \in D
    BY <1>1 DEF Working
  <2> QED BY <1>3, <2>1
<1>5. \A x \in Thread : pcb[x] = t => pc[x] # "link"
  BY <1>4 DEF CreateInv
<1>6. \A x \in Thread : pcb[x] = t /\ x # t => Finished(x, t)
  <2>1. ASSUME NEW x \in Thread, pcb[x] = t, x # t
        PROVE  Finished(x, t)
    <3>1. CASE x \in D
      BY <1>3, <3>1 DEF Finished
    <3>2. CASE x \notin D
      <4>1. pc[x] \notin Early /\ pc[x] \notin Leaving /\ pc[x] \notin Working /\ pc[x] \in PC
        BY <1>5, <2>1, <3>2, Basics DEF TreeInv, ShapeInv
      <4> QED BY <4>1 DEF Finished, PC, Early, Leaving, Working
    <3> QED BY <3>1, <3>2
  <2> QED BY <2>1
<1>7. ASSUME NEW n \in Thread
      PROVE  ~ (pc[n] = "start_pthread" /\ arg[n] = t)
  <2>1. SUFFICES ASSUME pc[n] = "start_pthread", arg[n] = t
                 PROVE  FALSE
    OBVIOUS
  <2>2. PICK u \in Thread : pc[u] = "pthread_load_done" /\ pcb[u] = t
    BY <2>1 DEF CreateInv
  <2> QED BY <1>4, <2>2
<1> HIDE DEF D
<1>8. /\ UNCHANGED <<pcb, arg, stateOf>> /\ Becomes(pc, pc', t, "children")
  BY DEF TablesStep, SameRecords, SameProcesses
<1>9. \A x, p \in Thread : Finished(x, p) /\ x # t => Finished(x, p)'
  BY <1>1, <1>8 DEF Finished, Becomes
<1>10. \A x, p \in Thread : pcb[x] = p /\ x # p /\ (p = t \/ pc[p] \in Late \/ stateOf[p] = "freed") => x # t /\ Finished(x, p)
  BY <1>1, <1>6 DEF LateInv, Finished, TreeInv, Leaving
<1>11. \A p \in Thread : pc'[p] \in Late \/ stateOf'[p] = "freed" => p = t \/ pc[p] \in Late \/ stateOf[p] = "freed"
  BY <1>8 DEF Becomes
<1>12. \A x, p \in Thread : (pc'[p] \in Late \/ stateOf'[p] = "freed") /\ x # p /\ pcb'[x] = p => Finished(x, p)'
  BY <1>8, <1>9, <1>10, <1>11
<1>13. \A n, p \in Thread : ~ ((pc'[p] \in Late \/ stateOf'[p] = "freed") /\ pc'[n] = "start_pthread" /\ arg'[n] = p)
  BY <1>1, <1>7, <1>8, <1>11 DEF Becomes, LateInv
<1> QED BY <1>12, <1>13 DEF LateInv

\* Past the loop, threads that are done stay done.
LEMMA LateKept ==
  ASSUME LateInv, TreeInv, JoinInv, CreateInv, ShapeInv, FieldInv, MembersInv, LoopInv,
         PassedInv, NEW t \in Thread, Step(t)
  PROVE  LateInv'
<1>1. CASE TablesStep(t)
  BY <1>1, TablesLate
<1> USE Basics DEF Becomes, Acts, SameRecords, SameProcesses, SameElems, SameStatuses, LateInv,
        TreeInv, JoinInv, CreateInv, Late, Finished, Joining, Early, Working, Leaving, Live
<1>2. CASE StartStep(t)
  BY <1>2 DEF StartStep
<1>3. CASE StartFailsStep(t)
  BY <1>3 DEF StartFailsStep
<1>4. ASSUME NEW p \in Thread, NEW c \in Thread, ExecuteStep(t, p, c)
      PROVE  LateInv'
  BY <1>4 DEF ExecuteStep
<1>5. ASSUME NEW p \in Thread, NEW c \in Thread, ExecutedStep(t, p, c)
      PROVE  LateInv'
  BY <1>5 DEF ExecutedStep
<1>6. ASSUME NEW p \in Thread, NEW c \in Thread, NotExecutedStep(t, p, c)
      PROVE  LateInv'
  BY <1>6 DEF NotExecutedStep
<1>7. ASSUME NEW c \in Thread, FindStep(t, c)
      PROVE  LateInv'
  BY <1>7 DEF FindStep
<1>8. ASSUME NEW p \in Thread, NEW c \in Thread, RemoveStep(t, p, c)
      PROVE  LateInv'
  BY <1>8 DEF RemoveStep
<1>9. ASSUME NEW p \in Thread, NEW c \in Thread, ChildDeadStep(t, p, c)
      PROVE  LateInv'
  BY <1>9 DEF ChildDeadStep
<1>10. ASSUME NEW p \in Thread, NEW c \in Thread, ReapStep(t, p, c)
      PROVE  LateInv'
  BY <1>10 DEF ReapStep, Releases
<1>11. ASSUME NEW p \in Thread, NEW c \in Thread, ExecuteThreadStep(t, p, c)
      PROVE  LateInv'
  BY <1>11 DEF ExecuteThreadStep
<1>12. ASSUME NEW p \in Thread, NEW c \in Thread, ExecutedThreadStep(t, p, c)
      PROVE  LateInv'
  BY <1>12 DEF ExecutedThreadStep
<1>13. ASSUME NEW p \in Thread, NEW c \in Thread, JoinStep(t, p, c)
      PROVE  LateInv'
  BY <1>13 DEF JoinStep, Tests
<1>14. ASSUME NEW p \in Thread, NEW c \in Thread, BeginStep(t, p, c)
      PROVE  LateInv'
  BY <1>14 DEF BeginStep, Begins
<1>15. ASSUME NEW p \in Thread, NEW c \in Thread, JoinedStep(t, p, c)
      PROVE  LateInv'
  BY <1>15 DEF JoinedStep, Joined
<1>16. ASSUME NEW p \in Thread, StartThreadStep(t, p)
      PROVE  LateInv'
  BY <1>16 DEF StartThreadStep
<1>17. ASSUME NEW p \in Thread, LinkStep(t, p)
      PROVE  LateInv'
  BY <1>17 DEF LinkStep
<1>18. ASSUME NEW p \in Thread, SetupStep(t, p)
      PROVE  LateInv'
  BY <1>18 DEF SetupStep
<1>19. ASSUME NEW p \in Thread, SetupFailsStep(t, p)
      PROVE  LateInv'
  BY <1>19 DEF SetupFailsStep
<1>20. ASSUME NEW p \in Thread, ThreadExitStep(t, p)
      PROVE  LateInv'
  BY <1>20 DEF ThreadExitStep, Woken
<1>21. ASSUME NEW p \in Thread, GoneStep(t, p)
      PROVE  LateInv'
  BY <1>21 DEF GoneStep
<1>22. CASE MainExitStep(t)
  BY <1>22 DEF MainExitStep, Woken
<1>23. CASE ExitStep(t, "user")
  BY <1>23 DEF ExitStep, Woken
<1>24. CASE ExitStep(t, "exit_main")
  BY <1>24 DEF ExitStep, Woken
<1>25. ASSUME NEW c \in Thread, PassStep(t, c, "exit")
      PROVE  LateInv'
  BY <1>25 DEF PassStep
<1>26. ASSUME NEW c \in Thread, PassStep(t, c, "exit_main")
      PROVE  LateInv'
  BY <1>26 DEF PassStep
<1>27. ASSUME NEW c \in Thread, LoopJoinStep(t, c, "exit", "exit_joining")
      PROVE  LateInv'
  BY <1>27 DEF LoopJoinStep, Tests, StandsFor
<1>28. ASSUME NEW c \in Thread, LoopBeginStep(t, c, "exit_joining", "exit_join")
      PROVE  LateInv'
  BY <1>28 DEF LoopBeginStep, Begins, StandsFor
<1>29. ASSUME NEW c \in Thread, LoopJoinStep(t, c, "exit_main", "main_joining")
      PROVE  LateInv'
  BY <1>29 DEF LoopJoinStep, Tests, StandsFor
<1>30. ASSUME NEW c \in Thread, LoopBeginStep(t, c, "main_joining", "main_join")
      PROVE  LateInv'
  BY <1>30 DEF LoopBeginStep, Begins, StandsFor
<1>31. ASSUME NEW c \in Thread, LoopJoinedStep(t, c, "exit_join", "exit")
      PROVE  LateInv'
  BY <1>31 DEF LoopJoinedStep, Joined, StandsFor
<1>32. ASSUME NEW c \in Thread, LoopJoinedStep(t, c, "main_join", "exit_main")
      PROVE  LateInv'
  BY <1>32 DEF LoopJoinedStep, Joined, StandsFor
<1>33. ASSUME NEW c \in Thread, OrphanStep(t, c)
      PROVE  LateInv'
  BY <1>33 DEF OrphanStep, Releases
<1>34. ASSUME NEW c \in Thread, FreeStatusStep(t, c)
      PROVE  LateInv'
  BY <1>34 DEF FreeStatusStep
<1>35. CASE ChildlessStep(t)
  BY <1>35 DEF ChildlessStep
<1>36. CASE WakeStep(t)
  BY <1>36 DEF WakeStep
<1>37. CASE OwnStep(t)
  BY <1>37 DEF OwnStep, Releases
<1>38. CASE FreeStep(t)
  BY <1>38 DEF FreeStep
<1>39. CASE IdleStep
  BY <1>39 DEF IdleStep
<1> HIDE DEF Becomes, Acts, SameRecords, SameProcesses, SameElems, SameStatuses, LateInv,
        TreeInv, JoinInv, CreateInv, Late, Finished, Joining, Early, Working, Leaving, Live
<1> QED BY <1>1, <1>2, <1>3, <1>4, <1>5, <1>6, <1>7, <1>8, <1>9, <1>10, <1>11, <1>12,
           <1>13, <1>14, <1>15, <1>16, <1>17, <1>18, <1>19, <1>20, <1>21, <1>22, <1>23,
           <1>24, <1>25, <1>26, <1>27, <1>28, <1>29, <1>30, <1>31, <1>32, <1>33, <1>34,
           <1>35, <1>36, <1>37, <1>38, <1>39 DEF Step

\* process_execute returns: the child goes from its caller to the caller's process.
LEMMA ExecutedFamily ==
  ASSUME FamilyInv, TreeInv, LateInv, NEW t \in Thread, NEW p \in Thread, NEW c \in Thread,
         ExecutedStep(t, p, c)
  PROVE  FamilyInv'
<1>1. pc[p] \notin {"wait_status", "release", "free"}
  BY DEF LateInv, Finished, Late, ExecutedStep, Acts
<1>2. Holds(t, c) /\ c # Root /\ stateOf[c] # "none" /\ load[c] = "ok"
  BY DEF ExecutedStep, Acts, Holds, OnChild, FamilyInv
<1>3. \A q \in Thread : c \notin childrenOf[q]
  BY <1>2 DEF FamilyInv
<1>4. \A u, z \in Thread : Holds(u, z)' <=> (Holds(u, z) /\ u # t)
  BY Basics DEF Holds, OnChild, ExecutedStep, Becomes
<1>5. \A q, z \in Thread : z \in childrenOf'[q] <=> z \in childrenOf[q] \/ (q = p /\ z = c)
  BY DEF ExecutedStep, Becomes
<1>6. \A q \in Thread : q # p => childrenOf'[q] = childrenOf[q]
  BY DEF ExecutedStep, Becomes
<1>7. UNCHANGED <<stateOf, load>> /\ pc[t] = "load_done" /\ Becomes(pc, pc', t, "user") /\ Becomes(arg, arg', t, None)
  BY DEF ExecutedStep, Acts
<1>8. \A q \in Thread : pc'[q] \in {"wait_status", "release", "free"} => childrenOf'[q] = {}
  BY <1>1, <1>6, <1>7 DEF FamilyInv, Becomes
<1>9. \A z \in Thread : pc'[z] = "start_process" => \E u \in Thread : pc'[u] = "load_done" /\ arg'[u] = z
  <2>1. ASSUME NEW z \in Thread, pc'[z] = "start_process"
        PROVE  \E u \in Thread : pc'[u] = "load_done" /\ arg'[u] = z
    <3>1. pc[z] = "start_process" /\ z # c
      BY <1>2, <1>7, <2>1 DEF Becomes, TreeInv, Early
    <3>2. PICK u \in Thread : pc[u] = "load_done" /\ arg[u] = z
      BY <3>1 DEF FamilyInv
    <3>3. u # t
      BY <3>1, <3>2 DEF ExecutedStep
    <3> QED BY <1>7, <3>2, <3>3 DEF Becomes
  <2> QED BY <2>1
<1>10. \A u, z \in Thread : Holds(u, z)' =>
       /\ z # Root
       /\ pc'[u] = "load_done" /\ load'[z] = "pending" => pc'[z] = "start_process"
       /\ pc'[u] = "load_done" /\ load'[z] = "ok" => stateOf'[z] # "none"
       /\ pc'[u] \in {"dead", "reap"} => load'[z] = "ok" /\ stateOf'[z] # "none"
  BY <1>4, <1>7 DEF FamilyInv, Becomes
<1>11. \A q, z \in Thread : z \in childrenOf'[q] =>
       /\ z # Root /\ stateOf'[z] # "none" /\ load'[z] = "ok"
       /\ \A r \in Thread : z \in childrenOf'[r] => q = r
       /\ \A u \in Thread : ~ Holds(u, z)'
  BY <1>2, <1>3, <1>4, <1>5, <1>7 DEF FamilyInv
<1>12. \A u \in Thread : pc'[u] \in OnChild => arg'[u] # None
  BY <1>7 DEF FamilyInv, Becomes, OnChild
<1>13. \A u, v, z \in Thread : Holds(u, z)' /\ Holds(v, z)' => u = v
  BY <1>4 DEF FamilyInv
<1>14. \A u \in Thread : pc'[u] = "wait" => pcb'[u] = u /\ arg'[u] \in childrenOf'[u]
  <2>1. pcb' = pcb
    BY DEF ExecutedStep
  <2>2. \A u \in Thread : pc'[u] = "wait" => u # t /\ pc[u] = "wait" /\ arg'[u] = arg[u]
    BY <1>7 DEF Becomes
  <2>3. \A u \in Thread : childrenOf[u] \subseteq childrenOf'[u]
    BY DEF ExecutedStep, Becomes
  <2> QED BY <2>1, <2>2, <2>3 DEF FamilyInv
<1> QED BY <1>8, <1>9, <1>10, <1>11, <1>12, <1>13, <1>14 DEF FamilyInv

\* start_process: its creator waits for it still.
LEMMA StartFamily ==
  ASSUME FamilyInv, TreeInv, CreateInv, NEW t \in Thread, StartStep(t)
  PROVE  FamilyInv'
<1>1. pc[t] = "start_process" /\ load[t] = "pending" /\ childrenOf[t] = {} /\ stateOf[t] = "none"
  <2>1. pc[t] \in Early /\ pc[t] = "start_process"
    BY DEF StartStep, Early
  <2>2. stateOf[t] = "none"
    BY <2>1 DEF TreeInv
  <2> QED BY <2>1, <2>2 DEF TreeInv, CreateInv, Live
<1>2. /\ Becomes(pc, pc', t, "user") /\ Becomes(load, load', t, "ok") /\ arg' = arg
      /\ Becomes(stateOf, stateOf', t, "live") /\ Becomes(childrenOf, childrenOf', t, {})
  BY DEF StartStep
<1>3. \A q \in Thread : childrenOf'[q] = childrenOf[q]
  BY <1>1, <1>2 DEF Becomes
<1>4. \A u, z \in Thread : Holds(u, z)' <=> Holds(u, z)
  BY <1>1, <1>2 DEF Becomes, Holds, OnChild
<1>5. \A z \in Thread : stateOf[z] # "none" => stateOf'[z] # "none"
  BY <1>2 DEF Becomes
<1>6. \A q \in Thread : pc'[q] \in {"wait_status", "release", "free"} => childrenOf'[q] = {}
  BY <1>2, <1>3 DEF FamilyInv, Becomes
<1>7. \A q, z \in Thread : z \in childrenOf'[q] =>
        /\ z # Root /\ stateOf'[z] # "none" /\ load'[z] = "ok"
        /\ \A r \in Thread : z \in childrenOf'[r] => q = r
        /\ \A u \in Thread : ~ Holds(u, z)'
  BY <1>1, <1>2, <1>3, <1>4, <1>5 DEF FamilyInv, Becomes
<1>8. \A u \in Thread : pc'[u] \in OnChild => arg'[u] # None
  BY <1>2 DEF FamilyInv, Becomes, OnChild
<1>9. \A u, v, z \in Thread : Holds(u, z)' /\ Holds(v, z)' => u = v
  BY <1>4 DEF FamilyInv
<1>10. \A u, z \in Thread : Holds(u, z)' =>
         /\ z # Root
         /\ pc'[u] = "load_done" /\ load'[z] = "pending" => pc'[z] = "start_process"
         /\ pc'[u] = "load_done" /\ load'[z] = "ok" => stateOf'[z] # "none"
         /\ pc'[u] \in {"dead", "reap"} => load'[z] = "ok" /\ stateOf'[z] # "none"
  <2> SUFFICES ASSUME NEW u \in Thread, NEW z \in Thread, Holds(u, z)'
               PROVE  /\ z # Root
                      /\ pc'[u] = "load_done" /\ load'[z] = "pending" => pc'[z] = "start_process"
                      /\ pc'[u] = "load_done" /\ load'[z] = "ok" => stateOf'[z] # "none"
                      /\ pc'[u] \in {"dead", "reap"} => load'[z] = "ok" /\ stateOf'[z] # "none"
    OBVIOUS
  <2>1. Holds(u, z) /\ u # t /\ pc'[u] = pc[u]
    BY <1>1, <1>2, <1>4 DEF Becomes, Holds, OnChild
  <2>2. CASE z = t
    <3>1. load'[t] = "ok" /\ stateOf'[t] = "live"
      BY <1>2 DEF Becomes
    <3> QED BY <2>1, <2>2, <3>1 DEF FamilyInv
  <2>3. CASE z # t
    <3>1. load'[z] = load[z] /\ stateOf'[z] = stateOf[z] /\ pc'[z] = pc[z]
      BY <1>2, <2>3 DEF Becomes
    <3> QED BY <2>1, <3>1 DEF FamilyInv
  <2> QED BY <2>2, <2>3
<1>11. \A z \in Thread : pc'[z] = "start_process" =>
         \E u \in Thread : pc'[u] = "load_done" /\ arg'[u] = z
  BY <1>1, <1>2 DEF FamilyInv, Becomes
<1>12. \A u \in Thread : pc'[u] = "wait" => pcb'[u] = u /\ arg'[u] \in childrenOf'[u]
  <2>1. \A u \in Thread : pc'[u] = "wait" => u # t /\ pc[u] = "wait" /\ arg'[u] = arg[u]
    BY <1>2 DEF Becomes
  <2>2. \A u \in Thread : u # t => pcb'[u] = pcb[u]
    BY DEF StartStep, Becomes
  <2> QED BY <1>3, <2>1, <2>2 DEF FamilyInv
<1> QED BY <1>6, <1>7, <1>8, <1>9, <1>10, <1>11, <1>12 DEF FamilyInv

\* Every step leaves a process one parent.
LEMMA FamilyKept ==
  ASSUME FamilyInv, TreeInv, CreateInv, LateInv, NEW t \in Thread, Step(t)
  PROVE  FamilyInv'
<1>1. ASSUME NEW p \in Thread, NEW c \in Thread, ExecutedStep(t, p, c)
      PROVE  FamilyInv'
  BY <1>1, ExecutedFamily
<1>2. CASE StartStep(t)
  BY <1>2, StartFamily
<1> USE Basics DEF Becomes, Acts, SameRecords, SameProcesses, SameElems, SameStatuses,
        FamilyInv, TreeInv, CreateInv, Holds, OnChild, Early, Working, Leaving, Live
<1>3. CASE StartFailsStep(t)
  BY <1>3 DEF StartFailsStep
<1>4. ASSUME NEW p \in Thread, NEW c \in Thread, ExecuteStep(t, p, c)
      PROVE  FamilyInv'
  BY <1>4 DEF ExecuteStep
<1>5. ASSUME NEW p \in Thread, NEW c \in Thread, NotExecutedStep(t, p, c)
      PROVE  FamilyInv'
  BY <1>5 DEF NotExecutedStep
<1>6. ASSUME NEW c \in Thread, FindStep(t, c)
      PROVE  FamilyInv'
  BY <1>6 DEF FindStep
<1>7. ASSUME NEW p \in Thread, NEW c \in Thread, RemoveStep(t, p, c)
      PROVE  FamilyInv'
  BY <1>7 DEF RemoveStep
<1>8. ASSUME NEW p \in Thread, NEW c \in Thread, ChildDeadStep(t, p, c)
      PROVE  FamilyInv'
  BY <1>8 DEF ChildDeadStep
<1>9. ASSUME NEW p \in Thread, NEW c \in Thread, ReapStep(t, p, c)
      PROVE  FamilyInv'
  BY <1>9 DEF ReapStep, Releases
<1>10. ASSUME NEW p \in Thread, NEW c \in Thread, ExecuteThreadStep(t, p, c)
      PROVE  FamilyInv'
  BY <1>10 DEF ExecuteThreadStep
<1>11. ASSUME NEW p \in Thread, NEW c \in Thread, ExecutedThreadStep(t, p, c)
      PROVE  FamilyInv'
  BY <1>11 DEF ExecutedThreadStep
<1>12. ASSUME NEW p \in Thread, NEW c \in Thread, JoinStep(t, p, c)
      PROVE  FamilyInv'
  BY <1>12 DEF JoinStep, Tests
<1>13. ASSUME NEW p \in Thread, NEW c \in Thread, BeginStep(t, p, c)
      PROVE  FamilyInv'
  BY <1>13 DEF BeginStep, Begins
<1>14. ASSUME NEW p \in Thread, NEW c \in Thread, JoinedStep(t, p, c)
      PROVE  FamilyInv'
  BY <1>14 DEF JoinedStep, Joined
<1>15. ASSUME NEW p \in Thread, StartThreadStep(t, p)
      PROVE  FamilyInv'
  BY <1>15 DEF StartThreadStep
<1>16. ASSUME NEW p \in Thread, LinkStep(t, p)
      PROVE  FamilyInv'
  BY <1>16 DEF LinkStep
<1>17. ASSUME NEW p \in Thread, SetupStep(t, p)
      PROVE  FamilyInv'
  BY <1>17 DEF SetupStep
<1>18. ASSUME NEW p \in Thread, SetupFailsStep(t, p)
      PROVE  FamilyInv'
  BY <1>18 DEF SetupFailsStep
<1>19. ASSUME NEW p \in Thread, ThreadExitStep(t, p)
      PROVE  FamilyInv'
  BY <1>19 DEF ThreadExitStep, Woken
<1>20. ASSUME NEW p \in Thread, GoneStep(t, p)
      PROVE  FamilyInv'
  BY <1>20 DEF GoneStep
<1>21. CASE MainExitStep(t)
  BY <1>21 DEF MainExitStep, Woken
<1>22. CASE ExitStep(t, "user")
  BY <1>22 DEF ExitStep, Woken
<1>23. CASE ExitStep(t, "exit_main")
  BY <1>23 DEF ExitStep, Woken
<1>24. ASSUME NEW c \in Thread, PassStep(t, c, "exit")
      PROVE  FamilyInv'
  BY <1>24 DEF PassStep
<1>25. ASSUME NEW c \in Thread, PassStep(t, c, "exit_main")
      PROVE  FamilyInv'
  BY <1>25 DEF PassStep
<1>26. ASSUME NEW c \in Thread, LoopJoinStep(t, c, "exit", "exit_joining")
      PROVE  FamilyInv'
  BY <1>26 DEF LoopJoinStep, Tests, StandsFor
<1>27. ASSUME NEW c \in Thread, LoopBeginStep(t, c, "exit_joining", "exit_join")
      PROVE  FamilyInv'
  BY <1>27 DEF LoopBeginStep, Begins, StandsFor
<1>28. ASSUME NEW c \in Thread, LoopJoinStep(t, c, "exit_main", "main_joining")
      PROVE  FamilyInv'
  BY <1>28 DEF LoopJoinStep, Tests, StandsFor
<1>29. ASSUME NEW c \in Thread, LoopBeginStep(t, c, "main_joining", "main_join")
      PROVE  FamilyInv'
  BY <1>29 DEF LoopBeginStep, Begins, StandsFor
<1>30. ASSUME NEW c \in Thread, LoopJoinedStep(t, c, "exit_join", "exit")
      PROVE  FamilyInv'
  BY <1>30 DEF LoopJoinedStep, Joined, StandsFor
<1>31. ASSUME NEW c \in Thread, LoopJoinedStep(t, c, "main_join", "exit_main")
      PROVE  FamilyInv'
  BY <1>31 DEF LoopJoinedStep, Joined, StandsFor
<1>32. ASSUME NEW c \in Thread, OrphanStep(t, c)
      PROVE  FamilyInv'
  BY <1>32 DEF OrphanStep, Releases
<1>33. ASSUME NEW c \in Thread, FreeStatusStep(t, c)
      PROVE  FamilyInv'
  BY <1>33 DEF FreeStatusStep
<1>34. CASE TablesStep(t)
  BY <1>34 DEF TablesStep
<1>35. CASE ChildlessStep(t)
  BY <1>35 DEF ChildlessStep
<1>36. CASE WakeStep(t)
  BY <1>36 DEF WakeStep
<1>37. CASE OwnStep(t)
  BY <1>37 DEF OwnStep, Releases
<1>38. CASE FreeStep(t)
  BY <1>38 DEF FreeStep
<1>39. CASE IdleStep
  BY <1>39 DEF IdleStep
<1> HIDE DEF Becomes, Acts, SameRecords, SameProcesses, SameElems, SameStatuses, FamilyInv,
        TreeInv, CreateInv, Holds, OnChild, Early, Working, Leaving, Live
<1> QED BY <1>1, <1>2, <1>3, <1>4, <1>5, <1>6, <1>7, <1>8, <1>9, <1>10, <1>11, <1>12,
           <1>13, <1>14, <1>15, <1>16, <1>17, <1>18, <1>19, <1>20, <1>21, <1>22, <1>23,
           <1>24, <1>25, <1>26, <1>27, <1>28, <1>29, <1>30, <1>31, <1>32, <1>33, <1>34,
           <1>35, <1>36, <1>37, <1>38, <1>39 DEF Step

\* The exit status is written before dead goes up, and read once.
LEMMA StatusKept ==
  ASSUME StatusInv, FamilyInv, TreeInv, CreateInv, NEW t \in Thread, Step(t)
  PROVE  StatusInv'
<1> USE Basics DEF Becomes, Acts, SameRecords, SameProcesses, SameElems, SameStatuses,
        StatusInv, FamilyInv, TreeInv, CreateInv, Holds, OnChild, Early, Working, Leaving, Live
<1>1. CASE StartStep(t)
  BY <1>1 DEF StartStep
<1>2. CASE StartFailsStep(t)
  BY <1>2 DEF StartFailsStep
<1>3. ASSUME NEW p \in Thread, NEW c \in Thread, ExecuteStep(t, p, c)
      PROVE  StatusInv'
  BY <1>3 DEF ExecuteStep
<1>4. ASSUME NEW p \in Thread, NEW c \in Thread, ExecutedStep(t, p, c)
      PROVE  StatusInv'
  BY <1>4 DEF ExecutedStep
<1>5. ASSUME NEW p \in Thread, NEW c \in Thread, NotExecutedStep(t, p, c)
      PROVE  StatusInv'
  BY <1>5 DEF NotExecutedStep
<1>6. ASSUME NEW c \in Thread, FindStep(t, c)
      PROVE  StatusInv'
  BY <1>6 DEF FindStep
<1>7. ASSUME NEW p \in Thread, NEW c \in Thread, RemoveStep(t, p, c)
      PROVE  StatusInv'
  BY <1>7 DEF RemoveStep
<1>8. ASSUME NEW p \in Thread, NEW c \in Thread, ChildDeadStep(t, p, c)
      PROVE  StatusInv'
  BY <1>8 DEF ChildDeadStep
<1>9. ASSUME NEW p \in Thread, NEW c \in Thread, ReapStep(t, p, c)
      PROVE  StatusInv'
  BY <1>9 DEF ReapStep, Releases
<1>10. ASSUME NEW p \in Thread, NEW c \in Thread, ExecuteThreadStep(t, p, c)
      PROVE  StatusInv'
  BY <1>10 DEF ExecuteThreadStep
<1>11. ASSUME NEW p \in Thread, NEW c \in Thread, ExecutedThreadStep(t, p, c)
      PROVE  StatusInv'
  BY <1>11 DEF ExecutedThreadStep
<1>12. ASSUME NEW p \in Thread, NEW c \in Thread, JoinStep(t, p, c)
      PROVE  StatusInv'
  BY <1>12 DEF JoinStep, Tests
<1>13. ASSUME NEW p \in Thread, NEW c \in Thread, BeginStep(t, p, c)
      PROVE  StatusInv'
  BY <1>13 DEF BeginStep, Begins
<1>14. ASSUME NEW p \in Thread, NEW c \in Thread, JoinedStep(t, p, c)
      PROVE  StatusInv'
  BY <1>14 DEF JoinedStep, Joined
<1>15. ASSUME NEW p \in Thread, StartThreadStep(t, p)
      PROVE  StatusInv'
  BY <1>15 DEF StartThreadStep
<1>16. ASSUME NEW p \in Thread, LinkStep(t, p)
      PROVE  StatusInv'
  BY <1>16 DEF LinkStep
<1>17. ASSUME NEW p \in Thread, SetupStep(t, p)
      PROVE  StatusInv'
  BY <1>17 DEF SetupStep
<1>18. ASSUME NEW p \in Thread, SetupFailsStep(t, p)
      PROVE  StatusInv'
  BY <1>18 DEF SetupFailsStep
<1>19. ASSUME NEW p \in Thread, ThreadExitStep(t, p)
      PROVE  StatusInv'
  BY <1>19 DEF ThreadExitStep, Woken
<1>20. ASSUME NEW p \in Thread, GoneStep(t, p)
      PROVE  StatusInv'
  BY <1>20 DEF GoneStep
<1>21. CASE MainExitStep(t)
  BY <1>21 DEF MainExitStep, Woken
<1>22. CASE ExitStep(t, "user")
  BY <1>22 DEF ExitStep, Woken
<1>23. CASE ExitStep(t, "exit_main")
  BY <1>23 DEF ExitStep, Woken
<1>24. ASSUME NEW c \in Thread, PassStep(t, c, "exit")
      PROVE  StatusInv'
  BY <1>24 DEF PassStep
<1>25. ASSUME NEW c \in Thread, PassStep(t, c, "exit_main")
      PROVE  StatusInv'
  BY <1>25 DEF PassStep
<1>26. ASSUME NEW c \in Thread, LoopJoinStep(t, c, "exit", "exit_joining")
      PROVE  StatusInv'
  BY <1>26 DEF LoopJoinStep, Tests, StandsFor
<1>27. ASSUME NEW c \in Thread, LoopBeginStep(t, c, "exit_joining", "exit_join")
      PROVE  StatusInv'
  BY <1>27 DEF LoopBeginStep, Begins, StandsFor
<1>28. ASSUME NEW c \in Thread, LoopJoinStep(t, c, "exit_main", "main_joining")
      PROVE  StatusInv'
  BY <1>28 DEF LoopJoinStep, Tests, StandsFor
<1>29. ASSUME NEW c \in Thread, LoopBeginStep(t, c, "main_joining", "main_join")
      PROVE  StatusInv'
  BY <1>29 DEF LoopBeginStep, Begins, StandsFor
<1>30. ASSUME NEW c \in Thread, LoopJoinedStep(t, c, "exit_join", "exit")
      PROVE  StatusInv'
  BY <1>30 DEF LoopJoinedStep, Joined, StandsFor
<1>31. ASSUME NEW c \in Thread, LoopJoinedStep(t, c, "main_join", "exit_main")
      PROVE  StatusInv'
  BY <1>31 DEF LoopJoinedStep, Joined, StandsFor
<1>32. ASSUME NEW c \in Thread, OrphanStep(t, c)
      PROVE  StatusInv'
  BY <1>32 DEF OrphanStep, Releases
<1>33. ASSUME NEW c \in Thread, FreeStatusStep(t, c)
      PROVE  StatusInv'
  BY <1>33 DEF FreeStatusStep
<1>34. CASE TablesStep(t)
  BY <1>34 DEF TablesStep
<1>35. CASE ChildlessStep(t)
  BY <1>35 DEF ChildlessStep
<1>36. CASE WakeStep(t)
  BY <1>36 DEF WakeStep
<1>37. CASE OwnStep(t)
  BY <1>37 DEF OwnStep, Releases
<1>38. CASE FreeStep(t)
  BY <1>38 DEF FreeStep
<1>39. CASE IdleStep
  BY <1>39 DEF IdleStep
<1> HIDE DEF Becomes, Acts, SameRecords, SameProcesses, SameElems, SameStatuses, StatusInv,
        FamilyInv, TreeInv, CreateInv, Holds, OnChild, Early, Working, Leaving, Live
<1> QED BY <1>1, <1>2, <1>3, <1>4, <1>5, <1>6, <1>7, <1>8, <1>9, <1>10, <1>11, <1>12,
           <1>13, <1>14, <1>15, <1>16, <1>17, <1>18, <1>19, <1>20, <1>21, <1>22, <1>23,
           <1>24, <1>25, <1>26, <1>27, <1>28, <1>29, <1>30, <1>31, <1>32, <1>33, <1>34,
           <1>35, <1>36, <1>37, <1>38, <1>39 DEF Step

\* Where the holders stay the same, the count does.
LEMMA RefStays ==
  ASSUME RefInv, SameHolders
  PROVE  RefInv'
<1>1. \A t \in Thread : freeing'[t] # Root
  BY DEF RefInv, SameHolders
<1>2. ASSUME NEW c \in Thread, c # Root
      PROVE  /\ liveOf'[c] => /\ refOf'[c] = Holders(c)'
                              /\ (\E t \in Thread : freeing'[t] = c) <=> refOf'[c] = 0
             /\ ~ liveOf'[c] => /\ refOf'[c] \in 0 .. 2
                                /\ \A t \in Thread : freeing'[t] # c
                                /\ Holders(c)' = 0 \/ pc'[c] = "start_process"
             /\ \A t, u \in Thread : freeing'[t] = c /\ freeing'[u] = c => t = u
  BY <1>2 DEF RefInv, SameHolders, Holders
<1> QED BY <1>1, <1>2 DEF RefInv

\* start_process: two holders, the parent's call and the process.
LEMMA StartRef ==
  ASSUME RefInv, TreeInv, FamilyInv, StatusInv, NEW t \in Thread, StartStep(t)
  PROVE  RefInv'
<1>1. t # Root /\ ~ liveOf[t] /\ pc[t] = "start_process"
  BY DEF StartStep, TreeInv, Working, StatusInv, Early
<1>2. UNCHANGED freeing /\ \A u \in Thread : freeing[u] # t
  BY <1>1 DEF RefInv, StartStep
<1>3. Self(t)' /\ Parent(t)'
  <2>1. PICK u \in Thread : pc[u] = "load_done" /\ arg[u] = t
    BY <1>1 DEF FamilyInv
  <2>2. Holds(u, t)' /\ load'[t] = "ok"
    BY <1>1, <2>1 DEF StartStep, Becomes, Holds, OnChild
  <2> QED BY <1>1, <2>2 DEF StartStep, Becomes, Self, Parent, Live
<1>4. Holders(t)' = 2 /\ liveOf'[t] /\ refOf'[t] = 2
  BY <1>3 DEF Holders, StartStep, Becomes
<1>5. ASSUME NEW c \in Thread, c # Root, c # t
      PROVE  /\ refOf'[c] = refOf[c] /\ liveOf'[c] = liveOf[c] /\ Holders(c)' = Holders(c)
             /\ pc[c] = "start_process" => pc'[c] = "start_process"
  <2>1. /\ refOf'[c] = refOf[c] /\ liveOf'[c] = liveOf[c] /\ (Self(c)' <=> Self(c))
        /\ pc[c] = "start_process" => pc'[c] = "start_process"
    BY <1>5 DEF StartStep, Becomes, Self, Live
  <2>2. \A q \in Thread : c \in childrenOf'[q] <=> c \in childrenOf[q]
    BY <1>1 DEF StartStep, Becomes, TreeInv, Early, Live
  <2>3. \A u \in Thread : Holds(u, c)' <=> Holds(u, c)
    BY <1>1 DEF StartStep, Becomes, Holds, OnChild
  <2>4. load'[c] = load[c] /\ \A u \in Thread : Holds(u, c) => pc'[u] = pc[u]
    BY <1>1, <1>5 DEF StartStep, Becomes, Holds, OnChild
  <2>5. Parent(c)' <=> Parent(c)
    BY <2>2, <2>3, <2>4 DEF Parent
  <2> QED BY <2>1, <2>5 DEF Holders
<1>6. ASSUME NEW c \in Thread, c # Root
      PROVE  /\ liveOf'[c] => /\ refOf'[c] = Holders(c)'
                              /\ (\E u \in Thread : freeing'[u] = c) <=> refOf'[c] = 0
             /\ ~ liveOf'[c] => /\ refOf'[c] \in 0 .. 2
                                /\ \A u \in Thread : freeing'[u] # c
                                /\ Holders(c)' = 0 \/ pc'[c] = "start_process"
             /\ \A v, u \in Thread : freeing'[v] = c /\ freeing'[u] = c => v = u
  <2>1. CASE c = t
    BY <1>2, <1>4, <2>1
  <2>2. CASE c # t
    BY <1>2, <1>5, <1>6, <2>2 DEF RefInv
  <2> QED BY <2>1, <2>2
<1> QED BY <1>2, <1>6 DEF RefInv

\* A holder that there is gives up its reference, and frees the record if nobody else has one.
LEMMA ReleaseRef ==
  ASSUME RefInv, NEW t \in Thread, NEW c \in Thread, freeing[t] = None, c # Root, Releases(t, c),
         UNCHANGED liveOf,
         \A z \in Thread : pc[z] = "start_process" => pc'[z] = "start_process",
         \A z \in Thread : z # c /\ z # Root => (Parent(z)' <=> Parent(z)) /\ (Self(z)' <=> Self(z)),
         \/ Parent(c) /\ ~ Parent(c)' /\ (Self(c)' <=> Self(c))
         \/ Self(c) /\ ~ Self(c)' /\ (Parent(c)' <=> Parent(c)),
         pc[c] # "start_process"
  PROVE  RefInv'
<1>1. liveOf[c] /\ refOf[c] = Holders(c) /\ refOf[c] \in {1, 2} /\ Holders(c)' = refOf[c] - 1
  BY DEF RefInv, Holders
<1>2. refOf'[c] = refOf[c] - 1 /\ liveOf'[c] /\ \A u \in Thread : freeing[u] # c
  BY <1>1 DEF RefInv, Releases, Becomes
<1>3. \A z \in Thread : z # c => refOf'[z] = refOf[z]
  BY DEF Releases, Becomes
<1>4. \A u \in Thread : u # t => freeing'[u] = freeing[u]
  BY DEF Releases, Becomes
<1>5. freeing'[t] = IF refOf[c] = 1 THEN c ELSE None
  BY DEF Releases, Becomes
<1>6. \A z \in Thread : z # c /\ z # Root => Holders(z)' = Holders(z)
  BY DEF Holders
<1>7. \A u \in Thread : freeing'[u] # Root
  BY <1>4, <1>5, Basics DEF RefInv
<1>8. ASSUME NEW z \in Thread, z # Root
      PROVE  /\ liveOf'[z] => /\ refOf'[z] = Holders(z)'
                              /\ (\E u \in Thread : freeing'[u] = z) <=> refOf'[z] = 0
             /\ ~ liveOf'[z] => /\ refOf'[z] \in 0 .. 2
                                /\ \A u \in Thread : freeing'[u] # z
                                /\ Holders(z)' = 0 \/ pc'[z] = "start_process"
             /\ \A v, u \in Thread : freeing'[v] = z /\ freeing'[u] = z => v = u
  <2>1. CASE z = c
    BY <1>1, <1>2, <1>4, <1>5, <2>1, Basics
  <2>2. CASE z # c
    <3>1. \A u \in Thread : freeing'[u] = z <=> freeing[u] = z
      BY <1>4, <1>5, <2>2, Basics
    <3> QED BY <1>3, <1>6, <1>8, <2>2, <3>1 DEF RefInv
  <2> QED BY <2>1, <2>2
<1> QED BY <1>7, <1>8 DEF RefInv

\* free(): nobody holds the record any more.
LEMMA FreeStatusRef ==
  ASSUME RefInv, NEW t \in Thread, NEW c \in Thread, FreeStatusStep(t, c)
  PROVE  RefInv'
<1>1. freeing[t] = c /\ c # Root /\ liveOf[c] /\ refOf[c] = 0 /\ Holders(c) = 0
  BY Basics DEF RefInv, FreeStatusStep
<1>2. /\ \A u \in Thread : freeing'[u] # c
      /\ \A u, z \in Thread : z # c => (freeing'[u] = z <=> freeing[u] = z)
  BY <1>1, Basics DEF RefInv, FreeStatusStep, Becomes
<1>3. UNCHANGED <<pc, refOf>> /\ ~ liveOf'[c] /\ \A z \in Thread : z # c => liveOf'[z] = liveOf[z]
  BY DEF FreeStatusStep, Becomes
<1>4. \A z \in Thread : Holders(z)' = Holders(z)
  BY DEF FreeStatusStep, SameProcesses, Holders, Parent, Self, Holds, Live
<1>5. ASSUME NEW z \in Thread, z # Root
      PROVE  /\ liveOf'[z] => /\ refOf'[z] = Holders(z)'
                              /\ (\E u \in Thread : freeing'[u] = z) <=> refOf'[z] = 0
             /\ ~ liveOf'[z] => /\ refOf'[z] \in 0 .. 2
                                /\ \A u \in Thread : freeing'[u] # z
                                /\ Holders(z)' = 0 \/ pc'[z] = "start_process"
             /\ \A v, u \in Thread : freeing'[v] = z /\ freeing'[u] = z => v = u
  BY <1>1, <1>2, <1>3, <1>4, <1>5 DEF RefInv
<1>6. \A u \in Thread : freeing'[u] # Root
  BY Basics DEF RefInv, FreeStatusStep, Becomes
<1> QED BY <1>5, <1>6 DEF RefInv

\* The parent's reference is dropped in process_wait.
LEMMA ReapRef ==
  ASSUME RefInv, TreeInv, FamilyInv, NEW t \in Thread, NEW p \in Thread, NEW c \in Thread,
         ReapStep(t, p, c)
  PROVE  RefInv'
<1>1. Holds(t, c) /\ c # Root /\ pc[t] = "reap" /\ pc[c] # "start_process"
  BY DEF ReapStep, Acts, Holds, OnChild, FamilyInv, TreeInv, Early
<1>2. \A u, z \in Thread : Holds(u, z)' <=> Holds(u, z) /\ u # t
  BY Basics DEF ReapStep, Becomes, Holds, OnChild
<1>3. Parent(c) /\ ~ Parent(c)'
  BY <1>1, <1>2 DEF Parent, FamilyInv, ReapStep, SameProcesses
<1>4. /\ \A u \in Thread : u # t => pc'[u] = pc[u]
      /\ UNCHANGED <<childrenOf, load, stateOf, liveOf>> /\ pc'[t] = "user" /\ freeing[t] = None /\ Releases(t, c)
  BY DEF ReapStep, Becomes, SameProcesses, Acts
<1>5. \A z \in Thread : z # c => (Parent(z)' <=> Parent(z))
  BY <1>1, <1>2, <1>4 DEF Parent, Holds
<1>6. \A z \in Thread : (Self(z)' <=> Self(z)) /\ (pc[z] = "start_process" => pc'[z] = "start_process")
  BY <1>1, <1>4 DEF Self, Live
<1> QED BY <1>1, <1>3, <1>4, <1>5, <1>6, ReleaseRef

\* The parent's reference is dropped at its exit.
LEMMA OrphanRef ==
  ASSUME RefInv, TreeInv, FamilyInv, NEW t \in Thread, NEW c \in Thread, OrphanStep(t, c)
  PROVE  RefInv'
<1>1. /\ c \in childrenOf[t] /\ c # Root /\ pc[c] # "start_process" /\ \A u \in Thread : ~ Holds(u, c)
  BY DEF OrphanStep, FamilyInv, TreeInv, Early
<1>2. UNCHANGED <<pc, arg, load, stateOf, liveOf>> /\ freeing[t] = None /\ Releases(t, c)
  BY DEF OrphanStep, Acts
<1>3. \A q, z \in Thread : z \in childrenOf'[q] <=> z \in childrenOf[q] /\ ~ (q = t /\ z = c)
  BY DEF OrphanStep, Becomes
<1>4. Parent(c) /\ ~ Parent(c)'
  BY <1>1, <1>2, <1>3 DEF Parent, FamilyInv, Holds
<1>5. \A z \in Thread : z # c => (Parent(z)' <=> Parent(z))
  BY <1>2, <1>3 DEF Parent, Holds
<1>6. \A z \in Thread : (Self(z)' <=> Self(z)) /\ (pc[z] = "start_process" => pc'[z] = "start_process")
  BY <1>2 DEF Self, Live
<1> QED BY <1>1, <1>2, <1>4, <1>5, <1>6, ReleaseRef

\* The process's own reference is dropped at its exit.
LEMMA OwnRef ==
  ASSUME RefInv, TreeInv, FamilyInv, NEW t \in Thread, OwnStep(t)
  PROVE  RefInv'
<1>1. pc[t] = "release" /\ Live(t) /\ t # Root
  BY DEF OwnStep, Acts, TreeInv, Working
<1>2. /\ \A u \in Thread : u # t => pc'[u] = pc[u]
      /\ UNCHANGED <<arg, childrenOf, load, stateOf, liveOf>> /\ pc'[t] = "free" /\ freeing[t] = None /\ Releases(t, t)
  BY DEF OwnStep, Acts, Becomes, SameProcesses
<1>3. \A u, z \in Thread : (Holds(u, z)' <=> Holds(u, z)) /\ (Holds(u, z) => u # t)
  BY <1>1, <1>2 DEF Holds, OnChild
<1>4. \A z \in Thread : Parent(z)' <=> Parent(z)
  BY <1>2, <1>3 DEF Parent
<1>5. Self(t) /\ ~ Self(t)' /\ \A z \in Thread : z # t => (Self(z)' <=> Self(z))
  BY <1>1, <1>2 DEF Self, Live
<1>6. \A z \in Thread : pc[z] = "start_process" => pc'[z] = "start_process"
  BY <1>1, <1>2
<1> QED BY <1>1, <1>2, <1>4, <1>5, <1>6, ReleaseRef

\* Every step counts the holders of a wait_status.
LEMMA RefKept ==
  ASSUME RefInv, FamilyInv, TreeInv, StatusInv, CreateInv, NEW t \in Thread, Step(t)
  PROVE  RefInv'
<1>1. ASSUME StartStep(t)
      PROVE  RefInv'
  BY <1>1, StartRef
<1>2. ASSUME NEW p \in Thread, NEW c \in Thread, ReapStep(t, p, c)
      PROVE  RefInv'
  BY <1>2, ReapRef
<1>3. ASSUME NEW c \in Thread, FreeStatusStep(t, c)
      PROVE  RefInv'
  BY <1>3, FreeStatusRef
<1>4. ASSUME NEW c \in Thread, OrphanStep(t, c)
      PROVE  RefInv'
  BY <1>4, OrphanRef
<1>5. ASSUME OwnStep(t)
      PROVE  RefInv'
  BY <1>5, OwnRef
<1> USE Basics DEF Becomes, Acts, SameRecords, SameProcesses, SameElems, SameStatuses,
        FamilyInv, TreeInv, StatusInv, CreateInv, Holds, OnChild, SameHolders, Parent, Self,
        Early, Working, Leaving, Live
<1>6. ASSUME StartFailsStep(t)
      PROVE  SameHolders
  BY <1>6 DEF StartFailsStep
<1>7. ASSUME NEW p \in Thread, NEW c \in Thread, ExecuteStep(t, p, c)
      PROVE  SameHolders
  BY <1>7 DEF ExecuteStep
<1>8. ASSUME NEW p \in Thread, NEW c \in Thread, ExecutedStep(t, p, c)
      PROVE  SameHolders
  BY <1>8 DEF ExecutedStep
<1>9. ASSUME NEW p \in Thread, NEW c \in Thread, NotExecutedStep(t, p, c)
      PROVE  SameHolders
  BY <1>9 DEF NotExecutedStep
<1>10. ASSUME NEW c \in Thread, FindStep(t, c)
      PROVE  SameHolders
  BY <1>10 DEF FindStep
<1>11. ASSUME NEW p \in Thread, NEW c \in Thread, RemoveStep(t, p, c)
      PROVE  SameHolders
  BY <1>11 DEF RemoveStep
<1>12. ASSUME NEW p \in Thread, NEW c \in Thread, ChildDeadStep(t, p, c)
      PROVE  SameHolders
  BY <1>12 DEF ChildDeadStep
<1>13. ASSUME NEW p \in Thread, NEW c \in Thread, ExecuteThreadStep(t, p, c)
      PROVE  SameHolders
  BY <1>13 DEF ExecuteThreadStep
<1>14. ASSUME NEW p \in Thread, NEW c \in Thread, ExecutedThreadStep(t, p, c)
      PROVE  SameHolders
  BY <1>14 DEF ExecutedThreadStep
<1>15. ASSUME NEW p \in Thread, NEW c \in Thread, JoinStep(t, p, c)
      PROVE  SameHolders
  BY <1>15 DEF JoinStep, Tests
<1>16. ASSUME NEW p \in Thread, NEW c \in Thread, BeginStep(t, p, c)
      PROVE  SameHolders
  BY <1>16 DEF BeginStep, Begins
<1>17. ASSUME NEW p \in Thread, NEW c \in Thread, JoinedStep(t, p, c)
      PROVE  SameHolders
  BY <1>17 DEF JoinedStep, Joined
<1>18. ASSUME NEW p \in Thread, StartThreadStep(t, p)
      PROVE  SameHolders
  BY <1>18 DEF StartThreadStep
<1>19. ASSUME NEW p \in Thread, LinkStep(t, p)
      PROVE  SameHolders
  BY <1>19 DEF LinkStep
<1>20. ASSUME NEW p \in Thread, SetupStep(t, p)
      PROVE  SameHolders
  BY <1>20 DEF SetupStep
<1>21. ASSUME NEW p \in Thread, SetupFailsStep(t, p)
      PROVE  SameHolders
  BY <1>21 DEF SetupFailsStep
<1>22. ASSUME NEW p \in Thread, ThreadExitStep(t, p)
      PROVE  SameHolders
  BY <1>22 DEF ThreadExitStep, Woken
<1>23. ASSUME NEW p \in Thread, GoneStep(t, p)
      PROVE  SameHolders
  BY <1>23 DEF GoneStep
<1>24. ASSUME MainExitStep(t)
      PROVE  SameHolders
  BY <1>24 DEF MainExitStep, Woken
<1>25. ASSUME ExitStep(t, "user")
      PROVE  SameHolders
  BY <1>25 DEF ExitStep, Woken
<1>26. ASSUME ExitStep(t, "exit_main")
      PROVE  SameHolders
  BY <1>26 DEF ExitStep, Woken
<1>27. ASSUME NEW c \in Thread, PassStep(t, c, "exit")
      PROVE  SameHolders
  BY <1>27 DEF PassStep
<1>28. ASSUME NEW c \in Thread, PassStep(t, c, "exit_main")
      PROVE  SameHolders
  BY <1>28 DEF PassStep
<1>29. ASSUME NEW c \in Thread, LoopJoinStep(t, c, "exit", "exit_joining")
      PROVE  SameHolders
  BY <1>29 DEF LoopJoinStep, Tests, StandsFor
<1>30. ASSUME NEW c \in Thread, LoopBeginStep(t, c, "exit_joining", "exit_join")
      PROVE  SameHolders
  BY <1>30 DEF LoopBeginStep, Begins, StandsFor
<1>31. ASSUME NEW c \in Thread, LoopJoinStep(t, c, "exit_main", "main_joining")
      PROVE  SameHolders
  BY <1>31 DEF LoopJoinStep, Tests, StandsFor
<1>32. ASSUME NEW c \in Thread, LoopBeginStep(t, c, "main_joining", "main_join")
      PROVE  SameHolders
  BY <1>32 DEF LoopBeginStep, Begins, StandsFor
<1>33. ASSUME NEW c \in Thread, LoopJoinedStep(t, c, "exit_join", "exit")
      PROVE  SameHolders
  BY <1>33 DEF LoopJoinedStep, Joined, StandsFor
<1>34. ASSUME NEW c \in Thread, LoopJoinedStep(t, c, "main_join", "exit_main")
      PROVE  SameHolders
  BY <1>34 DEF LoopJoinedStep, Joined, StandsFor
<1>35. ASSUME TablesStep(t)
      PROVE  SameHolders
  BY <1>35 DEF TablesStep
<1>36. ASSUME ChildlessStep(t)
      PROVE  SameHolders
  BY <1>36 DEF ChildlessStep
<1>37. ASSUME WakeStep(t)
      PROVE  SameHolders
  BY <1>37 DEF WakeStep
<1>38. ASSUME FreeStep(t)
      PROVE  SameHolders
  BY <1>38 DEF FreeStep
<1>39. ASSUME IdleStep
      PROVE  SameHolders
  BY <1>39 DEF IdleStep
<1> HIDE DEF Becomes, Acts, SameRecords, SameProcesses, SameElems, SameStatuses, FamilyInv,
        TreeInv, StatusInv, CreateInv, Holds, OnChild, SameHolders, Parent, Self, Early,
        Working, Leaving, Live
<1>40. RefInv' \/ SameHolders
  BY <1>1, <1>2, <1>3, <1>4, <1>5, <1>6, <1>7, <1>8, <1>9, <1>10, <1>11, <1>12, <1>13,
     <1>14, <1>15, <1>16, <1>17, <1>18, <1>19, <1>20, <1>21, <1>22, <1>23, <1>24, <1>25,
     <1>26, <1>27, <1>28, <1>29, <1>30, <1>31, <1>32, <1>33, <1>34, <1>35, <1>36, <1>37,
     <1>38, <1>39 DEF Step
<1> QED BY <1>40, RefStays

-----------------------------------------------------------------------------
(* The actions are steps.                                                  *)

\* A thread that is in its process, and may be switched to, has a live one.
LEMMA ActorLives ==
  ASSUME FieldInv, ShapeInv, TreeInv, NEW t \in Thread, ~ Outlives(t),
         pc[t] \in Working \/ pc[t] \in Leaving \/ pc[t] = "dying"
  PROVE  \E p \in Thread : pcb[t] = p /\ Live(p) /\ (pc[t] \in Leaving => p = t)
<1>1. pcb[t] # None /\ pc[t] \notin {"none", "gone"}
  BY DEF TreeInv, Working, Leaving
<1>2. PICK p \in Thread : pcb[t] = p
  BY <1>1 DEF ShapeInv
<1>3. stateOf[p] \in {"none", "live", "freed"} /\ stateOf[p] # "none" /\ (pc[t] \in Leaving => p = t)
  <2>1. stateOf[p] \in {"none", "live", "freed"}
    BY DEF FieldInv
  <2>2. stateOf[p] # "none" /\ (pc[t] \in Leaving => p = t)
    BY <1>2 DEF TreeInv
  <2> QED BY <2>1, <2>2
<1>4. stateOf[p] # "freed"
  BY <1>1, <1>2 DEF Outlives, stateOf
<1> QED BY <1>2, <1>3, <1>4 DEF Live

\* The calls of user code, where only main threads call exit().
LEMMA CallsAreSteps ==
  ASSUME RecordInv, FieldInv, ShapeInv, TreeInv, ByOthers = {},
         NEW t \in Thread, freeing[t] = None, ~ Outlives(t), Calls(t)
  PROVE  RecordInv' /\ ShapeInv' /\ Step(t)
<1>1. pc[t] = "user"
  BY DEF Calls, process_execute, process_wait, pthread_execute, pthread_join, pthread_exit, kill,
     sys_exit, User, Calling
<1>2. PICK p \in Thread : pcb[t] = p /\ Live(p)
  BY <1>1, ActorLives DEF Working
<1>3. CASE \E c \in Thread : process_execute(t, c)
  BY <1>2, <1>3, ExecuteTaken DEF Step
<1>4. CASE \E c \in Thread : process_wait(t, c)
  <2>1. pcb[t] = t
    BY <1>4 DEF process_wait, May
  <2> QED BY <1>2, <1>4, <2>1, FindTaken DEF Step
<1>5. CASE \E x \in Thread : pthread_execute(t, x)
  BY <1>2, <1>5, ExecuteThreadTaken DEF Step
<1>6. CASE \E x \in Thread : pthread_join(t, x)
  BY <1>2, <1>6, JoinTaken DEF Step
<1>7. CASE pthread_exit(t)
  <2>1. t # Root /\ PthreadExit(t)
    BY <1>7 DEF pthread_exit, User
  <2>2. CASE p = t
    BY <1>1, <1>2, <2>1, <2>2, MainExitTaken DEF Step
  <2>3. CASE p # t
    BY <1>1, <1>2, <2>1, <2>3, ThreadExitTaken DEF Step
  <2> QED BY <2>2, <2>3
<1>8. CASE kill(t)
  <2>1. pcb[t] = t /\ t # Root /\ process_exit(t) /\ UNCHANGED wait_status
    BY <1>8 DEF kill, May, User
  <2>2. -1 \in Status
    BY DEF Status
  <2> QED BY <1>1, <1>2, <2>1, <2>2, ExitTaken DEF Step
<1>9. CASE \E e \in ExitCode : sys_exit(t, e)
  <2>1. PICK e \in ExitCode : sys_exit(t, e)
    BY <1>9
  <2>2. /\ pcb[t] = t /\ t # Root /\ process_exit(t)
        /\ wait_status' = [wait_status EXCEPT ![pcb[t]].exit_code = e]
    BY <2>1 DEF sys_exit, May, User, ExitWith
  <2>3. e \in Status
    BY DEF Status
  <2> QED BY <1>1, <1>2, <2>2, <2>3, ExitTaken DEF Step
<1> QED BY <1>3, <1>4, <1>5, <1>6, <1>7, <1>8, <1>9 DEF Calls

\* Steps in the kernel.
LEMMA KernelIsSteps ==
  ASSUME RecordInv, FieldInv, ShapeInv, TreeInv, CreateInv, JoinInv, LoopInv, FamilyInv,
         ByOthers = {},
         NEW t \in Thread, freeing[t] = None, ~ Outlives(t), Kernel(t)
  PROVE  RecordInv' /\ ShapeInv' /\ Step(t)
<1>1. CASE start_process(t)
  BY <1>1, StartTaken DEF Step
<1>2. CASE start_process_fails(t)
  BY <1>2, StartFailsTaken DEF Step
<1>3. CASE start_pthread(t)
  <2>1. PICK p \in Thread : arg[t] = p
    BY <1>3 DEF start_pthread, CreateInv, ShapeInv
  <2> QED BY <1>3, <2>1, StartThreadTaken DEF Step
<1>4. CASE pc[t] \in Working
  <2>1. PICK p \in Thread : pcb[t] = p /\ Live(p)
    BY <1>4, ActorLives
  <2>2. CASE ExecuteReturns(t)
    <3>1. PICK c \in Thread : arg[t] = c
      BY <2>2 DEF ExecuteReturns, FamilyInv, OnChild, ShapeInv
    <3> QED BY <2>1, <2>2, <3>1, ExecutedTaken DEF Step
  <2>9. CASE WaitRemoves(t)
    <3>1. PICK c \in Thread : arg[t] = c
      BY <2>9 DEF WaitRemoves, FamilyInv, ShapeInv, FieldInv
    <3> QED BY <2>1, <2>9, <3>1, RemoveTaken DEF Step
  <2>10. CASE Link(t)
    BY <2>1, <2>10, LinkTaken DEF Step
  <2>11. CASE JoinBegins(t) /\ pc[t] = "joining"
    <3>1. PICK c \in Thread : arg[t] = c
      BY <2>11 DEF JoinInv, Testing, ShapeInv
    <3>2. RecordInv' /\ ShapeInv' /\ (BeginStep(t, p, c) \/ LoopBeginStep(t, c, "exit_joining", "exit_join")
             \/ LoopBeginStep(t, c, "main_joining", "main_join"))
      BY <2>1, <2>11, <3>1, BeginTaken
    <3> QED BY <3>2 DEF Step
  <2>3. CASE ChildDead(t)
    <3>1. PICK c \in Thread : arg[t] = c
      BY <2>3 DEF ChildDead, FamilyInv, OnChild, ShapeInv
    <3> QED BY <2>1, <2>3, <3>1, ChildDeadTaken DEF Step
  <2>4. CASE WaitReturns(t)
    <3>1. PICK c \in Thread : arg[t] = c
      BY <2>4 DEF WaitReturns, FamilyInv, OnChild, ShapeInv
    <3> QED BY <2>1, <2>4, <3>1, ReapTaken DEF Step
  <2>5. CASE setup_thread(t)
    BY <2>1, <2>5, SetupTaken DEF Step
  <2>6. CASE PthreadExecuteReturns(t)
    <3>1. PICK c \in Thread : arg[t] = c
      BY <2>6 DEF PthreadExecuteReturns, CreateInv, ShapeInv
    <3> QED BY <2>1, <2>6, <3>1, ExecutedThreadTaken DEF Step
  <2>7. CASE JoinReturns(t) /\ pc[t] = "join"
    <3>1. PICK c \in Thread : arg[t] = c
      BY <2>7 DEF JoinInv, Joining, ShapeInv
    <3>2. RecordInv' /\ ShapeInv' /\ (JoinedStep(t, p, c) \/ LoopJoinedStep(t, c, "exit_join", "exit")
             \/ LoopJoinedStep(t, c, "main_join", "exit_main"))
      BY <2>1, <2>7, <3>1, JoinedTaken
    <3> QED BY <3>2 DEF Step
  <2>8. CASE Slaughter(t)
    <3>1. pc[t] = "user" /\ PthreadExit(t) /\ markedOf[p]
      BY <2>1, <2>8 DEF Slaughter, markedOf
    <3>2. t # Root
      <4>1. ~ markedOf[Root] /\ pcb[Root] = Root
        BY Basics DEF TreeInv
      <4> QED BY <2>1, <3>1, <4>1
    <3>3. CASE p = t
      BY <2>1, <3>1, <3>2, <3>3, MainExitTaken DEF Step
    <3>4. CASE p # t
      BY <2>1, <3>1, <3>2, <3>4, ThreadExitTaken DEF Step
    <3> QED BY <3>3, <3>4
  <2> QED BY <1>1, <1>2, <1>3, <1>4, <2>2, <2>3, <2>4, <2>5, <2>6, <2>7, <2>8, <2>9, <2>10, <2>11
          DEF Kernel, Working, thread_exit, JoinBegins, JoinReturns, JoinEach, MainExits, FreeTables, ReleaseChildren,
              WakeParent, ReleaseOwn, FreeProcess
<1>5. CASE pc[t] \in Leaving
  <2>1. pcb[t] = t /\ Live(t) /\ t # Root
    BY <1>5, Basics DEF TreeInv, Working, Leaving
  <2>2. listOf[t] = process[t].thread_list /\ listOf[t] \in Seq(Thread) /\ Len(listOf[t]) \in Nat
    BY LenProperties DEF listOf, RecordInv, ProcessRecord
  <2>3. CASE JoinReturns(t)
    <3>1. PICK c \in Thread : arg[t] = c
      BY <1>5, <2>3 DEF JoinReturns, JoinInv, Joining, ShapeInv
    <3>2. pc[t] \in {"exit_join", "main_join"}
      BY <1>5, <2>3 DEF JoinReturns, Leaving
    <3>3. StandsFor(t, c)
      BY <3>1, <3>2 DEF LoopInv
    <3>4. RecordInv' /\ ShapeInv' /\ (JoinedStep(t, t, c) \/ LoopJoinedStep(t, c, "exit_join", "exit")
             \/ LoopJoinedStep(t, c, "main_join", "exit_main"))
      BY <2>1, <2>3, <3>1, <3>3, JoinedTaken
    <3> QED BY <3>4 DEF Step
  <2>11. CASE JoinBegins(t)
    <3>1. PICK c \in Thread : arg[t] = c
      BY <1>5, <2>11 DEF JoinBegins, JoinInv, Testing, ShapeInv
    <3>2. pc[t] \in {"exit_joining", "main_joining"}
      BY <1>5, <2>11 DEF JoinBegins, Leaving
    <3>3. StandsFor(t, c)
      BY <3>1, <3>2 DEF LoopInv
    <3>4. RecordInv' /\ ShapeInv' /\ (BeginStep(t, t, c) \/ LoopBeginStep(t, c, "exit_joining", "exit_join")
             \/ LoopBeginStep(t, c, "main_joining", "main_join"))
      BY <2>1, <2>11, <3>1, <3>3, BeginTaken
    <3> QED BY <3>4 DEF Step
  <2>4. CASE JoinEach(t)
    <3>1. pc[t] \in {"exit", "exit_main"} /\ at[t] <= Len(listOf[t])
      BY <2>1, <2>2, <2>4 DEF JoinEach, Threads
    <3>2. at[t] \in 1 .. Len(listOf[t])
      <4>1. at[t] \in 1 .. Len(listOf[t]) + 1
        BY <3>1 DEF LoopInv
      <4> QED BY <2>2, <3>1, <4>1
    <3>3. PICK x \in Thread : x = listOf[t][at[t]]
      BY <2>2, <3>2, ElementOfSeq
    <3>4. Reaches(t, x)
      BY <3>2, <3>3 DEF Reaches
    <3>5. /\ RecordInv' /\ ShapeInv'
          /\ \/ PassStep(t, x, "exit") \/ PassStep(t, x, "exit_main")
             \/ \E y \in Thread : \/ LoopJoinStep(t, y, "exit", "exit_joining")
                                \/ LoopJoinStep(t, y, "exit_main", "main_joining")
      BY <2>1, <2>4, <3>4, LoopTaken
    <3> QED BY <3>5 DEF Step
  <2>5. CASE MainExits(t)
    <3>1. /\ pc[t] = "exit_main" /\ process_exit(t)
          /\ wait_status' = [wait_status EXCEPT ![pcb[t]].exit_code = 0]
      BY <2>5 DEF MainExits, ExitWith
    <3>2. 0 \in Status
      BY DEF Status
    <3> QED BY <2>1, <3>1, <3>2, ExitTaken DEF Step
  <2>6. CASE FreeTables(t)
    BY <2>1, <2>6, TablesTaken DEF Step
  <2>7. CASE ReleaseChildren(t)
    BY <2>1, <2>7, OrphanTaken DEF Step
  <2>8. CASE WakeParent(t)
    BY <2>1, <2>8, WakeTaken DEF Step
  <2>9. CASE ReleaseOwn(t)
    BY <2>1, <2>9, OwnTaken DEF Step
  <2>10. CASE FreeProcess(t)
    BY <2>1, <2>10, FreeTaken DEF Step
  <2> QED BY <1>1, <1>2, <1>3, <1>5, <2>3, <2>4, <2>5, <2>6, <2>7, <2>8, <2>9, <2>10, <2>11
          DEF Kernel, Leaving, thread_exit, ExecuteReturns, WaitRemoves, Link, ChildDead, WaitReturns, setup_thread,
              PthreadExecuteReturns, Slaughter
<1>6. CASE pc[t] = "dying" /\ thread_exit(t)
  <2>1. PICK p \in Thread : pcb[t] = p /\ Live(p)
    BY <1>6, ActorLives
  <2> QED BY <1>6, <2>1, GoneTaken DEF Step
<1> QED BY <1>1, <1>2, <1>3, <1>4, <1>5, <1>6
        DEF Kernel, Working, Leaving, thread_exit, ExecuteReturns, WaitRemoves, ChildDead,
            WaitReturns, Link, setup_thread, PthreadExecuteReturns, JoinBegins, JoinReturns, Slaughter, JoinEach, MainExits, FreeTables, ReleaseChildren,
            WakeParent, ReleaseOwn, FreeProcess

\* Nothing changes but, perhaps, wild.
LEMMA QuietIsIdle ==
  ASSUME RecordInv, ShapeInv, UNCHANGED <<threads, load, process, join_elem, wait_status, returned>>
  PROVE  RecordInv' /\ ShapeInv' /\ IdleStep
<1>1. RecordInv' /\ UNCHANGED <<processes, elems, statuses>>
  BY QuietEffect
<1>2. UNCHANGED <<pc, pcb, arg, at, freeing, load, returned>>
  BY DEF threads
<1>3. ShapeInv'
  BY <1>2 DEF ShapeInv
<1> QED BY <1>1, <1>2, <1>3 DEF IdleStep, SameRecords, SameProcesses, SameElems, SameStatuses,
       processes, elems, statuses

\* Every step of the system is a step of one thread.
LEMMA NextIsStep ==
  ASSUME RecordInv, FieldInv, ShapeInv, TreeInv, CreateInv, JoinInv, LoopInv, FamilyInv,
         ByOthers = {},
         [Next]_vars
  PROVE  RecordInv' /\ ShapeInv' /\ \E t \in Thread : Step(t)
<1>1. CASE UNCHANGED vars
  <2>1. RecordInv' /\ ShapeInv' /\ IdleStep
    BY <1>1, QuietIsIdle DEF vars
  <2> QED BY <2>1, Basics DEF Step
<1>2. CASE Next
  <2>1. PICK t \in Thread : \/ Progress(t)
                            \/ freeing[t] = None /\ ~ Outlives(t) /\ Calls(t)
    BY <1>2 DEF Next
  <2>2. CASE FreeStatus(t)
    <3>1. PICK c \in Thread : freeing[t] = c
      BY <2>2 DEF FreeStatus, ShapeInv
    <3> QED BY <2>2, <3>1, FreeStatusTaken DEF Step
  <2>3. CASE freeing[t] = None /\ ~ Outlives(t) /\ Kernel(t)
    BY <2>3, KernelIsSteps
  <2>4. CASE process_activate(t)
    <3>1. RecordInv' /\ ShapeInv' /\ IdleStep
      BY <2>4, QuietIsIdle DEF process_activate
    <3> QED BY <3>1 DEF Step
  <2>5. CASE freeing[t] = None /\ ~ Outlives(t) /\ Calls(t)
    BY <2>5, CallsAreSteps
  <2> QED BY <2>1, <2>2, <2>3, <2>4, <2>5 DEF Progress
<1> QED BY <1>1, <1>2

-----------------------------------------------------------------------------
\* At the start there is the kernel's first thread.
LEMMA InitInv ==
  ASSUME Init
  PROVE  ProcessInv
<1>1. /\ NoProcess \in ProcessRecord /\ [NoProcess EXCEPT !.state = "live"] \in ProcessRecord
      /\ NoStatus \in StatusRecord
      /\ NoProcess.state = "none" /\ ~ NoProcess.marked_for_slaughter /\ NoProcess.children = {}
      /\ NoProcess.thread_joins = {} /\ NoProcess.thread_list = <<>>
      /\ ~ NoStatus.live /\ NoStatus.ref_cnt = 0 /\ NoStatus.exit_code = -1 /\ NoStatus.dead = 0
  <2>1. <<>> \in Seq(Thread)
    BY EmptySeq
  <2>2. /\ NoProcess \in ProcessRecord /\ NoProcess.state = "none" /\ ~ NoProcess.marked_for_slaughter
        /\ NoProcess.children = {} /\ NoProcess.thread_joins = {} /\ NoProcess.thread_list = <<>>
    BY <2>1 DEF NoProcess, ProcessRecord
  <2>3. [NoProcess EXCEPT !.state = "live"] \in ProcessRecord
    BY <2>1 DEF NoProcess, ProcessRecord
  <2>4. /\ NoStatus \in StatusRecord
        /\ ~ NoStatus.live /\ NoStatus.ref_cnt = 0 /\ NoStatus.exit_code = -1 /\ NoStatus.dead = 0
    BY DEF NoStatus, StatusRecord, Status
  <2> QED BY <2>2, <2>3, <2>4
<1>2. RecordInv
  <2>1. [joined |-> FALSE, join |-> 0] \in ElemRecord
    BY DEF ElemRecord
  <2> QED BY <1>1, <2>1 DEF Init, RecordInv
<1>3. FieldInv
  BY <1>2, FieldTypes
<1>4. \A t \in Thread :
        /\ stateOf[t] = IF t = Root THEN "live" ELSE "none"
        /\ ~ markedOf[t] /\ childrenOf[t] = {} /\ joinsOf[t] = {} /\ listOf[t] = <<>>
        /\ ~ joinedOf[t] /\ joinOf[t] = 0
        /\ ~ liveOf[t] /\ refOf[t] = 0 /\ codeOf[t] = -1 /\ deadOf[t] = 0
  <2> SUFFICES ASSUME NEW t \in Thread
               PROVE  /\ stateOf[t] = IF t = Root THEN "live" ELSE "none"
                      /\ ~ markedOf[t] /\ childrenOf[t] = {} /\ joinsOf[t] = {} /\ listOf[t] = <<>>
                      /\ ~ joinedOf[t] /\ joinOf[t] = 0
                      /\ ~ liveOf[t] /\ refOf[t] = 0 /\ codeOf[t] = -1 /\ deadOf[t] = 0
    OBVIOUS
  <2>1. process[t] = IF t = Root THEN [NoProcess EXCEPT !.state = "live"] ELSE NoProcess
    BY DEF Init
  <2>2. /\ process[t].state = IF t = Root THEN "live" ELSE "none"
        /\ ~ process[t].marked_for_slaughter /\ process[t].children = {}
        /\ process[t].thread_joins = {} /\ process[t].thread_list = <<>>
    BY <2>1 DEF NoProcess
  <2>3. join_elem[t] = [joined |-> FALSE, join |-> 0] /\ wait_status[t] = NoStatus
    BY DEF Init
  <2> QED BY <1>1, <2>2, <2>3 DEF stateOf, markedOf, childrenOf, joinsOf, listOf, joinedOf, joinOf,
             liveOf, refOf, codeOf, deadOf
<1>5. \A t \in Thread :
        /\ pc[t] = IF t = Root THEN "user" ELSE "none"
        /\ pcb[t] = IF t = Root THEN Root ELSE None
        /\ arg[t] = None /\ at[t] = 0 /\ freeing[t] = None /\ load[t] = "pending" /\ returned[t] = <<>>
  BY DEF Init
<1>6. ShapeInv /\ wild \in BOOLEAN
  <2>1. <<>> \in Seq(Status)
    BY EmptySeq
  <2> QED BY <2>1, Basics DEF Init, ShapeInv, PC
<1>7. TreeInv
  BY <1>4, <1>5, Basics DEF TreeInv, Early, Working, Leaving, Live
<1>8. CreateInv /\ JoinInv /\ JoinerInv
  BY <1>4, <1>5, Basics DEF CreateInv, JoinInv, JoinerInv, Joining, Testing, Early, Working, Leaving, Live
<1>9. MembersInv
  BY <1>4, <1>5, Basics, ListElements DEF MembersInv, Live
<1>10. LoopInv /\ PassedInv /\ LateInv
  BY <1>4, <1>5, Basics DEF LoopInv, PassedInv, LateInv, Late
<1>11. FamilyInv /\ StatusInv
  BY <1>4, <1>5, Basics DEF FamilyInv, StatusInv, OnChild, Holds, Working
<1>12. RefInv
  BY <1>4, <1>5, Basics DEF RefInv, Holders, Parent, Self, Holds, OnChild, Live
<1> QED BY <1>2, <1>3, <1>6, <1>7, <1>8, <1>9, <1>10, <1>11, <1>12 DEF ProcessInv

\* wild is TRUE or FALSE.
LEMMA WildKept ==
  ASSUME wild \in BOOLEAN, [Next]_vars
  PROVE  wild' \in BOOLEAN
<1>1. ASSUME NEW t \in Thread, Calls(t)
      PROVE  wild' \in BOOLEAN
  BY <1>1 DEF Calls, process_execute, process_wait, pthread_execute, pthread_join, pthread_exit,
     PthreadExit, kill, sys_exit, ExitWith, process_exit
<1>2. ASSUME NEW t \in Thread, Kernel(t)
      PROVE  wild' \in BOOLEAN
  BY <1>2 DEF Kernel, start_process, start_process_fails, ExecuteReturns, WaitRemoves, ChildDead,
     WaitReturns, start_pthread, Link, Unlocked, setup_thread, JoinBegins, PthreadExecuteReturns, JoinReturns, Slaughter, PthreadExit, thread_exit,
     JoinEach, MainExits, ExitWith, process_exit, FreeTables, ReleaseChildren, WakeParent, ReleaseOwn, FreeProcess
<1>3. ASSUME NEW t \in Thread, FreeStatus(t) \/ process_activate(t)
      PROVE  wild' \in BOOLEAN
  BY <1>3 DEF FreeStatus, process_activate
<1>4. CASE UNCHANGED vars
  BY <1>4 DEF vars
<1> QED BY <1>1, <1>2, <1>3, <1>4 DEF Next, Progress

\* Every step keeps the invariant.
LEMMA StepInv ==
  ASSUME ProcessInv, ByOthers = {}, [Next]_vars
  PROVE  ProcessInv'
<1>1. PICK t \in Thread : RecordInv' /\ ShapeInv' /\ Step(t)
  BY NextIsStep DEF ProcessInv
<1>2. FieldInv'
  BY <1>1, FieldTypes
<1>3. TreeInv' /\ CreateInv' /\ MembersInv'
  BY <1>1, TreeKept, CreateKept, MembersKept DEF ProcessInv
<1>4. JoinInv' /\ JoinerInv' /\ LoopInv'
  BY <1>1, JoinKept, JoinerKept, LoopKept DEF ProcessInv
<1>5. PassedInv'
  BY <1>1, FlowHolds, LoopFlowHolds, PassedStep DEF ProcessInv
<1>6. LateInv' /\ FamilyInv'
  BY <1>1, LateKept, FamilyKept DEF ProcessInv
<1>7. StatusInv' /\ RefInv'
  BY <1>1, StatusKept, RefKept DEF ProcessInv
<1>8. wild' \in BOOLEAN
  BY WildKept DEF ProcessInv
<1> QED BY <1>1, <1>2, <1>3, <1>4, <1>5, <1>6, <1>7, <1>8 DEF ProcessInv

\* The invariant, where only main threads exit, wait and are killed (process.c:900-1048).
THEOREM ProcessCorrect ==
  ASSUME ByOthers = {}
  PROVE  Spec => []ProcessInv
<1>1. Init => ProcessInv
  BY InitInv
<1>2. ProcessInv /\ [Next]_vars => ProcessInv'
  BY StepInv
<1> QED BY <1>1, <1>2, PTL DEF Spec

-----------------------------------------------------------------------------
(* The promise of ExitStatus.                                              *)

\* The life of a process as its parent sees it.
Life(c) ==
  IF stateOf[c] = "none" \/ load[c] # "ok" THEN "unborn"
  ELSE IF stateOf[c] = "freed" \/ pc[c] \in {"release", "free"} THEN "dead" ELSE "running"

SameLife(c) == Life(c)' = Life(c) /\ codeOf'[c] = codeOf[c] /\ returned'[c] = returned[c]

\* A process starts, sets its status, ends, or has its status returned.
Starts(c)  == Life(c) = "unborn" /\ Life(c)' = "running" /\ returned'[c] = returned[c]
Sets(c)    == Life(c) = "running" /\ Life(c)' = "running" /\ returned'[c] = returned[c]
Ends(c)    == Life(c) = "running" /\ Life(c)' = "dead" /\ codeOf'[c] = codeOf[c] /\ returned'[c] = returned[c]
Answers(c) == /\ Life(c) = "dead" /\ Life(c)' = "dead" /\ codeOf'[c] = codeOf[c]
              /\ returned[c] = <<>> /\ returned'[c] = Append(returned[c], codeOf[c])

\* What a step does to the lives: to one process at most.
LifeFlow ==
  \/ \A c \in Thread : c # Root => SameLife(c)
  \/ \E c \in Thread :
       /\ c # Root /\ (Starts(c) \/ Sets(c) \/ Ends(c) \/ Answers(c))
       /\ \A z \in Thread : z # c /\ z # Root => SameLife(z)

\* A thread that is not set up is no process.
LEMMA SetupFailsLife ==
  ASSUME FieldInv, TreeInv, NEW t \in Thread, NEW p \in Thread, SetupFailsStep(t, p)
  PROVE  LifeFlow
<1>1. stateOf[t] = "none"
  BY DEF FieldInv, TreeInv, SetupFailsStep, Acts, Live
<1> QED BY <1>1 DEF SetupFailsStep, Becomes, SameProcesses, SameStatuses, LifeFlow, SameLife, Life

\* Every step goes with the life of processes.
LEMMA LifeSteps ==
  ASSUME FieldInv, TreeInv, FamilyInv, StatusInv, NEW t \in Thread, Step(t)
  PROVE  LifeFlow
<1>1. ASSUME NEW p \in Thread, SetupFailsStep(t, p)
      PROVE  LifeFlow
  BY <1>1, SetupFailsLife
<1> USE Basics DEF Becomes, Acts, SameRecords, SameProcesses, SameElems, SameStatuses, TreeInv,
        FamilyInv, StatusInv, Holds, OnChild, LifeFlow, Starts, Sets, Ends, Answers, SameLife,
        Life, Early, Working, Leaving, Live
<1>2. CASE StartStep(t)
  BY <1>2 DEF StartStep
<1>3. CASE StartFailsStep(t)
  BY <1>3 DEF StartFailsStep
<1>4. ASSUME NEW p \in Thread, NEW c \in Thread, ExecuteStep(t, p, c)
      PROVE  LifeFlow
  BY <1>4 DEF ExecuteStep
<1>5. ASSUME NEW p \in Thread, NEW c \in Thread, ExecutedStep(t, p, c)
      PROVE  LifeFlow
  BY <1>5 DEF ExecutedStep
<1>6. ASSUME NEW p \in Thread, NEW c \in Thread, NotExecutedStep(t, p, c)
      PROVE  LifeFlow
  BY <1>6 DEF NotExecutedStep
<1>7. ASSUME NEW c \in Thread, FindStep(t, c)
      PROVE  LifeFlow
  BY <1>7 DEF FindStep
<1>8. ASSUME NEW p \in Thread, NEW c \in Thread, RemoveStep(t, p, c)
      PROVE  LifeFlow
  BY <1>8 DEF RemoveStep
<1>9. ASSUME NEW p \in Thread, NEW c \in Thread, ChildDeadStep(t, p, c)
      PROVE  LifeFlow
  BY <1>9 DEF ChildDeadStep
<1>10. ASSUME NEW p \in Thread, NEW c \in Thread, ReapStep(t, p, c)
      PROVE  LifeFlow
  BY <1>10 DEF ReapStep, Releases
<1>11. ASSUME NEW p \in Thread, NEW c \in Thread, ExecuteThreadStep(t, p, c)
      PROVE  LifeFlow
  BY <1>11 DEF ExecuteThreadStep
<1>12. ASSUME NEW p \in Thread, NEW c \in Thread, ExecutedThreadStep(t, p, c)
      PROVE  LifeFlow
  BY <1>12 DEF ExecutedThreadStep
<1>13. ASSUME NEW p \in Thread, NEW c \in Thread, JoinStep(t, p, c)
      PROVE  LifeFlow
  BY <1>13 DEF JoinStep, Tests
<1>14. ASSUME NEW p \in Thread, NEW c \in Thread, BeginStep(t, p, c)
      PROVE  LifeFlow
  BY <1>14 DEF BeginStep, Begins
<1>15. ASSUME NEW p \in Thread, NEW c \in Thread, JoinedStep(t, p, c)
      PROVE  LifeFlow
  BY <1>15 DEF JoinedStep, Joined
<1>16. ASSUME NEW p \in Thread, StartThreadStep(t, p)
      PROVE  LifeFlow
  BY <1>16 DEF StartThreadStep
<1>17. ASSUME NEW p \in Thread, LinkStep(t, p)
      PROVE  LifeFlow
  BY <1>17 DEF LinkStep
<1>18. ASSUME NEW p \in Thread, SetupStep(t, p)
      PROVE  LifeFlow
  BY <1>18 DEF SetupStep
<1>19. ASSUME NEW p \in Thread, ThreadExitStep(t, p)
      PROVE  LifeFlow
  BY <1>19 DEF ThreadExitStep, Woken
<1>20. ASSUME NEW p \in Thread, GoneStep(t, p)
      PROVE  LifeFlow
  BY <1>20 DEF GoneStep
<1>21. CASE MainExitStep(t)
  BY <1>21 DEF MainExitStep, Woken
<1>22. CASE ExitStep(t, "user")
  BY <1>22 DEF ExitStep, Woken
<1>23. CASE ExitStep(t, "exit_main")
  BY <1>23 DEF ExitStep, Woken
<1>24. ASSUME NEW c \in Thread, PassStep(t, c, "exit")
      PROVE  LifeFlow
  BY <1>24 DEF PassStep
<1>25. ASSUME NEW c \in Thread, PassStep(t, c, "exit_main")
      PROVE  LifeFlow
  BY <1>25 DEF PassStep
<1>26. ASSUME NEW c \in Thread, LoopJoinStep(t, c, "exit", "exit_joining")
      PROVE  LifeFlow
  BY <1>26 DEF LoopJoinStep, Tests, StandsFor
<1>27. ASSUME NEW c \in Thread, LoopBeginStep(t, c, "exit_joining", "exit_join")
      PROVE  LifeFlow
  BY <1>27 DEF LoopBeginStep, Begins, StandsFor
<1>28. ASSUME NEW c \in Thread, LoopJoinStep(t, c, "exit_main", "main_joining")
      PROVE  LifeFlow
  BY <1>28 DEF LoopJoinStep, Tests, StandsFor
<1>29. ASSUME NEW c \in Thread, LoopBeginStep(t, c, "main_joining", "main_join")
      PROVE  LifeFlow
  BY <1>29 DEF LoopBeginStep, Begins, StandsFor
<1>30. ASSUME NEW c \in Thread, LoopJoinedStep(t, c, "exit_join", "exit")
      PROVE  LifeFlow
  BY <1>30 DEF LoopJoinedStep, Joined, StandsFor
<1>31. ASSUME NEW c \in Thread, LoopJoinedStep(t, c, "main_join", "exit_main")
      PROVE  LifeFlow
  BY <1>31 DEF LoopJoinedStep, Joined, StandsFor
<1>32. ASSUME NEW c \in Thread, OrphanStep(t, c)
      PROVE  LifeFlow
  BY <1>32 DEF OrphanStep, Releases
<1>33. ASSUME NEW c \in Thread, FreeStatusStep(t, c)
      PROVE  LifeFlow
  BY <1>33 DEF FreeStatusStep
<1>34. CASE TablesStep(t)
  BY <1>34 DEF TablesStep
<1>35. CASE ChildlessStep(t)
  BY <1>35 DEF ChildlessStep
<1>36. CASE WakeStep(t)
  BY <1>36 DEF WakeStep
<1>37. CASE OwnStep(t)
  BY <1>37 DEF OwnStep, Releases
<1>38. CASE FreeStep(t)
  BY <1>38 DEF FreeStep
<1>39. CASE IdleStep
  BY <1>39 DEF IdleStep
<1> HIDE DEF Becomes, Acts, SameRecords, SameProcesses, SameElems, SameStatuses, TreeInv,
        FamilyInv, StatusInv, Holds, OnChild, LifeFlow, Starts, Sets, Ends, Answers, SameLife,
        Life, Early, Working, Leaving, Live
<1> QED BY <1>1, <1>2, <1>3, <1>4, <1>5, <1>6, <1>7, <1>8, <1>9, <1>10, <1>11, <1>12,
           <1>13, <1>14, <1>15, <1>16, <1>17, <1>18, <1>19, <1>20, <1>21, <1>22, <1>23,
           <1>24, <1>25, <1>26, <1>27, <1>28, <1>29, <1>30, <1>31, <1>32, <1>33, <1>34,
           <1>35, <1>36, <1>37, <1>38, <1>39 DEF Step

\* The life, the status and the answers that ExitStatus speaks of.
lives   == [c \in Thread \ {Root} |-> Life(c)]
codes   == [c \in Thread \ {Root} |-> codeOf[c]]
answers == [c \in Thread \ {Root} |-> returned[c]]

\* They are what Promise substitutes.
LEMMA Mapped ==
  /\ lives = [c \in Thread \ {Root} |->
                IF process[c].state = "none" \/ load[c] # "ok" THEN "unborn"
                ELSE IF process[c].state = "freed" \/ pc[c] \in {"release", "free"}
                     THEN "dead" ELSE "running"]
  /\ codes = [c \in Thread \ {Root} |-> wait_status[c].exit_code]
  /\ lives' = [c \in Thread \ {Root} |->
                IF process'[c].state = "none" \/ load'[c] # "ok" THEN "unborn"
                ELSE IF process'[c].state = "freed" \/ pc'[c] \in {"release", "free"}
                     THEN "dead" ELSE "running"]
  /\ codes' = [c \in Thread \ {Root} |-> wait_status'[c].exit_code]
BY DEF lives, Life, stateOf, codes, codeOf

\* A step of one process is a step of the promise.
LEMMA StepPromises ==
  ASSUME FieldInv', LifeFlow
  PROVE  Promise!Next \/ UNCHANGED <<lives, codes, answers>>
<1>1. CASE \A c \in Thread : c # Root => SameLife(c)
  BY <1>1 DEF SameLife, lives, codes, answers
<1>2. CASE \E c \in Thread :
             /\ c # Root /\ (Starts(c) \/ Sets(c) \/ Ends(c) \/ Answers(c))
             /\ \A z \in Thread : z # c /\ z # Root => SameLife(z)
  <2>1. PICK c \in Thread :
             /\ c # Root /\ (Starts(c) \/ Sets(c) \/ Ends(c) \/ Answers(c))
             /\ \A z \in Thread : z # c /\ z # Root => SameLife(z)
    BY <1>2
  <2>2. /\ lives[c] = Life(c) /\ lives' = [lives EXCEPT ![c] = Life(c)']
        /\ codes[c] = codeOf[c] /\ codes' = [codes EXCEPT ![c] = codeOf'[c]]
        /\ answers[c] = returned[c] /\ answers' = [answers EXCEPT ![c] = returned'[c]]
        /\ Life(c)' = Life(c) => lives' = lives
        /\ codeOf'[c] = codeOf[c] => codes' = codes
        /\ returned'[c] = returned[c] => answers' = answers
    BY <2>1 DEF lives, codes, answers, SameLife
  <2>3. c \in Thread \ {Root} /\ codeOf'[c] \in Status
    BY <2>1 DEF FieldInv
  <2>4. CASE Starts(c)
    <3>1. Promise!Start(c)
      BY <2>2, <2>3, <2>4, Mapped DEF Promise!Start, Starts, answers
    <3> QED BY <2>3, <3>1 DEF Promise!Next
  <2>5. CASE Sets(c)
    <3>1. Promise!SetStatus(c)
      BY <2>2, <2>3, <2>5, Mapped DEF Promise!SetStatus, Sets, answers
    <3> QED BY <2>3, <3>1 DEF Promise!Next
  <2>6. CASE Ends(c)
    <3>1. Promise!End(c)
      BY <2>2, <2>3, <2>6, Mapped DEF Promise!End, Ends, answers
    <3> QED BY <2>3, <3>1 DEF Promise!Next
  <2>7. CASE Answers(c)
    <3>1. returned'[c] = <<codeOf[c]>>
      BY <2>7 DEF Answers
    <3>2. Promise!Return(c)
      BY <2>2, <2>3, <2>7, <3>1, Mapped DEF Promise!Return, Answers, answers
    <3> QED BY <2>3, <3>2 DEF Promise!Next
  <2> QED BY <2>1, <2>4, <2>5, <2>6, <2>7
<1> QED BY <1>1, <1>2 DEF LifeFlow

-----------------------------------------------------------------------------
(* What follows.                                                           *)

\* A list without repetition has no more elements than there are threads.
LEMMA ShortLists ==
  ASSUME NEW s \in Seq(Thread), Distinct(s)
  PROVE  Len(s) \in Nat /\ Len(s) <= Cardinality(Thread)
<1>1. Len(s) \in Nat /\ \A i \in 1 .. Len(s) : s[i] \in Thread
  BY LenProperties, ElementOfSeq
<1>2. Len(s) = 0 \/ Cardinality(1 .. Len(s)) = Len(s)
  BY <1>1, FS_Interval
<1> DEFINE f == [i \in 1 .. Len(s) |-> s[i]]
<1>3. f \in Injection(1 .. Len(s), Thread)
  BY <1>1 DEF Distinct, Injection, IsInjective
<1>4. Cardinality(1 .. Len(s)) <= Cardinality(Thread)
  BY <1>3, FS_Injection, ProcessAssumption
<1> QED BY <1>1, <1>2, <1>4, ProcessAssumption, FS_CardinalityType

\* The invariant bounds the counters.
LEMMA InvTypeOK ==
  ASSUME ProcessInv
  PROVE  TypeOK
<1>1. ASSUME NEW t \in Thread
      PROVE  at[t] \in 0 .. Cardinality(Thread) + 1
  <2>1. listOf[t] \in Seq(Thread) /\ Distinct(listOf[t])
    BY DEF ProcessInv, FieldInv, MembersInv
  <2>2. Len(listOf[t]) \in Nat /\ Len(listOf[t]) <= Cardinality(Thread)
    BY <2>1, ShortLists
  <2>3. Cardinality(Thread) \in Nat
    BY ProcessAssumption, FS_CardinalityType
  <2>4. at[t] = 0 \/ at[t] \in 1 .. Len(listOf[t]) + 1
    <3>1. at[t] = 0 \/ at[t] \in 1 .. Len(listOf[t]) \/ at[t] \in 1 .. Len(listOf[t]) + 1
      BY DEF ProcessInv, LoopInv, StandsFor, Reaches
    <3> QED BY <2>2, <3>1
  <2> QED BY <2>2, <2>3, <2>4
<1>2. ASSUME NEW t \in Thread
      PROVE  joinOf[t] \in 0 .. 2
  BY DEF ProcessInv, JoinInv
<1>3. ASSUME NEW c \in Thread
      PROVE  deadOf[c] \in 0 .. 1 /\ refOf[c] \in 0 .. 2
  BY DEF ProcessInv, StatusInv, RefInv, Holders
<1>4. \A t \in Thread : join_elem[t] \in [joined : BOOLEAN, join : 0 .. 2]
  BY <1>2 DEF ProcessInv, RecordInv, ElemRecord, joinOf
<1>5. \A c \in Thread : wait_status[c] \in [live : BOOLEAN, ref_cnt : 0 .. 2, exit_code : Status, dead : 0 .. 1]
  BY <1>3 DEF ProcessInv, RecordInv, StatusRecord, refOf, deadOf
<1> QED BY <1>1, <1>4, <1>5 DEF ProcessInv, ShapeInv, RecordInv, ProcessRecord, TypeOK

\* Who holds a wait_status.
LEMMA WhoHolds ==
  ASSUME TreeInv, FamilyInv, NEW c \in Thread
  PROVE  (ParentHolds(c) <=> Parent(c)) /\ (SelfHolds(c) <=> Self(c))
<1>1. \A p \in Thread : process[p].state = stateOf[p] /\ process[p].children = childrenOf[p]
  BY DEF stateOf, childrenOf
<1>2. \A p \in Thread : c \in childrenOf[p] => stateOf[p] = "live"
  BY DEF TreeInv, Live
<1>3. ParentHolds(c) <=> Parent(c)
  BY <1>1, <1>2 DEF ParentHolds, Parent, Holds, OnChild, FamilyInv
<1>4. \A t \in Thread : pc[t] = "free" => pcb[t] = t
  BY DEF TreeInv, Leaving
<1>5. Live(c) => pcb[c] = c
  BY DEF TreeInv
<1>6. SelfHolds(c) <=> Self(c)
  BY <1>1, <1>4, <1>5 DEF SelfHolds, Self, Live
<1> QED BY <1>3, <1>6

\* Their number.
LEMMA HoldersCount ==
  ASSUME TreeInv, FamilyInv, NEW c \in Thread
  PROVE  Cardinality({h \in {"parent", "self"} :
           IF h = "parent" THEN ParentHolds(c) ELSE SelfHolds(c)}) = Holders(c)
<1> DEFINE H == {h \in {"parent", "self"} : IF h = "parent" THEN Parent(c) ELSE Self(c)}
<1>1. {h \in {"parent", "self"} : IF h = "parent" THEN ParentHolds(c) ELSE SelfHolds(c)} = H
  BY WhoHolds
<1>2. Cardinality(H) = Holders(c)
  <2>1. CASE Parent(c) /\ Self(c)
    <3>1. H = {"parent"} \cup {"self"} /\ "self" \notin {"parent"}
      BY <2>1
    <3>2. IsFiniteSet({"parent"}) /\ Cardinality({"parent"}) = 1
      BY FS_Singleton
    <3>3. Cardinality({"parent"} \cup {"self"}) = 2
      BY <3>1, <3>2, FS_AddElement
    <3> QED BY <2>1, <3>1, <3>3 DEF Holders
  <2>2. CASE Parent(c) /\ ~ Self(c)
    <3>1. H = {"parent"}
      BY <2>2
    <3>2. Cardinality(H) = 1
      BY <3>1, FS_Singleton
    <3> HIDE DEF H
    <3> QED BY <2>2, <3>2 DEF Holders
  <2>3. CASE ~ Parent(c) /\ Self(c)
    <3>1. H = {"self"}
      BY <2>3
    <3>2. Cardinality(H) = 1
      BY <3>1, FS_Singleton
    <3> HIDE DEF H
    <3> QED BY <2>3, <3>2 DEF Holders
  <2>4. CASE ~ Parent(c) /\ ~ Self(c)
    <3>1. H = {}
      BY <2>4
    <3> QED BY <2>4, <3>1, FS_EmptySet DEF Holders
  <2> QED BY <2>1, <2>2, <2>3, <2>4
<1> QED BY <1>1, <1>2

\* The invariant counts the holders, and finds one thread to free the record.
LEMMA InvRefCnt ==
  ASSUME ProcessInv
  PROVE  RefCntIsHolders
<1> SUFFICES ASSUME NEW c \in Thread \ {Root}
             PROVE  LET holders == Cardinality({h \in {"parent", "self"} :
                              IF h = "parent" THEN ParentHolds(c) ELSE SelfHolds(c)})
                        freers  == {t \in Thread : freeing[t] = c}
                    IN  IF wait_status[c].live
                        THEN /\ wait_status[c].ref_cnt = holders
                             /\ Cardinality(freers) = IF holders = 0 THEN 1 ELSE 0
                        ELSE freers = {} /\ (holders = 0 \/ pc[c] = "start_process")
  BY DEF RefCntIsHolders
<1> DEFINE holders == Cardinality({h \in {"parent", "self"} :
                        IF h = "parent" THEN ParentHolds(c) ELSE SelfHolds(c)})
           freers  == {t \in Thread : freeing[t] = c}
<1>1. holders = Holders(c)
  BY HoldersCount DEF ProcessInv
<1>2. wait_status[c].live = liveOf[c] /\ wait_status[c].ref_cnt = refOf[c]
  BY DEF liveOf, refOf
<1> HIDE DEF holders
<1>3. CASE liveOf[c]
  <2>1. refOf[c] = Holders(c) /\ ((\E t \in Thread : freeing[t] = c) <=> refOf[c] = 0)
    BY <1>3 DEF ProcessInv, RefInv
  <2>2. CASE refOf[c] = 0
    <3>1. PICK t \in Thread : freeing[t] = c
      BY <2>1, <2>2
    <3>2. freers = {t}
      BY <3>1 DEF ProcessInv, RefInv
    <3>3. Cardinality(freers) = 1
      BY <3>2, FS_Singleton
    <3> HIDE DEF freers
    <3> QED BY <1>1, <1>2, <1>3, <2>1, <2>2, <3>3 DEF holders, freers
  <2>3. CASE refOf[c] # 0
    <3>1. freers = {}
      BY <2>1, <2>3
    <3>2. Cardinality(freers) = 0
      BY <3>1, FS_EmptySet
    <3> HIDE DEF freers
    <3> QED BY <1>1, <1>2, <1>3, <2>1, <2>3, <3>2 DEF holders, freers
  <2> QED BY <2>2, <2>3
<1>4. CASE ~ liveOf[c]
  <2>1. freers = {} /\ (Holders(c) = 0 \/ pc[c] = "start_process")
    BY <1>4 DEF ProcessInv, RefInv
  <2> HIDE DEF freers
  <2> QED BY <1>1, <1>2, <1>4, <2>1 DEF holders, freers
<1> QED BY <1>3, <1>4

\* A thread of a process that is freed is done, or waits for ever.
LEMMA InvOthersAreDone ==
  ASSUME ProcessInv
  PROVE  OthersAreDone
<1> SUFFICES ASSUME NEW t \in Thread, Outlives(t), pc[t] # "dying"
             PROVE  Deadlocked(t)
  BY DEF OthersAreDone
<1>1. PICK p \in Thread : pcb[t] = p /\ stateOf[p] = "freed"
  BY DEF Outlives, stateOf, ProcessInv, ShapeInv
<1>2. pcb[p] = None /\ pc[p] = "gone" /\ pc[t] # "gone" /\ t # p
  BY <1>1, Basics DEF ProcessInv, TreeInv, Outlives
<1> DEFINE D == {d \in Thread : d # p /\ pcb[d] = p /\ pc[d] = "join"}
<1>3. \A d \in Thread : d # p /\ pcb[d] = p => Finished(d, p)
  BY <1>1 DEF ProcessInv, LateInv
<1>4. t \in D
  BY <1>1, <1>2, <1>3 DEF Finished
<1>5. ASSUME NEW d \in D
      PROVE  Waits(d) /\ arg[d] \in D
  <2>1. PICK x \in Thread : arg[d] = x /\ x # p /\ pcb[x] = p /\ pc[x] = "join"
    BY <1>3 DEF Finished
  <2>2. joinOf[x] = 0
    BY <2>1 DEF ProcessInv, JoinInv, Working
  <2>3. Blocked(d)
    BY <2>1, <2>2 DEF Blocked, joinOf
  <2> QED BY <2>1, <2>3 DEF Waits
<1> QED BY <1>4, <1>5 DEF Deadlocked

\* TypeOK, whatever threads, calls and exit codes there are, where only main threads
\* exit, wait and are killed.
THEOREM TypeCorrect ==
  ASSUME ByOthers = {}
  PROVE  Spec => []TypeOK
<1>1. ProcessInv => TypeOK
  BY InvTypeOK
<1> QED BY <1>1, ProcessCorrect, PTL

\* release_child (process.c:232-242), where only main threads exit, wait and are
\* killed: the wait_status has as many references as it has holders, and is freed by
\* one thread, once, when there is none.
THEOREM RefCntCorrect ==
  ASSUME ByOthers = {}
  PROVE  Spec => []RefCntIsHolders
<1>1. ProcessInv => RefCntIsHolders
  BY InvRefCnt
<1> QED BY <1>1, ProcessCorrect, PTL

\* process_exit frees the pcb (process.c:380-382), where only main threads exit, wait
\* and are killed, when no thread of the process has anything but its thread_exit left
\* to do, or it waits for ever in a circle of joins.
THEOREM OthersDone ==
  ASSUME ByOthers = {}
  PROVE  Spec => []OthersAreDone
<1>1. ProcessInv => OthersAreDone
  BY InvOthersAreDone
<1> QED BY <1>1, ProcessCorrect, PTL

\* process_wait returns to the parent the status its child ended with, once, and
\* after the end, where only main threads exit, wait and are killed: Process implements
\* ExitStatus.
THEOREM ProcessImplementsExitStatus ==
  ASSUME ByOthers = {}
  PROVE  Spec => ImplementsExitStatus
<1>1. Init => Promise!Init
  <2> SUFFICES ASSUME Init PROVE Promise!Init
    OBVIOUS
  <2>1. \A c \in Thread \ {Root} :
          /\ process[c].state = "none" /\ wait_status[c].exit_code = -1 /\ returned[c] = <<>>
    BY DEF Init, NoProcess, NoStatus
  <2>2. -1 \in Status
    BY DEF Status
  <2> QED BY <2>1, <2>2 DEF Promise!Init
<1>2. ProcessInv /\ [Next]_vars => Promise!Next \/ UNCHANGED <<lives, codes, answers>>
  <2> SUFFICES ASSUME ProcessInv, [Next]_vars
               PROVE  Promise!Next \/ UNCHANGED <<lives, codes, answers>>
    OBVIOUS
  <2>1. PICK t \in Thread : RecordInv' /\ Step(t)
    BY NextIsStep DEF ProcessInv
  <2>2. FieldInv' /\ LifeFlow
    BY <2>1, FieldTypes, LifeSteps DEF ProcessInv
  <2> QED BY <2>2, StepPromises
<1>3. ProcessInv /\ [Next]_vars =>
        [Promise!Next]_<<[c \in Thread \ {Root} |->
                            IF process[c].state = "none" \/ load[c] # "ok" THEN "unborn"
                            ELSE IF process[c].state = "freed" \/ pc[c] \in {"release", "free"}
                                 THEN "dead" ELSE "running"],
                         [c \in Thread \ {Root} |-> wait_status[c].exit_code],
                         [c \in Thread \ {Root} |-> returned[c]]>>
  BY <1>2, Mapped DEF answers
<1> QED BY <1>1, <1>3, ProcessCorrect, PTL DEF Spec, ImplementsExitStatus, Promise!Spec
=============================================================================
