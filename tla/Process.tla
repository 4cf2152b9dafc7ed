------------------------------ MODULE Process -------------------------------
(***************************************************************************)
(* Processes and their user threads, userprog/process.c: execution of a    *)
(* child and the wait for its exit status, with the reference count of the *)
(* wait_status that parent and child share; threads of one process that    *)
(* join each other; the end of a process with several threads.             *)
(*                                                                         *)
(* The semaphores and locks are those of Threads.  All this code runs with *)
(* interrupts on, so threads interleave as they like.  A test and what is  *)
(* done upon it are two actions, as are two insertions in lists.  The      *)
(* lists are under no lock: threads that change one at the same time may   *)
(* leave it with any links.  A process is named by its main thread.        *)
(***************************************************************************)
EXTENDS Integers, Sequences, FiniteSets

CONSTANTS
  Thread,          \* thread identifiers; each is used once, in increasing order
  Root,            \* the kernel's first thread, with the pcb of userprog_init
  None,            \* the null pointer
  ExitCode,        \* the arguments of exit() that are tried
  ByOthers,        \* which of exit(), wait() and being killed threads other than the
                   \* main one do
  MaxProcesses     \* bound: processes that come to be, the kernel's among them

ASSUME ProcessAssumption ==
  /\ Thread \subseteq Nat /\ IsFiniteSet(Thread)
  /\ Root \in Thread /\ None \notin Thread
  /\ ExitCode \subseteq Nat /\ ByOthers \subseteq {"exit", "kill", "wait"}
  /\ MaxProcesses \in Nat

Status == ExitCode \cup {-1, 0}

VARIABLES
  pc,           \* where a thread stands, see PC
  pcb,          \* the process of a thread
  arg,          \* the thread or process its call is about
  at,           \* the element of thread_list its loop has reached
  freeing,      \* the wait_status release_child is about to free
  load,         \* exec_info: load_done and success of a new thread
  process,      \* struct process
  join_elem,    \* struct join_elem
  wait_status,  \* struct wait_status
  returned,     \* history: what process_wait returned for a process
  wild          \* TRUE after an access through a pointer or link that is not valid

threads == <<pc, pcb, arg, at, freeing>>
vars == <<threads, load, process, join_elem, wait_status, returned, wild>>

(***************************************************************************)
(* "none": not created.  "link", "setup": start_pthread, at its second     *)
(* list_push_back and at setup_thread().  "user": running the program.     *)
(* "load_done", "pthread_load_done", "dead", "join": in the sema_down of   *)
(* process_execute, pthread_execute, process_wait, pthread_join.  "wait",  *)
(* "joining": in process_wait and pthread_join, between the test and what  *)
(* follows.  "reap": process_wait, at release_child.  "exit", "exit_main": *)
(* in the loop over thread_list of process_exit and of pthread_exit_main;  *)
(* "exit_joining", "exit_join", "main_joining", "main_join": in its        *)
(* pthread_join.  "children" and so on: the rest of process_exit.          *)
(* "dying": at the thread_exit of pthread_exit.  "gone": its page is       *)
(* freed.                                                                  *)
(***************************************************************************)
PC == {"none", "start_process", "start_pthread", "link", "setup", "user",
       "load_done", "pthread_load_done", "wait", "dead", "reap", "joining", "join",
       "exit", "exit_joining", "exit_join", "exit_main", "main_joining", "main_join",
       "children", "wait_status", "release", "free", "dying", "gone"}

NoProcess == [state |-> "none", marked_for_slaughter |-> FALSE,
              children |-> {}, thread_joins |-> {}, thread_list |-> <<>>]
NoStatus == [live |-> FALSE, ref_cnt |-> 0, exit_code |-> -1, dead |-> 0]

-----------------------------------------------------------------------------
Init ==
  /\ pc = [t \in Thread |-> IF t = Root THEN "user" ELSE "none"]
  /\ pcb = [t \in Thread |-> IF t = Root THEN Root ELSE None]
  /\ arg = [t \in Thread |-> None]
  /\ at = [t \in Thread |-> 0]
  /\ freeing = [t \in Thread |-> None]
  /\ load = [t \in Thread |-> "pending"]
  /\ process = [p \in Thread |-> IF p = Root THEN [NoProcess EXCEPT !.state = "live"]
                                            ELSE NoProcess]
  /\ join_elem = [t \in Thread |-> [joined |-> FALSE, join |-> 0]]
  /\ wait_status = [p \in Thread |-> NoStatus]
  /\ returned = [p \in Thread |-> <<>>]
  /\ wild = FALSE

Go(t, to) == pc' = [pc EXCEPT ![t] = to]
Call(t, to, x) == Go(t, to) /\ arg' = [arg EXCEPT ![t] = x]
Return(t) == Call(t, "user", None)

Exiting == {"exit", "exit_joining", "exit_join", "children", "wait_status", "release",
            "free"}

\* A thread may call the kernel: intr_handler has found that its process is not
\* marked, though another thread may have marked it since.
Calling(t) ==
  /\ pc[t] = "user"
  /\ process[pcb[t]].marked_for_slaughter =>
       \E x \in Thread : pcb[x] = pcb[t] /\ pc[x] \in Exiting

\* The same of processes other than the kernel's own.
User(t) == Calling(t) /\ t # Root

\* Which lists t is about to change.
Changes(t) ==
  CASE pc[t] = "load_done" /\ load[arg[t]] = "ok"   -> {<<pcb[t], "children">>}
    [] pc[t] \in {"wait", "children"}               -> {<<pcb[t], "children">>}
    [] pc[t] = "start_pthread"                      -> {<<arg[t], "thread_joins">>}
    [] pc[t] \in {"link", "exit_main"}              -> {<<pcb[t], "thread_list">>}
    [] pc[t] \in {"join", "exit_join"} /\ join_elem[arg[t]].join > 0
                                                    -> {<<pcb[t], "thread_joins">>}
    [] pc[t] = "main_join" /\ join_elem[arg[t]].join > 0
                                  -> {<<pcb[t], "thread_joins">>, <<pcb[t], "thread_list">>}
    [] OTHER                                        -> {}

\* t changes its lists.  Another thread that is about to change one of them may be
\* halfway through, and then what is in the list is anybody's guess.
Unlocked(t) ==
  wild' \in IF \E x \in Thread \ {t} : Changes(x) \cap Changes(t) # {}
            THEN BOOLEAN ELSE {FALSE}

\* thread_create gives the thread the next identifier.
allocate_tid(n) ==
  pc[n] = "none" /\ \A m \in Thread : pc[m] = "none" => n <= m

-----------------------------------------------------------------------------
(* Execution of a child process.                                           *)

\* The exec_info is on the caller's stack and leads to the new thread.  The
\* kernel's first thread executes a task only to wait for it (run_task).
process_execute(t, c) ==
  /\ Calling(t) /\ allocate_tid(c)
  /\ t = Root => process[Root].children = {}
  /\ Cardinality({p \in Thread : process[p].state # "none"}) < MaxProcesses
  /\ pc' = [pc EXCEPT ![t] = "load_done", ![c] = "start_process"]
  /\ arg' = [arg EXCEPT ![t] = c]
  /\ UNCHANGED <<pcb, at, freeing, load, process, join_elem, wait_status, returned, wild>>

\* start_process: nobody else sees the new process before load_done goes up, so
\* each outcome is one action.  The pcb comes from malloc, and nothing initialises
\* marked_for_slaughter: it holds what the memory held before.
start_process(c) ==
  /\ pc[c] = "start_process"
  /\ \E marked \in BOOLEAN :
       process' = [process EXCEPT ![c] =
         [state |-> "live", marked_for_slaughter |-> marked,
          children |-> {}, thread_joins |-> {c}, thread_list |-> <<c>>]]
  /\ pcb' = [pcb EXCEPT ![c] = c]
  /\ wait_status' = [wait_status EXCEPT ![c] =
       [live |-> TRUE, ref_cnt |-> 2, exit_code |-> -1, dead |-> 0]]
  /\ load' = [load EXCEPT ![c] = "ok"]
  /\ Go(c, "user")
  /\ UNCHANGED <<arg, at, freeing, join_elem, returned, wild>>

\* Without memory, or when load() fails, the pcb and the wait_status are given
\* back.  But without a pcb ws_success is not initialised, and if it happens to
\* hold true the exec_info's pointer, not initialised either, is freed.
start_process_fails(c) ==
  /\ pc[c] = "start_process"
  /\ wild' \in BOOLEAN
  /\ load' = [load EXCEPT ![c] = "failed"]
  /\ Go(c, "gone")
  /\ UNCHANGED <<pcb, arg, at, freeing, process, join_elem, wait_status, returned>>

\* process_execute returns: only now is the child among the parent's children.
ExecuteReturns(t) ==
  /\ pc[t] = "load_done" /\ load[arg[t]] # "pending"
  /\ process' = IF load[arg[t]] = "ok"
                THEN [process EXCEPT ![pcb[t]].children = @ \cup {arg[t]}]
                ELSE process
  /\ Unlocked(t)
  /\ Return(t)
  /\ UNCHANGED <<pcb, at, freeing, load, join_elem, wait_status, returned>>

-----------------------------------------------------------------------------
(* Wait for a child, and the shared wait_status.                           *)

\* May thread t make a call that is tried for main threads only?
May(t, call) == pcb[t] = t \/ call \in ByOthers

\* The search of process_wait.  A call for a process that is not among the children
\* returns -1 at once.
process_wait(t, c) ==
  /\ Calling(t) /\ May(t, "wait") /\ c \in process[pcb[t]].children
  /\ Call(t, "wait", c)
  /\ UNCHANGED <<pcb, at, freeing, load, process, join_elem, wait_status, returned, wild>>

\* Seeded fault: the record stays in the list of children.
WaitKeepsElem(t) ==
  /\ pc[t] = "wait"
  /\ Go(t, "dead")
  /\ Unlocked(t)
  /\ UNCHANGED <<pcb, arg, at, freeing, load, process, join_elem, wait_status, returned>>

\* list_remove(e), of an element that another thread may have removed since, in a
\* record that it may have freed.
WaitRemoves(t) ==
  LET c == arg[t] IN
  /\ pc[t] = "wait"
  /\ process' = [process EXCEPT ![pcb[t]].children = @ \ {c}]
  /\ Go(t, "dead")
  /\ IF ~ wait_status[c].live THEN wild' = TRUE
     ELSE IF c \notin process[pcb[t]].children THEN wild' \in BOOLEAN
     ELSE Unlocked(t)
  /\ UNCHANGED <<pcb, arg, at, freeing, load, join_elem, wait_status, returned>>

\* Seeded fault: no sema_down before the exit code is read.
ChildDeadAtOnce(t) ==
  /\ pc[t] = "dead"
  /\ returned' = [returned EXCEPT ![arg[t]] = Append(@, wait_status[arg[t]].exit_code)]
  /\ Go(t, "reap")
  /\ UNCHANGED <<pcb, arg, at, freeing, load, process, join_elem, wait_status, wild>>

\* sema_down(&cs->dead) and the exit code that is read after it.
ChildDead(t) ==
  LET c == arg[t] IN
  /\ pc[t] = "dead" /\ wait_status[c].dead > 0
  /\ wait_status' = [wait_status EXCEPT ![c].dead = @ - 1]
  /\ returned' = [returned EXCEPT ![c] = Append(@, wait_status[c].exit_code)]
  /\ wild' = ~ wait_status[c].live
  /\ Go(t, "reap")
  /\ UNCHANGED <<pcb, arg, at, freeing, load, process, join_elem>>

\* release_child: under its lock the count goes down; who got 0 will free it.
release_child(t, c) ==
  LET new_ref == wait_status[c].ref_cnt - 1
  IN  /\ wait_status' = [wait_status EXCEPT ![c].ref_cnt = new_ref]
      /\ freeing' = IF new_ref = 0 THEN [freeing EXCEPT ![t] = c] ELSE freeing

FreeStatus(t) ==
  /\ freeing[t] # None
  /\ wait_status' = [wait_status EXCEPT ![freeing[t]].live = FALSE]
  /\ freeing' = [freeing EXCEPT ![t] = None]
  /\ UNCHANGED <<pc, pcb, arg, at, load, process, join_elem, returned, wild>>

WaitReturns(t) ==
  /\ pc[t] = "reap"
  /\ release_child(t, arg[t])
  /\ wild' = ~ wait_status[arg[t]].live
  /\ Return(t)
  /\ UNCHANGED <<pcb, at, load, process, join_elem, returned>>

-----------------------------------------------------------------------------
(* Threads of one process.                                                 *)

pthread_execute(t, n) ==
  /\ User(t) /\ allocate_tid(n)
  /\ pc' = [pc EXCEPT ![t] = "pthread_load_done", ![n] = "start_pthread"]
  /\ arg' = [arg EXCEPT ![t] = n, ![n] = pcb[t]]
  /\ UNCHANGED <<pcb, at, freeing, load, process, join_elem, wait_status, returned, wild>>

\* start_pthread up to the push on thread_joins, and the push on thread_list.
start_pthread(n) ==
  LET p == arg[n] IN
  /\ pc[n] = "start_pthread"
  /\ pcb' = [pcb EXCEPT ![n] = p]
  /\ process' = [process EXCEPT ![p].thread_joins = @ \cup {n}]
  /\ Unlocked(n)
  /\ Call(n, "link", None)
  /\ UNCHANGED <<at, freeing, load, join_elem, wait_status, returned>>

Link(n) ==
  /\ pc[n] = "link"
  /\ process' = [process EXCEPT ![pcb[n]].thread_list = Append(@, n)]
  /\ Unlocked(n)
  /\ Go(n, "setup")
  /\ UNCHANGED <<pcb, arg, at, freeing, load, join_elem, wait_status, returned>>

\* No page, or no place for a stack: joined is set, join is not raised.
setup_thread(n) ==
  /\ pc[n] = "setup"
  /\ \/ /\ load' = [load EXCEPT ![n] = "ok"]
        /\ Go(n, "user")
        /\ UNCHANGED join_elem
     \/ /\ load' = [load EXCEPT ![n] = "failed"]
        /\ join_elem' = [join_elem EXCEPT ![n].joined = TRUE]
        /\ Go(n, "gone")
  /\ UNCHANGED <<pcb, arg, at, freeing, process, wait_status, returned, wild>>

PthreadExecuteReturns(t) ==
  /\ pc[t] = "pthread_load_done" /\ load[arg[t]] # "pending"
  /\ Return(t)
  /\ UNCHANGED <<pcb, at, freeing, load, process, join_elem, wait_status, returned, wild>>

\* pthread_join finds that t may join x.  Otherwise it returns TID_ERROR.
Joinable(t, x) == x \in process[pcb[t]].thread_joins /\ ~ join_elem[x].joined

pthread_join(t, x) ==
  /\ User(t) /\ Joinable(t, x)
  /\ Call(t, "joining", x)
  /\ UNCHANGED <<pcb, at, freeing, load, process, join_elem, wait_status, returned, wild>>

\* joined is set, perhaps not by the first.
JoinBegins(t) ==
  /\ pc[t] \in {"joining", "exit_joining", "main_joining"}
  /\ join_elem' = [join_elem EXCEPT ![arg[t]].joined = TRUE]
  /\ Go(t, CASE pc[t] = "joining" -> "join"
             [] pc[t] = "exit_joining" -> "exit_join"
             [] pc[t] = "main_joining" -> "main_join")
  /\ UNCHANGED <<pcb, arg, at, freeing, load, process, wait_status, returned, wild>>

\* The sema_down of pthread_join and the rest of it, back to the caller.  Another
\* thread that joined x may have removed the element before.
JoinReturns(t) ==
  LET x == arg[t] IN
  /\ pc[t] \in {"join", "exit_join", "main_join"} /\ join_elem[x].join > 0
  /\ join_elem' = [join_elem EXCEPT ![x].join = @ - 1]
  /\ process' = [process EXCEPT ![pcb[t]].thread_joins = @ \ {x}]
  /\ IF x \in process[pcb[t]].thread_joins THEN Unlocked(t) ELSE wild' \in BOOLEAN
  /\ Call(t, CASE pc[t] = "join" -> "user"
               [] pc[t] = "exit_join" -> "exit"
               [] pc[t] = "main_join" -> "exit_main", None)
  /\ at' = IF pc[t] = "join" THEN at ELSE [at EXCEPT ![t] = @ + 1]
  /\ UNCHANGED <<pcb, freeing, load, wait_status, returned>>

\* The loop of the exit paths that finds t's own join_elem and raises it.
WakeJoiner(t) ==
  join_elem' = IF t \in process[pcb[t]].thread_joins
               THEN [join_elem EXCEPT ![t].join = @ + 1] ELSE join_elem


\* pthread_exit: threads other than the main one wake their joiner and go; the
\* main one starts to wait for the others (pthread_exit_main).
PthreadExit(t) ==
  /\ WakeJoiner(t)
  /\ IF pcb[t] = t
     THEN Go(t, "exit_main") /\ at' = [at EXCEPT ![t] = 1]
     ELSE Go(t, "dying") /\ UNCHANGED at
  /\ UNCHANGED <<pcb, arg, freeing, load, process, wait_status, returned, wild>>

pthread_exit(t) == User(t) /\ PthreadExit(t)

\* intr_handler, on an interrupt from user code of a process that exits.
Slaughter(t) ==
  /\ pc[t] = "user" /\ process[pcb[t]].marked_for_slaughter
  /\ PthreadExit(t)

thread_exit(t) ==
  /\ pc[t] = "dying"
  /\ Go(t, "gone")
  /\ UNCHANGED <<pcb, arg, at, freeing, load, process, join_elem, wait_status, returned, wild>>

-----------------------------------------------------------------------------
(* The end of a process.                                                   *)

\* Up to the loop over thread_list: t's joiner is woken, the others are marked.
process_exit(t) ==
  /\ WakeJoiner(t)
  /\ process' = [process EXCEPT ![pcb[t]].marked_for_slaughter = TRUE]
  /\ at' = [at EXCEPT ![t] = 1]
  /\ Go(t, "exit")
  /\ UNCHANGED <<pcb, arg, freeing, load, returned, wild>>

ExitWith(t, exit_code) ==
  /\ wait_status' = [wait_status EXCEPT ![pcb[t]].exit_code = exit_code]
  /\ process_exit(t)

sys_exit(t, exit_code) == User(t) /\ May(t, "exit") /\ ExitWith(t, exit_code)

\* The process is killed by an exception: the exit code stays -1.
kill(t) == User(t) /\ May(t, "kill") /\ process_exit(t) /\ UNCHANGED wait_status

Threads(t) == process[pcb[t]].thread_list

\* One round of the loop over thread_list, up to the test of pthread_join; a round
\* that joins nobody is over.  is_main_thread compares a tid with a pointer and is
\* never true, so the loop joins its own thread too.  The tid of a thread that is gone
\* is read from its freed page: it is nobody's, or that of a thread y whose page it has
\* become.
JoinEach(t) ==
  /\ pc[t] \in {"exit", "exit_main"} /\ at[t] <= Len(Threads(t))
  /\ LET x == Threads(t)[at[t]] IN
     \/ /\ \E y \in Thread :
             /\ y = x \/ pc[x] = "gone"
             /\ pc[y] # "gone" /\ Joinable(t, y)
             /\ Call(t, IF pc[t] = "exit" THEN "exit_joining" ELSE "main_joining", y)
        /\ UNCHANGED <<at, wild>>
     \/ /\ pc[x] = "gone" \/ ~ Joinable(t, x)
        /\ at' = [at EXCEPT ![t] = @ + 1]
        /\ Unlocked(t)
        /\ UNCHANGED <<pc, arg>>
  /\ UNCHANGED <<pcb, freeing, load, process, join_elem, wait_status, returned>>

\* The end of pthread_exit_main.
MainExits(t) == pc[t] = "exit_main" /\ at[t] > Len(Threads(t)) /\ ExitWith(t, 0)

\* Seeded fault: the loop over thread_list leaves out the last thread.
FreeTablesEarly(t) ==
  /\ pc[t] = "exit" /\ at[t] >= Len(Threads(t))
  /\ wild' \in BOOLEAN
  /\ Go(t, "children") /\ at' = [at EXCEPT ![t] = 0]
  /\ UNCHANGED <<pcb, arg, freeing, load, process, join_elem, wait_status, returned>>

\* The tables of user locks and semaphores are freed.  Nothing has initialised
\* them either: what is not zero in them is followed and freed as well.
FreeTables(t) ==
  /\ pc[t] = "exit" /\ at[t] > Len(Threads(t))
  /\ wild' \in BOOLEAN
  /\ Go(t, "children") /\ at' = [at EXCEPT ![t] = 0]
  /\ UNCHANGED <<pcb, arg, freeing, load, process, join_elem, wait_status, returned>>

\* Seeded fault: the children stay in the list.
ReleaseChildrenKeeps(t) ==
  /\ pc[t] = "children"
  /\ \/ /\ \E c \in process[pcb[t]].children : release_child(t, c)
        /\ UNCHANGED pc
     \/ /\ process[pcb[t]].children = {}
        /\ Go(t, "wait_status")
        /\ UNCHANGED <<wait_status, freeing>>
  /\ UNCHANGED <<pcb, arg, at, load, process, join_elem, returned, wild>>

ReleaseChildren(t) ==
  /\ pc[t] = "children"
  /\ \/ \E c \in process[pcb[t]].children :
          /\ process' = [process EXCEPT ![pcb[t]].children = @ \ {c}]
          /\ release_child(t, c)
          /\ Unlocked(t)
          /\ UNCHANGED pc
     \/ /\ process[pcb[t]].children = {}
        /\ Go(t, "wait_status")
        /\ UNCHANGED <<process, wait_status, freeing, wild>>
  /\ UNCHANGED <<pcb, arg, at, load, join_elem, returned>>

\* The parent is woken, then the process's own reference is dropped.
WakeParent(t) ==
  /\ pc[t] = "wait_status"
  /\ wait_status' = [wait_status EXCEPT ![pcb[t]].dead = @ + 1]
  /\ Go(t, "release")
  /\ UNCHANGED <<pcb, arg, at, freeing, load, process, join_elem, returned, wild>>

ReleaseOwn(t) ==
  /\ pc[t] = "release"
  /\ release_child(t, pcb[t])
  /\ Go(t, "free")
  /\ UNCHANGED <<pcb, arg, at, load, process, join_elem, returned, wild>>

FreeProcess(t) ==
  /\ pc[t] = "free"
  /\ process' = [process EXCEPT ![pcb[t]] = [NoProcess EXCEPT !.state = "freed"]]
  /\ pcb' = [pcb EXCEPT ![t] = None]
  /\ Go(t, "gone")
  /\ UNCHANGED <<arg, at, freeing, load, join_elem, wait_status, returned, wild>>

-----------------------------------------------------------------------------
\* A thread whose process is freed: process_activate reads the pcb when the
\* thread is switched to, before it does anything else.
Outlives(t) ==
  pc[t] \notin {"none", "gone"} /\ pcb[t] # None /\ process[pcb[t]].state = "freed"

Blocked(t) ==
  CASE pc[t] \in {"load_done", "pthread_load_done"}     -> load[arg[t]] = "pending"
    [] pc[t] = "dead"                                   -> wait_status[arg[t]].dead = 0
    [] pc[t] \in {"join", "exit_join", "main_join"}     -> join_elem[arg[t]].join = 0
    [] OTHER                                            -> FALSE

process_activate(t) ==
  /\ Outlives(t) /\ ~ Blocked(t)
  /\ wild' = TRUE
  /\ UNCHANGED <<threads, load, process, join_elem, wait_status, returned>>

Calls(t) ==
  \/ \E c \in Thread : process_execute(t, c) \/ process_wait(t, c)
  \/ \E x \in Thread : pthread_execute(t, x) \/ pthread_join(t, x)
  \/ pthread_exit(t) \/ kill(t)
  \/ \E e \in ExitCode : sys_exit(t, e)

Kernel(t) ==
  \/ start_process(t) \/ start_process_fails(t)
  \/ ExecuteReturns(t) \/ WaitRemoves(t) \/ ChildDead(t) \/ WaitReturns(t)
  \/ start_pthread(t) \/ Link(t) \/ setup_thread(t) \/ PthreadExecuteReturns(t)
  \/ JoinBegins(t) \/ JoinReturns(t)
  \/ Slaughter(t) \/ thread_exit(t)
  \/ JoinEach(t) \/ MainExits(t) \/ FreeTables(t)
  \/ ReleaseChildren(t) \/ WakeParent(t) \/ ReleaseOwn(t) \/ FreeProcess(t)

\* What the scheduler lets a thread do on the way back to user code.
Progress(t) ==
  \/ FreeStatus(t)
  \/ freeing[t] = None /\ ~ Outlives(t) /\ Kernel(t)
  \/ process_activate(t)

\* An access through a pointer that is not valid may do anything: the end.
Next ==
  /\ ~ wild
  /\ \E t \in Thread :
       \/ Progress(t)
       \/ freeing[t] = None /\ ~ Outlives(t) /\ Calls(t)

Spec == Init /\ [][Next]_vars

\* Every ready thread runs in the end (Threads shows it among equals), and every
\* user thread is interrupted in the end.
FairSpec == Spec /\ \A t \in Thread : WF_vars(~ wild /\ Progress(t))
-----------------------------------------------------------------------------
(* What it promises.                                                       *)

TypeOK ==
  /\ pc \in [Thread -> PC]
  /\ pcb \in [Thread -> Thread \cup {None}]
  /\ arg \in [Thread -> Thread \cup {None}]
  /\ at \in [Thread -> 0 .. Cardinality(Thread) + 1]
  /\ freeing \in [Thread -> Thread \cup {None}]
  /\ load \in [Thread -> {"pending", "ok", "failed"}]
  /\ process \in [Thread -> [state : {"none", "live", "freed"},
       marked_for_slaughter : BOOLEAN, children : SUBSET Thread,
       thread_joins : SUBSET Thread, thread_list : Seq(Thread)]]
  /\ join_elem \in [Thread -> [joined : BOOLEAN, join : 0 .. 2]]
  /\ wait_status \in [Thread -> [live : BOOLEAN, ref_cnt : 0 .. 2,
                                 exit_code : Status, dead : 0 .. 1]]
  /\ returned \in [Thread -> Seq(Status)]
  /\ wild \in BOOLEAN

\* The parent's hold on the wait_status of c: it is in process_execute for c, or
\* has c among its children, or is in process_wait for c.
ParentHolds(c) ==
  \/ \E p \in Thread : process[p].state = "live" /\ c \in process[p].children
  \/ \E t \in Thread : pc[t] = "load_done" /\ arg[t] = c /\ load[c] # "failed"
  \/ \E t \in Thread : pc[t] \in {"wait", "dead", "reap"} /\ arg[t] = c

\* The hold of process c on its own wait_status.
SelfHolds(c) ==
  /\ process[c].state = "live"
  /\ ~ \E t \in Thread : pcb[t] = c /\ pc[t] = "free"

\* Whoever comes last, the parent that waits, exits or fails to wait, or the
\* child, frees the record, once: the count is the number of those who hold it,
\* and at 0 there is one thread about to free it (process.c:232-242, 369-374).
RefCntIsHolders ==
  \A c \in Thread \ {Root} :
    LET holders == Cardinality({h \in {"parent", "self"} :
                     IF h = "parent" THEN ParentHolds(c) ELSE SelfHolds(c)})
        freers  == {t \in Thread : freeing[t] = c}
    IN  IF wait_status[c].live
        THEN /\ wait_status[c].ref_cnt = holders
             /\ Cardinality(freers) = IF holders = 0 THEN 1 ELSE 0
        ELSE freers = {} /\ (holders = 0 \/ pc[c] = "start_process")

\* A parent gets the status its child ended with, once, and after the end.
Promise == INSTANCE ExitStatus
  WITH Pid <- Thread \ {Root},
       life <- [c \in Thread \ {Root} |->
                  IF process[c].state = "none" \/ load[c] # "ok" THEN "unborn"
                  ELSE IF process[c].state = "freed" \/ pc[c] \in {"release", "free"}
                       THEN "dead" ELSE "running"],
       status <- [c \in Thread \ {Root} |-> wait_status[c].exit_code],
       returned <- [c \in Thread \ {Root} |-> returned[c]]
ImplementsExitStatus == Promise!Spec

\* exit(162) "should terminate the process gracefully with exit code 162"
\* (tests/userprog/multithreading/join-exit-2.c:4-6): a status once set stands.
ExitCodeKept ==
  [][\A c \in Thread : wait_status[c].live /\ wait_status[c].exit_code \in ExitCode
       => wait_status'[c].exit_code = wait_status[c].exit_code]_vars

\* "Avoid race where PCB is freed before t->pcb is set to NULL": "an unfortuantely
\* timed timer interrupt can try to activate the pagedir, but it is now freed memory"
\* (process.c:376-379).  No thread that can still run has a freed pcb.
PcbNotFreedFirst == \A t \in Thread : Outlives(t) => Blocked(t)

\* Who waits in pthread_join or process_wait, and so for which thread.
Waits(t) == pc[t] \in {"join", "exit_join", "main_join", "dead"} /\ Blocked(t)

\* For ever, when it is one of some threads that wait for each other.
Deadlocked(t) ==
  \E D \in SUBSET Thread : t \in D /\ \A d \in D : Waits(d) /\ arg[d] \in D

\* The pcb is freed only when the process's other threads are past everything but
\* their thread_exit, or wait for each other for ever: the loop of process_exit passes
\* over a thread that somebody else has joined, and relies on its wait for the joiner
\* (process.c:306-312); where two join one thread and one of them is never woken, it
\* waits for ever rather than free the pcb.
OthersAreDone ==
  \A t \in Thread : Outlives(t) => pc[t] = "dying" \/ Deadlocked(t)

\* A thread waits for ever, too, when it joined one that ended without a wake-up for
\* it: the one failed in setup_thread, or somebody else joined it too and was woken.
Missed(t) ==
  LET x == arg[t]
  IN  /\ pc[t] \in {"join", "exit_join", "main_join"} /\ Blocked(t)
      /\ pc[x] = "gone"
      /\ load[x] = "failed" \/ x \notin process[pcb[t]].thread_joins

\* Where the chain of the threads that t waits for ends, unless it is deadlocked or
\* one of them has missed the end.
Last(t) ==
  LET n == Cardinality(Thread)
      chain[i \in 0 .. n] == IF i = 0 THEN t
                             ELSE IF Waits(chain[i - 1]) /\ ~ Missed(chain[i - 1])
                                  THEN arg[chain[i - 1]]
                             ELSE chain[i - 1]
  IN  chain[n]

\* Thread t waits for one that waits for ever for a thread that is gone, or for one
\* that runs on in its program.
HeldUp(t) ==
  LET x == Last(t)
  IN  Missed(x) \/ (Waits(t) /\ pc[x] = "user" /\ ~ process[pcb[x]].marked_for_slaughter)

=============================================================================
