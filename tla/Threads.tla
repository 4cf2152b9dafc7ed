------------------------------ MODULE Threads ------------------------------
(***************************************************************************)
(* The Pintos kernel's threads, semaphores and locks with priority         *)
(* donation: threads/thread.c and the first half of threads/synch.c.       *)
(*                                                                         *)
(* The kernel runs on one processor, and everything below happens with     *)
(* interrupts disabled, so an action is a stretch of code that no other    *)
(* thread and no interrupt can cut: from a point where interrupts are on   *)
(* to the next one, or to the next call of schedule().  Such stretches     *)
(* that hold a loop (recurse_donate, the while of sema_down) take one      *)
(* action per iteration; pc tells that interrupts are still off between    *)
(* the iterations, and then nothing else is enabled.                       *)
(*                                                                         *)
(* Any thread may call any operation whose ASSERTs hold at any time.       *)
(***************************************************************************)
EXTENDS Integers, Sequences, FiniteSets

CONSTANTS
  Thread,     \* the pages a `struct thread' may live in, idle's left out
  Main,       \* initial_thread, the thread that ran thread_init()
  Idle,       \* idle_thread
  Lock,       \* locks; a lock and the semaphore inside it share a name
  Sema,       \* semaphores used on their own
  None,       \* the null pointer
  PRI_MAX,    \* priorities are 0 .. PRI_MAX  (PRI_MIN is 0)
  PRI_DEFAULT, \* the priority of Main at the start
  TIME_SLICE, \* timer ticks a thread runs before it is made to yield
  MaxValue,   \* bound on the value of a semaphore of Sema, for TLC
  active_sched_policy  \* "FIFO" or "PRIO"

ASSUME ThreadAssumption ==
  /\ Main \in Thread /\ Idle \notin Thread /\ IsFiniteSet(Thread)
  /\ None \notin Thread \cup {Idle}
ASSUME SemaphoreAssumption ==
  /\ Lock \cap Sema = {} /\ Thread \cap (Lock \cup Sema) = {}
  /\ None \notin Lock \cup Sema
ASSUME NumberAssumption ==
  /\ PRI_MAX \in Nat /\ PRI_DEFAULT \in 0 .. PRI_MAX
  /\ MaxValue \in Nat /\ TIME_SLICE \in Nat \ {0}
ASSUME PolicyAssumption == active_sched_policy \in {"FIFO", "PRIO"}

VARIABLES
  cur,                \* the running thread
  status,             \* thread.status; "FREE" when the page holds no thread
  pc,                 \* where the thread stands in the kernel, see PC
  priority,           \* thread.priority, the thread's own
  effective_priority, \* thread.effective_priority, with what it was donated
  donated_to,         \* thread.donated_to, the lock lock_acquire() waits for
  donated_locks,      \* thread.donated_locks, the locks the thread holds
  arg,                \* what its call is about: the semaphore of sema_down(), the
                      \* page of thread_create()
  donor,              \* `curr' of the recurse_donate() in progress
  ready,              \* fifo_ready_list and priority_queue
  thread_ticks,       \* timer ticks since the last switch
  holder,             \* lock.holder
  value,              \* semaphore.value
  waiters             \* semaphore.waiters

threadVars == <<priority, effective_priority, donated_to, donated_locks>>
semaVars   == <<value, waiters>>
switchVars == <<cur, status, ready, thread_ticks>>
vars == <<cur, status, pc, priority, effective_priority, donated_to,
          donated_locks, arg, donor, ready, thread_ticks, holder, value,
          waiters>>

AnyThread == Thread \cup {Idle}
Semaphore == Lock \cup Sema
Priority  == 0 .. PRI_MAX
Status    == {"FREE", "RUNNING", "READY", "BLOCKED", "DYING"}

(***************************************************************************)
(* "run": between two operations, interrupts on.  "create": inside         *)
(* thread_create() after its thread_unblock(), "store" and "set": inside   *)
(* thread_set_priority() before its second store and before                *)
(* update_priority(), all with interrupts on.  "donate", "down": in the    *)
(* loop of recurse_donate(), at the head of the loop of sema_down(),       *)
(* interrupts off.  "halt": idle's `sti; hlt'.  "fault": a freed page has  *)
(* been read for a thread; what the kernel does then is not modelled.      *)
(***************************************************************************)
PC == {"run", "create", "store", "set", "donate", "down", "halt", "fault"}

InterruptsOn == pc[cur] \in {"run", "create", "store", "set", "halt"}

Elements(q) == {q[i] : i \in DOMAIN q}

-----------------------------------------------------------------------------
(* Lists, ordered by effective priority e, highest first.                  *)

\* Seeded fault: the ready queue served first in, first out.
PushBack(q, x, e) == Append(q, x)

\* Seeded fault: the comparator is >=, so that x goes before its equals.
InsertBeforeEquals(q, x, e) ==
  LET k == Cardinality({i \in DOMAIN q : \A j \in 1..i : e[q[j]] > e[x]})
  IN  SubSeq(q, 1, k) \o <<x>> \o SubSeq(q, k + 1, Len(q))

\* list_insert_ordered: x goes before the first element of lower priority.
InsertOrdered(q, x, e) ==
  LET k == Cardinality({i \in DOMAIN q : \A j \in 1..i : e[q[j]] >= e[x]})
  IN  SubSeq(q, 1, k) \o <<x>> \o SubSeq(q, k + 1, Len(q))

\* Seeded fault: a thread is inserted anew without being removed.
RemoveNothing(q, x) == q

\* list_remove of the element x, if it is in q.
Remove(q, x) ==
  IF x \notin Elements(q) THEN q
  ELSE [i \in 1 .. (Len(q) - 1) |->
          IF \E j \in 1..i : q[j] = x THEN q[i + 1] ELSE q[i]]

\* Seeded fault: the wait list stays in the order of arrival.
Unsorted(q, e) == {q}

\* list_sort: the only member is q sorted by e, equals in their old order.
Sorted(q, e) ==
  { [i \in DOMAIN q |-> q[old[i]]] :
      old \in { f \in [DOMAIN q -> DOMAIN q] :
                  \A i, j \in DOMAIN q : i < j =>
                    \/ e[q[f[i]]] > e[q[f[j]]]
                    \/ e[q[f[i]]] = e[q[f[j]]] /\ f[i] < f[j] } }

-----------------------------------------------------------------------------
(* The scheduler.  r, st and e are the ready lists, the statuses and the   *)
(* effective priorities at the moment of the call.                         *)

thread_enqueue(r, t, e) ==
  IF active_sched_policy = "FIFO"
  THEN [r EXCEPT !["FIFO"] = Append(@, t)]
  ELSE [r EXCEPT !["PRIO"] = InsertOrdered(@, t, e)]

\* schedule() and thread_switch_tail(): the next thread runs with a new time
\* slice, and the page of the previous one is freed if that one is dying.
schedule(r, st) ==
  LET list == r[active_sched_policy]
      next == IF list = <<>> THEN Idle ELSE Head(list)
  IN  /\ cur' = next
      /\ status' = [t \in AnyThread |->
                      CASE t = next -> "RUNNING"
                        [] t # next /\ st[t] = "DYING" /\ t # Main -> "FREE"
                        [] OTHER -> st[t]]
      /\ ready' = IF list = <<>> THEN r
                  ELSE [r EXCEPT ![active_sched_policy] = Tail(list)]
      /\ thread_ticks' = 0

\* Seeded fault: the idle thread is put on the ready list as well.
YieldOfAny(r, st, e) ==
  schedule(thread_enqueue(r, cur, e), [st EXCEPT ![cur] = "READY"])

thread_yield(r, st, e) ==
  schedule(IF cur = Idle THEN r ELSE thread_enqueue(r, cur, e),
           [st EXCEPT ![cur] = "READY"])

\* The running thread goes on.
Continue(r, st) ==
  /\ status' = st /\ ready' = r
  /\ UNCHANGED <<cur, thread_ticks>>

\* thread_unblock(u), then thread_yield() if u outranks the running thread.
UnblockAndPreempt(u, e) ==
  LET r  == thread_enqueue(ready, u, e)
      st == [status EXCEPT ![u] = "READY"]
  IN  IF e[u] > e[cur] THEN thread_yield(r, st, e) ELSE Continue(r, st)

\* Seeded fault: donations are kept as long as a lock is held.
KeptPriority(t, locks) ==
  {IF locks = {} THEN priority[t] ELSE effective_priority[t]}

\* What update_priority(t) may set t's effective priority to when t holds
\* locks: the highest of its own priority and the FIRST waiter of each lock.
UpdatedPriority(t, locks) ==
  LET offers == {priority[t]} \cup
                {effective_priority[Head(waiters[l])] :
                   l \in {m \in locks : waiters[m] # <<>>}}
  IN  {p \in offers : \A o \in offers : o <= p}

-----------------------------------------------------------------------------
(* The state after thread_start(): main runs, idle has blocked once and    *)
(* has not been scheduled again, every other page is free.                 *)
Init ==
  /\ cur = Main
  /\ status = [t \in AnyThread |-> CASE t = Main -> "RUNNING"
                                     [] t = Idle -> "BLOCKED"
                                     [] OTHER    -> "FREE"]
  /\ pc = [t \in AnyThread |-> IF t = Idle THEN "halt" ELSE "run"]
  /\ priority = [t \in AnyThread |-> IF t = Main THEN PRI_DEFAULT ELSE 0]
  /\ effective_priority = priority
  /\ donated_to = [t \in AnyThread |-> None]
  /\ donated_locks = [t \in AnyThread |-> {}]
  /\ arg = [t \in AnyThread |-> None]
  /\ donor = None
  /\ ready = [policy \in {"FIFO", "PRIO"} |-> <<>>]
  /\ thread_ticks = 0
  /\ holder = [l \in Lock |-> None]
  /\ value = [s \in Semaphore |-> IF s \in Lock THEN 1 ELSE 0]
  /\ waiters = [s \in Semaphore |-> <<>>]

-----------------------------------------------------------------------------
(* Threads come and go.                                                    *)

\* thread_create from init_thread to thread_unblock (allocate_tid is a
\* lock_acquire and a lock_release of tid_lock, actions of their own).
thread_create(t, p) ==
  /\ pc[cur] = "run" /\ cur # Idle
  /\ status[t] = "FREE"
  /\ priority' = [priority EXCEPT ![t] = p]
  /\ effective_priority' = [effective_priority EXCEPT ![t] = p]
  /\ pc' = [pc EXCEPT ![t] = "run", ![cur] = "create"]
  /\ arg' = [arg EXCEPT ![cur] = t]
  /\ Continue(thread_enqueue(ready, t, [effective_priority EXCEPT ![t] = p]),
              [status EXCEPT ![t] = "READY"])
  /\ UNCHANGED <<donated_to, donated_locks, donor, holder, value, waiters>>

\* The rest of thread_create, with interrupts on: the new thread may have run,
\* and its page may be free, or another thread's.
CreateReturns ==
  /\ pc[cur] = "create"
  /\ pc' = [pc EXCEPT ![cur] = "run"]
  /\ arg' = [arg EXCEPT ![cur] = None]
  /\ IF effective_priority[arg[cur]] > effective_priority[cur]
     THEN thread_yield(ready, status, effective_priority)
     ELSE Continue(ready, status)
  /\ UNCHANGED <<threadVars, donor, holder, semaVars>>

\* A page that is freed is overwritten; here its members get one value.
\* initial_thread's page is not freed.
Freed(f, x) == IF cur = Main THEN f ELSE [f EXCEPT ![cur] = x]

\* The thread's locks are not looked at: those it holds keep the page for their
\* holder, also when the page becomes another thread's.
thread_exit ==
  /\ pc[cur] = "run" /\ cur # Idle
  /\ schedule(ready, [status EXCEPT ![cur] = "DYING"])
  /\ priority' = Freed(priority, 0)
  /\ effective_priority' = Freed(effective_priority, 0)
  /\ donated_locks' = Freed(donated_locks, {})
  /\ UNCHANGED <<pc, donated_to, arg, donor, holder, value, waiters>>

\* A call of thread_yield() from a thread.
Yield ==
  /\ pc[cur] = "run" /\ cur # Idle
  /\ thread_yield(ready, status, effective_priority)
  /\ UNCHANGED <<pc, threadVars, arg, donor, holder, semaVars>>

\* idle goes round its loop: thread_block(), and `sti; hlt' when it is back.
idle ==
  /\ cur = Idle /\ pc[Idle] = "run"
  /\ pc' = [pc EXCEPT ![Idle] = "halt"]
  /\ schedule(ready, [status EXCEPT ![Idle] = "BLOCKED"])
  /\ UNCHANGED <<threadVars, arg, donor, holder, semaVars>>

-----------------------------------------------------------------------------
(* Interrupts, taken by whichever thread runs.  `hlt' ends with one.       *)

IdleWakes == pc' = IF cur = Idle THEN [pc EXCEPT ![Idle] = "run"] ELSE pc

\* The front of priority_queue outranks the running thread.
Outranked(r) ==
  /\ active_sched_policy = "PRIO"
  /\ r["PRIO"] # <<>>
  /\ effective_priority[Head(r["PRIO"])] > effective_priority[cur]

\* Seeded fault: the preemption is decided before the handler wakes threads.
TickBeforeWaking(r, st) ==
  IF Outranked(ready) \/ thread_ticks + 1 >= TIME_SLICE
  THEN thread_yield(r, st, effective_priority)
  ELSE /\ thread_ticks' = thread_ticks + 1
       /\ status' = st /\ ready' = r
       /\ UNCHANGED cur

\* A tick's effect: a yield when the handler returns, or one more tick counted.
Tick(r, st) ==
  IF Outranked(r) \/ thread_ticks + 1 >= TIME_SLICE
  THEN thread_yield(r, st, effective_priority)
  ELSE /\ thread_ticks' = thread_ticks + 1
       /\ status' = st /\ ready' = r
       /\ UNCHANGED cur

\* The timer's interrupt in a kernel where nobody sleeps; Timer has the sleepers.
thread_tick ==
  /\ InterruptsOn
  /\ Tick(ready, status)
  /\ IdleWakes
  /\ UNCHANGED <<threadVars, arg, donor, holder, semaVars>>

\* sema_up() from a device's interrupt handler: the waiters are not sorted,
\* and the running thread is not preempted.
InterruptSemaUp(s) ==
  /\ InterruptsOn /\ value[s] < MaxValue
  /\ value' = [value EXCEPT ![s] = @ + 1]
  /\ IF waiters[s] = <<>>
     THEN Continue(ready, status) /\ UNCHANGED waiters
     ELSE LET u == Head(waiters[s])
          IN  /\ waiters' = [waiters EXCEPT ![s] = Tail(@)]
              /\ Continue(thread_enqueue(ready, u, effective_priority),
                          [status EXCEPT ![u] = "READY"])
  /\ IdleWakes
  /\ UNCHANGED <<threadVars, arg, donor, holder>>

-----------------------------------------------------------------------------
(* Semaphores.                                                             *)

\* Seeded fault: the loop of sema_down lets a 0 pass.
AvailableOrZero(s) == value[s] >= 0

\* What the loop condition of sema_down, and sema_try_down, look at.
Available(s) == value[s] > 0

\* A call of sema_down() on a semaphore that is not a lock's.
sema_down(s) ==
  /\ pc[cur] = "run" /\ cur # Idle
  /\ pc' = [pc EXCEPT ![cur] = "down"]
  /\ arg' = [arg EXCEPT ![cur] = s]
  /\ UNCHANGED <<switchVars, threadVars, donor, holder, semaVars>>

\* One evaluation of sema_down's loop condition that finds value 0.
SemaBlock(s) ==
  /\ pc[cur] = "down" /\ arg[cur] = s
  /\ ~ Available(s)
  /\ waiters' = [waiters EXCEPT ![s] = Append(@, cur)]
  /\ schedule(ready, [status EXCEPT ![cur] = "BLOCKED"])
  /\ UNCHANGED <<pc, threadVars, arg, donor, holder, value>>

\* The loop ends: the rest of sema_down and, for a lock, of lock_acquire.
SemaTake(s) ==
  /\ pc[cur] = "down" /\ arg[cur] = s
  /\ Available(s)
  /\ value' = [value EXCEPT ![s] = @ - 1]
  /\ pc' = [pc EXCEPT ![cur] = "run"]
  /\ arg' = [arg EXCEPT ![cur] = None]
  /\ IF s \in Lock
     THEN /\ donated_to' = [donated_to EXCEPT ![cur] = None]
          /\ holder' = [holder EXCEPT ![s] = cur]
          /\ donated_locks' = [donated_locks EXCEPT ![cur] = @ \cup {s}]
     ELSE UNCHANGED <<donated_to, holder, donated_locks>>
  /\ UNCHANGED <<switchVars, priority, effective_priority, donor, waiters>>

\* sema_try_down that succeeds; one that fails changes nothing.
sema_try_down(s) ==
  /\ pc[cur] = "run" /\ cur # Idle
  /\ Available(s)
  /\ value' = [value EXCEPT ![s] = @ - 1]
  /\ UNCHANGED <<switchVars, pc, threadVars, arg, donor, holder, waiters>>

\* Seeded fault: the value goes up only if nobody waits.
SemaHandOver(s, e) ==
  \/ /\ waiters[s] = <<>>
     /\ value' = [value EXCEPT ![s] = @ + 1]
     /\ Continue(ready, status)
     /\ UNCHANGED waiters
  \/ \E w \in Sorted(waiters[s], e) :
       /\ w # <<>>
       /\ waiters' = [waiters EXCEPT ![s] = Tail(w)]
       /\ UnblockAndPreempt(Head(w), e)
       /\ UNCHANGED value

\* Seeded fault: a waiter that does not outrank the running thread is left asleep.
SemaUpIfHigher(s, e) ==
  /\ value' = [value EXCEPT ![s] = @ + 1]
  /\ \/ /\ waiters[s] = <<>> \/ \A i \in DOMAIN waiters[s] : e[waiters[s][i]] <= e[cur]
        /\ Continue(ready, status)
        /\ UNCHANGED waiters
     \/ \E w \in Sorted(waiters[s], e) :
          /\ w # <<>> /\ e[Head(w)] > e[cur]
          /\ waiters' = [waiters EXCEPT ![s] = Tail(w)]
          /\ UnblockAndPreempt(Head(w), e)

\* sema_up, called by a thread, with the effective priorities e.
SemaUp(s, e) ==
  /\ value' = [value EXCEPT ![s] = @ + 1]
  /\ \/ /\ waiters[s] = <<>>
        /\ Continue(ready, status)
        /\ UNCHANGED waiters
     \/ \E w \in Sorted(waiters[s], e) :
          /\ w # <<>>
          /\ waiters' = [waiters EXCEPT ![s] = Tail(w)]
          /\ UnblockAndPreempt(Head(w), e)

sema_up(s) ==
  /\ pc[cur] = "run" /\ cur # Idle
  /\ value[s] < MaxValue
  /\ SemaUp(s, effective_priority)
  /\ UNCHANGED <<pc, threadVars, arg, donor, holder>>

-----------------------------------------------------------------------------
(* Locks.                                                                  *)

\* lock_acquire up to the call of recurse_donate or of sema_down.
lock_acquire(l) ==
  /\ pc[cur] = "run" /\ cur # Idle
  /\ holder[l] # cur
  /\ donated_to' = [donated_to EXCEPT ![cur] = l]
  /\ arg' = [arg EXCEPT ![cur] = l]
  /\ IF holder[l] # None
     THEN pc' = [pc EXCEPT ![cur] = "donate"] /\ donor' = cur
     ELSE pc' = [pc EXCEPT ![cur] = "down"] /\ UNCHANGED donor
  /\ UNCHANGED <<switchVars, priority, effective_priority, donated_locks,
                 holder, semaVars>>

\* The thread recurse_donate's loop looks at next, None at the end of the chain.
NextHolder ==
  IF donated_to[donor] = None THEN None ELSE holder[donated_to[donor]]

\* The holder has exited and its page is free: recurse_donate takes what it reads
\* there for a priority and a status, and follows it.
HolderIsGone == NextHolder # None /\ status[NextHolder] = "FREE"

Donates ==
  /\ NextHolder # None /\ ~ HolderIsGone
  /\ effective_priority[NextHolder] < effective_priority[donor]

DonateToFreed ==
  /\ pc[cur] = "donate" /\ HolderIsGone
  /\ pc' = [pc EXCEPT ![cur] = "fault"]
  /\ UNCHANGED <<switchVars, threadVars, arg, donor, holder, semaVars>>

\* An iteration of recurse_donate.  A ready thread is put in its new place in
\* priority_queue, whichever list it was in.
recurse_donate ==
  /\ pc[cur] = "donate" /\ Donates
  /\ LET next == NextHolder
         e == [effective_priority EXCEPT ![next] = effective_priority[donor]]
     IN  /\ effective_priority' = e
         /\ donor' = next
         /\ IF status[next] = "READY"
            THEN LET r == [list \in DOMAIN ready |-> Remove(ready[list], next)]
                 IN  ready' = [r EXCEPT !["PRIO"] = InsertOrdered(@, next, e)]
            ELSE UNCHANGED ready
  /\ UNCHANGED <<cur, status, thread_ticks, pc, priority, donated_to,
                 donated_locks, arg, holder, semaVars>>

\* recurse_donate returns and lock_acquire calls sema_down.
DonationEnds ==
  /\ pc[cur] = "donate" /\ ~ Donates /\ ~ HolderIsGone
  /\ pc' = [pc EXCEPT ![cur] = "down"]
  /\ donor' = None
  /\ UNCHANGED <<switchVars, threadVars, arg, holder, semaVars>>

\* What list_remove(&lock->elem) may leave of the running thread's donated_locks.
\* If an earlier thread in the same page took l, and exited, l is linked into a
\* list that was where donated_locks is now, and takes any others out with it.
Unlinked(l) ==
  IF l \in donated_locks[cur] THEN {donated_locks[cur] \ {l}}
  ELSE SUBSET donated_locks[cur]

lock_release(l) ==
  /\ pc[cur] = "run"
  /\ holder[l] = cur
  /\ holder' = [holder EXCEPT ![l] = None]
  /\ \E locks \in Unlinked(l) :
       /\ donated_locks' = [donated_locks EXCEPT ![cur] = locks]
       /\ \E p \in UpdatedPriority(cur, locks) :
            LET e == [effective_priority EXCEPT ![cur] = p]
            IN  effective_priority' = e /\ SemaUp(l, e)
  /\ UNCHANGED <<pc, priority, donated_to, arg, donor>>

-----------------------------------------------------------------------------
(* thread_set_priority runs with interrupts on until update_priority.      *)

thread_set_priority(p) ==
  /\ pc[cur] = "run" /\ cur # Idle
  /\ priority' = [priority EXCEPT ![cur] = p]
  /\ pc' = [pc EXCEPT ![cur] = "store"]
  /\ UNCHANGED <<switchVars, effective_priority, donated_to, donated_locks, arg,
                 donor, holder, semaVars>>

\* The second store: what the thread has been donated is lost until update_priority.
StoreEffective ==
  /\ pc[cur] = "store"
  /\ effective_priority' = [effective_priority EXCEPT ![cur] = priority[cur]]
  /\ pc' = [pc EXCEPT ![cur] = "set"]
  /\ UNCHANGED <<switchVars, priority, donated_to, donated_locks, arg, donor,
                 holder, semaVars>>

\* The call of update_priority that ends thread_set_priority.  The comparison
\* with the front of the queue before it (`thread_yield;') has no effect.
update_priority ==
  /\ pc[cur] = "set"
  /\ \E p \in UpdatedPriority(cur, donated_locks[cur]) :
       effective_priority' = [effective_priority EXCEPT ![cur] = p]
  /\ pc' = [pc EXCEPT ![cur] = "run"]
  /\ UNCHANGED <<switchVars, priority, donated_to, donated_locks, arg,
                 donor, holder, semaVars>>

-----------------------------------------------------------------------------
\* The steps of the running thread itself.
Calls ==
  \/ \E t \in Thread, p \in Priority : thread_create(t, p)
  \/ CreateReturns
  \/ thread_exit
  \/ Yield
  \/ idle
  \/ \E s \in Sema : sema_down(s) \/ sema_try_down(s) \/ sema_up(s)
  \/ \E s \in Semaphore : SemaBlock(s) \/ SemaTake(s)
  \/ \E l \in Lock : lock_acquire(l) \/ lock_release(l)
  \/ recurse_donate
  \/ DonateToFreed
  \/ DonationEnds
  \/ \E p \in Priority : thread_set_priority(p)
  \/ StoreEffective
  \/ update_priority

DeviceInterrupt == \E s \in Sema : InterruptSemaUp(s)

Next == Calls \/ thread_tick \/ DeviceInterrupt

Spec == Init /\ [][Next]_vars

\* The timer's interrupt request stays pending while interrupts are off, so it
\* is delivered if they are on again and again (SF); a thread that runs with
\* interrupts off gets to their end, and idle goes round its loop (WF).
KernelSteps ==
  \/ \E s \in Semaphore : SemaBlock(s) \/ SemaTake(s)
  \/ recurse_donate \/ DonateToFreed \/ DonationEnds
FairSpec == Spec /\ SF_vars(thread_tick) /\ WF_vars(KernelSteps) /\ WF_vars(idle)

-----------------------------------------------------------------------------
(* What the kernel promises.                                               *)

TypeOK ==
  /\ cur \in AnyThread
  /\ status \in [AnyThread -> Status]
  /\ pc \in [AnyThread -> PC]
  /\ priority \in [AnyThread -> Priority]
  /\ effective_priority \in [AnyThread -> Priority]
  /\ donated_to \in [AnyThread -> Lock \cup {None}]
  /\ donated_locks \in [AnyThread -> SUBSET Lock]
  /\ arg \in [AnyThread -> Semaphore \cup Thread \cup {None}]
  /\ donor \in AnyThread \cup {None}
  /\ ready \in [{"FIFO", "PRIO"} -> Seq(Thread)]
  /\ thread_ticks \in 0 .. TIME_SLICE
  /\ holder \in [Lock -> Thread \cup {None}]
  /\ value \in [Semaphore -> Nat]
  /\ waiters \in [Semaphore -> Seq(Thread)]

\* A lock's semaphore is 0 just as long as the lock has a holder, and only its
\* holder counts it among its donated_locks (synch.c:194-252), through barging,
\* preemption and the exit of a thread that holds it, which leaves it held.
LockInv ==
  \A l \in Lock :
    /\ value[l] = IF holder[l] = None THEN 1 ELSE 0
    /\ \A t \in AnyThread : l \in donated_locks[t] => holder[l] = t

\* The locks are mutexes: no step takes one from the thread that holds it or gives
\* it to a second one, through all of sema_down, sema_up and donation (a thread is
\* its page here, as lock.holder has it).
Mutexes == INSTANCE Mutex
LocksAreMutexes == Mutexes!Spec

\* How often the list element of thread t is linked into one of the lists.
Places(list, t) == Cardinality({i \in DOMAIN list : list[i] = t})

\* thread.h:78-83: `elem' serves the run queue and the wait lists because "only
\* a thread in the ready state is on the run queue, whereas only a thread in
\* the blocked state is on a semaphore wait list".  The run queue is the one
\* the scheduler in use takes threads from; a blocked thread waits for its arg.
OneList ==
  \A t \in Thread :
    /\ \A p \in DOMAIN ready :
         Places(ready[p], t) =
           IF status[t] = "READY" /\ p = active_sched_policy THEN 1 ELSE 0
    /\ \A s \in Semaphore :
         Places(waiters[s], t) =
           IF status[t] = "BLOCKED" /\ s = arg[t] THEN 1 ELSE 0
    /\ status[t] = "BLOCKED" => arg[t] # None

\* priority_queue is sorted by effective priority at all times, although the
\* priorities of threads inside it change when they are donated to.
ReadySorted ==
  \A i, j \in DOMAIN ready["PRIO"] :
    i < j => effective_priority[ready["PRIO"][i]]
               >= effective_priority[ready["PRIO"][j]]

\* A semaphore with value to take and with waiters has that many threads
\* awake on their way to take it: no sema_up is lost, even when a thread that
\* came later takes the value before the thread that was woken runs.
NoLostWakeup ==
  \A s \in Semaphore :
    waiters[s] # <<>> =>
      value[s] <= Cardinality({t \in Thread :
                                 /\ arg[t] = s /\ pc[t] = "down"
                                 /\ status[t] \in {"READY", "RUNNING"}})

\* A thread runs above its own priority only while some thread of that
\* priority wants a lock it holds: a donation is given back (update_priority
\* in lock_release) no later than its cause goes away, through every chain.
\* Between the two stores of a thread_set_priority that lowers it, it does not
\* hold (thread.c:406-407).
NoStaleDonation ==
  \A t \in AnyThread :
    \/ effective_priority[t] <= priority[t]
    \/ pc[t] = "store"
    \/ \E w \in Thread :
         /\ donated_to[w] # None /\ holder[donated_to[w]] = t
         /\ effective_priority[w] >= effective_priority[t]

\* lock_release wakes a waiter of the highest effective priority, also when
\* that priority was donated to it after it had queued (synch.c:115).
WakesHighest ==
  [][\A l \in Lock :
       Elements(waiters'[l]) \subseteq Elements(waiters[l]) =>
         \A u \in Elements(waiters[l]) \ Elements(waiters'[l]),
            w \in Elements(waiters'[l]) :
           effective_priority[u] >= effective_priority[w]]_vars

\* tests/threads/priority-donate-one.c:1-3: threads "that block acquiring the
\* lock" donate "their priorities" to its holder.  Once the operations under way
\* are over, no thread blocked on a lock outranks the thread that holds it.
\* update_priority looks at the first waiter of a lock only.
AllWaitersDonate ==
  pc[cur] = "run" =>
    \A w, t \in Thread :
      (status[w] = "BLOCKED" /\ donated_to[w] \in donated_locks[t] /\ pc[t] # "set")
        => effective_priority[t] >= effective_priority[w]

\* Every ready thread gets the processor, whatever the others do: equals take
\* turns ("round-robin tiebreaking", thread.h:118), forced by the time slice,
\* unless the kernel faults over a lock that a thread has exited with.
ReadyRuns ==
  \A t \in Thread :
    status[t] = "READY" ~> status[t] = "RUNNING" \/ pc[cur] = "fault"
=============================================================================
