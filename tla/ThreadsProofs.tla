--------------------------- MODULE ThreadsProofs ---------------------------
(***************************************************************************)
(* Theorems about Threads, for every set of threads, locks and semaphores, *)
(* every range of priorities and both scheduling policies.                 *)
(***************************************************************************)
EXTENDS Threads, FiniteSetTheorems, SequenceTheorems, TLAPS

Lists == [{"FIFO", "PRIO"} -> Seq(Thread)]

-----------------------------------------------------------------------------
(* The list operations return lists of threads.                            *)

\* list_insert_ordered of a thread into a list of threads gives such a list.
LEMMA InsertOrderedType ==
  ASSUME NEW q \in Seq(Thread), NEW x \in Thread, NEW e
  PROVE  InsertOrdered(q, x, e) \in Seq(Thread)
<1> DEFINE S == {i \in DOMAIN q : \A j \in 1..i : e[q[j]] >= e[x]}
           k == Cardinality(S)
<1>1. Len(q) \in Nat /\ DOMAIN q = 1 .. Len(q)
  BY LenProperties
<1>2. IsFiniteSet(1 .. Len(q)) /\ Cardinality(1 .. Len(q)) = Len(q)
  BY <1>1, FS_Interval
<1>3. S \in SUBSET (1 .. Len(q))
  BY <1>1
<1>4. k \in 0 .. Len(q)
  <2>1. IsFiniteSet(S) /\ Cardinality(S) <= Cardinality(1 .. Len(q))
    BY <1>2, <1>3, FS_Subset
  <2>2. Cardinality(S) \in Nat
    BY <2>1, FS_CardinalityType
  <2> QED BY <1>1, <1>2, <2>1, <2>2
<1> HIDE DEF k
<1>5. SubSeq(q, 1, k) \in Seq(Thread)
  <2>1. \A i \in 1 .. k : q[i] \in Thread
    BY <1>1, <1>4, ElementOfSeq
  <2> QED BY <1>4, <2>1, SubSeqProperties
<1>6. SubSeq(q, k + 1, Len(q)) \in Seq(Thread)
  <2>1. \A i \in k + 1 .. Len(q) : q[i] \in Thread
    BY <1>1, <1>4, ElementOfSeq
  <2> QED BY <1>1, <1>4, <2>1, SubSeqProperties
<1>7. SubSeq(q, 1, k) \o <<x>> \in Seq(Thread)
  BY <1>5, ConcatProperties
<1>8. (SubSeq(q, 1, k) \o <<x>>) \o SubSeq(q, k + 1, Len(q)) \in Seq(Thread)
  BY <1>6, <1>7, ConcatProperties
<1> QED BY <1>8 DEF InsertOrdered, k

\* list_remove leaves a list of threads.
LEMMA RemoveType ==
  ASSUME NEW q \in Seq(Thread), NEW x
  PROVE  Remove(q, x) \in Seq(Thread)
<1>1. CASE x \notin Elements(q)
  BY <1>1 DEF Remove
<1>2. CASE x \in Elements(q)
  <2> DEFINE f == [i \in 1 .. (Len(q) - 1) |->
                     IF \E j \in 1..i : q[j] = x THEN q[i + 1] ELSE q[i]]
  <2>1. Len(q) \in Nat /\ DOMAIN q = 1 .. Len(q)
    BY LenProperties
  <2>2. Len(q) - 1 \in Nat
    BY <1>2, <2>1 DEF Elements
  <2>3. \A i \in 1 .. (Len(q) - 1) : f[i] \in Thread
    BY <2>1, <2>2, ElementOfSeq
  <2>4. f \in Seq(Thread)
    BY <2>2, <2>3, IsASeq
  <2> QED BY <1>2, <2>4 DEF Remove
<1> QED BY <1>1, <1>2

\* list_sort returns a list of threads as long as the one it is given.
LEMMA SortedType ==
  ASSUME NEW q \in Seq(Thread), NEW e, NEW w \in Sorted(q, e)
  PROVE  w \in Seq(Thread) /\ Len(w) = Len(q)
<1>1. Len(q) \in Nat /\ DOMAIN q = 1 .. Len(q)
  BY LenProperties
<1>2. PICK p \in [DOMAIN q -> DOMAIN q] : w = [i \in DOMAIN q |-> q[p[i]]]
  BY DEF Sorted
<1>3. \A i \in 1 .. Len(q) : q[p[i]] \in Thread
  BY <1>1, <1>2, ElementOfSeq
<1>4. w \in [1 .. Len(q) -> Thread]
  BY <1>1, <1>2, <1>3
<1> QED BY <1>1, <1>4

\* thread_enqueue keeps the ready lists lists of threads.
LEMMA EnqueueType ==
  ASSUME NEW r \in Lists, NEW t \in Thread, NEW e
  PROVE  thread_enqueue(r, t, e) \in Lists
<1>1. r["FIFO"] \in Seq(Thread) /\ r["PRIO"] \in Seq(Thread)
  BY DEF Lists
<1>2. Append(r["FIFO"], t) \in Seq(Thread)
  BY <1>1, AppendProperties
<1>3. InsertOrdered(r["PRIO"], t, e) \in Seq(Thread)
  BY <1>1, InsertOrderedType
<1> QED BY <1>2, <1>3 DEF thread_enqueue, Lists

-----------------------------------------------------------------------------
(* What a call of schedule() does to the variables it sets.                *)

SwitchTypeOK ==
  /\ cur \in AnyThread
  /\ status \in [AnyThread -> Status]
  /\ ready \in Lists
  /\ thread_ticks \in 0 .. TIME_SLICE

\* schedule() called with well-typed lists and statuses leaves them so.
LEMMA ScheduleType ==
  ASSUME NEW r \in Lists, NEW st \in [AnyThread -> Status], schedule(r, st)
  PROVE  SwitchTypeOK'
<1> DEFINE list == r[active_sched_policy]
           next == IF list = <<>> THEN Idle ELSE Head(list)
<1>1. active_sched_policy \in {"FIFO", "PRIO"} /\ list \in Seq(Thread)
  BY PolicyAssumption DEF Lists
<1>2. list # <<>> => Head(list) \in Thread /\ Tail(list) \in Seq(Thread)
  BY <1>1, HeadTailProperties
<1>3. next \in AnyThread
  BY <1>2 DEF AnyThread
<1>4. cur' \in AnyThread
  BY <1>3 DEF schedule
<1>5. status' \in [AnyThread -> Status]
  BY DEF schedule, Status
<1>6. ready' \in Lists
  BY <1>1, <1>2 DEF schedule, Lists
<1>7. thread_ticks' \in 0 .. TIME_SLICE
  BY NumberAssumption DEF schedule
<1> QED BY <1>4, <1>5, <1>6, <1>7 DEF SwitchTypeOK

\* thread_yield() likewise.
LEMMA YieldType ==
  ASSUME cur \in AnyThread, NEW r \in Lists,
         NEW st \in [AnyThread -> Status], NEW e, thread_yield(r, st, e)
  PROVE  SwitchTypeOK'
<1> DEFINE r2 == IF cur = Idle THEN r ELSE thread_enqueue(r, cur, e)
           st2 == [st EXCEPT ![cur] = "READY"]
<1>1. r2 \in Lists
  BY EnqueueType DEF AnyThread
<1>2. st2 \in [AnyThread -> Status]
  BY DEF Status
<1>3. schedule(r2, st2)
  BY DEF thread_yield
<1> HIDE DEF r2, st2
<1> QED BY <1>1, <1>2, <1>3, ScheduleType

\* thread_unblock() of a thread, and the yield to it, likewise.
LEMMA UnblockType ==
  ASSUME SwitchTypeOK, NEW u \in Thread, NEW e, UnblockAndPreempt(u, e)
  PROVE  SwitchTypeOK'
<1> DEFINE r  == thread_enqueue(ready, u, e)
           st == [status EXCEPT ![u] = "READY"]
<1>1. r \in Lists
  BY EnqueueType DEF SwitchTypeOK
<1>2. st \in [AnyThread -> Status]
  BY DEF SwitchTypeOK, Status
<1>3. thread_yield(r, st, e) \/ Continue(r, st)
  BY DEF UnblockAndPreempt
<1> HIDE DEF r, st
<1>4. CASE thread_yield(r, st, e)
  BY <1>1, <1>2, <1>4, YieldType DEF SwitchTypeOK
<1>5. CASE Continue(r, st)
  BY <1>1, <1>2, <1>5 DEF SwitchTypeOK, Continue
<1> QED BY <1>3, <1>4, <1>5

\* The timer's tick likewise.
LEMMA TickType ==
  ASSUME SwitchTypeOK, NEW r \in Lists, NEW st \in [AnyThread -> Status],
         Tick(r, st)
  PROVE  SwitchTypeOK'
<1>1. CASE thread_yield(r, st, effective_priority)
  BY <1>1, YieldType DEF SwitchTypeOK
<1>2. CASE /\ ~ (Outranked(r) \/ thread_ticks + 1 >= TIME_SLICE)
           /\ thread_ticks' = thread_ticks + 1
           /\ status' = st /\ ready' = r
           /\ UNCHANGED cur
  BY <1>2, NumberAssumption DEF SwitchTypeOK
<1> QED BY <1>1, <1>2 DEF Tick

-----------------------------------------------------------------------------
(* The invariant.  TypeOK is not inductive alone: recurse_donate needs to   *)
(* know that its cursor is a thread, and schedule() that the thread it      *)
(* leaves is not in the middle of a donation.                               *)

DonorInv ==
  /\ pc[Idle] \in {"run", "halt"}
  /\ \A t \in AnyThread : pc[t] \in {"donate", "fault"} => t = cur /\ donor \in Thread

OtherTypeOK ==
  /\ pc \in [AnyThread -> PC]
  /\ priority \in [AnyThread -> Priority]
  /\ effective_priority \in [AnyThread -> Priority]
  /\ donated_to \in [AnyThread -> Lock \cup {None}]
  /\ donated_locks \in [AnyThread -> SUBSET Lock]
  /\ arg \in [AnyThread -> Semaphore \cup Thread \cup {None}]
  /\ donor \in AnyThread \cup {None}
  /\ holder \in [Lock -> Thread \cup {None}]
  /\ value \in [Semaphore -> Nat]
  /\ waiters \in [Semaphore -> Seq(Thread)]

LEMMA TypeParts == TypeOK <=> SwitchTypeOK /\ OtherTypeOK
BY DEF TypeOK, SwitchTypeOK, OtherTypeOK, Lists

TypeInv == SwitchTypeOK /\ OtherTypeOK /\ DonorInv

\* The state after thread_start() is well-typed.
LEMMA InitTypeInv == Init => TypeInv
<1> SUFFICES ASSUME Init PROVE TypeInv
  OBVIOUS
<1> USE ThreadAssumption, SemaphoreAssumption, NumberAssumption
<1>1. SwitchTypeOK
  BY EmptySeq DEF Init, SwitchTypeOK, Lists, AnyThread, Status
<1>2. OtherTypeOK
  <2>1. \A s \in Semaphore : waiters[s] \in Seq(Thread)
    BY EmptySeq DEF Init
  <2>2. priority \in [AnyThread -> Priority]
    BY DEF Init, Priority
  <2> QED
    BY <2>1, <2>2 DEF Init, OtherTypeOK, AnyThread, PC, Semaphore
<1>3. DonorInv
  BY DEF Init, DonorInv, AnyThread
<1> QED BY <1>1, <1>2, <1>3 DEF TypeInv

-----------------------------------------------------------------------------
(* One lemma for each group of actions.                                    *)

\* Threads coming, going and yielding, and idle.
LEMMA LifeTypeInv ==
  ASSUME TypeInv,
         \/ \E t \in Thread, p \in Priority : thread_create(t, p)
         \/ CreateReturns
         \/ thread_exit
         \/ Yield
         \/ idle
  PROVE  TypeInv'
<1> USE ThreadAssumption, NumberAssumption DEF TypeInv
<1>a. cur \in AnyThread /\ ready \in Lists /\ status \in [AnyThread -> Status]
  BY DEF SwitchTypeOK
<1>1. ASSUME NEW t \in Thread, NEW p \in Priority, thread_create(t, p)
      PROVE  TypeInv'
  <2> DEFINE r == thread_enqueue(ready, t, [effective_priority EXCEPT ![t] = p])
             st == [status EXCEPT ![t] = "READY"]
  <2>1. SwitchTypeOK'
    <3>1. r \in Lists
      BY <1>a, EnqueueType
    <3>2. st \in [AnyThread -> Status]
      BY <1>a DEF Status
    <3>3. Continue(r, st)
      BY <1>1 DEF thread_create
    <3> HIDE DEF r, st
    <3> QED BY <3>1, <3>2, <3>3 DEF SwitchTypeOK, Continue
  <2>2. OtherTypeOK'
    BY <1>1 DEF thread_create, OtherTypeOK, AnyThread, PC
  <2>3. DonorInv'
    BY <1>1 DEF thread_create, OtherTypeOK, DonorInv, AnyThread, Continue
  <2> QED BY <2>1, <2>2, <2>3
<1>2. CASE thread_exit
  <2>1. [status EXCEPT ![cur] = "DYING"] \in [AnyThread -> Status]
    BY <1>a DEF Status
  <2>2. SwitchTypeOK'
    BY <1>2, <1>a, <2>1, ScheduleType DEF thread_exit
  <2>3. OtherTypeOK'
    <3>1. 0 \in Priority
      BY DEF Priority
    <3> QED BY <1>2, <3>1 DEF thread_exit, Freed, OtherTypeOK
  <2>4. DonorInv'
    BY <1>2 DEF thread_exit, OtherTypeOK, DonorInv, AnyThread
  <2> QED BY <2>2, <2>3, <2>4
<1>3. CASE Yield
  <2>1. SwitchTypeOK'
    BY <1>3, <1>a, YieldType DEF Yield
  <2>2. OtherTypeOK'
    BY <1>3 DEF Yield, OtherTypeOK, threadVars, semaVars
  <2>3. DonorInv'
    BY <1>3 DEF Yield, DonorInv, AnyThread
  <2> QED BY <2>1, <2>2, <2>3
<1>4. CASE idle
  <2>1. [status EXCEPT ![Idle] = "BLOCKED"] \in [AnyThread -> Status]
    BY <1>a DEF Status
  <2>2. SwitchTypeOK'
    BY <1>4, <1>a, <2>1, ScheduleType DEF idle
  <2>3. OtherTypeOK'
    BY <1>4 DEF idle, OtherTypeOK, threadVars, semaVars, PC
  <2>4. DonorInv'
    BY <1>4 DEF idle, OtherTypeOK, DonorInv, AnyThread
  <2> QED BY <2>2, <2>3, <2>4
<1>5. CASE CreateReturns
  <2>1. SwitchTypeOK'
    <3>1. CASE thread_yield(ready, status, effective_priority)
      BY <1>a, <3>1, YieldType
    <3>2. CASE Continue(ready, status)
      BY <3>2 DEF Continue, SwitchTypeOK
    <3> QED BY <1>5, <3>1, <3>2 DEF CreateReturns
  <2>2. OtherTypeOK'
    BY <1>5 DEF CreateReturns, OtherTypeOK, threadVars, semaVars, PC
  <2>3. DonorInv'
    BY <1>5 DEF CreateReturns, OtherTypeOK, DonorInv, AnyThread
  <2> QED BY <2>1, <2>2, <2>3
<1> QED BY <1>1, <1>2, <1>3, <1>4, <1>5

\* The timer's and the devices' interrupts.
LEMMA InterruptTypeInv ==
  ASSUME TypeInv,
         \/ thread_tick
         \/ \E s \in Sema : InterruptSemaUp(s)
  PROVE  TypeInv'
<1> USE ThreadAssumption, NumberAssumption DEF TypeInv
<1>a. cur \in AnyThread /\ ready \in Lists /\ status \in [AnyThread -> Status]
  BY DEF SwitchTypeOK
<1>1. CASE thread_tick
  <2>1. SwitchTypeOK'
    BY <1>1, <1>a, TickType DEF thread_tick
  <2>2. OtherTypeOK'
    BY <1>1 DEF thread_tick, OtherTypeOK, threadVars, semaVars, IdleWakes, PC
  <2>3. DonorInv'
    BY <1>1 DEF thread_tick, OtherTypeOK, DonorInv, AnyThread, IdleWakes,
                InterruptsOn
  <2> QED BY <2>1, <2>2, <2>3
<1>2. ASSUME NEW s \in Sema, InterruptSemaUp(s)
      PROVE  TypeInv'
  <2> DEFINE u == Head(waiters[s])
  <2>1. s \in Semaphore /\ waiters[s] \in Seq(Thread)
    BY DEF Semaphore, OtherTypeOK
  <2>2. waiters[s] # <<>> => u \in Thread /\ Tail(waiters[s]) \in Seq(Thread)
    BY <2>1, HeadTailProperties
  <2>3. SwitchTypeOK'
    <3>1. CASE waiters[s] = <<>>
      BY <1>2, <3>1 DEF InterruptSemaUp, Continue, SwitchTypeOK
    <3>2. CASE waiters[s] # <<>>
      <4>1. thread_enqueue(ready, u, effective_priority) \in Lists
        BY <1>a, <2>2, <3>2, EnqueueType
      <4>2. [status EXCEPT ![u] = "READY"] \in [AnyThread -> Status]
        BY <1>a DEF Status
      <4> QED BY <1>2, <3>2, <4>1, <4>2
              DEF InterruptSemaUp, Continue, SwitchTypeOK
    <3> QED BY <3>1, <3>2
  <2>4. OtherTypeOK'
    <3>1. waiters' \in [Semaphore -> Seq(Thread)]
      BY <1>2, <2>1, <2>2 DEF InterruptSemaUp, OtherTypeOK
    <3>2. value' \in [Semaphore -> Nat]
      BY <1>2, <2>1 DEF InterruptSemaUp, OtherTypeOK
    <3>3. pc' \in [AnyThread -> PC]
      BY <1>2 DEF InterruptSemaUp, OtherTypeOK, IdleWakes, PC
    <3> QED BY <1>2, <3>1, <3>2, <3>3
            DEF InterruptSemaUp, OtherTypeOK, threadVars
  <2>5. DonorInv'
    BY <1>2 DEF InterruptSemaUp, OtherTypeOK, DonorInv, AnyThread, IdleWakes,
                InterruptsOn, Continue
  <2> QED BY <2>3, <2>4, <2>5
<1> QED BY <1>1, <1>2

\* sema_up by a thread keeps the variables it sets well-typed.
LEMMA SemaUpType ==
  ASSUME SwitchTypeOK, OtherTypeOK, NEW s \in Semaphore, NEW e, SemaUp(s, e)
  PROVE  /\ SwitchTypeOK'
         /\ value' \in [Semaphore -> Nat]
         /\ waiters' \in [Semaphore -> Seq(Thread)]
<1>1. value' \in [Semaphore -> Nat]
  BY DEF SemaUp, OtherTypeOK
<1>2. CASE waiters[s] = <<>> /\ Continue(ready, status) /\ UNCHANGED waiters
  BY <1>1, <1>2 DEF SwitchTypeOK, OtherTypeOK, Continue
<1>3. ASSUME NEW w \in Sorted(waiters[s], e), w # <<>>,
             waiters' = [waiters EXCEPT ![s] = Tail(w)],
             UnblockAndPreempt(Head(w), e)
      PROVE  SwitchTypeOK' /\ waiters' \in [Semaphore -> Seq(Thread)]
  <2>1. waiters[s] \in Seq(Thread)
    BY DEF OtherTypeOK
  <2>2. w \in Seq(Thread)
    BY <2>1, SortedType
  <2>3. Head(w) \in Thread /\ Tail(w) \in Seq(Thread)
    BY <1>3, <2>2, HeadTailProperties
  <2>4. SwitchTypeOK'
    BY <1>3, <2>3, UnblockType
  <2> QED BY <1>3, <2>3, <2>4 DEF OtherTypeOK
<1> QED BY <1>1, <1>2, <1>3 DEF SemaUp

\* The operations on semaphores by threads.
LEMMA SemaTypeInv ==
  ASSUME TypeInv,
         \/ \E s \in Sema : sema_down(s) \/ sema_try_down(s) \/ sema_up(s)
         \/ \E s \in Semaphore : SemaBlock(s) \/ SemaTake(s)
  PROVE  TypeInv'
<1> USE ThreadAssumption, NumberAssumption DEF TypeInv
<1>a. cur \in AnyThread /\ ready \in Lists /\ status \in [AnyThread -> Status]
  BY DEF SwitchTypeOK
<1>b. Sema \subseteq Semaphore
  BY DEF Semaphore
<1>1. ASSUME NEW s \in Sema, sema_down(s)
      PROVE  TypeInv'
  <2>1. SwitchTypeOK'
    BY <1>1 DEF sema_down, SwitchTypeOK, switchVars
  <2>2. OtherTypeOK'
    BY <1>1, <1>b DEF sema_down, OtherTypeOK, threadVars, semaVars, PC
  <2>3. DonorInv'
    BY <1>1 DEF sema_down, OtherTypeOK, DonorInv, AnyThread, switchVars
  <2> QED BY <2>1, <2>2, <2>3
<1>2. ASSUME NEW s \in Sema, sema_try_down(s)
      PROVE  TypeInv'
  <2>1. SwitchTypeOK'
    BY <1>2 DEF sema_try_down, SwitchTypeOK, switchVars
  <2>2. value' \in [Semaphore -> Nat]
    BY <1>2, <1>b DEF sema_try_down, Available, OtherTypeOK
  <2>3. OtherTypeOK'
    BY <1>2, <2>2 DEF sema_try_down, Available, OtherTypeOK, threadVars
  <2>4. DonorInv'
    BY <1>2 DEF sema_try_down, DonorInv, AnyThread, switchVars
  <2> QED BY <2>1, <2>3, <2>4
<1>3. ASSUME NEW s \in Sema, sema_up(s)
      PROVE  TypeInv'
  <2>1. /\ SwitchTypeOK'
        /\ value' \in [Semaphore -> Nat]
        /\ waiters' \in [Semaphore -> Seq(Thread)]
    BY <1>3, <1>b, SemaUpType DEF sema_up
  <2>2. OtherTypeOK'
    BY <1>3, <2>1 DEF sema_up, OtherTypeOK, threadVars
  <2>3. DonorInv'
    BY <1>3 DEF sema_up, DonorInv, AnyThread
  <2> QED BY <2>1, <2>2, <2>3
<1>4. ASSUME NEW s \in Semaphore, SemaBlock(s)
      PROVE  TypeInv'
  <2>1. [status EXCEPT ![cur] = "BLOCKED"] \in [AnyThread -> Status]
    BY <1>a DEF Status
  <2>2. SwitchTypeOK'
    BY <1>4, <1>a, <2>1, ScheduleType DEF SemaBlock
  <2>3. cur \in Thread
    BY <1>4, <1>a DEF SemaBlock, DonorInv, AnyThread
  <2>4. Append(waiters[s], cur) \in Seq(Thread)
    BY <2>3, AppendProperties DEF OtherTypeOK
  <2>5. OtherTypeOK'
    BY <1>4, <2>4 DEF SemaBlock, OtherTypeOK, threadVars
  <2>6. DonorInv'
    BY <1>4 DEF SemaBlock, DonorInv, AnyThread
  <2> QED BY <2>2, <2>5, <2>6
<1>5. ASSUME NEW s \in Semaphore, SemaTake(s)
      PROVE  TypeInv'
  <2>1. SwitchTypeOK'
    BY <1>5 DEF SemaTake, SwitchTypeOK, switchVars
  <2>2. cur \in Thread
    BY <1>5, <1>a DEF SemaTake, DonorInv, AnyThread
  <2>3. value' \in [Semaphore -> Nat]
    BY <1>5 DEF SemaTake, Available, OtherTypeOK
  <2>4. OtherTypeOK'
    <3>1. CASE s \in Lock
      <4>1. /\ donated_to' = [donated_to EXCEPT ![cur] = None]
            /\ holder' = [holder EXCEPT ![s] = cur]
            /\ donated_locks' = [donated_locks EXCEPT ![cur] = @ \cup {s}]
        BY <1>5, <3>1 DEF SemaTake
      <4>2. /\ donated_to' \in [AnyThread -> Lock \cup {None}]
            /\ holder' \in [Lock -> Thread \cup {None}]
            /\ donated_locks' \in [AnyThread -> SUBSET Lock]
        BY <2>2, <3>1, <4>1 DEF OtherTypeOK
      <4> QED BY <1>5, <2>3, <4>2 DEF SemaTake, Available, OtherTypeOK, PC
    <3>2. CASE s \notin Lock
      BY <1>5, <2>3, <3>2 DEF SemaTake, Available, OtherTypeOK, PC
    <3> QED BY <3>1, <3>2
  <2>5. DonorInv'
    BY <1>5 DEF SemaTake, OtherTypeOK, DonorInv, AnyThread, switchVars
  <2> QED BY <2>1, <2>4, <2>5
<1> QED BY <1>1, <1>2, <1>3, <1>4, <1>5

\* update_priority gives a thread a priority: its own or a waiter's.
LEMMA UpdatedPriorityType ==
  ASSUME OtherTypeOK, NEW t \in AnyThread, NEW locks \in SUBSET Lock,
         NEW p \in UpdatedPriority(t, locks)
  PROVE  p \in Priority
<1>1. ASSUME NEW l \in locks, waiters[l] # <<>>
      PROVE  effective_priority[Head(waiters[l])] \in Priority
  <2>1. waiters[l] \in Seq(Thread)
    BY DEF OtherTypeOK, Semaphore
  <2>2. Head(waiters[l]) \in Thread
    BY <1>1, <2>1, HeadTailProperties
  <2> QED BY <2>2 DEF OtherTypeOK, AnyThread
<1> QED BY <1>1 DEF UpdatedPriority, OtherTypeOK

\* Locks, donation and thread_set_priority.
LEMMA LockTypeInv ==
  ASSUME TypeInv,
         \/ \E l \in Lock : lock_acquire(l) \/ lock_release(l)
         \/ recurse_donate
         \/ DonateToFreed
         \/ DonationEnds
         \/ \E p \in Priority : thread_set_priority(p)
         \/ StoreEffective
         \/ update_priority
  PROVE  TypeInv'
<1> USE ThreadAssumption, NumberAssumption DEF TypeInv
<1>a. cur \in AnyThread /\ ready \in Lists /\ status \in [AnyThread -> Status]
  BY DEF SwitchTypeOK
<1>b. Lock \subseteq Semaphore
  BY DEF Semaphore
<1>1. ASSUME NEW l \in Lock, lock_acquire(l)
      PROVE  TypeInv'
  <2>1. SwitchTypeOK'
    BY <1>1 DEF lock_acquire, SwitchTypeOK, switchVars
  <2>2. OtherTypeOK'
    <3>1. pc' \in [AnyThread -> PC] /\ donor' \in AnyThread \cup {None}
      BY <1>1, <1>a DEF lock_acquire, OtherTypeOK, PC
    <3>2. /\ donated_to' \in [AnyThread -> Lock \cup {None}]
          /\ arg' \in [AnyThread -> Semaphore \cup Thread \cup {None}]
      BY <1>1, <1>b DEF lock_acquire, OtherTypeOK
    <3> QED BY <1>1, <3>1, <3>2 DEF lock_acquire, OtherTypeOK, semaVars
  <2>3. DonorInv'
    <3>1. cur' = cur /\ cur \in Thread
      BY <1>1, <1>a DEF lock_acquire, switchVars, AnyThread
    <3>2. CASE pc' = [pc EXCEPT ![cur] = "donate"] /\ donor' = cur
      BY <3>1, <3>2 DEF OtherTypeOK, DonorInv, AnyThread
    <3>3. CASE pc' = [pc EXCEPT ![cur] = "down"] /\ donor' = donor
      BY <3>1, <3>3 DEF OtherTypeOK, DonorInv, AnyThread
    <3> QED BY <1>1, <3>2, <3>3 DEF lock_acquire
  <2> QED BY <2>1, <2>2, <2>3
<1>2. ASSUME NEW l \in Lock, lock_release(l)
      PROVE  TypeInv'
  <2>0. PICK locks \in Unlinked(l) :
          /\ donated_locks' = [donated_locks EXCEPT ![cur] = locks]
          /\ \E p \in UpdatedPriority(cur, locks) :
               LET e == [effective_priority EXCEPT ![cur] = p]
               IN  effective_priority' = e /\ SemaUp(l, e)
    BY <1>2 DEF lock_release
  <2>1. PICK p \in UpdatedPriority(cur, locks) :
          LET e == [effective_priority EXCEPT ![cur] = p]
          IN  effective_priority' = e /\ SemaUp(l, e)
    BY <2>0
  <2>a. locks \in SUBSET Lock
    BY <1>a, <2>0 DEF Unlinked, OtherTypeOK
  <2>2. p \in Priority
    BY <1>a, <2>a, <2>1, UpdatedPriorityType
  <2>3. /\ SwitchTypeOK'
        /\ value' \in [Semaphore -> Nat]
        /\ waiters' \in [Semaphore -> Seq(Thread)]
    BY <1>b, <2>1, SemaUpType
  <2>4. /\ holder' \in [Lock -> Thread \cup {None}]
        /\ donated_locks' \in [AnyThread -> SUBSET Lock]
        /\ effective_priority' \in [AnyThread -> Priority]
    BY <1>2, <2>0, <2>a, <2>1, <2>2 DEF lock_release, OtherTypeOK
  <2>5. OtherTypeOK'
    BY <1>2, <2>3, <2>4 DEF lock_release, OtherTypeOK
  <2>6. DonorInv'
    BY <1>2 DEF lock_release, DonorInv, AnyThread
  <2> QED BY <2>3, <2>5, <2>6
<1>3. CASE recurse_donate
  <2> DEFINE next == NextHolder
             e == [effective_priority EXCEPT ![next] = effective_priority[donor]]
             r == [list \in DOMAIN ready |-> Remove(ready[list], next)]
  <2>1. donor \in Thread
    BY <1>3, <1>a DEF recurse_donate, DonorInv
  <2>2. next \in Thread
    BY <1>3, <2>1 DEF recurse_donate, Donates, NextHolder, OtherTypeOK, AnyThread
  <2>3. e \in [AnyThread -> Priority]
    BY <2>1 DEF OtherTypeOK, AnyThread
  <2>4. ready' \in Lists
    <3>1. r \in Lists
      BY <1>a, RemoveType DEF Lists
    <3>2. InsertOrdered(r["PRIO"], next, e) \in Seq(Thread)
      BY <2>2, <3>1, InsertOrderedType DEF Lists
    <3> HIDE DEF e, r, next
    <3>3. [r EXCEPT !["PRIO"] = InsertOrdered(@, next, e)] \in Lists
      BY <3>1, <3>2 DEF Lists
    <3>4. \/ ready' = [r EXCEPT !["PRIO"] = InsertOrdered(@, next, e)]
          \/ ready' = ready
      BY <1>3 DEF recurse_donate, e, r, next
    <3> QED BY <1>a, <3>3, <3>4
  <2>5. SwitchTypeOK'
    BY <1>3, <2>4 DEF recurse_donate, SwitchTypeOK
  <2>6. effective_priority' = e /\ donor' = next
    BY <1>3 DEF recurse_donate
  <2>7. OtherTypeOK'
    BY <1>3, <2>2, <2>3, <2>6
       DEF recurse_donate, OtherTypeOK, AnyThread, semaVars
  <2>8. DonorInv'
    BY <1>3, <2>2, <2>6 DEF recurse_donate, DonorInv
  <2> QED BY <2>5, <2>7, <2>8
<1>4. CASE DonationEnds
  <2>1. SwitchTypeOK'
    BY <1>4 DEF DonationEnds, SwitchTypeOK, switchVars
  <2>2. OtherTypeOK'
    BY <1>4 DEF DonationEnds, OtherTypeOK, threadVars, semaVars, PC
  <2>3. DonorInv'
    BY <1>4, <1>a DEF DonationEnds, OtherTypeOK, DonorInv, AnyThread, switchVars
  <2> QED BY <2>1, <2>2, <2>3
<1>5. ASSUME NEW p \in Priority, thread_set_priority(p)
      PROVE  TypeInv'
  <2>1. SwitchTypeOK'
    BY <1>5 DEF thread_set_priority, SwitchTypeOK, switchVars
  <2>2. OtherTypeOK'
    BY <1>5 DEF thread_set_priority, OtherTypeOK, semaVars, PC
  <2>3. DonorInv'
    BY <1>5 DEF thread_set_priority, OtherTypeOK, DonorInv, AnyThread, switchVars
  <2> QED BY <2>1, <2>2, <2>3
<1>6. CASE update_priority
  <2>1. SwitchTypeOK'
    BY <1>6 DEF update_priority, SwitchTypeOK, switchVars
  <2>2. PICK p \in UpdatedPriority(cur, donated_locks[cur]) :
          effective_priority' = [effective_priority EXCEPT ![cur] = p]
    BY <1>6 DEF update_priority
  <2>3. p \in Priority
    BY <1>a, <2>2, UpdatedPriorityType DEF OtherTypeOK
  <2>4. effective_priority' \in [AnyThread -> Priority]
    BY <2>2, <2>3 DEF OtherTypeOK
  <2>5. OtherTypeOK'
    BY <1>6, <2>4 DEF update_priority, OtherTypeOK, semaVars, PC
  <2>6. DonorInv'
    BY <1>6 DEF update_priority, OtherTypeOK, DonorInv, AnyThread, switchVars
  <2> QED BY <2>1, <2>5, <2>6
<1>7. CASE DonateToFreed
  <2>1. SwitchTypeOK'
    BY <1>7 DEF DonateToFreed, SwitchTypeOK, switchVars
  <2>2. OtherTypeOK'
    BY <1>7 DEF DonateToFreed, OtherTypeOK, threadVars, semaVars, PC
  <2>3. cur # Idle
    BY <1>7 DEF DonateToFreed, DonorInv
  <2>4. DonorInv'
    BY <1>7, <2>3 DEF DonateToFreed, OtherTypeOK, DonorInv, AnyThread, switchVars
  <2> QED BY <2>1, <2>2, <2>4
<1>8. CASE StoreEffective
  <2>1. SwitchTypeOK'
    BY <1>8 DEF StoreEffective, SwitchTypeOK, switchVars
  <2>2. OtherTypeOK'
    BY <1>8, <1>a DEF StoreEffective, OtherTypeOK, semaVars, PC
  <2>3. DonorInv'
    BY <1>8 DEF StoreEffective, OtherTypeOK, DonorInv, AnyThread, switchVars
  <2> QED BY <2>1, <2>2, <2>3
<1> QED BY <1>1, <1>2, <1>3, <1>4, <1>5, <1>6, <1>7, <1>8

\* Every step keeps the invariant.
LEMMA NextTypeInv == TypeInv /\ [Next]_vars => TypeInv'
<1> SUFFICES ASSUME TypeInv, [Next]_vars PROVE TypeInv'
  OBVIOUS
<1>1. CASE Next
  BY <1>1, LifeTypeInv, InterruptTypeInv, SemaTypeInv, LockTypeInv
     DEF Next, Calls, DeviceInterrupt
<1>2. CASE UNCHANGED vars
  BY <1>2 DEF vars, TypeInv, SwitchTypeOK, OtherTypeOK, DonorInv
<1> QED BY <1>1, <1>2

\* Type correctness: in particular the ready lists and the wait lists never
\* hold the idle thread, and a semaphore's unsigned value never goes below 0.
THEOREM TypeCorrect == Spec => []TypeOK
<1>1. TypeInv => TypeOK
  BY TypeParts DEF TypeInv
<1> QED BY <1>1, InitTypeInv, NextTypeInv, PTL DEF Spec

-----------------------------------------------------------------------------
(* Mutual exclusion.                                                       *)

\* Every step keeps the agreement between a lock's holder, its semaphore and
\* its place among the donated_locks of one thread.
LEMMA NextLockInv == TypeInv /\ LockInv /\ [Next]_vars => LockInv'
<1> SUFFICES ASSUME TypeInv, LockInv, [Next]_vars PROVE LockInv'
  OBVIOUS
<1> USE ThreadAssumption, SemaphoreAssumption DEF TypeInv
<1>a. cur \in AnyThread /\ Lock \subseteq Semaphore
  BY DEF SwitchTypeOK, Semaphore
<1>b. ASSUME UNCHANGED <<donated_locks, holder>>, \A l \in Lock : value'[l] = value[l]
      PROVE  LockInv'
  BY <1>b DEF LockInv
<1>1. ASSUME NEW s \in Sema,
             InterruptSemaUp(s) \/ sema_down(s) \/ sema_try_down(s) \/ sema_up(s)
      PROVE  LockInv'
  <2>1. UNCHANGED <<donated_locks, holder>>
    BY <1>1 DEF InterruptSemaUp, sema_down, sema_try_down, sema_up, threadVars
  <2>2. \A l \in Lock : value'[l] = value[l]
    <3>1. \/ value' = value
          \/ value' = [value EXCEPT ![s] = @ + 1]
          \/ value' = [value EXCEPT ![s] = @ - 1]
      BY <1>1 DEF InterruptSemaUp, sema_down, sema_try_down, sema_up, SemaUp,
                  semaVars
    <3>2. s \notin Lock
      OBVIOUS
    <3> QED BY <1>a, <3>1, <3>2 DEF OtherTypeOK
  <2> QED BY <1>b, <2>1, <2>2
<1>2. ASSUME NEW s \in Semaphore, SemaTake(s)
      PROVE  LockInv'
  <2>1. cur \in Thread
    BY <1>2, <1>a DEF SemaTake, DonorInv, AnyThread
  <2>2. CASE s \in Lock
    <3>1. /\ holder' = [holder EXCEPT ![s] = cur]
          /\ donated_locks' = [donated_locks EXCEPT ![cur] = @ \cup {s}]
          /\ value' = [value EXCEPT ![s] = @ - 1]
          /\ value[s] > 0
      BY <1>2, <2>2 DEF SemaTake, Available
    <3>2. holder[s] = None /\ value[s] = 1
      BY <2>2, <3>1 DEF LockInv
    <3>3. \A t \in AnyThread : s \notin donated_locks[t]
      BY <2>2, <3>2 DEF LockInv, AnyThread
    <3>4. \A l \in Lock : value'[l] = IF holder'[l] = None THEN 1 ELSE 0
      BY <1>a, <2>1, <2>2, <3>1, <3>2 DEF LockInv, OtherTypeOK
    <3>5. \A l \in Lock, t \in AnyThread :
            l \in donated_locks'[t] => holder'[l] = t
      BY <1>a, <2>2, <3>1, <3>3 DEF LockInv, OtherTypeOK
    <3> QED BY <3>4, <3>5 DEF LockInv
  <2>3. CASE s \notin Lock
    <3>1. UNCHANGED <<donated_locks, holder>> /\ \A l \in Lock : value'[l] = value[l]
      BY <1>2, <2>3 DEF SemaTake, Available, OtherTypeOK, Semaphore
    <3> QED BY <1>b, <3>1
  <2> QED BY <2>2, <2>3
<1>3. ASSUME NEW l \in Lock, lock_release(l)
      PROVE  LockInv'
  <2>1. /\ holder[l] = cur
        /\ holder' = [holder EXCEPT ![l] = None]
        /\ value' = [value EXCEPT ![l] = @ + 1]
    BY <1>3 DEF lock_release, SemaUp
  <2>a. PICK locks \in Unlinked(l) :
          donated_locks' = [donated_locks EXCEPT ![cur] = locks]
    BY <1>3 DEF lock_release
  <2>b. locks \subseteq donated_locks[cur] /\ l \notin locks
    BY <2>a DEF Unlinked
  <2>2. value[l] = 0
    BY <1>a, <2>1 DEF LockInv, AnyThread
  <2>3. \A m \in Lock : value'[m] = IF holder'[m] = None THEN 1 ELSE 0
    BY <1>a, <2>1, <2>2 DEF LockInv, OtherTypeOK
  <2>4. \A m \in Lock, t \in AnyThread :
          m \in donated_locks'[t] => holder'[m] = t
    <3>1. ASSUME NEW m \in Lock, NEW t \in AnyThread, m \in donated_locks'[t]
          PROVE  m \in donated_locks[t] /\ m # l
      <4>1. CASE t = cur
        BY <1>a, <2>a, <2>b, <3>1, <4>1 DEF OtherTypeOK
      <4>2. CASE t # cur
        <5>1. m \in donated_locks[t]
          BY <1>a, <2>a, <3>1, <4>2 DEF OtherTypeOK
        <5> QED BY <2>1, <4>2, <5>1 DEF LockInv
      <4> QED BY <4>1, <4>2
    <3>2. ASSUME NEW m \in Lock, NEW t \in AnyThread, m \in donated_locks'[t]
          PROVE  holder'[m] = t
      <4>1. holder[m] = t
        BY <3>1, <3>2 DEF LockInv
      <4> QED BY <2>1, <3>1, <3>2, <4>1 DEF OtherTypeOK
    <3> QED BY <3>2
  <2> QED BY <2>3, <2>4 DEF LockInv
<1>4. ASSUME \/ \E t \in Thread, p \in Priority : thread_create(t, p)
             \/ CreateReturns \/ Yield \/ idle \/ thread_tick
             \/ \E s \in Semaphore : SemaBlock(s)
             \/ \E l \in Lock : lock_acquire(l)
             \/ recurse_donate \/ DonateToFreed \/ DonationEnds
             \/ \E p \in Priority : thread_set_priority(p)
             \/ StoreEffective \/ update_priority \/ UNCHANGED vars
      PROVE  LockInv'
  <2>1. UNCHANGED <<donated_locks, holder, value>>
    BY <1>4, Zenon DEF thread_create, CreateReturns, Yield, idle, thread_tick,
         SemaBlock, lock_acquire, recurse_donate, DonateToFreed, DonationEnds,
         thread_set_priority, StoreEffective, update_priority, vars, threadVars,
         semaVars
  <2> QED BY <1>b, <2>1
<1>5. CASE thread_exit
  <2>1. UNCHANGED <<holder, value>>
    BY <1>5 DEF thread_exit
  <2>2. \A t \in AnyThread : donated_locks'[t] \subseteq donated_locks[t]
    BY <1>5, <1>a DEF thread_exit, Freed, OtherTypeOK
  <2> QED BY <2>1, <2>2 DEF LockInv
<1> QED BY <1>1, <1>2, <1>3, <1>4, <1>5 DEF Next, Calls, DeviceInterrupt

\* A lock's semaphore is 0 exactly while it has a holder, a thread that exited with
\* it included, and no thread but its holder has it among its donated_locks.
THEOREM MutualExclusion == Spec => []LockInv
<1>1. Init => LockInv
  BY ThreadAssumption, SemaphoreAssumption
     DEF Init, LockInv, Semaphore, AnyThread
<1> QED BY <1>1, InitTypeInv, NextTypeInv, NextLockInv, PTL DEF Spec

\* A step of the kernel on the abstract mutexes: lock_acquire takes a free lock
\* (its semaphore's value tells), lock_release frees a lock of the caller.
LEMMA NextMutex == TypeInv /\ LockInv /\ [Next]_vars => [Mutexes!Next]_holder
<1> SUFFICES ASSUME TypeInv, LockInv, [Next]_vars PROVE [Mutexes!Next]_holder
  OBVIOUS
<1> USE ThreadAssumption DEF TypeInv
<1>a. cur \in AnyThread
  BY DEF SwitchTypeOK
<1>1. ASSUME NEW s \in Semaphore, SemaTake(s)
      PROVE  [Mutexes!Next]_holder
  <2>1. cur \in Thread
    BY <1>1, <1>a DEF SemaTake, DonorInv, AnyThread
  <2>2. CASE s \in Lock
    <3>1. holder' = [holder EXCEPT ![s] = cur] /\ value[s] > 0
      BY <1>1, <2>2 DEF SemaTake, Available
    <3>2. holder[s] = None
      BY <2>2, <3>1 DEF LockInv
    <3> QED BY <2>1, <2>2, <3>1, <3>2 DEF Mutexes!Next, Mutexes!Acquire
  <2>3. CASE s \notin Lock
    BY <1>1, <2>3 DEF SemaTake
  <2> QED BY <2>2, <2>3
<1>2. ASSUME NEW l \in Lock, lock_release(l)
      PROVE  [Mutexes!Next]_holder
  <2>1. holder[l] = cur /\ holder' = [holder EXCEPT ![l] = None]
    BY <1>2 DEF lock_release
  <2>2. cur \in Thread
    BY <2>1, <1>a DEF OtherTypeOK, AnyThread
  <2> QED BY <2>1, <2>2 DEF Mutexes!Next, Mutexes!Release
<1>3. ASSUME \/ \E t \in Thread, p \in Priority : thread_create(t, p)
             \/ CreateReturns \/ thread_exit \/ Yield \/ idle \/ thread_tick
             \/ \E s \in Sema : \/ InterruptSemaUp(s) \/ sema_down(s)
                                \/ sema_try_down(s) \/ sema_up(s)
             \/ \E s \in Semaphore : SemaBlock(s)
             \/ \E l \in Lock : lock_acquire(l)
             \/ recurse_donate \/ DonateToFreed \/ DonationEnds
             \/ \E p \in Priority : thread_set_priority(p)
             \/ StoreEffective \/ update_priority \/ UNCHANGED vars
      PROVE  holder' = holder
  BY <1>3, Zenon DEF thread_create, CreateReturns, thread_exit, Yield, idle,
       thread_tick, InterruptSemaUp, sema_down, sema_try_down, sema_up,
       SemaBlock, lock_acquire, recurse_donate, DonateToFreed, DonationEnds,
       thread_set_priority, StoreEffective, update_priority, vars
<1> QED BY <1>1, <1>2, <1>3 DEF Next, Calls, DeviceInterrupt

\* The kernel's locks implement the abstract mutexes.
THEOREM LocksImplementMutexes == Spec => LocksAreMutexes
<1>1. Init => LockInv
  BY ThreadAssumption, SemaphoreAssumption
     DEF Init, LockInv, Semaphore, AnyThread
<1>2. Init => Mutexes!Init
  BY DEF Init, Mutexes!Init
<1> QED
  BY <1>1, <1>2, InitTypeInv, NextTypeInv, NextLockInv, NextMutex, PTL
     DEF Spec, LocksAreMutexes, Mutexes!Spec
=============================================================================
