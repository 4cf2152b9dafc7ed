---------------------------- MODULE TimerProofs ----------------------------
(***************************************************************************)
(* Theorems about Timer, for every set of threads, every duration and both *)
(* policies (TickRunsHighest: under "PRIO").  Threads' invariant QueueInv  *)
(* is kept by the sleepers' steps as well; SleepInv adds the third list.   *)
(***************************************************************************)
EXTENDS Timer, QueueProofs

\* sleeping_list is ordered as the ready list is, by this for a priority.
Late == [t \in Thread |-> 0 - wake_time[t]]

\* sleeping_list links, once and by wake_time, the threads blocked on no semaphore.
\* A thread with a wake_time, preempted before it blocks, is ready or runs.
SleepInv ==
  /\ Distinct(sleeping_list) /\ Ordered(sleeping_list, Late)
  /\ \A t \in Thread :
       /\ t \in Elements(sleeping_list) <=> sleep[t] = "asleep"
       /\ sleep[t] = "asleep" <=> Sleeping(t)
       /\ sleep[t] = "set" => status[t] \in Awake /\ arg[t] = None

ClockTypeOK ==
  /\ ticks \in 0 .. MaxTicks
  /\ wake_time \in [Thread -> Nat]
  /\ sleeping_list \in Seq(Thread)
  /\ sleep \in [Thread -> {"no", "set", "asleep"}]

TimerInv == TypeInv /\ QueueInv /\ ClockTypeOK /\ SleepInv

-----------------------------------------------------------------------------
(* The loop of timer_interrupt.                                            *)

\* Induction up to n, for a set.
LEMMA InductionUpTo ==
  ASSUME NEW n \in Nat, NEW S, 0 \in S,
         \A i \in 0 .. n : i < n /\ i \in S => i + 1 \in S
  PROVE  0 .. n \subseteq S
<1> DEFINE T == {i \in 0 .. n : i \notin S}
<1>1. SUFFICES ASSUME T # {} PROVE FALSE
  OBVIOUS
<1>a. T \in SUBSET Nat
  OBVIOUS
<1>2. PICK m \in T : \A i \in T : m <= i
  BY <1>1, <1>a, LeastNumber
<1>3. m \in 0 .. n /\ m \notin S /\ m # 0
  BY <1>2
<1>4. m - 1 \in 0 .. n /\ m - 1 < n /\ (m - 1) + 1 = m
  BY <1>3
<1>5. m - 1 \notin S
  BY <1>3, <1>4
<1>6. m <= m - 1
  BY <1>2, <1>4, <1>5
<1> QED BY <1>3, <1>6

\* What the function that Unblocked defines is: r, and then one thread more each time.
Steps(a, n, r, q) ==
  a = [i \in 0 .. n |->
         IF i = 0 THEN r ELSE thread_enqueue(a[i - 1], q[i], effective_priority)]

\* There is one, up to any length.
LEMMA StepsExist ==
  ASSUME NEW r, NEW q, NEW n \in Nat
  PROVE  \E a : Steps(a, n, r, q)
<1> DEFINE Good == {m \in 0 .. n : \E a : Steps(a, m, r, q)}
           a0 == [i \in 0 .. 0 |-> r]
<1>1. Steps(a0, 0, r, q)
  <2>1. a0 = [i \in 0 .. 0 |->
                IF i = 0 THEN r ELSE thread_enqueue(a0[i - 1], q[i], effective_priority)]
    OBVIOUS
  <2> QED BY <2>1 DEF Steps
<1>2. ASSUME NEW m \in 0 .. n, m < n, NEW a, Steps(a, m, r, q)
      PROVE  \E b : Steps(b, m + 1, r, q)
  <2> DEFINE b == [i \in 0 .. m + 1 |->
                     IF i = m + 1 THEN thread_enqueue(a[m], q[m + 1], effective_priority)
                     ELSE a[i]]
             F(i) == IF i = 0 THEN r ELSE thread_enqueue(b[i - 1], q[i], effective_priority)
  <2>a. m \in Nat
    OBVIOUS
  <2>1. \A i \in 0 .. m : a[i] = IF i = 0 THEN r
                            ELSE thread_enqueue(a[i - 1], q[i], effective_priority)
    BY <1>2 DEF Steps
  <2>2. ASSUME NEW i \in 0 .. m + 1 PROVE b[i] = F(i)
    <3>1. CASE i = 0
      BY <2>a, <2>1, <3>1
    <3>2. CASE i = m + 1
      <4>1. i # 0 /\ i - 1 = m /\ m \in 0 .. m + 1 /\ m # m + 1
        BY <2>a, <3>2
      <4>2. b[m] = a[m]
        BY <4>1
      <4> QED BY <3>2, <4>1, <4>2
    <3>3. CASE i \in 1 .. m
      <4>1. /\ i # 0 /\ i # m + 1 /\ i - 1 # m + 1
            /\ i \in 0 .. m /\ i - 1 \in 0 .. m + 1
        BY <2>a, <3>3
      <4>2. b[i] = a[i] /\ b[i - 1] = a[i - 1]
        BY <4>1
      <4>3. a[i] = thread_enqueue(a[i - 1], q[i], effective_priority)
        BY <2>1, <4>1
      <4> QED BY <4>1, <4>2, <4>3
    <3>4. i = 0 \/ i = m + 1 \/ i \in 1 .. m
      BY <2>a
    <3> QED BY <3>1, <3>2, <3>3, <3>4
  <2> HIDE DEF F
  <2>3. b = [i \in 0 .. m + 1 |-> b[i]]
    OBVIOUS
  <2> HIDE DEF b
  <2>4. b = [i \in 0 .. m + 1 |-> F(i)]
    BY <2>2, <2>3
  <2> QED BY <2>4 DEF Steps, F
<1>3. \A m \in 0 .. n : m < n /\ m \in Good => m + 1 \in Good
  BY <1>2
<1>4. 0 \in Good
  BY <1>1
<1> HIDE DEF Good
<1>5. n \in Good
  BY <1>3, <1>4, InductionUpTo
<1> QED BY <1>5 DEF Good

\* Unblocked returns what the loop's last round leaves.
LEMMA UnblockedSteps ==
  ASSUME NEW r, NEW q, Len(q) \in Nat
  PROVE  \E a : Steps(a, Len(q), r, q) /\ Unblocked(r, q) = a[Len(q)]
<1> DEFINE D(a) == a = [i \in 0 .. Len(q) |->
                          IF i = 0 THEN r
                          ELSE thread_enqueue(a[i - 1], q[i], effective_priority)]
           c == CHOOSE a : D(a)
<1>1. PICK a : Steps(a, Len(q), r, q)
  BY StepsExist
<1>2. D(a)
  BY <1>1 DEF Steps
<1>3. D(c)
  BY <1>2, Zenon
<1>4. Unblocked(r, q) = c[Len(q)]
  BY DEF Unblocked
<1> HIDE DEF c
<1>5. Steps(c, Len(q), r, q)
  BY <1>3 DEF Steps
<1> QED BY <1>4, <1>5

\* The statuses when the threads of the first k elements of q have become ready.
Readied(st, q, k) ==
  [t \in AnyThread |-> IF \E i \in 1 .. k : q[i] = t THEN "READY" ELSE st[t]]

\* The loop leaves every thread of q in the ready lists, once.
LEMMA UnblockedLinked ==
  ASSUME NEW r \in Lists, NEW st \in [AnyThread -> Status],
         effective_priority \in [AnyThread -> Priority],
         NEW q \in Seq(Thread), Distinct(q), \A t \in Elements(q) : st[t] # "READY",
         Linked(r, st, effective_priority)
  PROVE  /\ Unblocked(r, q) \in Lists
         /\ Linked(Unblocked(r, q), Readied(st, q, Len(q)), effective_priority)
<1>a. Len(q) \in Nat /\ DOMAIN q = 1 .. Len(q) /\ \A i \in 1 .. Len(q) : q[i] \in Thread
  BY LenProperties, ElementOfSeq
<1>b. Numbers(effective_priority)
  BY PrioritiesAreNumbers
<1>1. PICK a : Steps(a, Len(q), r, q) /\ Unblocked(r, q) = a[Len(q)]
  BY <1>a, UnblockedSteps
<1> DEFINE e == effective_priority
           n == Len(q)
           Good == {i \in 0 .. n : a[i] \in Lists /\ Linked(a[i], Readied(st, q, i), e)}
<1>2. \A i \in 0 .. n : a[i] = IF i = 0 THEN r ELSE thread_enqueue(a[i - 1], q[i], e)
  BY <1>1 DEF Steps
<1>3. 0 \in Good
  <2>1. a[0] = r /\ 0 \in 0 .. n
    BY <1>a, <1>2
  <2>2. Readied(st, q, 0) = st
    BY DEF Readied
  <2> QED BY <2>1, <2>2
<1>4. ASSUME NEW i \in 0 .. n, i < n, i \in Good PROVE i + 1 \in Good
  <2> DEFINE u == q[i + 1]
             s == Readied(st, q, i)
  <2>1. i + 1 \in 1 .. n /\ i + 1 \in 0 .. n /\ i + 1 # 0 /\ (i + 1) - 1 = i
    BY <1>4, <1>a
  <2>2. a[i + 1] = thread_enqueue(a[i], u, e)
    BY <1>2, <2>1
  <2>3. u \in Thread /\ u \in AnyThread /\ u \in Elements(q)
    BY <1>a, <2>1 DEF Elements, AnyThread
  <2>4. s \in [AnyThread -> Status]
    BY DEF Readied, Status
  <2>5. \A j \in 1 .. i : q[j] # u
    BY <1>a, <2>1 DEF Distinct
  <2>6. s[u] # "READY"
    BY <2>3, <2>5 DEF Readied
  <2>7. \A t : (\E j \in 1 .. i + 1 : q[j] = t) <=> t = u \/ \E j \in 1 .. i : q[j] = t
    BY <1>4, <2>1
  <2>8. Readied(st, q, i + 1) = [s EXCEPT ![u] = "READY"]
    BY <2>3, <2>7 DEF Readied
  <2> HIDE DEF s, u
  <2>9. a[i] \in Lists /\ Linked(a[i], s, e)
    BY <1>4 DEF s
  <2>10. Linked(thread_enqueue(a[i], u, e), [s EXCEPT ![u] = "READY"], e)
    BY <1>b, <2>3, <2>4, <2>6, <2>9, EnqueueLinked
  <2>11. thread_enqueue(a[i], u, e) \in Lists
    BY <2>3, <2>9, EnqueueType
  <2> QED BY <2>1, <2>2, <2>8, <2>10, <2>11
<1>5. Unblocked(r, q) = a[n] /\ n \in Nat /\ n \in 0 .. n
  BY <1>1, <1>a
<1> HIDE DEF Good, n
<1>6. \A i \in 0 .. n : i < n /\ i \in Good => i + 1 \in Good
  BY <1>4
<1>7. 0 .. n \subseteq Good
  BY <1>3, <1>5, <1>6, InductionUpTo
<1>8. n \in Good
  BY <1>5, <1>7
<1> QED BY <1>5, <1>8 DEF Good, n

-----------------------------------------------------------------------------
(* The list, cut at the threads that are due, and a thread put into it.    *)

\* EnterOrdered is InsertOrdered.
LEMMA EnterIsInsert ==
  ASSUME wake_time \in [Thread -> Nat], NEW q \in Seq(Thread), NEW x \in Thread
  PROVE  EnterOrdered(q, x) = InsertOrdered(q, x, Late)
<1>1. \A i \in DOMAIN q : q[i] \in Thread /\ \A j \in 1 .. i : q[j] \in Thread
  BY LenProperties, ElementOfSeq
<1>2. \A i \in DOMAIN q : \A j \in 1 .. i :
        wake_time[q[j]] <= wake_time[x] <=> Late[q[j]] >= Late[x]
  BY <1>1 DEF Late
<1>3. {i \in DOMAIN q : \A j \in 1 .. i : wake_time[q[j]] <= wake_time[x]}
        = {i \in DOMAIN q : \A j \in 1 .. i : Late[q[j]] >= Late[x]}
  BY <1>2
<1> QED BY <1>3 DEF EnterOrdered, InsertOrdered

\* A list cut behind its first k elements.
LEMMA Cut ==
  ASSUME NEW q \in Seq(Thread), Distinct(q), NEW k \in 0 .. Len(q)
  PROVE  LET d == SubSeq(q, 1, k)
             w == SubSeq(q, k + 1, Len(q))
         IN  /\ d \in Seq(Thread) /\ w \in Seq(Thread) /\ Len(d) = k
             /\ Distinct(d) /\ Distinct(w)
             /\ \A i \in 1 .. k : d[i] = q[i]
             /\ Elements(d) = {q[i] : i \in 1 .. k}
             /\ Elements(w) = {q[i] : i \in k + 1 .. Len(q)}
             /\ \A e : Ordered(q, e) => Ordered(w, e)
<1> DEFINE d == SubSeq(q, 1, k)
           w == SubSeq(q, k + 1, Len(q))
<1>1. Len(q) \in Nat /\ DOMAIN q = 1 .. Len(q) /\ \A i \in 1 .. Len(q) : q[i] \in Thread
  BY LenProperties, ElementOfSeq
<1>2. d \in Seq(Thread) /\ Len(d) = k /\ DOMAIN d = 1 .. k /\ \A i \in 1 .. k : d[i] = q[i]
  <2>1. \A i \in 1 .. k : q[i] \in Thread
    BY <1>1
  <2>2. d \in Seq(Thread) /\ Len(d) = k /\ \A i \in 1 .. k : d[i] = q[i]
    BY <1>1, <2>1, SubSeqProperties
  <2> QED BY <2>2, LenProperties
<1>3. /\ w \in Seq(Thread) /\ DOMAIN w = 1 .. Len(q) - k
      /\ \A i \in 1 .. Len(q) - k : w[i] = q[i + k]
  <2>1. \A i \in k + 1 .. Len(q) : q[i] \in Thread
    BY <1>1
  <2>2. /\ w \in Seq(Thread)
        /\ Len(w) = IF k + 1 <= Len(q) THEN Len(q) - (k + 1) + 1 ELSE 0
        /\ \A i \in 1 .. Len(q) - (k + 1) + 1 : w[i] = q[k + 1 + i - 1]
    BY <1>1, <2>1, SubSeqProperties
  <2> HIDE DEF w
  <2>3. Len(q) - (k + 1) + 1 = Len(q) - k /\ \A i \in 1 .. Len(q) - k : k + 1 + i - 1 = i + k
    BY <1>1
  <2>4. Len(w) = Len(q) - k
    <3>1. k \in Int /\ Len(q) \in Int /\ k <= Len(q)
      BY <1>1
    <3>2. CASE k + 1 <= Len(q)
      BY <2>2, <2>3, <3>2
    <3>3. CASE ~ (k + 1 <= Len(q))
      <4>1. Len(q) - k = 0
        BY <3>1, <3>3
      <4> QED BY <2>2, <3>3, <4>1
    <3> QED BY <3>2, <3>3
  <2>5. \A i \in 1 .. Len(q) - k : w[i] = q[i + k]
    BY <2>2, <2>3
  <2> QED BY <2>2, <2>4, <2>5, LenProperties
<1> HIDE DEF d, w
<1>4. Distinct(d)
  BY <1>1, <1>2 DEF Distinct
<1>5. Distinct(w)
  <2> SUFFICES ASSUME NEW i \in 1 .. Len(q) - k, NEW j \in 1 .. Len(q) - k, w[i] = w[j]
               PROVE  i = j
    BY <1>3 DEF Distinct
  <2>1. i + k \in DOMAIN q /\ j + k \in DOMAIN q
    BY <1>1
  <2>2. i + k = j + k
    BY <1>3, <2>1 DEF Distinct
  <2> QED BY <1>1, <2>2
<1>6. Elements(d) = {q[i] : i \in 1 .. k}
  BY <1>2 DEF Elements
<1>7. Elements(w) = {q[i] : i \in k + 1 .. Len(q)}
  <2>1. \A i \in k + 1 .. Len(q) : i - k \in 1 .. Len(q) - k /\ (i - k) + k = i
    BY <1>1
  <2>2. \A i \in 1 .. Len(q) - k : i + k \in k + 1 .. Len(q)
    BY <1>1
  <2>3. Elements(w) = {q[i + k] : i \in 1 .. Len(q) - k}
    BY <1>3 DEF Elements
  <2>4. \A i \in k + 1 .. Len(q) : q[i] \in Elements(w)
    <3> TAKE i \in k + 1 .. Len(q)
    <3>1. q[i] = q[(i - k) + k]
      BY <2>1
    <3> QED BY <2>1, <2>3, <3>1
  <2> QED BY <2>2, <2>3, <2>4
<1>8. ASSUME NEW e, Ordered(q, e) PROVE Ordered(w, e)
  <2> SUFFICES ASSUME NEW i \in 1 .. Len(q) - k, NEW j \in 1 .. Len(q) - k, i < j
               PROVE  e[w[i]] >= e[w[j]]
    BY <1>3 DEF Ordered
  <2>1. i + k \in DOMAIN q /\ j + k \in DOMAIN q /\ i + k < j + k
    BY <1>1
  <2> QED BY <1>3, <1>8, <2>1 DEF Ordered
<1>9. /\ d \in Seq(Thread) /\ w \in Seq(Thread) /\ Len(d) = k
      /\ Distinct(d) /\ Distinct(w)
      /\ \A i \in 1 .. k : d[i] = q[i]
      /\ Elements(d) = {q[i] : i \in 1 .. k}
      /\ Elements(w) = {q[i] : i \in k + 1 .. Len(q)}
      /\ \A e : Ordered(q, e) => Ordered(w, e)
  BY <1>2, <1>3, <1>4, <1>5, <1>6, <1>7, <1>8
<1> QED BY <1>9 DEF d, w

\* The loop stops behind the last thread that is due.
LEMMA DueIsPrefix ==
  ASSUME wake_time \in [Thread -> Nat], sleeping_list \in Seq(Thread),
         Ordered(sleeping_list, Late), NEW now \in Nat
  PROVE  /\ DueLength(now) \in 0 .. Len(sleeping_list)
         /\ \A i \in 1 .. Len(sleeping_list) :
              i <= DueLength(now) <=> wake_time[sleeping_list[i]] <= now
<1> DEFINE q == sleeping_list
           S == {i \in DOMAIN q : \A j \in 1 .. i : wake_time[q[j]] <= now}
<1>1. /\ Len(q) \in Nat /\ DOMAIN q = 1 .. Len(q)
      /\ \A i \in 1 .. Len(q) : q[i] \in Thread /\ wake_time[q[i]] \in Nat
  BY LenProperties, ElementOfSeq
<1>2. S \in SUBSET (1 .. Len(q)) /\ \A i \in S : \A j \in 1 .. i : j \in S
  BY <1>1
<1>3. DueLength(now) = Cardinality(S)
  BY DEF DueLength
<1>4. \A i, j \in 1 .. Len(q) : j <= i => wake_time[q[j]] <= wake_time[q[i]]
  <2> SUFFICES ASSUME NEW i \in 1 .. Len(q), NEW j \in 1 .. Len(q), j < i
               PROVE  wake_time[q[j]] <= wake_time[q[i]]
    BY <1>1
  <2>1. Late[q[j]] >= Late[q[i]]
    BY <1>1 DEF Ordered
  <2> QED BY <1>1, <2>1 DEF Late
<1>5. \A i \in 1 .. Len(q) : i \in S <=> wake_time[q[i]] <= now
  <2> SUFFICES ASSUME NEW i \in 1 .. Len(q), wake_time[q[i]] <= now
               PROVE  \A j \in 1 .. i : wake_time[q[j]] <= now
    BY <1>1
  <2> TAKE j \in 1 .. i
  <2>1. j \in 1 .. Len(q) /\ j <= i
    BY <1>1
  <2>2. wake_time[q[j]] <= wake_time[q[i]]
    BY <1>4, <2>1
  <2> QED BY <1>1, <2>1, <2>2
<1> HIDE DEF S
<1>6. Cardinality(S) \in 0 .. Len(q) /\ S = 1 .. Cardinality(S)
  BY <1>1, <1>2, PrefixIsInterval
<1> QED BY <1>3, <1>5, <1>6

-----------------------------------------------------------------------------
(* timer_interrupt.                                                        *)

\* What it takes from the list, what it leaves, and what it calls thread_tick with.
Due  == SubSeq(sleeping_list, 1, DueLength(ticks + 1))
Rest == SubSeq(sleeping_list, DueLength(ticks + 1) + 1, Len(sleeping_list))
ReadyAfter  == Unblocked(ready, Due)
StatusAfter == [t \in AnyThread |-> IF t \in Elements(Due) THEN "READY" ELSE status[t]]

\* It takes the sleepers whose time has come.
LEMMA DueAre ==
  ASSUME TimerInv
  PROVE  /\ Due \in Seq(Thread) /\ Distinct(Due) /\ Len(Due) = DueLength(ticks + 1)
         /\ Elements(Due) = {t \in Thread : sleep[t] = "asleep" /\ wake_time[t] <= ticks + 1}
         /\ Rest \in Seq(Thread) /\ Distinct(Rest) /\ Ordered(Rest, Late)
         /\ Elements(Rest) =
              {t \in Thread : sleep[t] = "asleep" /\ ~ (wake_time[t] <= ticks + 1)}
<1> DEFINE q == sleeping_list
           k == DueLength(ticks + 1)
<1>1. /\ wake_time \in [Thread -> Nat] /\ q \in Seq(Thread) /\ ticks + 1 \in Nat
      /\ Distinct(q) /\ Ordered(q, Late)
      /\ \A t \in Thread : t \in Elements(q) <=> sleep[t] = "asleep"
  BY TimerAssumption DEF TimerInv, ClockTypeOK, SleepInv
<1>2. Len(q) \in Nat /\ DOMAIN q = 1 .. Len(q) /\ \A i \in 1 .. Len(q) : q[i] \in Thread
  BY <1>1, LenProperties, ElementOfSeq
<1>3. k \in 0 .. Len(q) /\ \A i \in 1 .. Len(q) : i <= k <=> wake_time[q[i]] <= ticks + 1
  BY <1>1, DueIsPrefix
<1> HIDE DEF k
<1>4. /\ SubSeq(q, 1, k) \in Seq(Thread) /\ SubSeq(q, k + 1, Len(q)) \in Seq(Thread)
      /\ Len(SubSeq(q, 1, k)) = k
      /\ Distinct(SubSeq(q, 1, k)) /\ Distinct(SubSeq(q, k + 1, Len(q)))
      /\ Elements(SubSeq(q, 1, k)) = {q[i] : i \in 1 .. k}
      /\ Elements(SubSeq(q, k + 1, Len(q))) = {q[i] : i \in k + 1 .. Len(q)}
      /\ Ordered(SubSeq(q, k + 1, Len(q)), Late)
  BY <1>1, <1>3, Cut
<1>5. Due = SubSeq(q, 1, k) /\ Rest = SubSeq(q, k + 1, Len(q))
  BY DEF Due, Rest, k
<1>6. \A i \in 1 .. Len(q) : sleep[q[i]] = "asleep"
  BY <1>1, <1>2 DEF Elements
<1>7. \A t \in Thread : sleep[t] = "asleep" => \E i \in 1 .. Len(q) : q[i] = t
  BY <1>1, <1>2 DEF Elements
<1>8. {q[i] : i \in 1 .. k} =
        {t \in Thread : sleep[t] = "asleep" /\ wake_time[t] <= ticks + 1}
  <2>1. ASSUME NEW i \in 1 .. k
        PROVE  q[i] \in Thread /\ sleep[q[i]] = "asleep" /\ wake_time[q[i]] <= ticks + 1
    <3>1. i \in 1 .. Len(q) /\ i <= k
      BY <1>2, <1>3
    <3> QED BY <1>2, <1>3, <1>6, <3>1
  <2>2. ASSUME NEW t \in Thread, sleep[t] = "asleep", wake_time[t] <= ticks + 1
        PROVE  \E i \in 1 .. k : t = q[i]
    <3>1. PICK i \in 1 .. Len(q) : q[i] = t
      BY <1>7, <2>2
    <3>2. i <= k
      BY <1>3, <2>2, <3>1
    <3>3. i \in 1 .. k
      BY <1>2, <1>3, <3>2
    <3> QED BY <3>1, <3>3
  <2> QED BY <2>1, <2>2
<1>9. {q[i] : i \in k + 1 .. Len(q)} =
        {t \in Thread : sleep[t] = "asleep" /\ ~ (wake_time[t] <= ticks + 1)}
  <2>1. ASSUME NEW i \in k + 1 .. Len(q)
        PROVE  q[i] \in Thread /\ sleep[q[i]] = "asleep" /\ ~ (wake_time[q[i]] <= ticks + 1)
    <3>1. i \in 1 .. Len(q) /\ ~ (i <= k)
      BY <1>2, <1>3
    <3> QED BY <1>2, <1>3, <1>6, <3>1
  <2>2. ASSUME NEW t \in Thread, sleep[t] = "asleep", ~ (wake_time[t] <= ticks + 1)
        PROVE  \E i \in k + 1 .. Len(q) : t = q[i]
    <3>1. PICK i \in 1 .. Len(q) : q[i] = t
      BY <1>7, <2>2
    <3>2. ~ (i <= k)
      BY <1>3, <2>2, <3>1
    <3>3. i \in k + 1 .. Len(q)
      BY <1>2, <1>3, <3>2
    <3> QED BY <3>1, <3>3
  <2> QED BY <2>1, <2>2
<1>10. Len(Due) = DueLength(ticks + 1)
  BY <1>4, <1>5 DEF k
<1> QED BY <1>4, <1>5, <1>8, <1>9, <1>10

\* When the loop is done the ready lists link who is ready, and the same thread runs.
LEMMA AfterWaking ==
  ASSUME TimerInv
  PROVE  /\ ReadyAfter \in Lists /\ StatusAfter \in [AnyThread -> Status]
         /\ Numbers(effective_priority)
         /\ Linked(ReadyAfter, StatusAfter, effective_priority) /\ Runs(cur, StatusAfter)
         /\ \A t \in Elements(Due) : /\ t \in Thread /\ status[t] = "BLOCKED"
                                     /\ arg[t] = None
<1> USE DEF TimerInv
<1>a. /\ SwitchTypeOK /\ ready \in Lists /\ status \in [AnyThread -> Status]
      /\ Runs(cur, status) /\ cur \in AnyThread
      /\ effective_priority \in [AnyThread -> Priority] /\ Numbers(effective_priority)
      /\ Linked(ready, status, effective_priority)
  BY ReadyFacts
<1>1. /\ Due \in Seq(Thread) /\ Distinct(Due)
      /\ Elements(Due) = {t \in Thread : sleep[t] = "asleep" /\ wake_time[t] <= ticks + 1}
  BY DueAre
<1>2. \A t \in Elements(Due) : t \in Thread /\ status[t] = "BLOCKED" /\ arg[t] = None
  BY <1>1 DEF SleepInv, Sleeping
<1>3. StatusAfter \in [AnyThread -> Status]
  BY <1>a DEF StatusAfter, Status
<1>4. Readied(status, Due, Len(Due)) = StatusAfter
  <2>1. DOMAIN Due = 1 .. Len(Due)
    BY <1>1, LenProperties
  <2>2. \A t : t \in Elements(Due) <=> \E i \in 1 .. Len(Due) : Due[i] = t
    BY <2>1 DEF Elements
  <2> QED BY <2>2 DEF Readied, StatusAfter
<1>5. ReadyAfter \in Lists /\ Linked(ReadyAfter, StatusAfter, effective_priority)
  BY <1>a, <1>1, <1>2, <1>4, UnblockedLinked DEF ReadyAfter
<1>6. Runs(cur, StatusAfter)
  BY <1>a, <1>2 DEF Runs, StatusAfter
<1> QED BY <1>a, <1>2, <1>3, <1>5, <1>6

\* The tick keeps the invariant.
LEMMA InterruptInv ==
  ASSUME TimerInv, timer_interrupt
  PROVE  TimerInv'
<1> USE DEF TimerInv
<1>a. /\ ReadyAfter \in Lists /\ StatusAfter \in [AnyThread -> Status]
      /\ Numbers(effective_priority)
      /\ Linked(ReadyAfter, StatusAfter, effective_priority) /\ Runs(cur, StatusAfter)
      /\ \A t \in Elements(Due) : /\ t \in Thread /\ status[t] = "BLOCKED"
                                  /\ arg[t] = None
  BY AfterWaking
<1>b. /\ Rest \in Seq(Thread) /\ Distinct(Rest) /\ Ordered(Rest, Late)
      /\ Len(Due) = DueLength(ticks + 1)
      /\ Elements(Due) = {t \in Thread : sleep[t] = "asleep" /\ wake_time[t] <= ticks + 1}
      /\ Elements(Rest) =
           {t \in Thread : sleep[t] = "asleep" /\ ~ (wake_time[t] <= ticks + 1)}
  BY DueAre
<1>c. SwitchTypeOK /\ OtherTypeOK /\ DonorInv /\ Thread \subseteq AnyThread /\ Idle \notin Thread
  BY ThreadAssumption DEF TypeInv, AnyThread
<1>1. /\ InterruptsOn /\ ticks < MaxTicks /\ ticks' = ticks + 1
      /\ sleeping_list' = Rest
      /\ sleep' = [t \in Thread |-> IF t \in Elements(Due) THEN "no" ELSE sleep[t]]
      /\ Tick(ReadyAfter, StatusAfter)
      /\ IdleWakes
      /\ UNCHANGED <<threadVars, arg, donor, holder, semaVars, wake_time>>
  BY <1>b DEF timer_interrupt, Due, Rest, ReadyAfter, StatusAfter
<1>2. /\ Linked(ready', status', effective_priority)
      /\ Runs(cur', status') /\ SameFor(StatusAfter, status')
  BY <1>a, <1>1, TickLinked
<1>3. TypeInv'
  <2>1. SwitchTypeOK'
    BY <1>a, <1>c, <1>1, TickType
  <2>2. OtherTypeOK'
    BY <1>c, <1>1 DEF OtherTypeOK, threadVars, semaVars, IdleWakes, PC
  <2>3. DonorInv'
    BY <1>c, <1>1, ThreadAssumption
       DEF OtherTypeOK, DonorInv, AnyThread, IdleWakes, InterruptsOn
  <2> QED BY <2>1, <2>2, <2>3 DEF TypeInv
<1>4. \A t \in Thread : /\ pc'[t] = pc[t]
                        /\ status'[t] = "BLOCKED" <=> status[t] = "BLOCKED" /\ t \notin Elements(Due)
                        /\ status'[t] \in Awake <=> status[t] \in Awake \/ t \in Elements(Due)
  <2> TAKE t \in Thread
  <2>1. pc'[t] = pc[t]
    BY <1>c, <1>1 DEF IdleWakes, OtherTypeOK
  <2>2. StatusAfter[t] = IF t \in Elements(Due) THEN "READY" ELSE status[t]
    BY <1>c DEF StatusAfter
  <2> QED BY <1>2, <2>1, <2>2 DEF SameFor, Awake
<1>5. UNCHANGED <<effective_priority, waiters, value, arg, donated_to>>
  BY <1>1 DEF threadVars, semaVars
<1>6. \A s \in Semaphore : s # None
  BY SemaphoreAssumption DEF Semaphore
<1>7. WaitInv'
  BY <1>a, <1>4, <1>5, <1>6 DEF QueueInv, WaitInv
<1>8. PlaceInv'
  BY <1>4, <1>5 DEF QueueInv, PlaceInv
<1>9. NoLostWakeup'
  <2>1. \A s \in Semaphore : Takers(s)' = Takers(s)
    BY <1>a, <1>4, <1>5, <1>6 DEF Takers
  <2> QED BY <1>5, <2>1, NoLostWakeupIs DEF QueueInv
<1>10. QueueInv'
  BY <1>2, <1>5, <1>7, <1>8, <1>9 DEF QueueInv
<1>11. ClockTypeOK'
  <2>1. ticks' \in 0 .. MaxTicks
    BY <1>1, TimerAssumption DEF ClockTypeOK
  <2> QED BY <1>b, <1>1, <2>1 DEF ClockTypeOK
<1>12. SleepInv'
  <2>1. Late' = Late
    BY <1>1 DEF Late
  <2>2. ASSUME NEW t \in Thread
        PROVE  /\ t \in Elements(sleeping_list') <=> sleep'[t] = "asleep"
               /\ sleep'[t] = "asleep" <=> status'[t] = "BLOCKED" /\ arg'[t] = None
               /\ sleep'[t] = "set" => status'[t] \in Awake /\ arg'[t] = None
    <3>1. /\ t \in Elements(Due) <=> sleep[t] = "asleep" /\ wake_time[t] <= ticks + 1
          /\ t \in Elements(sleeping_list') <=> sleep[t] = "asleep" /\ ~ (wake_time[t] <= ticks + 1)
          /\ sleep'[t] = IF t \in Elements(Due) THEN "no" ELSE sleep[t]
      BY <1>b, <1>1
    <3> QED BY <1>4, <1>5, <3>1 DEF SleepInv, Sleeping
  <2> QED BY <1>b, <1>1, <2>1, <2>2 DEF SleepInv, Sleeping
<1> QED BY <1>3, <1>10, <1>11, <1>12

-----------------------------------------------------------------------------
(* timer_sleep, and the calls of threads that are not in it.               *)

\* Up to intr_disable() only the thread's own wake_time changes: it is on no list.
LEMMA TimerSleepInv ==
  ASSUME TimerInv, NEW n \in Durations, timer_sleep(n)
  PROVE  TimerInv'
<1> USE DEF TimerInv
<1>1. /\ pc[cur] = "run" /\ cur # Idle /\ sleep[cur] = "no"
      /\ wake_time' = [wake_time EXCEPT ![cur] = ticks + n]
      /\ sleep' = [sleep EXCEPT ![cur] = "set"]
      /\ UNCHANGED <<vars, ticks, sleeping_list>>
  BY DEF timer_sleep
<1>2. TypeInv'
  BY <1>1, NextTypeInv
<1>3. QueueInv'
  BY <1>1 DEF vars, QueueInv, WaitInv, PlaceInv, NoLostWakeup
<1>4. cur \in Thread /\ status[cur] = "RUNNING" /\ arg[cur] = None
  BY <1>1, ReadyFacts DEF Runs, AnyThread, QueueInv, PlaceInv, Placed
<1>5. ClockTypeOK'
  <2>1. ticks + n \in Nat
    BY TimerAssumption DEF ClockTypeOK
  <2> QED BY <1>1, <2>1 DEF ClockTypeOK
<1>6. SleepInv'
  <2>1. UNCHANGED <<status, arg>>
    BY <1>1 DEF vars
  <2>2. \A i \in DOMAIN sleeping_list : sleeping_list[i] \in Thread \ {cur}
    BY <1>1, LenProperties, ElementOfSeq DEF SleepInv, Elements, ClockTypeOK
  <2>3. \A i \in DOMAIN sleeping_list : Late'[sleeping_list[i]] = Late[sleeping_list[i]]
    BY <1>1, <2>2 DEF Late, ClockTypeOK
  <2>4. Ordered(sleeping_list, Late')
    BY <2>3 DEF SleepInv, Ordered
  <2>5. /\ sleep'[cur] = "set" /\ \A t \in Thread \ {cur} : sleep'[t] = sleep[t]
    BY <1>1, <1>4 DEF ClockTypeOK
  <2>6. ASSUME NEW t \in Thread
        PROVE  /\ t \in Elements(sleeping_list) <=> sleep'[t] = "asleep"
               /\ sleep'[t] = "asleep" <=> Sleeping(t)
               /\ sleep'[t] = "set" => status[t] \in Awake /\ arg[t] = None
    BY <1>1, <1>4, <2>5 DEF SleepInv, Awake
  <2> QED BY <1>1, <2>1, <2>4, <2>6 DEF SleepInv, Sleeping
<1> QED BY <1>2, <1>3, <1>5, <1>6

\* The thread enters the list in its place, blocks, and waits for no semaphore.
LEMMA SleepBlockInv ==
  ASSUME TimerInv, SleepBlock
  PROVE  TimerInv'
<1> USE DEF TimerInv
<1> DEFINE st == [status EXCEPT ![cur] = "BLOCKED"]
           list == EnterOrdered(sleeping_list, cur)
<1>1. /\ cur # Idle /\ sleep[cur] = "set" /\ sleeping_list' = list
      /\ sleep' = [sleep EXCEPT ![cur] = "asleep"]
      /\ schedule(ready, st)
      /\ UNCHANGED <<pc, threadVars, arg, donor, holder, semaVars, ticks, wake_time>>
  BY DEF SleepBlock
<1>2. /\ cur \in Thread /\ cur \in AnyThread /\ status[cur] = "RUNNING"
      /\ SwitchTypeOK /\ ready \in Lists /\ status \in [AnyThread -> Status]
      /\ Runs(cur, status) /\ Numbers(effective_priority)
      /\ Linked(ready, status, effective_priority)
      /\ Thread \subseteq AnyThread /\ Idle \notin Thread
  BY <1>1, ReadyFacts, ThreadAssumption DEF Runs, AnyThread
<1>3. arg[cur] = None /\ \A s \in Semaphore : s # None
  BY <1>1, <1>2, SemaphoreAssumption DEF SleepInv, Semaphore
<1>4. st \in [AnyThread -> Status] /\ st[cur] = "BLOCKED" /\ \A t \in AnyThread \ {cur} : st[t] = status[t]
  BY <1>2 DEF Status
<1> HIDE DEF st
<1>5. Linked(ready, st, effective_priority) /\ \A t \in AnyThread : st[t] # "RUNNING"
  BY <1>2, <1>4 DEF Linked, Runs
<1>6. /\ Linked(ready', status', effective_priority) /\ Runs(cur', status')
      /\ SameFor(st, status')
  BY <1>1, <1>2, <1>4, <1>5, ScheduleLinked
<1>7. \A t \in Thread : /\ status'[t] = "BLOCKED" <=> status[t] = "BLOCKED" \/ t = cur
                        /\ status'[t] \in Awake <=> status[t] \in Awake /\ t # cur
  BY <1>2, <1>4, <1>6 DEF SameFor, Awake
<1>8. UNCHANGED <<effective_priority, waiters, value, arg, donated_to, pc>>
  BY <1>1 DEF threadVars, semaVars
<1>9. TypeInv'
  <2>1. SwitchTypeOK'
    BY <1>1, <1>2, <1>4, ScheduleType
  <2>2. OtherTypeOK'
    BY <1>1 DEF TypeInv, OtherTypeOK, threadVars, semaVars
  <2>3. \A t \in AnyThread : pc[t] \notin {"donate", "fault"}
    <3>1. pc[cur] \notin {"donate", "fault"}
      BY <1>2, <1>3 DEF QueueInv, PlaceInv, Placed
    <3> QED BY <3>1 DEF TypeInv, DonorInv
  <2>4. DonorInv'
    BY <1>8, <2>3 DEF TypeInv, DonorInv
  <2> QED BY <2>1, <2>2, <2>4 DEF TypeInv
<1>10. QueueInv'
  <2>1. WaitInv'
    BY <1>2, <1>3, <1>7, <1>8 DEF QueueInv, WaitInv
  <2>2. PlaceInv'
    <3>1. pc[cur] # "create"
      BY <1>2, <1>3, ThreadAssumption DEF QueueInv, PlaceInv, Placed
    <3> QED BY <1>7, <1>8, <3>1 DEF QueueInv, PlaceInv
  <2>3. NoLostWakeup'
    <3>1. \A s \in Semaphore : Takers(s)' = Takers(s)
      BY <1>3, <1>7, <1>8 DEF Takers
    <3> QED BY <1>8, <3>1, NoLostWakeupIs DEF QueueInv
  <2> QED BY <1>6, <1>8, <2>1, <2>2, <2>3 DEF QueueInv
<1>11. /\ list \in Seq(Thread) /\ Distinct(list) /\ Ordered(list, Late)
       /\ Elements(list) = Elements(sleeping_list) \cup {cur}
  <2>1. /\ sleeping_list \in Seq(Thread) /\ wake_time \in [Thread -> Nat]
        /\ Distinct(sleeping_list) /\ Ordered(sleeping_list, Late)
        /\ cur \notin Elements(sleeping_list)
    BY <1>1, <1>2 DEF ClockTypeOK, SleepInv
  <2>2. list = InsertOrdered(sleeping_list, cur, Late)
    BY <1>2, <2>1, EnterIsInsert
  <2>3. \A t \in Thread : Late[t] \in Int
    BY <2>1 DEF Late
  <2> QED BY <1>2, <2>1, <2>2, <2>3, InsertOrderedType, InsertedOnce, InsertedOrdered
<1> HIDE DEF list
<1>12. ClockTypeOK'
  BY <1>1, <1>11 DEF ClockTypeOK
<1>13. SleepInv'
  <2>1. Late' = Late
    BY <1>1 DEF Late
  <2>2. sleep'[cur] = "asleep" /\ \A t \in Thread \ {cur} : sleep'[t] = sleep[t]
    BY <1>1, <1>2 DEF ClockTypeOK
  <2>3. ASSUME NEW t \in Thread
        PROVE  /\ t \in Elements(list) <=> sleep'[t] = "asleep"
               /\ sleep'[t] = "asleep" <=> status'[t] = "BLOCKED" /\ arg'[t] = None
               /\ sleep'[t] = "set" => status'[t] \in Awake /\ arg'[t] = None
    BY <1>3, <1>7, <1>8, <1>11, <2>2 DEF SleepInv, Sleeping
  <2> QED BY <1>1, <1>11, <2>1, <2>3 DEF SleepInv, Sleeping
<1> QED BY <1>9, <1>10, <1>12, <1>13

\* Who is ready stays awake through a switch.
LEMMA AwakeThroughSwitch ==
  ASSUME NEW r, NEW st, NEW t \in AnyThread, st[t] \in Awake, schedule(r, st)
  PROVE  status'[t] \in Awake
BY DEF schedule, Awake

\* Likewise through thread_yield, the running thread included.
LEMMA AwakeThroughYield ==
  ASSUME NEW r, NEW st \in [AnyThread -> Status], NEW e, NEW t \in AnyThread,
         st[t] \in Awake, thread_yield(r, st, e)
  PROVE  status'[t] \in Awake
<1> DEFINE st2 == [st EXCEPT ![cur] = "READY"]
<1>1. st2[t] \in Awake
  BY DEF Awake
<1>2. schedule(IF cur = Idle THEN r ELSE thread_enqueue(r, cur, e), st2)
  BY DEF thread_yield
<1> HIDE DEF st2
<1> QED BY <1>1, <1>2, AwakeThroughSwitch

\* Likewise when a thread is unblocked, and perhaps yielded to.
LEMMA AwakeThroughUnblock ==
  ASSUME status \in [AnyThread -> Status], NEW u, NEW e, NEW t \in AnyThread,
         status[t] \in Awake, UnblockAndPreempt(u, e)
  PROVE  status'[t] \in Awake
<1> DEFINE st == [status EXCEPT ![u] = "READY"]
           r == thread_enqueue(ready, u, e)
<1>1. st \in [AnyThread -> Status] /\ st[t] \in Awake
  BY DEF Awake, Status
<1>2. thread_yield(r, st, e) \/ Continue(r, st)
  BY DEF UnblockAndPreempt
<1> HIDE DEF st, r
<1> QED BY <1>1, <1>2, AwakeThroughYield DEF Continue

\* Likewise in sema_up.
LEMMA AwakeThroughUp ==
  ASSUME status \in [AnyThread -> Status], NEW s, NEW e, NEW t \in AnyThread,
         status[t] \in Awake, SemaUp(s, e)
  PROVE  status'[t] \in Awake
<1>1. Continue(ready, status) \/ \E u : UnblockAndPreempt(u, e)
  BY DEF SemaUp
<1> QED BY <1>1, AwakeThroughUnblock DEF Continue

\* Nor does a call of the running thread put another one to sleep, or make it wait.
LEMMA OthersStayAwake ==
  ASSUME TypeInv, Calls, NEW t \in Thread \ {cur}, status[t] \in Awake
  PROVE  status'[t] \in Awake /\ arg'[t] = arg[t]
<1>a. /\ status \in [AnyThread -> Status]
      /\ arg \in [AnyThread -> Semaphore \cup Thread \cup {None}]
      /\ t \in AnyThread /\ t # Idle
  BY ThreadAssumption DEF TypeInv, SwitchTypeOK, OtherTypeOK, AnyThread
<1>1. ASSUME NEW u \in Thread, NEW p \in Priority, thread_create(u, p)
      PROVE  status'[t] \in Awake /\ arg'[t] = arg[t]
  BY <1>1, <1>a DEF thread_create, Continue, Awake
<1>2. ASSUME NEW st, schedule(ready, st), st[t] = status[t], UNCHANGED arg
      PROVE  status'[t] \in Awake /\ arg'[t] = arg[t]
  BY <1>2, <1>a, AwakeThroughSwitch
<1>3. CASE thread_exit
  <2>1. [status EXCEPT ![cur] = "DYING"][t] = status[t]
    BY <1>a
  <2> QED BY <1>2, <1>3, <2>1 DEF thread_exit
<1>4. CASE Yield
  BY <1>4, <1>a, AwakeThroughYield DEF Yield
<1>5. CASE idle
  <2>1. [status EXCEPT ![Idle] = "BLOCKED"][t] = status[t]
    BY <1>a
  <2> QED BY <1>2, <1>5, <2>1 DEF idle
<1>6. ASSUME NEW s \in Semaphore, SemaBlock(s)
      PROVE  status'[t] \in Awake /\ arg'[t] = arg[t]
  <2>1. [status EXCEPT ![cur] = "BLOCKED"][t] = status[t]
    BY <1>a
  <2> QED BY <1>2, <1>6, <2>1 DEF SemaBlock
<1>7. ASSUME NEW s, NEW e, SemaUp(s, e), UNCHANGED arg
      PROVE  status'[t] \in Awake /\ arg'[t] = arg[t]
  BY <1>7, <1>a, AwakeThroughUp
<1>8. ASSUME NEW s \in Sema, sema_up(s)
      PROVE  status'[t] \in Awake /\ arg'[t] = arg[t]
  BY <1>7, <1>8 DEF sema_up
<1>9. ASSUME NEW l \in Lock, lock_release(l)
      PROVE  status'[t] \in Awake /\ arg'[t] = arg[t]
  <2>1. PICK e : SemaUp(l, e)
    BY <1>9 DEF lock_release
  <2> QED BY <1>7, <1>9, <2>1 DEF lock_release
<1>10. ASSUME UNCHANGED status, \/ UNCHANGED arg
                                \/ \E x : arg' = [arg EXCEPT ![cur] = x]
       PROVE  status'[t] \in Awake /\ arg'[t] = arg[t]
  BY <1>10, <1>a
<1>11. ASSUME \/ \E s \in Sema : sema_down(s) \/ sema_try_down(s)
              \/ \E s \in Semaphore : SemaTake(s)
              \/ \E l \in Lock : lock_acquire(l)
              \/ recurse_donate \/ DonateToFreed \/ DonationEnds
              \/ \E p \in Priority : thread_set_priority(p)
              \/ StoreEffective \/ update_priority
       PROVE  status'[t] \in Awake /\ arg'[t] = arg[t]
  <2>1. /\ UNCHANGED status
        /\ UNCHANGED arg \/ \E x : arg' = [arg EXCEPT ![cur] = x]
    BY <1>11, Zenon DEF sema_down, sema_try_down, SemaTake, lock_acquire, recurse_donate,
         DonateToFreed, DonationEnds, thread_set_priority, StoreEffective, update_priority,
         switchVars
  <2> QED BY <1>10, <2>1
<1>12. CASE CreateReturns
  <2>1. thread_yield(ready, status, effective_priority) \/ Continue(ready, status)
    BY <1>12 DEF CreateReturns
  <2>2. status'[t] \in Awake
    BY <1>a, <2>1, AwakeThroughYield DEF Continue
  <2>3. arg'[t] = arg[t]
    BY <1>a, <1>12 DEF CreateReturns
  <2> QED BY <2>2, <2>3
<1> QED BY <1>1, <1>3, <1>4, <1>5, <1>6, <1>8, <1>9, <1>11, <1>12 DEF Calls

\* A step that leaves timerVars alone keeps the invariant, whoever takes it.
LEMMA OtherStepInv ==
  ASSUME TimerInv, TypeInv', QueueInv', SleepersStay, UNCHANGED timerVars,
         \A t \in Thread : sleep[t] = "set" => status'[t] \in Awake /\ arg'[t] = arg[t]
  PROVE  TimerInv'
<1> USE DEF TimerInv
<1>1. UNCHANGED <<ticks, wake_time, sleeping_list, sleep>>
  BY DEF timerVars
<1>2. ClockTypeOK'
  BY <1>1 DEF ClockTypeOK
<1>3. SleepInv'
  <2>1. Late' = Late
    BY <1>1 DEF Late
  <2> QED BY <1>1, <2>1 DEF SleepInv, SleepersStay
<1> QED BY <1>2, <1>3

\* Every step keeps the invariant.
LEMMA NextTimerInv == TimerInv /\ [TimerNext]_<<vars, timerVars>> => TimerInv'
<1> SUFFICES ASSUME TimerInv, [TimerNext]_<<vars, timerVars>> PROVE TimerInv'
  OBVIOUS
<1>a. TypeInv /\ QueueInv /\ cur \in AnyThread /\ (cur # Idle => cur \in Thread)
  BY ReadyFacts DEF TimerInv, AnyThread
<1>1. ASSUME NEW n \in Durations, timer_sleep(n) PROVE TimerInv'
  BY <1>1, TimerSleepInv
<1>2. CASE SleepBlock
  BY <1>2, SleepBlockInv
<1>3. CASE timer_interrupt
  BY <1>3, InterruptInv
<1>4. CASE ~ InTimerSleep /\ Calls /\ UNCHANGED timerVars
  <2>1. TypeInv'
    BY <1>4, <1>a, NextTypeInv DEF Next
  <2>2. QueueInv' /\ SleepersStay
    BY <1>4, <1>a, CallsQueueInv
  <2>3. ASSUME NEW t \in Thread, sleep[t] = "set"
        PROVE  status'[t] \in Awake /\ arg'[t] = arg[t]
    <3>1. t # cur
      BY <1>4, <2>3, ThreadAssumption DEF InTimerSleep
    <3>2. status[t] \in Awake
      BY <2>3 DEF TimerInv, SleepInv
    <3> QED BY <1>4, <1>a, <3>1, <3>2, OthersStayAwake
  <2> QED BY <1>4, <2>1, <2>2, <2>3, OtherStepInv
<1>5. CASE DeviceInterrupt /\ UNCHANGED timerVars
  <2>1. TypeInv'
    BY <1>5, <1>a, NextTypeInv DEF Next
  <2>2. QueueInv' /\ SleepersStay
    BY <1>5, <1>a, DeviceQueueInv
  <2>3. ASSUME NEW t \in Thread, sleep[t] = "set"
        PROVE  status'[t] \in Awake /\ arg'[t] = arg[t]
    <3>1. status[t] \in Awake /\ t \in AnyThread /\ status \in [AnyThread -> Status]
      BY <1>a, <2>3 DEF TimerInv, SleepInv, AnyThread, TypeInv, SwitchTypeOK
    <3>2. /\ UNCHANGED arg
          /\ status' = status \/ \E u : status' = [status EXCEPT ![u] = "READY"]
      BY <1>5 DEF DeviceInterrupt, InterruptSemaUp, Continue
    <3> QED BY <3>1, <3>2 DEF Awake
  <2> QED BY <1>5, <2>1, <2>2, <2>3, OtherStepInv
<1>6. CASE UNCHANGED <<vars, timerVars>>
  <2>1. TypeInv'
    BY <1>6, <1>a, NextTypeInv
  <2>2. QueueInv' /\ SleepersStay
    BY <1>6, <1>a DEF vars, QueueInv, WaitInv, PlaceInv, NoLostWakeup, SleepersStay, Sleeping
  <2>3. UNCHANGED <<status, arg>> /\ UNCHANGED timerVars
    BY <1>6 DEF vars
  <2>4. \A t \in Thread : sleep[t] = "set" => status'[t] \in Awake /\ arg'[t] = arg[t]
    BY <2>3 DEF TimerInv, SleepInv
  <2> QED BY <2>1, <2>2, <2>3, <2>4, OtherStepInv
<1> QED BY <1>1, <1>2, <1>3, <1>4, <1>5, <1>6 DEF TimerNext

\* The invariant that the theorems below come from.
LEMMA TimerInvariant == TimerSpec => []TimerInv
<1>1. TimerInit => TimerInv
  <2> SUFFICES ASSUME TimerInit PROVE TimerInv
    OBVIOUS
  <2>1. TypeInv /\ QueueInv /\ NoSleepers
    BY InitTypeInv, InitQueueInv DEF TimerInit
  <2>2. ClockTypeOK
    BY TimerAssumption, EmptySeq DEF TimerInit, ClockTypeOK
  <2>3. Distinct(<<>>) /\ Elements(<<>>) = {} /\ \A e : Ordered(<<>>, e)
    BY DEF Distinct, Elements, Ordered
  <2>4. SleepInv
    BY <2>1, <2>3 DEF TimerInit, SleepInv, NoSleepers
  <2> QED BY <2>1, <2>2, <2>4 DEF TimerInv
<1> QED BY <1>1, NextTimerInv, PTL DEF TimerSpec

-----------------------------------------------------------------------------
(* The theorems.                                                           *)

\* The lists stay lists of threads and the clock stays within its bound, through
\* timer_sleep, the loop of timer_interrupt and every call of Threads.
THEOREM TimerTypeCorrect == TimerSpec => []TimerTypeOK
<1>1. TimerInv => TimerTypeOK
  BY TypeParts DEF TimerInv, TypeInv, ClockTypeOK, TimerTypeOK
<1> QED BY <1>1, TimerInvariant, PTL

\* A thread's one list element `elem' is never in two of the ready lists, the wait lists
\* and sleeping_list, and a blocked thread is in one of them, so something can wake it.
THEOREM LinkedOnceOrAsleep == TimerSpec => []OneListOrAsleep
<1>1. TimerInv => OneListOrAsleep
  <2> SUFFICES ASSUME TimerInv, NEW t \in Thread
               PROVE  /\ Places(ready["FIFO"], t) + Places(ready["PRIO"], t)
                           = IF status[t] = "READY" THEN 1 ELSE 0
                      /\ \A s \in Semaphore :
                           Places(waiters[s], t) =
                             IF pc[t] = "down" /\ status[t] = "BLOCKED" /\ arg[t] = s
                             THEN 1 ELSE 0
                      /\ Places(sleeping_list, t) = IF sleep[t] = "asleep" THEN 1 ELSE 0
                      /\ status[t] = "BLOCKED" <=>
                           \/ sleep[t] = "asleep"
                           \/ \E s \in Semaphore : Places(waiters[s], t) = 1
    BY DEF OneListOrAsleep
  <2>1. Linked(ready, status, effective_priority)
    BY DEF TimerInv, QueueInv
  <2>2. /\ Places(ready["FIFO"], t) = IF t \in Elements(ready["FIFO"]) THEN 1 ELSE 0
        /\ Places(ready["PRIO"], t) = IF t \in Elements(ready["PRIO"]) THEN 1 ELSE 0
    BY <2>1, PlacesOnce DEF Linked
  <2>3. Places(ready["FIFO"], t) + Places(ready["PRIO"], t)
          = IF status[t] = "READY" THEN 1 ELSE 0
    BY <2>1, <2>2 DEF Linked
  <2>4. \A s \in Semaphore :
          Places(waiters[s], t) = IF status[t] = "BLOCKED" /\ arg[t] = s THEN 1 ELSE 0
    BY PlacesOnce DEF TimerInv, QueueInv, WaitInv
  <2>5. ASSUME NEW s \in Semaphore, status[t] = "BLOCKED", arg[t] = s
        PROVE  pc[t] = "down"
    BY <2>5, WaiterPlace DEF TimerInv, QueueInv, WaitInv
  <2>6. Places(sleeping_list, t) = IF sleep[t] = "asleep" THEN 1 ELSE 0
    BY PlacesOnce DEF TimerInv, SleepInv
  <2>7. /\ sleep[t] = "asleep" <=> status[t] = "BLOCKED" /\ arg[t] = None
        /\ status[t] = "BLOCKED" => arg[t] \in Semaphore \cup {None}
    BY DEF TimerInv, SleepInv, Sleeping, QueueInv, PlaceInv, Placed, PC, TypeInv,
           OtherTypeOK, AnyThread
  <2> QED BY <2>3, <2>4, <2>5, <2>6, <2>7
<1> QED BY <1>1, TimerInvariant, PTL

\* Threads' promises to those that wait for a semaphore, and the order of
\* priority_queue, hold with sleepers in the kernel as well.
THEOREM QueuesKeptWithSleepers == TimerSpec => [](ReadySorted /\ NoLostWakeup)
<1>1. TimerInv => ReadySorted /\ NoLostWakeup
  BY DEF TimerInv, QueueInv, Linked, Ordered, ReadySorted
<1> QED BY <1>1, TimerInvariant, PTL

\* What WakesOnTime says of one thread in one step.
OnTime(t) ==
  /\ (sleep[t] = "asleep" /\ ticks' # ticks) => (sleep'[t] = "no" <=> wake_time[t] <= ticks')
  /\ (sleep[t] = "asleep" /\ ticks' = ticks) => sleep'[t] = "asleep"

\* timer_interrupt stops at the first sleeper that is not due, and all that are due come
\* before it: each thread is woken by the first tick that is not before its wake_time.
THEOREM WokenOnTime == TimerSpec => WakesOnTime
<1>1. TimerInv /\ [TimerNext]_<<vars, timerVars>>
        => [\A t \in Thread : OnTime(t)]_<<vars, timerVars>>
  <2> SUFFICES ASSUME TimerInv, TimerNext, NEW t \in Thread PROVE OnTime(t)
    OBVIOUS
  <2>a. ticks \in Nat /\ sleep \in [Thread -> {"no", "set", "asleep"}]
    BY TimerAssumption DEF TimerInv, ClockTypeOK
  <2>1. CASE timer_interrupt
    <3>1. ticks' = ticks + 1 /\ ticks' # ticks
      BY <2>1, <2>a DEF timer_interrupt
    <3>2. sleep'[t] = IF t \in Elements(Due) THEN "no" ELSE sleep[t]
      BY <2>1 DEF timer_interrupt, Due
    <3>3. t \in Elements(Due) <=> sleep[t] = "asleep" /\ wake_time[t] <= ticks + 1
      BY DueAre
    <3> QED BY <3>1, <3>2, <3>3 DEF OnTime
  <2>2. ASSUME ticks' = ticks,
               \/ sleep' = sleep
               \/ /\ cur # Idle /\ sleep[cur] # "asleep"
                  /\ \E x : sleep' = [sleep EXCEPT ![cur] = x]
        PROVE  OnTime(t)
    BY <2>2, <2>a DEF OnTime
  <2>3. CASE \/ \E n \in Durations : timer_sleep(n)
             \/ SleepBlock
             \/ UNCHANGED timerVars
    BY <2>2, <2>3 DEF timer_sleep, SleepBlock, timerVars
  <2> QED BY <2>1, <2>3 DEF TimerNext
<1> QED BY <1>1, TimerInvariant, PTL DEF TimerSpec, WakesOnTime, OnTime

\* A yield under "PRIO" leaves nobody ready who outranks the thread that runs.
LEMMA YieldToHighest ==
  ASSUME active_sched_policy = "PRIO",
         NEW r \in Lists, NEW st \in [AnyThread -> Status], NEW e, Numbers(e),
         Runs(cur, st), Linked(r, st, e), thread_yield(r, st, e),
         NEW t \in Thread, status'[t] = "READY"
  PROVE  e[t] <= e[cur']
<1> DEFINE r2 == IF cur = Idle THEN r ELSE thread_enqueue(r, cur, e)
           st2 == [st EXCEPT ![cur] = "READY"]
<1>1. r2 \in Lists /\ schedule(r2, st2)
  BY EnqueueType DEF thread_yield, Runs, AnyThread
<1>2. Linked(r2, st2, e)
  <2>1. CASE cur = Idle
    <3>1. \A x \in Thread : st2[x] = st[x]
      BY <2>1, ThreadAssumption DEF AnyThread
    <3> QED BY <2>1, <3>1 DEF Linked
  <2>2. CASE cur # Idle
    <3>1. cur \in Thread /\ st[cur] # "READY"
      BY <2>2 DEF Runs, AnyThread
    <3> QED BY <2>2, <3>1, EnqueueLinked
  <2> QED BY <2>1, <2>2
<1>3. Linked(ready', status', e)
  BY YieldLinked
<1> HIDE DEF r2, st2
<1> DEFINE list == r2["PRIO"]
<1>4. list \in Seq(Thread) /\ Ordered(list, e) /\ ready'["FIFO"] = <<>>
  BY <1>1, <1>2, <1>3 DEF Lists, Linked
<1>5. t \in Elements(ready'["PRIO"])
  <2>1. Elements(<<>>) = {}
    BY DEF Elements
  <2> QED BY <1>3, <1>4, <2>1 DEF Linked
<1>6. list # <<>> /\ cur' = Head(list) /\ ready'["PRIO"] = Tail(list)
  <2>1. list = <<>> => ready' = r2
    BY <1>1 DEF schedule
  <2>2. list # <<>>
    BY <1>5, <2>1 DEF Elements
  <2> QED BY <1>1, <2>2 DEF schedule, Lists
<1>7. e[Head(list)] >= e[t]
  <2>1. Elements(Tail(list)) \subseteq Elements(list)
    BY <1>2, <1>4, <1>6, Popped DEF Linked
  <2> QED BY <1>4, <1>5, <1>6, <2>1, PoppedOrdered DEF Numbers
<1>8. e[t] \in Int /\ e[Head(list)] \in Int
  BY <1>4, <1>6, HeadTailProperties DEF Numbers
<1> QED BY <1>6, <1>7, <1>8

\* When a tick's handler returns no ready thread outranks the running one, those that the
\* tick has woken included: thread_tick looks at the ready list after the loop.
THEOREM HighestRunsAfterTick ==
  ASSUME active_sched_policy = "PRIO"
  PROVE  TimerSpec => TickRunsHighest
<1> DEFINE Highest == ticks' # ticks =>
                        \A t \in Thread : status'[t] = "READY" =>
                          effective_priority'[t] <= effective_priority'[cur']
<1>1. TimerInv /\ [TimerNext]_<<vars, timerVars>> => [Highest]_<<vars, timerVars>>
  <2> SUFFICES ASSUME TimerInv, TimerNext, ticks' # ticks, NEW t \in Thread,
                      status'[t] = "READY"
               PROVE  effective_priority'[t] <= effective_priority'[cur']
    OBVIOUS
  <2>1. timer_interrupt
    BY DEF TimerNext, timer_sleep, SleepBlock, timerVars
  <2>2. Tick(ReadyAfter, StatusAfter) /\ effective_priority' = effective_priority
    <3>1. Len(Due) = DueLength(ticks + 1)
      BY DueAre
    <3> QED BY <2>1, <3>1 DEF timer_interrupt, Due, ReadyAfter, StatusAfter, threadVars
  <2>3. /\ ReadyAfter \in Lists /\ StatusAfter \in [AnyThread -> Status]
        /\ Numbers(effective_priority)
        /\ Linked(ReadyAfter, StatusAfter, effective_priority) /\ Runs(cur, StatusAfter)
    BY AfterWaking
  <2>4. CASE thread_yield(ReadyAfter, StatusAfter, effective_priority)
    BY <2>2, <2>3, <2>4, YieldToHighest
  <2>5. CASE /\ ~ Outranked(ReadyAfter)
             /\ status' = StatusAfter /\ ready' = ReadyAfter /\ cur' = cur
    <3> DEFINE list == ReadyAfter["PRIO"]
    <3>1. /\ list \in Seq(Thread) /\ Ordered(list, effective_priority)
          /\ ReadyAfter["FIFO"] = <<>> /\ Elements(<<>>) = {}
      BY <2>3 DEF Lists, Linked, Elements
    <3>2. t \in Elements(list) /\ list # <<>>
      BY <2>3, <2>5, <3>1 DEF Linked
    <3>3. effective_priority[Head(list)] >= effective_priority[t]
      BY <2>3, <3>1, <3>2, PoppedOrdered DEF Numbers
    <3>4. ~ (effective_priority[Head(list)] > effective_priority[cur])
      BY <2>5, <3>2 DEF Outranked
    <3>5. \A x \in AnyThread : effective_priority[x] \in Int
      BY NumberAssumption DEF TimerInv, TypeInv, OtherTypeOK, Priority
    <3>6. Head(list) \in AnyThread /\ t \in AnyThread /\ cur \in AnyThread
      BY <2>3, <3>1, <3>2, HeadTailProperties DEF AnyThread, Runs
    <3> HIDE DEF list
    <3>7. effective_priority[t] <= effective_priority[cur]
      BY <3>3, <3>4, <3>5, <3>6
    <3> QED BY <2>2, <2>5, <3>7
  <2> QED BY <2>2, <2>4, <2>5 DEF Tick
<1> QED BY <1>1, TimerInvariant, PTL DEF TimerSpec, TickRunsHighest
=============================================================================
