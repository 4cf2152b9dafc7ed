---------------------------- MODULE RWLockProofs ----------------------------
(***************************************************************************)
(* Theorems about the readers-writers lock, for any finite set of threads  *)
(* and any number of acquisitions.                                         *)
(***************************************************************************)
EXTENDS RWLock, FiniteSetTheorems, SequenceTheorems, TLAPS

\* Who holds the guard.
GuardInv ==
  \A t \in Thread : holder[guard] = t <=> pc[t] \in {"check", "wake"}

\* A counter is the number of the threads that it counts.
Readers == {t \in Thread : Active(t) /\ reader[t]}
Writers == {t \in Thread : Active(t) /\ ~ reader[t]}
WaitingReaders == {t \in Thread : Waiting(t) /\ reader[t]}
WaitingWriters == {t \in Thread : Waiting(t) /\ ~ reader[t]}
CountInv ==
  /\ AR = Cardinality(Readers) /\ AW = Cardinality(Writers)
  /\ WR = Cardinality(WaitingReaders) /\ WW = Cardinality(WaitingWriters)

\* A writer is alone.
AloneInv ==
  \A w \in Writers : Readers = {} /\ Writers = {w}

\* Who is on a list, and that nobody is there twice.
Elements(s) == {s[i] : i \in 1 .. Len(s)}
Distinct(s) == \A i, j \in 1 .. Len(s) : s[i] = s[j] => i = j

\* The threads that wait on a condition and have not been signalled.
Unsignalled(c) == {t \in Thread : pc[t] = "down" /\ CondOf(t) = c /\ semaphore[t] = 0}

\* A thread is on the list of its condition, once, from cond_wait until it is
\* signalled, and nowhere else; its semaphore is up from then until its sema_down.
ListInv ==
  /\ \A c \in {"read", "write"} :
       Distinct(waiters[c]) /\ Elements(waiters[c]) = Unsignalled(c)
  /\ \A t \in Thread : semaphore[t] = 1 => pc[t] = "down"

RWInv == TypeOK /\ GuardInv /\ CountInv /\ AloneInv /\ ListInv

-----------------------------------------------------------------------------
(* Counting.                                                               *)

\* The threads counted are finitely many, so one more or one less makes 1.
LEMMA Counting ==
  ASSUME NEW S \in SUBSET Thread, NEW t
  PROVE  /\ Cardinality(S) \in Nat
         /\ Cardinality(S) = 0 <=> S = {}
         /\ t \notin S => Cardinality(S \cup {t}) = Cardinality(S) + 1
         /\ t \in S => Cardinality(S \ {t}) = Cardinality(S) - 1 /\ Cardinality(S) > 0
<1>1. IsFiniteSet(S)
  BY RWAssumption, FS_Subset
<1>2. Cardinality(S) \in Nat /\ (Cardinality(S) = 0 <=> S = {})
  BY <1>1, FS_CardinalityType, FS_EmptySet
<1>3. t \notin S => Cardinality(S \cup {t}) = Cardinality(S) + 1
  BY <1>1, FS_AddElement
<1>4. t \in S => Cardinality(S \ {t}) = Cardinality(S) - 1
  BY <1>1, FS_RemoveElement
<1> QED BY <1>2, <1>3, <1>4

\* What the counters are about.
LEMMA Counted ==
  /\ Readers \subseteq Thread /\ Writers \subseteq Thread
  /\ WaitingReaders \subseteq Thread /\ WaitingWriters \subseteq Thread
BY DEF Readers, Writers, WaitingReaders, WaitingWriters

\* The counters are natural numbers, and 0 when there is nobody to count.
LEMMA CountFacts ==
  ASSUME CountInv
  PROVE  /\ AR \in Nat /\ AW \in Nat /\ WR \in Nat /\ WW \in Nat
         /\ AR = 0 <=> Readers = {}
         /\ AW = 0 <=> Writers = {}
         /\ WR = 0 <=> WaitingReaders = {}
         /\ WW = 0 <=> WaitingWriters = {}
<1>1. \A S \in SUBSET Thread : Cardinality(S) \in Nat /\ (Cardinality(S) = 0 <=> S = {})
  BY Counting
<1> QED BY <1>1, Counted DEF CountInv

-----------------------------------------------------------------------------
(* The lists of the conditions.                                            *)

\* A list without the element at place i, as cond_signal leaves it.
Without(s, i) == SubSeq(s, 1, i - 1) \o SubSeq(s, i + 1, Len(s))

\* It is a list of threads, with the others in their order.
LEMMA ListRemove ==
  ASSUME NEW s \in Seq(Thread), NEW i \in 1 .. Len(s)
  PROVE  /\ Without(s, i) \in Seq(Thread) /\ Len(Without(s, i)) = Len(s) - 1
         /\ \A j \in 1 .. Len(s) - 1 : Without(s, i)[j] = IF j < i THEN s[j] ELSE s[j + 1]
<1> DEFINE a == SubSeq(s, 1, i - 1)
           b == SubSeq(s, i + 1, Len(s))
<1>1. Len(s) \in Nat /\ \A j \in 1 .. Len(s) : s[j] \in Thread
  BY LenProperties, ElementOfSeq
<1>2. a \in Seq(Thread) /\ Len(a) = i - 1 /\ \A j \in 1 .. i - 1 : a[j] = s[j]
  <2>1. /\ a \in Seq(Thread) /\ Len(a) = IF 1 <= i - 1 THEN (i - 1) - 1 + 1 ELSE 0
        /\ \A j \in 1 .. (i - 1) - 1 + 1 : a[j] = s[1 + j - 1]
    BY <1>1, SubSeqProperties
  <2> QED BY <1>1, <2>1
<1>3. b \in Seq(Thread) /\ Len(b) = Len(s) - i /\ \A j \in 1 .. Len(s) - i : b[j] = s[i + j]
  <2>1. /\ b \in Seq(Thread) /\ Len(b) = IF i + 1 <= Len(s) THEN Len(s) - (i + 1) + 1 ELSE 0
        /\ \A j \in 1 .. Len(s) - (i + 1) + 1 : b[j] = s[(i + 1) + j - 1]
    BY <1>1, SubSeqProperties
  <2> QED BY <1>1, <2>1
<1> HIDE DEF a, b
<1>4. /\ a \o b \in Seq(Thread) /\ Len(a \o b) = Len(a) + Len(b)
      /\ \A j \in 1 .. Len(a) + Len(b) : (a \o b)[j] = IF j <= Len(a) THEN a[j] ELSE b[j - Len(a)]
  BY <1>2, <1>3, ConcatProperties
<1>5. ASSUME NEW j \in 1 .. Len(s) - 1
      PROVE  (a \o b)[j] = IF j < i THEN s[j] ELSE s[j + 1]
  <2>1. CASE j < i
    BY <1>1, <1>2, <1>3, <1>4, <2>1
  <2>2. CASE ~ (j < i)
    <3>1. (a \o b)[j] = b[j - (i - 1)] /\ j - (i - 1) \in 1 .. Len(s) - i
      BY <1>1, <1>2, <1>3, <1>4, <2>2
    <3> QED BY <1>1, <1>3, <2>2, <3>1
  <2> QED BY <2>1, <2>2
<1>6. Without(s, i) = a \o b
  BY DEF Without, a, b
<1>7. Len(a) + Len(b) = Len(s) - 1
  BY <1>1, <1>2, <1>3
<1> QED BY <1>4, <1>5, <1>6, <1>7

\* The threads on it are the others, each once.
LEMMA RemoveElements ==
  ASSUME NEW s \in Seq(Thread), NEW i \in 1 .. Len(s), Distinct(s)
  PROVE  Distinct(Without(s, i)) /\ Elements(Without(s, i)) = Elements(s) \ {s[i]}
<1> DEFINE r == Without(s, i)
<1>1. Len(s) \in Nat /\ Len(r) = Len(s) - 1
  BY LenProperties, ListRemove
<1>2. \A j \in 1 .. Len(s) - 1 : r[j] = IF j < i THEN s[j] ELSE s[j + 1]
  BY ListRemove
<1> HIDE DEF r
<1>3. ASSUME NEW j \in 1 .. Len(r)
      PROVE  r[j] \in Elements(s) \ {s[i]}
  <2>1. PICK k \in 1 .. Len(s) : k # i /\ r[j] = s[k]
    <3>1. CASE j < i
      BY <1>1, <1>2, <3>1
    <3>2. CASE ~ (j < i)
      <4>1. j + 1 \in 1 .. Len(s) /\ j + 1 # i /\ r[j] = s[j + 1]
        BY <1>1, <1>2, <3>2
      <4> QED BY <4>1
    <3> QED BY <3>1, <3>2
  <2> QED BY <2>1 DEF Elements, Distinct
<1>4. ASSUME NEW k \in 1 .. Len(s), k # i
      PROVE  s[k] \in Elements(r)
  <2>1. CASE k < i
    <3>1. k \in 1 .. Len(r) /\ r[k] = s[k]
      BY <1>1, <1>2, <2>1
    <3> QED BY <3>1 DEF Elements
  <2>2. CASE ~ (k < i)
    <3>1. k - 1 \in 1 .. Len(r) /\ r[k - 1] = s[k]
      BY <1>1, <1>2, <1>4, <2>2
    <3> QED BY <3>1 DEF Elements
  <2> QED BY <2>1, <2>2
<1>5. ASSUME NEW j \in 1 .. Len(r), NEW k \in 1 .. Len(r), r[j] = r[k]
      PROVE  j = k
  <2>1. /\ j \in 1 .. Len(s) /\ j + 1 \in 1 .. Len(s) /\ k \in 1 .. Len(s) /\ k + 1 \in 1 .. Len(s)
        /\ r[j] = IF j < i THEN s[j] ELSE s[j + 1]
        /\ r[k] = IF k < i THEN s[k] ELSE s[k + 1]
    BY <1>1, <1>2
  <2>2. (IF j < i THEN j ELSE j + 1) = IF k < i THEN k ELSE k + 1
    BY <1>5, <2>1 DEF Distinct
  <2> QED BY <2>2, <2>1
<1>6. Elements(r) = Elements(s) \ {s[i]}
  BY <1>3, <1>4 DEF Elements
<1> QED BY <1>5, <1>6 DEF Distinct, r

\* A list with one more thread at its end, as cond_wait leaves it.
LEMMA AppendElements ==
  ASSUME NEW s \in Seq(Thread), NEW t \in Thread, Distinct(s), t \notin Elements(s)
  PROVE  Distinct(Append(s, t)) /\ Elements(Append(s, t)) = Elements(s) \cup {t}
<1> DEFINE r == Append(s, t)
<1>1. /\ Len(s) \in Nat /\ Len(r) = Len(s) + 1 /\ r[Len(s) + 1] = t
      /\ \A i \in 1 .. Len(s) : r[i] = s[i] /\ s[i] # t
  BY LenProperties, AppendProperties DEF Elements
<1> HIDE DEF r
<1>2. Elements(r) = Elements(s) \cup {t}
  <2>1. \A i \in 1 .. Len(r) : i \in 1 .. Len(s) \/ i = Len(s) + 1
    BY <1>1
  <2>2. Elements(r) \subseteq Elements(s) \cup {t}
    BY <1>1, <2>1 DEF Elements
  <2>3. \A i \in 1 .. Len(s) : i \in 1 .. Len(r)
    BY <1>1
  <2>4. Elements(s) \subseteq Elements(r)
    BY <1>1, <2>3 DEF Elements
  <2>5. t \in Elements(r)
    <3>1. Len(s) + 1 \in 1 .. Len(r)
      BY <1>1
    <3> QED BY <1>1, <3>1 DEF Elements
  <2> QED BY <2>2, <2>4, <2>5
<1>3. Distinct(r)
  BY <1>1 DEF Distinct
<1> QED BY <1>2, <1>3 DEF r

\* An empty list.
LEMMA NoElements == Distinct(<<>>) /\ Elements(<<>>) = {}
BY DEF Distinct, Elements

\* The types, but for the counters.
ControlTypeOK ==
  /\ holder \in [{guard} -> Thread \cup {None}]
  /\ waiters \in [{"read", "write"} -> Seq(Thread)]
  /\ semaphore \in [Thread -> 0 .. 1]
  /\ reader \in [Thread -> BOOLEAN]
  /\ pc \in [Thread -> PC]
  /\ uses \in [Thread -> 0 .. MaxUses]
  /\ panic \in {None, "list_front", "page_fault"}

\* The condition a thread waits on is one of the two.
LEMMA CondType == \A t : CondOf(t) \in {"read", "write"}
BY DEF CondOf

\* What cond_signal and cond_broadcast do with a list, one thread or all of it.
LEMMA SignalTypes ==
  ASSUME TypeOK, ListInv, NEW c \in {"read", "write"}, cond_signal(c) \/ cond_broadcast(c)
  PROVE  /\ waiters' \in [{"read", "write"} -> Seq(Thread)]
         /\ semaphore' \in [Thread -> 0 .. 1]
         /\ panic' \in {None, "list_front", "page_fault"}
<1> USE DEF TypeOK
<1>1. CASE UNCHANGED <<waiters, semaphore>> /\ panic' \in {"list_front", "page_fault"}
  BY <1>1
<1>2. ASSUME NEW i \in DOMAIN waiters[c],
             waiters' = [waiters EXCEPT ![c] = SubSeq(@, 1, i - 1) \o SubSeq(@, i + 1, Len(@))],
             semaphore' = [semaphore EXCEPT ![waiters[c][i]] = @ + 1], UNCHANGED panic
      PROVE  /\ waiters' \in [{"read", "write"} -> Seq(Thread)]
             /\ semaphore' \in [Thread -> 0 .. 1]
             /\ panic' \in {None, "list_front", "page_fault"}
  <2>1. waiters[c] \in Seq(Thread) /\ i \in 1 .. Len(waiters[c])
    BY <1>2, LenProperties
  <2>2. Without(waiters[c], i) \in Seq(Thread)
    BY <2>1, ListRemove
  <2>3. semaphore[waiters[c][i]] = 0 /\ waiters[c][i] \in Thread
    BY <2>1 DEF ListInv, Elements, Unsignalled
  <2>4. waiters' = [waiters EXCEPT ![c] = Without(waiters[c], i)]
    BY <1>2 DEF Without
  <2>5. semaphore' = [semaphore EXCEPT ![waiters[c][i]] = 1]
    BY <1>2, <2>3
  <2>6. waiters' \in [{"read", "write"} -> Seq(Thread)]
    BY <2>2, <2>4
  <2>7. semaphore' \in [Thread -> 0 .. 1]
    BY <2>5
  <2> QED BY <1>2, <2>6, <2>7
<1>3. CASE cond_broadcast(c) /\ UNCHANGED panic
  <2>1. CASE UNCHANGED <<waiters, semaphore>>
    BY <1>3, <2>1
  <2>2. CASE /\ waiters' = [waiters EXCEPT ![c] = <<>>]
             /\ semaphore' = [t \in Thread |-> IF \E i \in DOMAIN waiters[c] : waiters[c][i] = t
                                               THEN semaphore[t] + 1 ELSE semaphore[t]]
    <3>1. <<>> \in Seq(Thread) /\ DOMAIN waiters[c] = 1 .. Len(waiters[c])
      BY LenProperties, EmptySeq
    <3>2. \A i \in DOMAIN waiters[c] : semaphore[waiters[c][i]] = 0
      BY <3>1 DEF ListInv, Elements, Unsignalled
    <3>3. \A t \in Thread : semaphore'[t] \in 0 .. 1
      BY <2>2, <3>2
    <3> QED BY <1>3, <2>2, <3>1, <3>3
  <2> QED BY <1>3, <2>1, <2>2 DEF cond_broadcast
<1> QED BY <1>1, <1>2, <1>3 DEF cond_signal, cond_broadcast

\* What happens to a list in rw_lock_release, if anything does.
LEMMA LeaveSignals ==
  ASSUME NEW t \in Thread, Leave(t)
  PROVE  cond_signal("write") \/ cond_broadcast("read") \/ NoSignal
BY DEF Leave

\* Every step keeps the types of all but the counters.
LEMMA ControlTypes ==
  ASSUME RWInv, NEW t \in Thread, Progress(t) \/ \E r \in BOOLEAN : rw_lock_acquire(t, r)
  PROVE  ControlTypeOK'
<1> USE DEF RWInv, TypeOK, ControlTypeOK, PC, Guard!Acquire, Guard!Release
<1>1. ASSUME NEW r \in BOOLEAN, rw_lock_acquire(t, r)
      PROVE  ControlTypeOK'
  BY <1>1, RWAssumption DEF rw_lock_acquire
<1>2. CASE lock_acquire(t)
  BY <1>2 DEF lock_acquire
<1>3. CASE cond_wait(t)
  <2>1. waiters[CondOf(t)] \in Seq(Thread)
    BY CondType
  <2>2. Append(waiters[CondOf(t)], t) \in Seq(Thread)
    BY <2>1, AppendProperties
  <2>3. waiters' = [waiters EXCEPT ![CondOf(t)] = Append(waiters[CondOf(t)], t)]
    BY <1>3 DEF cond_wait
  <2>4. waiters' \in [{"read", "write"} -> Seq(Thread)]
    BY <2>2, <2>3
  <2> QED BY <1>3, <2>4 DEF cond_wait
<1>4. CASE sema_down(t)
  BY <1>4 DEF sema_down
<1>5. CASE Enter(t)
  BY <1>5 DEF Enter
<1>6. CASE rw_lock_release(t)
  BY <1>6 DEF rw_lock_release
<1>7. CASE Leave(t)
  <2>1. /\ waiters' \in [{"read", "write"} -> Seq(Thread)]
        /\ semaphore' \in [Thread -> 0 .. 1]
        /\ panic' \in {None, "list_front", "page_fault"}
    BY <1>7, LeaveSignals, SignalTypes DEF NoSignal
  <2> QED BY <1>7, <2>1 DEF Leave
<1> QED BY <1>1, <1>2, <1>3, <1>4, <1>5, <1>6, <1>7 DEF Progress

\* A thread holds the guard from its lock_acquire to its lock_release.
LEMMA GuardStep ==
  ASSUME RWInv, NEW t \in Thread, Progress(t) \/ \E r \in BOOLEAN : rw_lock_acquire(t, r)
  PROVE  GuardInv'
BY RWAssumption DEF RWInv, TypeOK, GuardInv, PC, Guard!Acquire, Guard!Release, Progress,
   rw_lock_acquire, lock_acquire, cond_wait, sema_down, Enter, rw_lock_release, Leave

-----------------------------------------------------------------------------
(* The counters.                                                           *)

\* A step that changes neither the counters nor whom they count.
LEMMA CountsStay ==
  ASSUME CountInv, UNCHANGED counters,
         \A x \in Thread : Active(x)' = Active(x) /\ Waiting(x)' = Waiting(x),
         \A x \in Thread : Active(x) \/ Waiting(x) => reader'[x] = reader[x]
  PROVE  CountInv'
<1>1. /\ Readers' = Readers /\ Writers' = Writers
      /\ WaitingReaders' = WaitingReaders /\ WaitingWriters' = WaitingWriters
  BY DEF Readers, Writers, WaitingReaders, WaitingWriters
<1> QED BY <1>1 DEF CountInv, counters

\* Who is in after an entry, and after a release; nothing else changes that.
LEMMA Roles ==
  ASSUME RWInv, NEW t \in Thread
  PROVE  /\ Enter(t) =>
              /\ ~ Active(t) /\ Active(t)'
              /\ Readers' = IF reader[t] THEN Readers \cup {t} ELSE Readers
              /\ Writers' = IF reader[t] THEN Writers ELSE Writers \cup {t}
         /\ Leave(t) =>
              /\ IF reader[t] THEN t \in Readers ELSE t \in Writers
              /\ Readers' = Readers \ {t} /\ Writers' = Writers \ {t}
         /\ \/ \E r \in BOOLEAN : rw_lock_acquire(t, r)
            \/ lock_acquire(t) \/ cond_wait(t) \/ sema_down(t) \/ rw_lock_release(t)
            => /\ Readers' = Readers /\ Writers' = Writers
               /\ \A x \in Thread : Active(x)' = Active(x)
<1> USE DEF RWInv, TypeOK, Readers, Writers, Active, PC
<1>1. Enter(t) => /\ pc[t] = "check" /\ pc' = [pc EXCEPT ![t] = "in"] /\ reader' = reader
  BY DEF Enter
<1>2. Leave(t) => /\ pc[t] = "wake" /\ pc' = [pc EXCEPT ![t] = "out"] /\ reader' = reader
  BY DEF Leave
<1>3. ASSUME \/ \E r \in BOOLEAN : rw_lock_acquire(t, r)
             \/ lock_acquire(t) \/ cond_wait(t) \/ sema_down(t) \/ rw_lock_release(t)
      PROVE  /\ Readers' = Readers /\ Writers' = Writers
             /\ \A x \in Thread : Active(x)' = Active(x)
  <2>1. /\ \A x \in Thread \ {t} : pc'[x] = pc[x] /\ reader'[x] = reader[x]
        /\ pc'[t] \in {"in", "leave", "wake"} <=> pc[t] \in {"in", "leave", "wake"}
        /\ pc[t] # "out" => reader'[t] = reader[t]
    BY <1>3 DEF rw_lock_acquire, lock_acquire, cond_wait, sema_down, rw_lock_release
  <2> QED BY <2>1
<1>4. Enter(t) => /\ ~ Active(t) /\ Active(t)'
                  /\ Readers' = IF reader[t] THEN Readers \cup {t} ELSE Readers
                  /\ Writers' = IF reader[t] THEN Writers ELSE Writers \cup {t}
  BY <1>1
<1>5. Leave(t) => /\ IF reader[t] THEN t \in Readers ELSE t \in Writers
                  /\ Readers' = Readers \ {t} /\ Writers' = Writers \ {t}
  BY <1>2
<1> QED BY <1>3, <1>4, <1>5

\* Every counter follows the threads that it counts.
LEMMA CountStep ==
  ASSUME RWInv, NEW t \in Thread, Progress(t) \/ \E r \in BOOLEAN : rw_lock_acquire(t, r)
  PROVE  CountInv'
<1> USE DEF RWInv, TypeOK, PC
<1> DEFINE Facts == /\ Readers \subseteq Thread /\ Writers \subseteq Thread
                    /\ WaitingReaders \subseteq Thread /\ WaitingWriters \subseteq Thread
<1>0. Facts
  BY Counted
<1>a. \A S \in SUBSET Thread : \A x :
        /\ x \notin S => Cardinality(S \cup {x}) = Cardinality(S) + 1
        /\ x \in S => Cardinality(S \ {x}) = Cardinality(S) - 1
  BY Counting
<1>1. CASE \/ \E r \in BOOLEAN : rw_lock_acquire(t, r)
           \/ lock_acquire(t) /\ pc[t] # "rewait"
           \/ sema_down(t) \/ rw_lock_release(t)
  <2>1. UNCHANGED counters /\ \A x \in Thread \ {t} : pc'[x] = pc[x] /\ reader'[x] = reader[x]
    BY <1>1 DEF rw_lock_acquire, lock_acquire, sema_down, rw_lock_release, counters
  <2>2. /\ pc'[t] \in {"in", "leave", "wake"} <=> pc[t] \in {"in", "leave", "wake"}
        /\ pc'[t] \in {"down", "rewait"} <=> pc[t] \in {"down", "rewait"}
        /\ pc[t] # "out" => reader'[t] = reader[t]
    BY <1>1 DEF rw_lock_acquire, lock_acquire, sema_down, rw_lock_release
  <2>3. \A x \in Thread : Active(x)' = Active(x) /\ Waiting(x)' = Waiting(x)
    BY <2>1, <2>2 DEF Active, Waiting
  <2>4. \A x \in Thread : Active(x) \/ Waiting(x) => reader'[x] = reader[x]
    BY <2>1, <2>2 DEF Active, Waiting
  <2> QED BY <2>1, <2>3, <2>4, CountsStay
<1>2. CASE lock_acquire(t) /\ pc[t] = "rewait"
  <2>1. /\ pc' = [pc EXCEPT ![t] = "check"] /\ UNCHANGED <<reader, AR, AW>>
        /\ WR' = IF reader[t] THEN WR - 1 ELSE WR
        /\ WW' = IF reader[t] THEN WW ELSE WW - 1
    BY <1>2 DEF lock_acquire
  <2>2. /\ Readers' = Readers /\ Writers' = Writers
        /\ WaitingReaders' = WaitingReaders \ {t} /\ WaitingWriters' = WaitingWriters \ {t}
    BY <1>2, <2>1 DEF Readers, Writers, WaitingReaders, WaitingWriters, Active, Waiting
  <2>3. IF reader[t] THEN t \in WaitingReaders /\ t \notin WaitingWriters
                     ELSE t \notin WaitingReaders /\ t \in WaitingWriters
    BY <1>2 DEF WaitingReaders, WaitingWriters, Waiting
  <2>4. \A S : t \notin S => S \ {t} = S
    OBVIOUS
  <2>5. CASE reader[t]
    BY <1>0, <1>a, <2>1, <2>2, <2>3, <2>4, <2>5 DEF CountInv
  <2>6. CASE ~ reader[t]
    BY <1>0, <1>a, <2>1, <2>2, <2>3, <2>4, <2>6 DEF CountInv
  <2> QED BY <2>5, <2>6
<1>3. CASE cond_wait(t)
  <2>1. /\ pc[t] = "check" /\ pc' = [pc EXCEPT ![t] = "down"] /\ UNCHANGED <<reader, AR, AW>>
        /\ WR' = IF reader[t] THEN WR + 1 ELSE WR
        /\ WW' = IF reader[t] THEN WW ELSE WW + 1
    BY <1>3 DEF cond_wait
  <2>2. /\ Readers' = Readers /\ Writers' = Writers
        /\ t \notin WaitingReaders /\ t \notin WaitingWriters
    BY <2>1 DEF Readers, Writers, WaitingReaders, WaitingWriters, Active, Waiting
  <2>3. /\ WaitingReaders' = IF reader[t] THEN WaitingReaders \cup {t} ELSE WaitingReaders
        /\ WaitingWriters' = IF reader[t] THEN WaitingWriters ELSE WaitingWriters \cup {t}
    BY <2>1 DEF WaitingReaders, WaitingWriters, Waiting
  <2>4. CASE reader[t]
    BY <1>0, <1>a, <2>1, <2>2, <2>3, <2>4 DEF CountInv
  <2>5. CASE ~ reader[t]
    BY <1>0, <1>a, <2>1, <2>2, <2>3, <2>5 DEF CountInv
  <2> QED BY <2>4, <2>5
<1>4. CASE Enter(t)
  <2>1. /\ pc[t] = "check" /\ pc' = [pc EXCEPT ![t] = "in"] /\ UNCHANGED <<reader, WR, WW>>
        /\ AR' = IF reader[t] THEN AR + 1 ELSE AR
        /\ AW' = IF reader[t] THEN AW ELSE AW + 1
    BY <1>4 DEF Enter
  <2>2. /\ WaitingReaders' = WaitingReaders /\ WaitingWriters' = WaitingWriters
        /\ t \notin Readers /\ t \notin Writers
    BY <2>1 DEF Readers, Writers, WaitingReaders, WaitingWriters, Active, Waiting
  <2>3. /\ Readers' = IF reader[t] THEN Readers \cup {t} ELSE Readers
        /\ Writers' = IF reader[t] THEN Writers ELSE Writers \cup {t}
    BY <1>4, Roles
  <2>4. CASE reader[t]
    BY <1>0, <1>a, <2>1, <2>2, <2>3, <2>4 DEF CountInv
  <2>5. CASE ~ reader[t]
    BY <1>0, <1>a, <2>1, <2>2, <2>3, <2>5 DEF CountInv
  <2> QED BY <2>4, <2>5
<1>5. CASE Leave(t)
  <2>1. /\ pc[t] = "wake" /\ pc' = [pc EXCEPT ![t] = "out"] /\ UNCHANGED <<reader, WR, WW>>
        /\ AR' = IF reader[t] THEN AR - 1 ELSE AR
        /\ AW' = IF reader[t] THEN AW ELSE AW - 1
    BY <1>5 DEF Leave
  <2>2. /\ WaitingReaders' = WaitingReaders /\ WaitingWriters' = WaitingWriters
        /\ IF reader[t] THEN t \in Readers /\ t \notin Writers
                        ELSE t \notin Readers /\ t \in Writers
    BY <2>1 DEF Readers, Writers, WaitingReaders, WaitingWriters, Active, Waiting
  <2>3. Readers' = Readers \ {t} /\ Writers' = Writers \ {t}
    BY <1>5, Roles
  <2>4. \A S : t \notin S => S \ {t} = S
    OBVIOUS
  <2>5. CASE reader[t]
    BY <1>0, <1>a, <2>1, <2>2, <2>3, <2>4, <2>5 DEF CountInv
  <2>6. CASE ~ reader[t]
    BY <1>0, <1>a, <2>1, <2>2, <2>3, <2>4, <2>6 DEF CountInv
  <2> QED BY <2>5, <2>6
<1> QED BY <1>1, <1>2, <1>3, <1>4, <1>5 DEF Progress

-----------------------------------------------------------------------------
(* Readers and writers.                                                    *)

\* A reader comes in when no writer is in and none waits, a writer when nobody is in.
LEMMA EnterFacts ==
  ASSUME CountInv, NEW t \in Thread, Enter(t)
  PROVE  /\ Writers = {}
         /\ IF reader[t] THEN WaitingWriters = {} ELSE Readers = {}
<1>1. ~ MustWait(t)
  BY DEF Enter
<1>2. CASE reader[t]
  <2>1. ~ (AW + WW > 0)
    BY <1>1, <1>2 DEF MustWait
  <2> QED BY <1>2, <2>1, CountFacts
<1>3. CASE ~ reader[t]
  <2>1. ~ (AR + AW > 0)
    BY <1>1, <1>3 DEF MustWait
  <2> QED BY <1>3, <2>1, CountFacts
<1> QED BY <1>2, <1>3

\* A writer stays alone.
LEMMA AloneStep ==
  ASSUME RWInv, NEW t \in Thread, Progress(t) \/ \E r \in BOOLEAN : rw_lock_acquire(t, r)
  PROVE  AloneInv'
<1> USE DEF RWInv, AloneInv
<1>1. CASE Enter(t)
  BY <1>1, Roles, EnterFacts
<1>2. CASE Leave(t)
  BY <1>2, Roles
<1>3. CASE ~ Enter(t) /\ ~ Leave(t)
  BY <1>3, Roles DEF Progress
<1> QED BY <1>1, <1>2, <1>3

\* Entries and releases are those of the abstract lock; no other step is seen there.
LEMMA StepRefines ==
  ASSUME RWInv, NEW t \in Thread, Progress(t) \/ \E r \in BOOLEAN : rw_lock_acquire(t, r)
  PROVE  [RW!Next]_<<Readers, Writers>>
<1> USE DEF RW!Next, RW!BeginRead, RW!BeginWrite, RW!EndRead, RW!EndWrite
<1>1. CASE Enter(t)
  <2>1. t \notin Readers \cup Writers
    BY <1>1, Roles DEF Readers, Writers
  <2>2. CASE reader[t]
    <3>1. RW!BeginRead(t)
      BY <1>1, <2>1, <2>2, Roles, EnterFacts DEF RWInv, Readers, Writers
    <3> QED BY <3>1
  <2>3. CASE ~ reader[t]
    <3>1. RW!BeginWrite(t)
      BY <1>1, <2>1, <2>3, Roles, EnterFacts DEF RWInv, Readers, Writers
    <3> QED BY <3>1
  <2> QED BY <2>2, <2>3
<1>2. CASE Leave(t)
  <2>1. CASE reader[t]
    <3>1. t \in Readers /\ Readers' = Readers \ {t} /\ Writers' = Writers
      BY <1>2, <2>1, Roles DEF RWInv, AloneInv
    <3>2. RW!EndRead(t)
      BY <3>1 DEF Readers, Writers
    <3> QED BY <3>2
  <2>2. CASE ~ reader[t]
    <3>1. t \in Writers /\ Readers' = Readers /\ Writers' = {}
      BY <1>2, <2>2, Roles DEF RWInv, AloneInv
    <3>2. RW!EndWrite(t)
      BY <3>1 DEF Readers, Writers
    <3> QED BY <3>2
  <2> QED BY <2>1, <2>2
<1>3. CASE ~ Enter(t) /\ ~ Leave(t)
  BY <1>3, Roles DEF Progress
<1> QED BY <1>1, <1>2, <1>3

\* No reader gets in while a writer waits.
LEMMA StepWritersFirst ==
  ASSUME RWInv, NEW t \in Thread, Progress(t) \/ \E r \in BOOLEAN : rw_lock_acquire(t, r),
         NEW r \in Thread, reader'[r], ~ Active(r), Active(r)', NEW w \in Thread
  PROVE  ~ (Waiting(w) /\ ~ reader[w])
<1>1. r = t /\ Enter(t)
  <2>1. ~ Enter(t) => \A x \in Thread : Active(x)' => Active(x)
    BY Roles DEF Progress, Leave, Active, RWInv, TypeOK
  <2>2. Enter(t) => r = t
    BY DEF Enter, Active, RWInv, TypeOK
  <2> QED BY <2>1, <2>2
<1>2. reader[t]
  BY <1>1 DEF Enter
<1> QED BY <1>1, <1>2, EnterFacts DEF WaitingWriters, RWInv
-----------------------------------------------------------------------------
(* Signals.                                                                *)

\* A step outside cond_wait and the signals leaves lists and semaphores.
LEMMA ListsStay ==
  ASSUME TypeOK, ListInv, NEW t \in Thread, UNCHANGED <<waiters, semaphore>>,
         \A x \in Thread \ {t} : pc'[x] = pc[x] /\ reader'[x] = reader[x],
         pc[t] # "down", pc'[t] # "down"
  PROVE  ListInv'
<1>1. \A c : Unsignalled(c)' = Unsignalled(c)
  BY DEF Unsignalled, CondOf
<1>2. \A x \in Thread : semaphore'[x] = 1 => pc'[x] = "down"
  BY DEF ListInv
<1> QED BY <1>1, <1>2 DEF ListInv

\* A waiter goes to the end of the list of its condition.
LEMMA WaitStep ==
  ASSUME TypeOK, ListInv, NEW t \in Thread, cond_wait(t)
  PROVE  ListInv'
<1>1. /\ pc[t] = "check" /\ pc' = [pc EXCEPT ![t] = "down"] /\ reader' = reader
      /\ waiters' = [waiters EXCEPT ![CondOf(t)] = Append(waiters[CondOf(t)], t)]
      /\ semaphore' = [semaphore EXCEPT ![t] = 0]
  BY DEF cond_wait
<1>2. CondOf(t) \in {"read", "write"} /\ waiters[CondOf(t)] \in Seq(Thread)
  BY CondType DEF TypeOK
<1>3. \A c : Unsignalled(c)' = IF c = CondOf(t) THEN Unsignalled(c) \cup {t} ELSE Unsignalled(c)
  BY <1>1 DEF Unsignalled, TypeOK, CondOf
<1>4. t \notin Unsignalled(CondOf(t))
  BY <1>1 DEF Unsignalled
<1>5. ASSUME NEW c \in {"read", "write"}
      PROVE  Distinct(waiters'[c]) /\ Elements(waiters'[c]) = Unsignalled(c)'
  <2>1. CASE c = CondOf(t)
    <3>1. waiters'[c] = Append(waiters[CondOf(t)], t)
      BY <1>1, <1>2, <2>1 DEF TypeOK
    <3>2. Distinct(waiters[CondOf(t)]) /\ Elements(waiters[CondOf(t)]) = Unsignalled(c)
      BY <1>2, <2>1 DEF ListInv
    <3> QED BY <1>2, <1>3, <1>4, <2>1, <3>1, <3>2, AppendElements
  <2>2. CASE c # CondOf(t)
    <3>1. waiters'[c] = waiters[c]
      BY <1>1, <2>2 DEF TypeOK
    <3> QED BY <1>3, <2>2, <3>1 DEF ListInv
  <2> QED BY <2>1, <2>2
<1>6. \A x \in Thread : semaphore'[x] = 1 => pc'[x] = "down"
  BY <1>1 DEF TypeOK, ListInv
<1> QED BY <1>5, <1>6 DEF ListInv

\* A thread that has been signalled is on no list.
LEMMA DownStep ==
  ASSUME TypeOK, ListInv, NEW t \in Thread, sema_down(t)
  PROVE  ListInv'
<1>1. semaphore[t] = 1
  BY DEF sema_down, TypeOK
<1>2. /\ pc[t] = "down" /\ pc' = [pc EXCEPT ![t] = "rewait"]
      /\ semaphore' = [semaphore EXCEPT ![t] = semaphore[t] - 1] /\ UNCHANGED <<waiters, reader>>
  BY DEF sema_down
<1>3. semaphore' = [semaphore EXCEPT ![t] = 0]
  BY <1>1, <1>2
<1>4. \A c : Unsignalled(c)' = Unsignalled(c)
  BY <1>1, <1>2, <1>3 DEF Unsignalled, CondOf, TypeOK
<1>5. \A x \in Thread : semaphore'[x] = 1 => pc'[x] = "down"
  BY <1>2, <1>3 DEF ListInv, TypeOK
<1> QED BY <1>2, <1>4, <1>5 DEF ListInv

\* A signal takes threads off one list and raises their semaphores: what is left
\* of the list is who is still to be signalled.
LEMMA SignalStep ==
  ASSUME TypeOK, ListInv, NEW t \in Thread, Leave(t), NEW c \in {"read", "write"},
         NEW T \in SUBSET Elements(waiters[c]), NEW r,
         waiters' = [waiters EXCEPT ![c] = r],
         Distinct(r), Elements(r) = Elements(waiters[c]) \ T,
         \A x \in Thread : semaphore'[x] = IF x \in T THEN 1 ELSE semaphore[x]
  PROVE  ListInv'
<1>1. pc[t] = "wake" /\ pc' = [pc EXCEPT ![t] = "out"] /\ reader' = reader
  BY DEF Leave
<1>2. T \subseteq Unsignalled(c)
  BY DEF ListInv
<1>3. \A d : Unsignalled(d)' = Unsignalled(d) \ T
  BY <1>1, <1>2 DEF Unsignalled, CondOf, TypeOK
<1>4. \A d : d # c => Unsignalled(d) \ T = Unsignalled(d)
  BY <1>2 DEF Unsignalled
<1>5. ASSUME NEW d \in {"read", "write"}
      PROVE  Distinct(waiters'[d]) /\ Elements(waiters'[d]) = Unsignalled(d)'
  <2>1. CASE d = c
    <3>1. waiters'[d] = r
      BY <2>1 DEF TypeOK
    <3> QED BY <1>3, <2>1, <3>1 DEF ListInv
  <2>2. CASE d # c
    <3>1. waiters'[d] = waiters[d]
      BY <2>2 DEF TypeOK
    <3> QED BY <1>3, <1>4, <2>2, <3>1 DEF ListInv
  <2> QED BY <2>1, <2>2
<1>6. \A x \in Thread : semaphore'[x] = 1 => pc'[x] = "down"
  BY <1>1, <1>2 DEF ListInv, Unsignalled, TypeOK
<1> QED BY <1>5, <1>6 DEF ListInv

\* rw_lock_release signals one writer, or all readers, or nobody.
LEMMA LeaveStep ==
  ASSUME TypeOK, ListInv, NEW t \in Thread, Leave(t)
  PROVE  ListInv'
<1>1. CASE UNCHANGED <<waiters, semaphore>>
  <2>1. pc[t] = "wake" /\ pc' = [pc EXCEPT ![t] = "out"] /\ reader' = reader
    BY DEF Leave
  <2> QED BY <1>1, <2>1, ListsStay DEF TypeOK
<1>2. ASSUME NEW i \in DOMAIN waiters["write"],
             waiters' = [waiters EXCEPT !["write"] = SubSeq(@, 1, i - 1) \o SubSeq(@, i + 1, Len(@))],
             semaphore' = [semaphore EXCEPT ![waiters["write"][i]] = @ + 1]
      PROVE  ListInv'
  <2> DEFINE s == waiters["write"]
  <2>1. s \in Seq(Thread) /\ i \in 1 .. Len(s) /\ s[i] \in Elements(s) /\ Distinct(s)
    BY LenProperties DEF TypeOK, Elements, ListInv
  <2>2. waiters' = [waiters EXCEPT !["write"] = Without(s, i)]
    BY <1>2 DEF Without
  <2>3. Distinct(Without(s, i)) /\ Elements(Without(s, i)) = Elements(s) \ {s[i]}
    BY <2>1, RemoveElements
  <2>4. s[i] \in Thread /\ semaphore[s[i]] = 0
    BY <2>1 DEF ListInv, Unsignalled
  <2>5. \A x \in Thread : semaphore'[x] = IF x \in {s[i]} THEN 1 ELSE semaphore[x]
    BY <1>2, <2>4 DEF TypeOK
  <2> QED BY <2>1, <2>2, <2>3, <2>5, SignalStep
<1>3. ASSUME waiters' = [waiters EXCEPT !["read"] = <<>>],
             semaphore' = [x \in Thread |->
                             IF \E i \in DOMAIN waiters["read"] : waiters["read"][i] = x
                             THEN semaphore[x] + 1 ELSE semaphore[x]]
      PROVE  ListInv'
  <2> DEFINE T == Elements(waiters["read"])
  <2>1. DOMAIN waiters["read"] = 1 .. Len(waiters["read"])
    BY LenProperties DEF TypeOK
  <2>2. \A x \in T : semaphore[x] = 0
    BY DEF ListInv, Unsignalled
  <2>3. \A x \in Thread : semaphore'[x] = IF x \in T THEN 1 ELSE semaphore[x]
    BY <1>3, <2>1, <2>2 DEF Elements
  <2>4. Distinct(<<>>) /\ Elements(<<>>) = T \ T
    BY NoElements
  <2> QED BY <1>3, <2>3, <2>4, SignalStep
<1> QED BY <1>1, <1>2, <1>3, LeaveSignals DEF cond_signal, cond_broadcast, NoSignal

\* The lists are right after every step.
LEMMA ListStep ==
  ASSUME RWInv, NEW t \in Thread, Progress(t) \/ \E r \in BOOLEAN : rw_lock_acquire(t, r)
  PROVE  ListInv'
<1>1. CASE lock_acquire(t) \/ Enter(t) \/ rw_lock_release(t) \/ \E r \in BOOLEAN : rw_lock_acquire(t, r)
  <2>1. /\ UNCHANGED <<waiters, semaphore>> /\ pc[t] # "down" /\ pc'[t] # "down"
        /\ \A x \in Thread \ {t} : pc'[x] = pc[x] /\ reader'[x] = reader[x]
    BY <1>1 DEF RWInv, TypeOK, lock_acquire, Enter, rw_lock_release, rw_lock_acquire
  <2> QED BY <2>1, ListsStay DEF RWInv
<1> QED BY <1>1, WaitStep, DownStep, LeaveStep DEF Progress, RWInv

-----------------------------------------------------------------------------
(* The invariant, and what follows from it.                                *)

\* Nobody uses the lock at first.
LEMMA InitRWInv == Init => RWInv
<1> SUFFICES ASSUME Init PROVE RWInv
  OBVIOUS
<1> USE DEF Init, Guard!Init
<1>1. TypeOK
  <2>1. <<>> \in Seq(Thread)
    BY EmptySeq
  <2> QED BY <2>1, RWAssumption DEF TypeOK, PC
<1>2. GuardInv
  BY RWAssumption DEF GuardInv
<1>3. /\ Readers = {} /\ Writers = {} /\ WaitingReaders = {} /\ WaitingWriters = {}
  BY DEF Readers, Writers, WaitingReaders, WaitingWriters, Active, Waiting
<1>4. Cardinality({}) = 0
  BY FS_EmptySet
<1>5. CountInv /\ AloneInv
  BY <1>3, <1>4 DEF CountInv, AloneInv
<1>6. ListInv
  BY NoElements DEF ListInv, Unsignalled
<1> QED BY <1>1, <1>2, <1>5, <1>6 DEF RWInv

\* Every step keeps the invariant.
LEMMA RWInvStep == RWInv /\ [Next]_vars => RWInv'
<1> SUFFICES ASSUME RWInv, [Next]_vars PROVE RWInv'
  OBVIOUS
<1>1. CASE UNCHANGED vars
  BY <1>1 DEF vars, counters, RWInv, TypeOK, GuardInv, CountInv, AloneInv, ListInv, Readers, Writers,
     WaitingReaders, WaitingWriters, Active, Waiting, Unsignalled, CondOf
<1>2. ASSUME NEW t \in Thread, Progress(t) \/ \E r \in BOOLEAN : rw_lock_acquire(t, r)
      PROVE  RWInv'
  <2>1. ControlTypeOK' /\ GuardInv' /\ CountInv' /\ AloneInv' /\ ListInv'
    BY <1>2, ControlTypes, GuardStep, CountStep, AloneStep, ListStep
  <2>2. AR' \in Nat /\ WR' \in Nat /\ AW' \in Nat /\ WW' \in Nat
    <3>1. /\ Readers' \subseteq Thread /\ Writers' \subseteq Thread
          /\ WaitingReaders' \subseteq Thread /\ WaitingWriters' \subseteq Thread
      BY DEF Readers, Writers, WaitingReaders, WaitingWriters
    <3>2. \A S \in SUBSET Thread : Cardinality(S) \in Nat
      BY Counting
    <3> QED BY <2>1, <3>1, <3>2 DEF CountInv
  <2> QED BY <2>1, <2>2 DEF RWInv, TypeOK, ControlTypeOK
<1> QED BY <1>1, <1>2 DEF Next

\* The invariant of the readers-writers lock: the guard is held by who stands
\* where synch.c holds it, AR, WR, AW and WW count the threads in their places, a
\* writer is in alone, and a list holds who waits on it unsignalled.
THEOREM RWCorrect == Spec => []RWInv
BY InitRWInv, RWInvStep, PTL DEF Spec

\* Types: the counters AR, WR, AW and WW of the rw_lock never go below
\* zero, a semaphore of cond_wait never above one.
THEOREM TypeCorrect == Spec => []TypeOK
<1>1. RWInv => TypeOK
  BY DEF RWInv
<1> QED BY <1>1, RWCorrect, PTL

\* A list has at most as many places as there are threads.
LEMMA ShortLists ==
  ASSUME NEW s \in Seq(Thread), Distinct(s)
  PROVE  Len(s) <= Cardinality(Thread)
<1>1. Len(s) \in Nat /\ \A i \in 1 .. Len(s) : s[i] \in Thread
  BY LenProperties, ElementOfSeq
<1>2. Len(s) = 0 \/ Cardinality(1 .. Len(s)) = Len(s)
  BY <1>1, FS_Interval
<1> DEFINE f == [i \in 1 .. Len(s) |-> s[i]]
<1>3. f \in Injection(1 .. Len(s), Thread)
  BY <1>1 DEF Distinct, Injection, IsInjective
<1>4. Cardinality(1 .. Len(s)) <= Cardinality(Thread)
  BY <1>3, FS_Injection, RWAssumption
<1> QED BY <1>1, <1>2, <1>4, RWAssumption, FS_CardinalityType

\* The places of a thread on the lists are one, or none.
LEMMA OnePlace ==
  ASSUME RWInv, NEW t \in Thread
  PROVE  LET places == {p \in {"read", "write"} \X (1 .. Cardinality(Thread)) :
                          p[2] <= Len(waiters[p[1]]) /\ waiters[p[1]][p[2]] = t}
         IN  /\ Cardinality(places) + semaphore[t] = IF pc[t] = "down" THEN 1 ELSE 0
             /\ \A p \in places : p[1] = CondOf(t)
<1> DEFINE N == Cardinality(Thread)
           C == CondOf(t)
           places == {p \in {"read", "write"} \X (1 .. N) :
                        p[2] <= Len(waiters[p[1]]) /\ waiters[p[1]][p[2]] = t}
<1>1. \A c \in {"read", "write"} :
        /\ waiters[c] \in Seq(Thread) /\ Len(waiters[c]) \in Nat
        /\ Distinct(waiters[c]) /\ Elements(waiters[c]) = Unsignalled(c)
  BY LenProperties DEF RWInv, TypeOK, ListInv
<1>2. N \in Nat
  BY RWAssumption, FS_CardinalityType
<1>3. \A p \in places : p[1] \in {"read", "write"} /\ p[2] \in 1 .. Len(waiters[p[1]])
                        /\ waiters[p[1]][p[2]] = t /\ p = <<p[1], p[2]>>
  BY <1>1, <1>2
<1>4. \A p \in places : p[1] = C /\ t \in Unsignalled(C)
  <2>1. \A p \in places : t \in Unsignalled(p[1])
    BY <1>1, <1>3 DEF Elements
  <2> QED BY <2>1 DEF Unsignalled
<1>5. CASE t \in Unsignalled(C)
  <2>1. C \in {"read", "write"}
    BY CondType
  <2>2. PICK i \in 1 .. Len(waiters[C]) : waiters[C][i] = t
    BY <1>1, <1>5, <2>1 DEF Elements
  <2>3. Len(waiters[C]) <= N
    BY <1>1, <2>1, ShortLists
  <2>4. <<C, i>> \in places
    BY <1>1, <1>2, <2>1, <2>2, <2>3
  <2>5. \A p \in places : p = <<C, i>>
    BY <1>1, <1>3, <1>4, <2>1, <2>2 DEF Distinct
  <2>6. places = {<<C, i>>}
    BY <2>4, <2>5
  <2>7. Cardinality(places) = 1
    BY <2>6, FS_Singleton
  <2> HIDE DEF places, C
  <2> QED BY <1>4, <1>5, <2>7 DEF Unsignalled, places, C
<1>6. CASE t \notin Unsignalled(C)
  <2>1. places = {}
    BY <1>4, <1>6
  <2>2. Cardinality(places) = 0
    BY <2>1, FS_EmptySet
  <2>3. semaphore[t] = IF pc[t] = "down" THEN 1 ELSE 0
    BY <1>6 DEF RWInv, TypeOK, ListInv, Unsignalled, C
  <2> HIDE DEF places, C
  <2> QED BY <2>1, <2>2, <2>3 DEF places, C
<1> QED BY <1>5, <1>6

\* A signal of cond_signal or cond_broadcast reaches one waiter, once: who waits
\* in cond_wait either is on the list of its own condition, in one place, or its
\* semaphore is up, also when the signal comes before its sema_down.
THEOREM SignalsAreKept == Spec => []SignalledOnce
<1>1. RWInv => SignalledOnce
  BY OnePlace DEF SignalledOnce
<1> QED BY <1>1, RWCorrect, PTL

\* The lock of synch.c implements the abstract readers-writers lock: whatever the
\* threads do between its checks and its counts, any number of readers is in, or
\* one writer alone.
THEOREM LockImplementsReadersWriters == Spec => ImplementsReadersWriters
<1>1. Init => RW!Init
  BY DEF Init, RW!Init, Active
<1>2. RWInv /\ [Next]_vars => [RW!Next]_<<Readers, Writers>>
  <2> SUFFICES ASSUME RWInv, [Next]_vars PROVE [RW!Next]_<<Readers, Writers>>
    OBVIOUS
  <2>1. CASE UNCHANGED vars
    BY <2>1 DEF vars, Readers, Writers, Active
  <2>2. CASE Next
    BY <2>2, StepRefines DEF Next
  <2> QED BY <2>1, <2>2
<1>3. RWInv /\ [Next]_vars =>
        [RW!Next]_<<{t \in Thread : Active(t) /\ reader[t]},
                    {t \in Thread : Active(t) /\ ~ reader[t]}>>
  BY <1>2 DEF Readers, Writers
<1> QED BY <1>1, <1>3, RWCorrect, PTL DEF Spec, ImplementsReadersWriters, RW!Spec

\* Writer-centric (synch.c:271): no reader returns from rw_lock_acquire while a
\* writer waits, be it on the list or woken and on its way back to the guard.
THEOREM WritersComeFirst == Spec => WritersFirst
<1>1. RWInv /\ [Next]_vars =>
        [\A r, w \in Thread :
           (reader'[r] /\ ~ Active(r) /\ Active(r)') => ~ (Waiting(w) /\ ~ reader[w])]_vars
  BY StepWritersFirst DEF Next
<1> QED BY <1>1, RWCorrect, PTL DEF Spec, WritersFirst
=============================================================================
