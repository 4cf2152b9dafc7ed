----------------------------- MODULE QueueProofs -----------------------------
(***************************************************************************)
(* Theorems about the lists that link the threads of Threads: the ready    *)
(* lists and the wait lists of semaphores, what is in them, in which order,*)
(* and which wake-ups and donations follow from that.                      *)
(***************************************************************************)
EXTENDS ThreadsProofs, WellFoundedInduction

-----------------------------------------------------------------------------
(* Natural numbers.                                                        *)

\* A set of natural numbers that is not empty has a least member.
LEMMA LeastNumber ==
  ASSUME NEW S \in SUBSET Nat, S # {}
  PROVE  \E m \in S : \A n \in S : m <= n
<1>1. PICK m \in S : \A n \in S : ~ (<<n, m>> \in OpToRel(<, Nat))
  BY NatLessThanWellFounded, WFMin
<1>2. \A n \in S : ~ (n < m)
  BY <1>1 DEF OpToRel
<1>3. \A n \in S : m <= n
  BY <1>2
<1> QED BY <1>3

\* A set that has every number below one of its own is counted by its largest.
LEMMA PrefixIsInterval ==
  ASSUME NEW n \in Nat, NEW S \in SUBSET (1 .. n),
         \A i \in S : \A j \in 1 .. i : j \in S
  PROVE  Cardinality(S) \in 0 .. n /\ S = 1 .. Cardinality(S)
<1> DEFINE T == {i \in Nat \ {0} : i \notin S}
<1>1. n + 1 \in T
  OBVIOUS
<1>2. PICK m \in T : \A i \in T : m <= i
  BY <1>1, LeastNumber
<1>3. m \in 1 .. n + 1 /\ m \notin S
  BY <1>1, <1>2
<1>4. S = 1 .. m - 1
  <2>1. ASSUME NEW i \in 1 .. m - 1 PROVE i \in S
    BY <1>2, <1>3, <2>1
  <2>2. ASSUME NEW i \in S PROVE i \in 1 .. m - 1
    <3>1. i \in 1 .. n
      OBVIOUS
    <3>2. ~ (m <= i)
      BY <1>3, <3>1
    <3> QED BY <1>3, <3>1, <3>2
  <2> QED BY <2>1, <2>2
<1>5. Cardinality(1 .. m - 1) = m - 1
  <2>1. m - 1 \in Nat /\ 1 \in Nat
    BY <1>3
  <2> QED BY <2>1, FS_Interval
<1> QED BY <1>3, <1>4, <1>5

-----------------------------------------------------------------------------
(* What is in a list, and how often.                                       *)

Distinct(q) == \A i, j \in DOMAIN q : q[i] = q[j] => i = j

\* q is sorted by e, highest first.
Ordered(q, e) == \A i, j \in DOMAIN q : i < j => e[q[i]] >= e[q[j]]

\* w is q with x put behind its first k elements.
PutAt(w, q, k, x) ==
  /\ Len(w) = Len(q) + 1
  /\ \A i \in 1 .. Len(q) + 1 :
       w[i] = IF i <= k THEN q[i] ELSE IF i = k + 1 THEN x ELSE q[i - 1]

\* The list that both kinds of ordered insertion build.
LEMMA ConcatPuts ==
  ASSUME NEW q \in Seq(Thread), NEW k \in 0 .. Len(q), NEW x \in Thread
  PROVE  LET w == SubSeq(q, 1, k) \o <<x>> \o SubSeq(q, k + 1, Len(q))
         IN  w \in Seq(Thread) /\ PutAt(w, q, k, x)
<1> DEFINE a == SubSeq(q, 1, k)
           b == SubSeq(q, k + 1, Len(q))
           c == a \o <<x>>
           w == c \o b
<1>1. Len(q) \in Nat /\ DOMAIN q = 1 .. Len(q)
  BY LenProperties
<1>2. a \in Seq(Thread) /\ Len(a) = k /\ \A i \in 1 .. k : a[i] = q[i]
  <2>1. \A i \in 1 .. k : q[i] \in Thread
    BY <1>1, ElementOfSeq
  <2> QED BY <1>1, <2>1, SubSeqProperties
<1>3. /\ b \in Seq(Thread) /\ Len(b) = Len(q) - k
      /\ \A i \in 1 .. Len(q) - k : b[i] = q[k + i]
  <2>1. \A i \in k + 1 .. Len(q) : q[i] \in Thread
    BY <1>1, ElementOfSeq
  <2>2. /\ b \in Seq(Thread)
        /\ Len(b) = IF k + 1 <= Len(q) THEN Len(q) - (k + 1) + 1 ELSE 0
        /\ \A i \in 1 .. Len(q) - (k + 1) + 1 : b[i] = q[k + 1 + i - 1]
    BY <1>1, <2>1, SubSeqProperties
  <2>3. Len(q) - (k + 1) + 1 = Len(q) - k
    BY <1>1
  <2> HIDE DEF b
  <2>4. Len(b) = Len(q) - k
    <3>1. k \in Int /\ Len(q) \in Int /\ k <= Len(q)
      BY <1>1
    <3>2. CASE k + 1 <= Len(q)
      BY <2>2, <2>3, <3>2
    <3>3. CASE ~ (k + 1 <= Len(q))
      <4>1. Len(q) - k = 0
        BY <3>1, <3>3
      <4> QED BY <2>2, <3>3, <4>1
    <3> QED BY <3>2, <3>3
  <2>5. ASSUME NEW i \in 1 .. Len(q) - k PROVE b[i] = q[k + i]
    <3>1. k + 1 + i - 1 = k + i
      BY <1>1
    <3> QED BY <2>2, <2>3, <3>1
  <2> QED BY <2>2, <2>4, <2>5
<1>4. <<x>> \in Seq(Thread) /\ Len(<<x>>) = 1 /\ <<x>>[1] = x
  OBVIOUS
<1> HIDE DEF a, b
<1>5. /\ c \in Seq(Thread) /\ Len(c) = k + 1
      /\ \A i \in 1 .. k : c[i] = q[i]
      /\ c[k + 1] = x
  <2>1. c \in Seq(Thread) /\ Len(c) = k + 1
    BY <1>2, <1>4, ConcatProperties
  <2>2. \A i \in 1 .. k + 1 : c[i] = IF i <= k THEN a[i] ELSE <<x>>[i - k]
    BY <1>2, <1>4, ConcatProperties
  <2> QED BY <1>1, <1>2, <1>4, <2>1, <2>2
<1> HIDE DEF c
<1>6. w \in Seq(Thread) /\ Len(w) = Len(q) + 1
  <2>1. w \in Seq(Thread) /\ Len(w) = Len(c) + Len(b)
    BY <1>3, <1>5, ConcatProperties
  <2> QED BY <1>1, <1>3, <1>5, <2>1
<1>7. \A i \in 1 .. Len(q) + 1 :
        w[i] = IF i <= k + 1 THEN c[i] ELSE b[i - (k + 1)]
  BY <1>1, <1>3, <1>5, ConcatProperties
<1> HIDE DEF w
<1>8. ASSUME NEW i \in 1 .. Len(q) + 1
      PROVE  w[i] = IF i <= k THEN q[i] ELSE IF i = k + 1 THEN x ELSE q[i - 1]
  <2>1. CASE i <= k
    BY <1>1, <1>5, <1>7, <2>1
  <2>2. CASE i = k + 1
    BY <1>1, <1>5, <1>7, <2>2
  <2>3. CASE i > k + 1
    <3>1. i - (k + 1) \in 1 .. Len(q) - k /\ k + (i - (k + 1)) = i - 1
      BY <1>1, <2>3
    <3>2. w[i] = b[i - (k + 1)]
      BY <1>1, <1>7, <2>3
    <3>3. b[i - (k + 1)] = q[i - 1]
      BY <1>3, <3>1
    <3> QED BY <2>3, <3>2, <3>3
  <2> QED BY <1>1, <2>1, <2>2, <2>3
<1> QED BY <1>6, <1>8 DEF PutAt, w, c, a, b

\* A list with one element more has no element twice if the new one is new.
LEMMA PutDistinct ==
  ASSUME NEW q \in Seq(Thread), NEW w \in Seq(Thread), NEW k \in 0 .. Len(q),
         NEW x \in Thread, PutAt(w, q, k, x), Distinct(q), x \notin Elements(q)
  PROVE  Distinct(w) /\ Elements(w) = Elements(q) \cup {x}
<1>1. /\ Len(q) \in Nat /\ DOMAIN q = 1 .. Len(q)
      /\ DOMAIN w = 1 .. Len(q) + 1
  BY LenProperties DEF PutAt
<1>2. \A i \in 1 .. Len(q) + 1 :
        w[i] = IF i <= k THEN q[i] ELSE IF i = k + 1 THEN x ELSE q[i - 1]
  BY DEF PutAt
<1>3. \A i \in 1 .. Len(q) : q[i] # x
  BY <1>1 DEF Elements
<1>4. ASSUME NEW i \in DOMAIN w, NEW j \in DOMAIN w, w[i] = w[j]
      PROVE  i = j
  <2>1. i \in 1 .. Len(q) + 1 /\ j \in 1 .. Len(q) + 1
    BY <1>1
  <2> DEFINE f(n) == IF n <= k THEN n ELSE n - 1
  <2>2. ASSUME NEW n \in 1 .. Len(q) + 1, n # k + 1
        PROVE  f(n) \in DOMAIN q /\ w[n] = q[f(n)] /\ w[n] # x
    BY <1>1, <1>2, <1>3, <2>2
  <2>3. w[k + 1] = x
    BY <1>1, <1>2
  <2>4. CASE i = k + 1 \/ j = k + 1
    BY <1>4, <2>1, <2>2, <2>3, <2>4
  <2>5. CASE i # k + 1 /\ j # k + 1
    <3>1. f(i) = f(j)
      BY <1>4, <2>1, <2>2, <2>5 DEF Distinct
    <3> QED BY <1>1, <2>1, <2>5, <3>1
  <2> QED BY <2>4, <2>5
<1>5. ASSUME NEW y \in Elements(w) PROVE y \in Elements(q) \cup {x}
  <2>1. PICK i \in 1 .. Len(q) + 1 : w[i] = y
    BY <1>1 DEF Elements
  <2>2. i <= k => i \in DOMAIN q
    BY <1>1
  <2>3. i > k + 1 => i - 1 \in DOMAIN q
    BY <1>1
  <2> QED BY <1>1, <1>2, <2>1, <2>2, <2>3 DEF Elements
<1>6. ASSUME NEW y \in Elements(q) PROVE y \in Elements(w)
  <2>1. PICK i \in 1 .. Len(q) : q[i] = y
    BY <1>1 DEF Elements
  <2>2. CASE i <= k
    <3>1. i \in DOMAIN w /\ w[i] = y
      BY <1>1, <1>2, <2>1, <2>2
    <3> QED BY <3>1 DEF Elements
  <2>3. CASE i > k
    <3>1. i + 1 \in DOMAIN w /\ w[i + 1] = y
      BY <1>1, <1>2, <2>1, <2>3
    <3> QED BY <3>1 DEF Elements
  <2> QED BY <1>1, <2>2, <2>3
<1>7. x \in Elements(w)
  <2>1. k + 1 \in DOMAIN w /\ w[k + 1] = x
    BY <1>1, <1>2
  <2> QED BY <2>1 DEF Elements
<1> QED BY <1>4, <1>5, <1>6, <1>7 DEF Distinct

\* An element put between those that are no lower and those that are no higher.
LEMMA PutOrdered ==
  ASSUME NEW q \in Seq(Thread), NEW w \in Seq(Thread), NEW k \in 0 .. Len(q),
         NEW x \in Thread, PutAt(w, q, k, x),
         NEW e, \A t \in Thread : e[t] \in Int,
         Ordered(q, e),
         \A i \in 1 .. k : e[q[i]] >= e[x],
         k < Len(q) => ~ (e[q[k + 1]] >= e[x])
  PROVE  Ordered(w, e)
<1>1. /\ Len(q) \in Nat /\ DOMAIN q = 1 .. Len(q)
      /\ DOMAIN w = 1 .. Len(q) + 1
  BY LenProperties DEF PutAt
<1>2. \A i \in 1 .. Len(q) + 1 :
        w[i] = IF i <= k THEN q[i] ELSE IF i = k + 1 THEN x ELSE q[i - 1]
  BY DEF PutAt
<1>3. \A i \in 1 .. Len(q) : e[q[i]] \in Int
  BY <1>1, ElementOfSeq
<1>4. ASSUME NEW i \in k + 1 .. Len(q) PROVE e[x] >= e[q[i]]
  <2>1. e[x] \in Int /\ k < Len(q) /\ k + 1 \in 1 .. Len(q) /\ i \in 1 .. Len(q)
    BY <1>1
  <2>2. e[q[k + 1]] >= e[q[i]]
    <3>1. CASE i = k + 1
      BY <1>3, <2>1, <3>1
    <3>2. CASE k + 1 < i
      BY <1>1, <2>1, <3>2 DEF Ordered
    <3> QED BY <2>1, <3>1, <3>2
  <2> QED BY <1>3, <2>1, <2>2
<1>5. SUFFICES ASSUME NEW i \in DOMAIN w, NEW j \in DOMAIN w, i < j
               PROVE  e[w[i]] >= e[w[j]]
  BY DEF Ordered
<1>6. i \in 1 .. Len(q) + 1 /\ j \in 1 .. Len(q) + 1
  BY <1>1
<1>7. CASE j <= k
  <2>1. i \in DOMAIN q /\ j \in DOMAIN q /\ w[i] = q[i] /\ w[j] = q[j]
    BY <1>1, <1>2, <1>5, <1>6, <1>7
  <2> QED BY <1>5, <2>1 DEF Ordered
<1>8. CASE j = k + 1
  <2>1. i \in 1 .. k /\ w[i] = q[i] /\ w[j] = x
    BY <1>1, <1>2, <1>5, <1>6, <1>8
  <2> QED BY <2>1
<1>9. CASE j > k + 1 /\ i <= k
  <2>1. i \in DOMAIN q /\ j - 1 \in DOMAIN q /\ i < j - 1
    BY <1>1, <1>5, <1>6, <1>9
  <2>2. w[i] = q[i] /\ w[j] = q[j - 1]
    BY <1>1, <1>2, <1>6, <1>9
  <2> QED BY <2>1, <2>2 DEF Ordered
<1>10. CASE j > k + 1 /\ i = k + 1
  <2>1. j - 1 \in k + 1 .. Len(q) /\ w[i] = x /\ w[j] = q[j - 1]
    BY <1>1, <1>2, <1>6, <1>10
  <2> QED BY <1>4, <2>1
<1>11. CASE j > k + 1 /\ i > k + 1
  <2>1. i - 1 \in DOMAIN q /\ j - 1 \in DOMAIN q /\ i - 1 < j - 1
    BY <1>1, <1>5, <1>6, <1>11
  <2>2. w[i] = q[i - 1] /\ w[j] = q[j - 1]
    BY <1>1, <1>2, <1>6, <1>11
  <2> QED BY <2>1, <2>2 DEF Ordered
<1> QED BY <1>1, <1>6, <1>7, <1>8, <1>9, <1>10, <1>11


\* list_insert_ordered puts the element behind those that are no lower.
LEMMA InsertOrderedPuts ==
  ASSUME NEW q \in Seq(Thread), NEW x \in Thread, NEW e
  PROVE  /\ InsertOrdered(q, x, e) \in Seq(Thread)
         /\ \E k \in 0 .. Len(q) :
              /\ PutAt(InsertOrdered(q, x, e), q, k, x)
              /\ \A i \in 1 .. k : e[q[i]] >= e[x]
              /\ k < Len(q) => ~ (\A i \in 1 .. k + 1 : e[q[i]] >= e[x])
<1> DEFINE S == {i \in DOMAIN q : \A j \in 1 .. i : e[q[j]] >= e[x]}
           k == Cardinality(S)
<1>1. Len(q) \in Nat /\ DOMAIN q = 1 .. Len(q)
  BY LenProperties
<1>2. S \in SUBSET (1 .. Len(q)) /\ \A i \in S : \A j \in 1 .. i : j \in S
  BY <1>1
<1>3. k \in 0 .. Len(q) /\ S = 1 .. k
  BY <1>1, <1>2, PrefixIsInterval
<1>4. \A i \in 1 .. k : e[q[i]] >= e[x]
  <2>1. \A i \in 1 .. k : i \in S /\ i \in 1 .. i
    BY <1>3
  <2> QED BY <2>1
<1>5. ASSUME k < Len(q), \A i \in 1 .. k + 1 : e[q[i]] >= e[x]
      PROVE  FALSE
  <2>1. k + 1 \in S
    BY <1>1, <1>3, <1>5
  <2> HIDE DEF S, k
  <2> QED BY <1>3, <2>1
<1>6. InsertOrdered(q, x, e) = SubSeq(q, 1, k) \o <<x>> \o SubSeq(q, k + 1, Len(q))
  BY DEF InsertOrdered
<1> HIDE DEF k
<1>7. InsertOrdered(q, x, e) \in Seq(Thread) /\ PutAt(InsertOrdered(q, x, e), q, k, x)
  BY <1>3, <1>6, ConcatPuts
<1> QED BY <1>3, <1>4, <1>5, <1>7

\* Insertion of a new element into a list without doubles.
LEMMA InsertedOnce ==
  ASSUME NEW q \in Seq(Thread), NEW x \in Thread, NEW e,
         Distinct(q), x \notin Elements(q)
  PROVE  /\ Distinct(InsertOrdered(q, x, e))
         /\ Elements(InsertOrdered(q, x, e)) = Elements(q) \cup {x}
<1>1. InsertOrdered(q, x, e) \in Seq(Thread)
  BY InsertOrderedPuts
<1>2. PICK k \in 0 .. Len(q) : PutAt(InsertOrdered(q, x, e), q, k, x)
  BY InsertOrderedPuts
<1> QED BY <1>1, <1>2, PutDistinct

\* The list stays sorted.
LEMMA InsertedOrdered ==
  ASSUME NEW q \in Seq(Thread), NEW x \in Thread,
         NEW e, \A t \in Thread : e[t] \in Int, Ordered(q, e)
  PROVE  Ordered(InsertOrdered(q, x, e), e)
<1>1. InsertOrdered(q, x, e) \in Seq(Thread)
  BY InsertOrderedPuts
<1>2. PICK k \in 0 .. Len(q) :
        /\ PutAt(InsertOrdered(q, x, e), q, k, x)
        /\ \A i \in 1 .. k : e[q[i]] >= e[x]
        /\ k < Len(q) => ~ (\A i \in 1 .. k + 1 : e[q[i]] >= e[x])
  BY InsertOrderedPuts
<1>3. ASSUME k < Len(q), e[q[k + 1]] >= e[x] PROVE FALSE
  <2>1. \A i \in 1 .. k + 1 : i \in 1 .. k \/ i = k + 1
    OBVIOUS
  <2> QED BY <1>2, <1>3, <2>1
<1> QED BY <1>1, <1>2, <1>3, PutOrdered

\* list_push_back.
LEMMA AppendedOnce ==
  ASSUME NEW q \in Seq(Thread), NEW x \in Thread, Distinct(q), x \notin Elements(q)
  PROVE  Distinct(Append(q, x)) /\ Elements(Append(q, x)) = Elements(q) \cup {x}
<1>1. Len(q) \in Nat /\ DOMAIN q = 1 .. Len(q)
  BY LenProperties
<1>2. PutAt(Append(q, x), q, Len(q), x)
  BY <1>1, AppendProperties DEF PutAt
<1>3. Append(q, x) \in Seq(Thread) /\ Len(q) \in 0 .. Len(q)
  BY <1>1, AppendProperties
<1> QED BY <1>2, <1>3, PutDistinct

\* list_pop_front.
LEMMA Popped ==
  ASSUME NEW q \in Seq(Thread), q # <<>>, Distinct(q)
  PROVE  /\ Distinct(Tail(q))
         /\ Head(q) \in Elements(q)
         /\ Elements(Tail(q)) = Elements(q) \ {Head(q)}
<1>1. Len(q) \in Nat /\ DOMAIN q = 1 .. Len(q) /\ Len(q) > 0
  BY LenProperties, EmptySeq
<1>2. /\ Tail(q) \in Seq(Thread) /\ DOMAIN Tail(q) = 1 .. Len(q) - 1
      /\ \A i \in 1 .. Len(q) - 1 : Tail(q)[i] = q[i + 1]
  BY HeadTailProperties, LenProperties
<1>3. Head(q) = q[1] /\ 1 \in DOMAIN q
  BY <1>1
<1>4. \A i \in 1 .. Len(q) - 1 : i + 1 \in DOMAIN q /\ i + 1 # 1
  BY <1>1
<1>5. Distinct(Tail(q))
  <2> SUFFICES ASSUME NEW i \in 1 .. Len(q) - 1, NEW j \in 1 .. Len(q) - 1,
                      Tail(q)[i] = Tail(q)[j]
               PROVE  i = j
    BY <1>2 DEF Distinct
  <2>1. q[i + 1] = q[j + 1]
    BY <1>2
  <2>2. i + 1 = j + 1
    BY <1>4, <2>1 DEF Distinct
  <2> QED BY <1>1, <2>2
<1>6. ASSUME NEW y \in Elements(Tail(q)) PROVE y \in Elements(q) \ {Head(q)}
  <2>1. PICK i \in 1 .. Len(q) - 1 : Tail(q)[i] = y
    BY <1>2 DEF Elements
  <2>2. y = q[i + 1]
    BY <1>2, <2>1
  <2>3. y # q[1]
    BY <1>3, <1>4, <2>2 DEF Distinct
  <2> QED BY <1>3, <1>4, <2>2, <2>3 DEF Elements
<1>7. ASSUME NEW y \in Elements(q), y # Head(q) PROVE y \in Elements(Tail(q))
  <2>1. PICK i \in 1 .. Len(q) : q[i] = y
    BY <1>1 DEF Elements
  <2>2. i # 1
    BY <1>3, <1>7, <2>1
  <2>3. i - 1 \in 1 .. Len(q) - 1 /\ (i - 1) + 1 = i
    BY <1>1, <2>2
  <2>4. Tail(q)[i - 1] = y
    BY <1>2, <2>1, <2>3
  <2> QED BY <1>2, <2>3, <2>4 DEF Elements
<1>8. Head(q) \in Elements(q)
  BY <1>3 DEF Elements
<1> QED BY <1>5, <1>6, <1>7, <1>8

\* What is left of a sorted list is sorted, and its front was the highest.
LEMMA PoppedOrdered ==
  ASSUME NEW q \in Seq(Thread), q # <<>>,
         NEW e, \A t \in Thread : e[t] \in Int, Ordered(q, e)
  PROVE  /\ Ordered(Tail(q), e)
         /\ \A t \in Elements(q) : e[Head(q)] >= e[t]
<1>1. Len(q) \in Nat /\ DOMAIN q = 1 .. Len(q) /\ Len(q) > 0
  BY LenProperties, EmptySeq
<1>2. /\ Tail(q) \in Seq(Thread) /\ DOMAIN Tail(q) = 1 .. Len(q) - 1
      /\ \A i \in 1 .. Len(q) - 1 : Tail(q)[i] = q[i + 1]
  BY HeadTailProperties, LenProperties
<1>3. Head(q) = q[1] /\ 1 \in DOMAIN q
  BY <1>1
<1>4. Ordered(Tail(q), e)
  <2> SUFFICES ASSUME NEW i \in 1 .. Len(q) - 1, NEW j \in 1 .. Len(q) - 1, i < j
               PROVE  e[Tail(q)[i]] >= e[Tail(q)[j]]
    BY <1>2 DEF Ordered
  <2>1. i + 1 \in DOMAIN q /\ j + 1 \in DOMAIN q /\ i + 1 < j + 1
    BY <1>1
  <2> QED BY <1>2, <2>1 DEF Ordered
<1>5. ASSUME NEW t \in Elements(q) PROVE e[Head(q)] >= e[t]
  <2>1. PICK i \in 1 .. Len(q) : q[i] = t
    BY <1>1 DEF Elements
  <2>2. t \in Thread
    BY <2>1, ElementOfSeq
  <2>3. CASE i = 1
    BY <1>3, <2>1, <2>2, <2>3
  <2>4. CASE i # 1
    <3>1. 1 < i /\ i \in DOMAIN q
      BY <1>1, <2>4
    <3> QED BY <1>3, <2>1, <3>1 DEF Ordered
  <2> QED BY <2>3, <2>4
<1> QED BY <1>4, <1>5

\* list_remove closes the gap.
LEMMA RemoveCloses ==
  ASSUME NEW q \in Seq(Thread), NEW m \in 1 .. Len(q), Distinct(q)
  PROVE  /\ Remove(q, q[m]) \in Seq(Thread)
         /\ Len(Remove(q, q[m])) = Len(q) - 1
         /\ \A i \in 1 .. Len(q) - 1 :
              Remove(q, q[m])[i] = IF m <= i THEN q[i + 1] ELSE q[i]
<1> DEFINE f == [i \in 1 .. (Len(q) - 1) |->
                   IF \E j \in 1..i : q[j] = q[m] THEN q[i + 1] ELSE q[i]]
<1>1. Len(q) \in Nat /\ DOMAIN q = 1 .. Len(q) /\ Len(q) - 1 \in Nat
  BY LenProperties
<1>2. Remove(q, q[m]) = f
  BY <1>1 DEF Remove, Elements
<1>3. Remove(q, q[m]) \in Seq(Thread)
  BY RemoveType
<1>4. Len(f) = Len(q) - 1
  <2>1. \A i \in 1 .. Len(q) - 1 : f[i] \in Thread
    BY <1>1, ElementOfSeq
  <2>2. PICK n \in Nat : n = Len(q) - 1
    BY <1>1
  <2>3. f \in [1 .. n -> Thread]
    BY <2>1, <2>2
  <2> HIDE DEF f
  <2>4. Len(f) = n
    BY <2>3
  <2> QED BY <2>2, <2>4
<1>5. ASSUME NEW i \in 1 .. Len(q) - 1
      PROVE  f[i] = IF m <= i THEN q[i + 1] ELSE q[i]
  <2>1. (\E j \in 1 .. i : q[j] = q[m]) <=> m <= i
    <3>1. ASSUME NEW j \in 1 .. i, q[j] = q[m] PROVE m <= i
      <4>1. j \in DOMAIN q /\ m \in DOMAIN q
        BY <1>1
      <4>2. j = m
        BY <3>1, <4>1 DEF Distinct
      <4> QED BY <4>2
    <3>2. m <= i => m \in 1 .. i
      BY <1>1
    <3> QED BY <3>1, <3>2
  <2> QED BY <2>1
<1> HIDE DEF f
<1> QED BY <1>2, <1>3, <1>4, <1>5

\* An element removed is in the list no more, and the others are as before.
LEMMA RemovedOnce ==
  ASSUME NEW q \in Seq(Thread), NEW x, Distinct(q)
  PROVE  /\ Distinct(Remove(q, x))
         /\ Elements(Remove(q, x)) = Elements(q) \ {x}
<1>1. CASE x \notin Elements(q)
  BY <1>1 DEF Remove
<1>2. CASE x \in Elements(q)
  <2> DEFINE w == Remove(q, x)
  <2>1. Len(q) \in Nat /\ DOMAIN q = 1 .. Len(q)
    BY LenProperties
  <2>2. PICK m \in 1 .. Len(q) : q[m] = x
    BY <1>2, <2>1 DEF Elements
  <2>3. /\ w \in Seq(Thread) /\ Len(w) = Len(q) - 1
        /\ \A i \in 1 .. Len(q) - 1 : w[i] = IF m <= i THEN q[i + 1] ELSE q[i]
    BY <2>2, RemoveCloses
  <2> HIDE DEF w
  <2>4. DOMAIN w = 1 .. Len(q) - 1
    BY <2>3, LenProperties
  <2>5. \A i, j \in 1 .. Len(q) : q[i] = q[j] => i = j
    BY <2>1 DEF Distinct
  <2> DEFINE g(i) == IF m <= i THEN i + 1 ELSE i
  <2>6. \A i \in 1 .. Len(q) - 1 : g(i) \in 1 .. Len(q) /\ g(i) # m /\ w[i] = q[g(i)]
    BY <2>1, <2>3
  <2>7. Distinct(w)
    <3> SUFFICES ASSUME NEW i \in 1 .. Len(q) - 1, NEW j \in 1 .. Len(q) - 1, w[i] = w[j]
                 PROVE  i = j
      BY <2>4 DEF Distinct
    <3>1. g(i) = g(j)
      <4> HIDE DEF g
      <4> QED BY <2>5, <2>6
    <3> QED BY <2>1, <3>1
  <2>8. ASSUME NEW y \in Elements(w) PROVE y \in Elements(q) \ {x}
    <3>1. PICK i \in 1 .. Len(q) - 1 : w[i] = y
      BY <2>4 DEF Elements
    <3> HIDE DEF g
    <3>2. g(i) \in 1 .. Len(q) /\ g(i) # m /\ y = q[g(i)]
      BY <2>6, <3>1
    <3>3. y # q[m]
      BY <2>5, <3>2
    <3> QED BY <2>1, <2>2, <3>2, <3>3 DEF Elements
  <2>9. ASSUME NEW y \in Elements(q), y # x PROVE y \in Elements(w)
    <3>1. PICK i \in 1 .. Len(q) : q[i] = y
      BY <2>1 DEF Elements
    <3>2. i # m
      BY <2>2, <2>9, <3>1
    <3>3. PICK j \in 1 .. Len(q) - 1 : g(j) = i
      <4>1. CASE i < m
        <5>1. i \in 1 .. Len(q) - 1 /\ g(i) = i
          BY <2>1, <4>1
        <5> QED BY <5>1
      <4>2. CASE i > m
        <5>1. i - 1 \in 1 .. Len(q) - 1 /\ g(i - 1) = i
          BY <2>1, <4>2
        <5> QED BY <5>1
      <4> QED BY <2>1, <3>2, <4>1, <4>2
    <3> HIDE DEF g
    <3>4. w[j] = y
      BY <2>6, <3>1, <3>3
    <3> QED BY <2>4, <3>4 DEF Elements
  <2> QED BY <2>7, <2>8, <2>9 DEF w
<1> QED BY <1>1, <1>2

\* A sorted list stays sorted.
LEMMA RemovedOrdered ==
  ASSUME NEW q \in Seq(Thread), NEW x, Distinct(q), NEW e, Ordered(q, e)
  PROVE  Ordered(Remove(q, x), e)
<1>1. CASE x \notin Elements(q)
  BY <1>1 DEF Remove
<1>2. CASE x \in Elements(q)
  <2> DEFINE w == Remove(q, x)
  <2>1. Len(q) \in Nat /\ DOMAIN q = 1 .. Len(q)
    BY LenProperties
  <2>2. PICK m \in 1 .. Len(q) : q[m] = x
    BY <1>2, <2>1 DEF Elements
  <2>3. /\ w \in Seq(Thread) /\ Len(w) = Len(q) - 1
        /\ \A i \in 1 .. Len(q) - 1 : w[i] = IF m <= i THEN q[i + 1] ELSE q[i]
    BY <2>2, RemoveCloses
  <2> HIDE DEF w
  <2>4. DOMAIN w = 1 .. Len(q) - 1
    BY <2>3, LenProperties
  <2> DEFINE g(i) == IF m <= i THEN i + 1 ELSE i
  <2>5. \A i \in 1 .. Len(q) - 1 : g(i) \in 1 .. Len(q) /\ w[i] = q[g(i)]
    BY <2>1, <2>3
  <2> SUFFICES ASSUME NEW i \in 1 .. Len(q) - 1, NEW j \in 1 .. Len(q) - 1, i < j
               PROVE  e[w[i]] >= e[w[j]]
    BY <2>4 DEF Ordered, w
  <2>6. g(i) < g(j)
    BY <2>1
  <2> HIDE DEF g
  <2> QED BY <2>1, <2>5, <2>6 DEF Ordered
<1> QED BY <1>1, <1>2

\* list_sort permutes: an injection of the finite set of places is onto it.
LEMMA SortedPermutes ==
  ASSUME NEW q \in Seq(Thread), NEW e, \A t \in Thread : e[t] \in Int,
         NEW w \in Sorted(q, e)
  PROVE  /\ Ordered(w, e)
         /\ Elements(w) = Elements(q)
         /\ Distinct(q) => Distinct(w)
<1>1. Len(q) \in Nat /\ DOMAIN q = 1 .. Len(q)
  BY LenProperties
<1> DEFINE D == DOMAIN q
<1>2. PICK f \in [D -> D] :
        /\ w = [i \in D |-> q[f[i]]]
        /\ \A i, j \in D : i < j => \/ e[q[f[i]]] > e[q[f[j]]]
                                    \/ e[q[f[i]]] = e[q[f[j]]] /\ f[i] < f[j]
  BY DEF Sorted
<1>3. DOMAIN w = D /\ \A i \in D : f[i] \in D /\ w[i] = q[f[i]]
  BY <1>2
<1>4. \A i \in D : i \in Nat /\ e[q[i]] \in Int
  BY <1>1, ElementOfSeq
<1>5. \A i, j \in D : i < j => f[i] # f[j]
  <2> SUFFICES ASSUME NEW i \in D, NEW j \in D, i < j, f[i] = f[j] PROVE FALSE
    OBVIOUS
  <2>1. f[i] \in Nat /\ e[q[f[i]]] \in Int
    BY <1>3, <1>4
  <2>2. e[q[f[i]]] > e[q[f[i]]] \/ f[i] < f[i]
    BY <1>2
  <2> QED BY <2>1, <2>2
<1>6. \A i, j \in D : f[i] = f[j] => i = j
  <2> SUFFICES ASSUME NEW i \in D, NEW j \in D, f[i] = f[j], i # j PROVE FALSE
    OBVIOUS
  <2>1. i < j \/ j < i
    BY <1>4
  <2> QED BY <1>5, <2>1
<1>7. \A y \in D : \E i \in D : f[i] = y
  <2>1. IsFiniteSet(D)
    BY <1>1, FS_Interval
  <2>2. f \in Injection(D, D)
    BY <1>6 DEF Injection, IsInjective
  <2>3. f \in Surjection(D, D)
    BY <2>1, <2>2, FS_Injection
  <2> QED BY <2>3 DEF Surjection
<1>8. Ordered(w, e)
  <2> SUFFICES ASSUME NEW i \in D, NEW j \in D, i < j PROVE e[w[i]] >= e[w[j]]
    BY <1>3 DEF Ordered
  <2>1. e[q[f[i]]] \in Int /\ e[q[f[j]]] \in Int
    BY <1>3, <1>4
  <2>2. e[q[f[i]]] > e[q[f[j]]] \/ e[q[f[i]]] = e[q[f[j]]]
    BY <1>2
  <2> QED BY <1>3, <2>1, <2>2
<1>9. Elements(w) = Elements(q)
  <2>1. ASSUME NEW y \in Elements(w) PROVE y \in Elements(q)
    <3>1. PICK i \in D : w[i] = y
      BY <1>3 DEF Elements
    <3> QED BY <1>3, <3>1 DEF Elements
  <2>2. ASSUME NEW y \in Elements(q) PROVE y \in Elements(w)
    <3>1. PICK i \in D : q[i] = y
      BY DEF Elements
    <3>2. PICK j \in D : f[j] = i
      BY <1>7
    <3> QED BY <1>3, <3>1, <3>2 DEF Elements
  <2> QED BY <2>1, <2>2
<1>10. ASSUME Distinct(q), NEW i \in D, NEW j \in D, w[i] = w[j] PROVE i = j
  BY <1>3, <1>6, <1>10 DEF Distinct
<1> QED BY <1>3, <1>8, <1>9, <1>10 DEF Distinct

\* How often a thread is linked into a list without doubles.
LEMMA PlacesOnce ==
  ASSUME NEW q, Distinct(q), NEW t
  PROVE  Places(q, t) = IF t \in Elements(q) THEN 1 ELSE 0
<1> DEFINE S == {i \in DOMAIN q : q[i] = t}
<1>1. CASE t \in Elements(q)
  <2>1. PICK i \in DOMAIN q : q[i] = t
    BY <1>1 DEF Elements
  <2>2. S = {i}
    BY <2>1 DEF Distinct
  <2> QED BY <1>1, <2>2, FS_Singleton DEF Places
<1>2. CASE t \notin Elements(q)
  <2>1. S = {}
    BY <1>2 DEF Elements
  <2> QED BY <1>2, <2>1, FS_EmptySet DEF Places
<1> QED BY <1>1, <1>2

-----------------------------------------------------------------------------
(* The ready lists, through thread_enqueue and each way to switch threads. *)

\* Every ready thread is in one of the lists, once; priority_queue is sorted, and
\* under its policy the other list is empty.
Linked(r, st, e) ==
  /\ Distinct(r["FIFO"]) /\ Distinct(r["PRIO"])
  /\ \A t \in Thread :
       /\ st[t] = "READY" <=> t \in Elements(r["FIFO"]) \/ t \in Elements(r["PRIO"])
       /\ ~ (t \in Elements(r["FIFO"]) /\ t \in Elements(r["PRIO"]))
  /\ Ordered(r["PRIO"], e)
  /\ active_sched_policy = "PRIO" => r["FIFO"] = <<>>

\* c, and nobody else, runs.
Runs(c, st) ==
  /\ c \in AnyThread /\ st[c] = "RUNNING"
  /\ \A t \in AnyThread : st[t] = "RUNNING" => t = c

Awake == {"READY", "RUNNING"}

\* The same threads are blocked, and the same ones awake.
SameFor(st, st2) ==
  \A t \in Thread : /\ st2[t] = "BLOCKED" <=> st[t] = "BLOCKED"
                    /\ st2[t] \in Awake <=> st[t] \in Awake

Numbers(e) == \A t \in Thread : e[t] \in Int

\* What a list of threads links are threads.
LEMMA ElementsOfSeq ==
  ASSUME NEW q \in Seq(Thread)
  PROVE  Elements(q) \subseteq Thread
<1>1. DOMAIN q = 1 .. Len(q)
  BY LenProperties
<1> QED BY <1>1, ElementOfSeq DEF Elements

\* thread_enqueue of a thread that has just become ready.
LEMMA EnqueueLinked ==
  ASSUME NEW r \in Lists, NEW st \in [AnyThread -> Status], NEW e, Numbers(e),
         NEW u \in Thread, st[u] # "READY", Linked(r, st, e)
  PROVE  Linked(thread_enqueue(r, u, e), [st EXCEPT ![u] = "READY"], e)
<1> DEFINE r2 == thread_enqueue(r, u, e)
           st2 == [st EXCEPT ![u] = "READY"]
<1>1. /\ r["FIFO"] \in Seq(Thread) /\ r["PRIO"] \in Seq(Thread)
      /\ u \notin Elements(r["FIFO"]) /\ u \notin Elements(r["PRIO"])
  BY DEF Lists, Linked
<1>2. st2[u] = "READY" /\ \A t \in Thread \ {u} : st2[t] = st[t]
  BY DEF AnyThread
<1>3. \A t \in Thread \ {u} : st2[t] = "READY"
                  <=> t \in Elements(r["FIFO"]) \/ t \in Elements(r["PRIO"])
  BY <1>2 DEF Linked
<1> HIDE DEF st2
<1>4. CASE active_sched_policy = "FIFO"
  <2>1. r2["FIFO"] = Append(r["FIFO"], u) /\ r2["PRIO"] = r["PRIO"]
    BY <1>4 DEF thread_enqueue, Lists
  <2> HIDE DEF r2
  <2>2. /\ Distinct(r2["FIFO"])
        /\ Elements(r2["FIFO"]) = Elements(r["FIFO"]) \cup {u}
    BY <1>1, <2>1, AppendedOnce DEF Linked
  <2>3. Linked(r2, st2, e)
    BY <1>1, <1>2, <1>3, <1>4, <2>1, <2>2 DEF Linked
  <2> QED BY <2>3 DEF r2, st2
<1>5. CASE active_sched_policy = "PRIO"
  <2>1. r2["PRIO"] = InsertOrdered(r["PRIO"], u, e) /\ r2["FIFO"] = r["FIFO"]
    BY <1>5 DEF thread_enqueue, Lists
  <2> HIDE DEF r2
  <2>2. /\ Distinct(r2["PRIO"])
        /\ Elements(r2["PRIO"]) = Elements(r["PRIO"]) \cup {u}
    BY <1>1, <2>1, InsertedOnce DEF Linked
  <2>3. Ordered(r2["PRIO"], e)
    BY <1>1, <2>1, InsertedOrdered DEF Linked, Numbers
  <2>4. Linked(r2, st2, e)
    BY <1>1, <1>2, <1>3, <2>1, <2>2, <2>3 DEF Linked
  <2> QED BY <2>4 DEF r2, st2
<1> QED BY <1>4, <1>5, PolicyAssumption

\* schedule() once nobody is marked as running: the front of the list runs, or idle.
LEMMA ScheduleLinked ==
  ASSUME NEW r \in Lists, NEW st \in [AnyThread -> Status], NEW e, Numbers(e),
         \A t \in AnyThread : st[t] # "RUNNING", Linked(r, st, e), schedule(r, st)
  PROVE  Linked(ready', status', e) /\ Runs(cur', status') /\ SameFor(st, status')
<1> DEFINE list == r[active_sched_policy]
           next == IF list = <<>> THEN Idle ELSE Head(list)
<1>1. /\ r["FIFO"] \in Seq(Thread) /\ r["PRIO"] \in Seq(Thread)
      /\ list \in Seq(Thread) /\ Distinct(list)
  BY PolicyAssumption DEF Lists, Linked
<1>2. list # <<>> => /\ next \in Elements(list) /\ next \in Thread /\ st[next] = "READY"
                     /\ Distinct(Tail(list))
                     /\ Elements(Tail(list)) = Elements(list) \ {next}
  <2> SUFFICES ASSUME list # <<>>
               PROVE  /\ next \in Elements(list) /\ next \in Thread /\ st[next] = "READY"
                      /\ Distinct(Tail(list))
                      /\ Elements(Tail(list)) = Elements(list) \ {next}
    OBVIOUS
  <2>1. next = Head(list)
    OBVIOUS
  <2>2. /\ Distinct(Tail(list)) /\ next \in Elements(list)
        /\ Elements(Tail(list)) = Elements(list) \ {next}
    BY <1>1, <2>1, Popped
  <2>3. next \in Thread
    BY <1>1, <2>2, ElementsOfSeq
  <2>4. st[next] = "READY"
    BY <2>2, <2>3, PolicyAssumption DEF Linked
  <2> QED BY <2>2, <2>3, <2>4
<1>3. /\ cur' = next
      /\ status' = [t \in AnyThread |->
                      CASE t = next -> "RUNNING"
                        [] t # next /\ st[t] = "DYING" /\ t # Main -> "FREE"
                        [] OTHER -> st[t]]
  BY DEF schedule
<1>4. next \in AnyThread /\ (next \in Thread => list # <<>>)
  BY <1>2, ThreadAssumption DEF AnyThread
<1>5. status'[next] = "RUNNING"
  BY <1>3, <1>4
<1>6. \A t \in AnyThread \ {next} :
        status'[t] = IF st[t] = "DYING" /\ t # Main THEN "FREE" ELSE st[t]
  BY <1>3
<1>7. Runs(cur', status')
  BY <1>3, <1>4, <1>5, <1>6 DEF Runs
<1>8. SameFor(st, status')
  BY <1>2, <1>4, <1>5, <1>6 DEF SameFor, Awake, AnyThread
<1>9. \A t \in Thread : status'[t] = "READY" <=> st[t] = "READY" /\ t # next
  BY <1>5, <1>6 DEF AnyThread
<1>10. Linked(ready', status', e)
  <2>1. CASE list = <<>>
    <3>1. ready' = r
      BY <2>1 DEF schedule
    <3>2. \A t \in Thread : t # next
      BY <1>4, <2>1
    <3> HIDE DEF list, next
    <3> QED BY <1>9, <3>1, <3>2 DEF Linked
  <2>2. CASE list # <<>>
    <3>1. ready' = [r EXCEPT ![active_sched_policy] = Tail(list)]
      BY <2>2 DEF schedule
    <3>2. CASE active_sched_policy = "FIFO"
      <4>1. list = r["FIFO"] /\ ready'["FIFO"] = Tail(list) /\ ready'["PRIO"] = r["PRIO"]
        BY <3>1, <3>2 DEF Lists
      <4> HIDE DEF list, next
      <4> QED BY <1>2, <1>9, <2>2, <3>2, <4>1 DEF Linked
    <3>3. CASE active_sched_policy = "PRIO"
      <4>1. list = r["PRIO"] /\ ready'["PRIO"] = Tail(list) /\ ready'["FIFO"] = r["FIFO"]
        BY <3>1, <3>3 DEF Lists
      <4>2. Ordered(Tail(list), e)
        <5> HIDE DEF list
        <5> QED BY <1>1, <2>2, <4>1, PoppedOrdered DEF Linked, Numbers
      <4> HIDE DEF list, next
      <4> QED BY <1>2, <1>9, <2>2, <4>1, <4>2 DEF Linked
    <3> QED BY <3>2, <3>3, PolicyAssumption
  <2> QED BY <2>1, <2>2
<1> QED BY <1>7, <1>8, <1>10

\* thread_yield(): the caller is ready and links itself, idle excepted.
LEMMA YieldLinked ==
  ASSUME NEW r \in Lists, NEW st \in [AnyThread -> Status], NEW e, Numbers(e),
         Runs(cur, st), Linked(r, st, e), thread_yield(r, st, e)
  PROVE  Linked(ready', status', e) /\ Runs(cur', status') /\ SameFor(st, status')
<1> DEFINE r2  == IF cur = Idle THEN r ELSE thread_enqueue(r, cur, e)
           st2 == [st EXCEPT ![cur] = "READY"]
<1>1. st2 \in [AnyThread -> Status]
  BY DEF Status
<1>2. \A t \in AnyThread : st2[t] = IF t = cur THEN "READY" ELSE st[t]
  OBVIOUS
<1>3. schedule(r2, st2)
  BY DEF thread_yield
<1>4. r2 \in Lists /\ Linked(r2, st2, e)
  <2>1. CASE cur = Idle
    <3>1. \A t \in Thread : t \in AnyThread /\ t # cur
      BY <2>1, ThreadAssumption DEF AnyThread
    <3>2. r2 = r
      BY <2>1
    <3> HIDE DEF st2, r2
    <3>3. Linked(r2, st2, e)
      BY <1>2, <3>1, <3>2 DEF Linked
    <3> QED BY <3>2, <3>3
  <2>2. CASE cur # Idle
    <3>1. cur \in Thread /\ st[cur] # "READY"
      BY <2>2 DEF Runs, AnyThread
    <3>2. r2 = thread_enqueue(r, cur, e)
      BY <2>2
    <3> QED BY <3>1, <3>2, EnqueueLinked, EnqueueType
  <2> QED BY <2>1, <2>2
<1>5. \A t \in AnyThread : st2[t] # "RUNNING"
  BY <1>2 DEF Runs
<1>6. SameFor(st, st2)
  BY <1>2 DEF SameFor, Awake, Runs, AnyThread
<1> HIDE DEF r2, st2
<1>7. Linked(ready', status', e) /\ Runs(cur', status') /\ SameFor(st2, status')
  BY <1>1, <1>3, <1>4, <1>5, ScheduleLinked
<1> QED BY <1>6, <1>7 DEF SameFor

\* thread_unblock() of a thread, and the yield to it.
LEMMA UnblockLinked ==
  ASSUME SwitchTypeOK, NEW e, Numbers(e), NEW u \in Thread,
         Runs(cur, status), status[u] \notin Awake,
         Linked(ready, status, e), UnblockAndPreempt(u, e)
  PROVE  /\ Linked(ready', status', e) /\ Runs(cur', status')
         /\ SameFor([status EXCEPT ![u] = "READY"], status')
<1> DEFINE r  == thread_enqueue(ready, u, e)
           st == [status EXCEPT ![u] = "READY"]
<1>1. r \in Lists
  BY EnqueueType DEF SwitchTypeOK
<1>2. st \in [AnyThread -> Status]
  BY DEF SwitchTypeOK, Status
<1>3. Linked(r, st, e)
  BY EnqueueLinked DEF SwitchTypeOK, Awake
<1>4. Runs(cur, st)
  BY DEF Runs, Awake, SwitchTypeOK, AnyThread
<1>5. thread_yield(r, st, e) \/ Continue(r, st)
  BY DEF UnblockAndPreempt
<1> HIDE DEF r, st
<1>6. CASE thread_yield(r, st, e)
  <2>1. Linked(ready', status', e) /\ Runs(cur', status') /\ SameFor(st, status')
    BY <1>1, <1>2, <1>3, <1>4, <1>6, YieldLinked
  <2> QED BY <2>1 DEF st
<1>7. CASE Continue(r, st)
  <2>1. ready' = r /\ status' = st /\ cur' = cur
    BY <1>7 DEF Continue
  <2>2. SameFor(st, st)
    BY DEF SameFor
  <2> QED BY <1>3, <1>4, <2>1, <2>2 DEF st
<1> QED BY <1>5, <1>6, <1>7

\* A tick, with the lists and statuses that the handler has made of them.
LEMMA TickLinked ==
  ASSUME NEW r \in Lists, NEW st \in [AnyThread -> Status], Numbers(effective_priority),
         Runs(cur, st), Linked(r, st, effective_priority), Tick(r, st)
  PROVE  /\ Linked(ready', status', effective_priority)
         /\ Runs(cur', status') /\ SameFor(st, status')
<1>1. CASE thread_yield(r, st, effective_priority)
  BY <1>1, YieldLinked
<1>2. CASE status' = st /\ ready' = r /\ cur' = cur
  BY <1>2 DEF SameFor
<1> QED BY <1>1, <1>2 DEF Tick

\* Priorities of threads that are not in a ready list do not matter to it.
LEMMA Repriced ==
  ASSUME NEW r \in Lists, NEW st, NEW e, NEW e2, Linked(r, st, e),
         \A t \in Thread : st[t] = "READY" => e2[t] = e[t]
  PROVE  Linked(r, st, e2)
<1>1. r["PRIO"] \in Seq(Thread)
  BY DEF Lists
<1>2. \A i \in DOMAIN r["PRIO"] : e2[r["PRIO"][i]] = e[r["PRIO"][i]]
  <2> SUFFICES ASSUME NEW i \in DOMAIN r["PRIO"]
               PROVE  e2[r["PRIO"][i]] = e[r["PRIO"][i]]
    OBVIOUS
  <2>1. r["PRIO"][i] \in Elements(r["PRIO"])
    BY DEF Elements
  <2>2. r["PRIO"][i] \in Thread
    BY <1>1, <2>1, ElementsOfSeq
  <2> QED BY <2>1, <2>2 DEF Linked
<1>3. Ordered(r["PRIO"], e2)
  BY <1>2 DEF Linked, Ordered
<1> QED BY <1>3 DEF Linked

\* recurse_donate takes a ready thread out of the list and puts it in its new place.
LEMMA Relinked ==
  ASSUME NEW r \in Lists, NEW st, NEW e, NEW e2, Numbers(e2), NEW u \in Thread,
         Linked(r, st, e), st[u] = "READY", \A t \in Thread \ {u} : e2[t] = e[t]
  PROVE  LET s == [list \in DOMAIN r |-> Remove(r[list], u)]
         IN  Linked([s EXCEPT !["PRIO"] = InsertOrdered(@, u, e2)], st, e2)
<1> DEFINE s  == [list \in DOMAIN r |-> Remove(r[list], u)]
           r2 == [s EXCEPT !["PRIO"] = InsertOrdered(@, u, e2)]
<1>1. DOMAIN r = {"FIFO", "PRIO"} /\ r["FIFO"] \in Seq(Thread) /\ r["PRIO"] \in Seq(Thread)
  BY DEF Lists
<1>2. s["FIFO"] = Remove(r["FIFO"], u) /\ s["PRIO"] = Remove(r["PRIO"], u)
  BY <1>1
<1>3. r2["FIFO"] = s["FIFO"] /\ r2["PRIO"] = InsertOrdered(s["PRIO"], u, e2)
  BY <1>1
<1> HIDE DEF r2, s
<1>4. s["FIFO"] \in Seq(Thread) /\ s["PRIO"] \in Seq(Thread)
  BY <1>1, <1>2, RemoveType
<1>5. /\ Distinct(s["FIFO"]) /\ Elements(s["FIFO"]) = Elements(r["FIFO"]) \ {u}
      /\ Distinct(s["PRIO"]) /\ Elements(s["PRIO"]) = Elements(r["PRIO"]) \ {u}
  BY <1>1, <1>2, RemovedOnce DEF Linked
<1>6. Ordered(s["PRIO"], e)
  BY <1>1, <1>2, RemovedOrdered DEF Linked
<1>7. Ordered(s["PRIO"], e2)
  <2>1. \A i \in DOMAIN s["PRIO"] : e2[s["PRIO"][i]] = e[s["PRIO"][i]]
    <3> SUFFICES ASSUME NEW i \in DOMAIN s["PRIO"]
                 PROVE  e2[s["PRIO"][i]] = e[s["PRIO"][i]]
      OBVIOUS
    <3>1. s["PRIO"][i] \in Elements(s["PRIO"])
      BY DEF Elements
    <3>2. s["PRIO"][i] \in Thread \ {u}
      BY <1>4, <1>5, <3>1, ElementsOfSeq
    <3> QED BY <3>2
  <2> QED BY <1>6, <2>1 DEF Ordered
<1>8. Distinct(r2["PRIO"]) /\ Elements(r2["PRIO"]) = (Elements(r["PRIO"]) \ {u}) \cup {u}
  <2>1. u \notin Elements(s["PRIO"])
    BY <1>5
  <2> QED BY <1>3, <1>4, <1>5, <2>1, InsertedOnce
<1>9. Ordered(r2["PRIO"], e2)
  BY <1>3, <1>4, <1>7, InsertedOrdered DEF Numbers
<1>10. active_sched_policy = "PRIO" => r2["FIFO"] = <<>>
  <2> SUFFICES ASSUME r["FIFO"] = <<>> PROVE Remove(r["FIFO"], u) = <<>>
    BY <1>2, <1>3 DEF Linked
  <2> QED BY DEF Remove, Elements
<1>11. Linked(r2, st, e2)
  BY <1>3, <1>5, <1>8, <1>9, <1>10 DEF Linked
<1> QED BY <1>11 DEF r2, s

-----------------------------------------------------------------------------
(* The invariant.                                                          *)

\* A semaphore's wait list links the threads that are blocked in its sema_down, once.
WaitInv ==
  \A s \in Semaphore :
    /\ Distinct(waiters[s])
    /\ \A t \in Thread :
         t \in Elements(waiters[s]) <=> status[t] = "BLOCKED" /\ arg[t] = s

\* What a call is about, by where its thread stands.
Placed(place, a) ==
  /\ place \in {"donate", "down", "fault"} => a \in Semaphore
  /\ place = "create" => a \in Thread
  /\ place \in {"run", "store", "set", "halt"} => a = None

\* Where a thread stands tells what it waits for; one that is dead waits for nothing.
PlaceInv ==
  \A t \in Thread :
    /\ Placed(pc[t], arg[t])
    /\ donated_to[t] = IF arg[t] \in Lock THEN arg[t] ELSE None
    /\ status[t] \notin Awake \cup {"BLOCKED"} => pc[t] = "run"
    /\ status[t] = "BLOCKED" => pc[t] # "create"

QueueInv ==
  /\ Runs(cur, status)
  /\ Linked(ready, status, effective_priority)
  /\ WaitInv
  /\ PlaceInv
  /\ NoLostWakeup

\* The threads that NoLostWakeup counts.
Takers(s) == {t \in Thread : arg[t] = s /\ pc[t] = "down" /\ status[t] \in Awake}

\* They can be counted.
LEMMA TakersFinite ==
  ASSUME NEW s
  PROVE  IsFiniteSet(Takers(s)) /\ Cardinality(Takers(s)) \in Nat
BY ThreadAssumption, FS_Subset, FS_CardinalityType DEF Takers

\* NoLostWakeup, in these words.
LEMMA NoLostWakeupIs ==
  /\ NoLostWakeup <=>
       \A s \in Semaphore : waiters[s] # <<>> => value[s] <= Cardinality(Takers(s))
  /\ NoLostWakeup' <=>
       \A s \in Semaphore : waiters'[s] # <<>> => value'[s] <= Cardinality(Takers(s)')
BY DEF NoLostWakeup, Takers, Awake

\* A thread that is blocked, but on no semaphore.
Sleeping(t) == status[t] = "BLOCKED" /\ arg[t] = None
SleepersStay == \A t \in Thread : Sleeping(t)' <=> Sleeping(t)

\* A waiting thread stands at the head of sema_down's loop.
LEMMA WaiterPlace ==
  ASSUME TypeInv, QueueInv, NEW s \in Semaphore, NEW u \in Elements(waiters[s])
  PROVE  /\ u \in Thread /\ u # cur
         /\ status[u] = "BLOCKED" /\ arg[u] = s /\ pc[u] = "down"
<1>1. u \in Thread
  BY ElementsOfSeq DEF TypeInv, OtherTypeOK
<1>2. status[u] = "BLOCKED" /\ arg[u] = s /\ s # None
  BY <1>1, SemaphoreAssumption DEF QueueInv, WaitInv, Semaphore
<1>3. u # cur
  BY <1>2 DEF QueueInv, Runs
<1>4. pc[u] = "down"
  <2>1. pc[u] \in PC /\ u \in AnyThread /\ s \notin Thread
    BY <1>1, SemaphoreAssumption DEF TypeInv, OtherTypeOK, AnyThread, Semaphore
  <2>2. Placed(pc[u], s) /\ pc[u] \notin {"donate", "fault"}
    BY <1>1, <1>2, <1>3, <2>1 DEF QueueInv, PlaceInv, TypeInv, DonorInv
  <2> QED BY <1>2, <2>1, <2>2 DEF Placed, PC
<1> QED BY <1>1, <1>2, <1>3, <1>4

\* A step that blocks nobody, wakes nobody who waits, and leaves semaphores alone.
LEMMA QuietStep ==
  ASSUME TypeInv, QueueInv,
         \A t \in Thread : /\ status'[t] = "BLOCKED" <=> status[t] = "BLOCKED"
                           /\ pc[t] # "run" => (status'[t] \in Awake <=> status[t] \in Awake),
         UNCHANGED <<waiters, value, arg, donated_to>>,
         \A t \in Thread : pc'[t] = pc[t]
  PROVE  WaitInv' /\ PlaceInv' /\ NoLostWakeup' /\ SleepersStay
<1>1. WaitInv'
  BY DEF QueueInv, WaitInv
<1>2. PlaceInv'
  BY DEF QueueInv, PlaceInv
<1>3. \A s : Takers(s)' = Takers(s)
  BY DEF Takers
<1>4. NoLostWakeup'
  BY <1>3, NoLostWakeupIs DEF QueueInv
<1>5. SleepersStay
  BY DEF SleepersStay, Sleeping
<1> QED BY <1>1, <1>2, <1>4, <1>5

\* The front u of the wait list of s leaves it.
Pops(s, u) ==
  /\ waiters' = [waiters EXCEPT ![s] = waiters'[s]]
  /\ Distinct(waiters'[s])
  /\ Elements(waiters'[s]) = Elements(waiters[s]) \ {u}

\* The part of sema_up that wakes a thread.
LEMMA WakeStep ==
  ASSUME TypeInv, QueueInv, NEW s \in Semaphore, NEW u \in Elements(waiters[s]),
         Pops(s, u), value' = [value EXCEPT ![s] = @ + 1],
         SameFor([status EXCEPT ![u] = "READY"], status'),
         UNCHANGED <<arg, donated_to>>,
         \A t \in Thread : pc'[t] = pc[t]
  PROVE  WaitInv' /\ PlaceInv' /\ NoLostWakeup' /\ SleepersStay
<1>1. u \in Thread /\ status[u] = "BLOCKED" /\ arg[u] = s /\ pc[u] = "down" /\ s # None
  BY WaiterPlace, SemaphoreAssumption DEF Semaphore
<1>2. \A t \in Thread : status'[t] = "BLOCKED" <=> status[t] = "BLOCKED" /\ t # u
  BY <1>1 DEF SameFor, TypeInv, SwitchTypeOK, AnyThread
<1>3. \A t \in Thread : status'[t] \in Awake <=> status[t] \in Awake \/ t = u
  BY <1>1 DEF SameFor, Awake, TypeInv, SwitchTypeOK, AnyThread
<1>4. \A r \in Semaphore \ {s} : waiters'[r] = waiters[r] /\ value'[r] = value[r]
  BY DEF Pops, TypeInv, OtherTypeOK
<1>5. value'[s] = value[s] + 1
  BY DEF TypeInv, OtherTypeOK
<1>6. WaitInv'
  <2>1. ASSUME NEW t \in Thread
        PROVE  t \in Elements(waiters'[s]) <=> status'[t] = "BLOCKED" /\ arg'[t] = s
    BY <1>2 DEF Pops, QueueInv, WaitInv
  <2>2. ASSUME NEW r \in Semaphore \ {s}, NEW t \in Thread
        PROVE  t \in Elements(waiters'[r]) <=> status'[t] = "BLOCKED" /\ arg'[t] = r
    <3>1. t \in Elements(waiters[r]) => t # u
      BY <1>1 DEF QueueInv, WaitInv
    <3>2. arg[t] = r => t # u
      BY <1>1
    <3> QED BY <1>2, <1>4, <3>1, <3>2 DEF QueueInv, WaitInv
  <2>3. \A r \in Semaphore : Distinct(waiters'[r])
    BY <1>4 DEF Pops, QueueInv, WaitInv
  <2> QED BY <2>1, <2>2, <2>3 DEF WaitInv
<1>7. PlaceInv'
  BY <1>1, <1>2, <1>3 DEF QueueInv, PlaceInv
<1>8. \A r : Takers(r)' = IF r = s THEN Takers(r) \cup {u} ELSE Takers(r)
  BY <1>1, <1>3 DEF Takers
<1>9. NoLostWakeup'
  <2>1. u \notin Takers(s)
    BY <1>1 DEF Takers, Awake
  <2>2. Cardinality(Takers(s)') = Cardinality(Takers(s)) + 1
    BY <1>8, <2>1, TakersFinite, FS_AddElement
  <2>3. waiters[s] # <<>>
    BY DEF Elements
  <2>4. value[s] <= Cardinality(Takers(s))
    BY <2>3, NoLostWakeupIs DEF QueueInv
  <2>5. value'[s] <= Cardinality(Takers(s)')
    BY <1>5, <2>2, <2>4, TakersFinite DEF TypeInv, OtherTypeOK
  <2>6. ASSUME NEW r \in Semaphore \ {s}, waiters'[r] # <<>>
        PROVE  value'[r] <= Cardinality(Takers(r)')
    BY <1>4, <1>8, <2>6, NoLostWakeupIs DEF QueueInv
  <2>7. \A r \in Semaphore : waiters'[r] # <<>> => value'[r] <= Cardinality(Takers(r)')
    BY <2>5, <2>6
  <2> QED BY <2>7, NoLostWakeupIs
<1>10. SleepersStay
  BY <1>1, <1>2 DEF SleepersStay, Sleeping
<1> QED BY <1>6, <1>7, <1>9, <1>10

-----------------------------------------------------------------------------
(* One lemma for each group of actions.                                    *)

\* Priorities can be compared.
LEMMA PrioritiesAreNumbers ==
  ASSUME NEW e \in [AnyThread -> Priority]
  PROVE  Numbers(e)
BY NumberAssumption DEF Numbers, Priority, AnyThread

\* What TypeInv and QueueInv say of the ready lists and the running thread.
LEMMA ReadyFacts ==
  ASSUME TypeInv, QueueInv
  PROVE  /\ SwitchTypeOK /\ ready \in Lists /\ status \in [AnyThread -> Status]
         /\ Runs(cur, status) /\ cur \in AnyThread
         /\ effective_priority \in [AnyThread -> Priority]
         /\ Numbers(effective_priority)
         /\ Linked(ready, status, effective_priority)
BY PrioritiesAreNumbers DEF TypeInv, SwitchTypeOK, OtherTypeOK, QueueInv

\* The caller goes elsewhere, and the step blocks and wakes nobody who waits and raises
\* no semaphore.
LEMMA CallerStep ==
  ASSUME TypeInv, QueueInv, pc[cur] # "down",
         UNCHANGED waiters,
         \A t \in Thread : /\ status'[t] = "BLOCKED" <=> status[t] = "BLOCKED"
                           /\ status[t] \in Awake => status'[t] \in Awake,
         \A s \in Semaphore : value'[s] \in Nat /\ value'[s] <= value[s],
         \A t \in Thread \ {cur} : /\ pc'[t] = pc[t] /\ arg'[t] = arg[t]
                                   /\ donated_to'[t] = donated_to[t],
         Placed(pc'[cur], arg'[cur]),
         donated_to'[cur] = IF arg'[cur] \in Lock THEN arg'[cur] ELSE None
  PROVE  WaitInv' /\ PlaceInv' /\ NoLostWakeup' /\ SleepersStay
<1>1. status[cur] = "RUNNING"
  BY DEF QueueInv, Runs
<1>2. WaitInv'
  BY <1>1 DEF QueueInv, WaitInv
<1>3. PlaceInv'
  BY <1>1 DEF QueueInv, PlaceInv, Awake
<1>4. SleepersStay
  BY <1>1 DEF SleepersStay, Sleeping
<1>5. ASSUME NEW s \in Semaphore, waiters'[s] # <<>>
      PROVE  value'[s] <= Cardinality(Takers(s)')
  <2>1. Takers(s) \subseteq Takers(s)'
    BY DEF Takers
  <2>2. IsFiniteSet(Takers(s)')
    BY ThreadAssumption, FS_Subset DEF Takers
  <2>3. Cardinality(Takers(s)) <= Cardinality(Takers(s)') /\ Cardinality(Takers(s)') \in Nat
    BY <2>1, <2>2, FS_Subset, FS_CardinalityType
  <2>4. value[s] \in Nat /\ value[s] <= Cardinality(Takers(s))
    BY <1>5, NoLostWakeupIs DEF QueueInv, TypeInv, OtherTypeOK
  <2> QED BY <2>3, <2>4, TakersFinite
<1>6. NoLostWakeup'
  BY <1>5, NoLostWakeupIs
<1> QED BY <1>2, <1>3, <1>4, <1>6

\* Threads coming, going and yielding, idle, and the timer's tick.
LEMMA LifeQueueInv ==
  ASSUME TypeInv, QueueInv,
         \/ \E t \in Thread, p \in Priority : thread_create(t, p)
         \/ CreateReturns
         \/ thread_exit
         \/ Yield
         \/ idle
         \/ thread_tick
  PROVE  QueueInv' /\ SleepersStay
<1>a. /\ SwitchTypeOK /\ ready \in Lists /\ status \in [AnyThread -> Status]
      /\ Runs(cur, status) /\ cur \in AnyThread
      /\ effective_priority \in [AnyThread -> Priority]
      /\ Numbers(effective_priority)
      /\ Linked(ready, status, effective_priority)
  BY ReadyFacts
<1>b. /\ pc \in [AnyThread -> PC] /\ Thread \subseteq AnyThread /\ Idle \notin Thread
      /\ arg \in [AnyThread -> Semaphore \cup Thread \cup {None}]
      /\ value \in [Semaphore -> Nat] /\ Thread \cap Lock = {} /\ None \notin Lock
      /\ (cur # Idle => cur \in Thread) /\ pc[Idle] \in {"run", "halt"}
  BY <1>a, ThreadAssumption, SemaphoreAssumption
     DEF TypeInv, OtherTypeOK, DonorInv, AnyThread
<1>1. ASSUME NEW t \in Thread, NEW p \in Priority, thread_create(t, p)
      PROVE  QueueInv' /\ SleepersStay
  <2> DEFINE e == [effective_priority EXCEPT ![t] = p]
             st == [status EXCEPT ![t] = "READY"]
  <2>1. /\ status[t] = "FREE" /\ effective_priority' = e
        /\ ready' = thread_enqueue(ready, t, e) /\ status' = st /\ cur' = cur
        /\ pc[cur] = "run" /\ cur \in Thread
        /\ UNCHANGED <<waiters, value, donated_to>>
    BY <1>1, <1>b DEF thread_create, Continue
  <2>2. Linked(ready, status, e) /\ Numbers(e)
    BY <1>a, <2>1, Repriced, PrioritiesAreNumbers DEF AnyThread
  <2>3. t # cur
    BY <1>a, <2>1 DEF Runs
  <2>4. pc[t] = "run"
    BY <2>1 DEF QueueInv, PlaceInv, Awake
  <2>5. /\ pc'[cur] = "create" /\ arg'[cur] = t
        /\ \A x \in Thread \ {cur} : pc'[x] = pc[x] /\ arg'[x] = arg[x]
    BY <1>1, <1>b, <2>1, <2>3, <2>4 DEF thread_create
  <2>6. donated_to[cur] = None
    BY <1>b, <2>1 DEF QueueInv, PlaceInv, Placed
  <2>7. \A x \in Thread : /\ status'[x] = "BLOCKED" <=> status[x] = "BLOCKED"
                          /\ status[x] \in Awake => status'[x] \in Awake
    BY <1>a, <1>b, <2>1 DEF Awake
  <2>8. \A s \in Semaphore : value'[s] \in Nat /\ value'[s] <= value[s]
    BY <1>b, <2>1
  <2>9. WaitInv' /\ PlaceInv' /\ NoLostWakeup' /\ SleepersStay
    BY <1>b, <2>1, <2>5, <2>6, <2>7, <2>8, CallerStep DEF Placed
  <2>10. Linked(ready', status', e)
    <3> HIDE DEF e
    <3>1. status[t] # "READY"
      BY <2>1
    <3> QED BY <1>a, <2>1, <2>2, <3>1, EnqueueLinked
  <2>11. Runs(cur', status')
    BY <1>a, <1>b, <2>1, <2>3 DEF Runs
  <2> QED BY <2>1, <2>9, <2>10, <2>11 DEF QueueInv
<1>2. CASE thread_exit
  <2> DEFINE st == [status EXCEPT ![cur] = "DYING"]
  <2>1. st \in [AnyThread -> Status] /\ st[cur] = "DYING" /\ \A x \in AnyThread \ {cur} : st[x] = status[x]
    BY <1>a DEF Status
  <2>2. schedule(ready, st) /\ pc[cur] = "run"
    BY <1>2 DEF thread_exit
  <2> HIDE DEF st
  <2>3. Linked(ready, st, effective_priority) /\ \A x \in AnyThread : st[x] # "RUNNING"
    BY <1>a, <1>b, <2>1 DEF Linked, Runs
  <2>4. /\ Linked(ready', status', effective_priority) /\ Runs(cur', status')
        /\ SameFor(st, status')
    BY <1>a, <2>1, <2>2, <2>3, ScheduleLinked
  <2>5. /\ UNCHANGED <<waiters, value, arg, donated_to, pc>>
        /\ \A x \in AnyThread \ {cur} : effective_priority'[x] = effective_priority[x]
    BY <1>2, <1>a DEF thread_exit, Freed
  <2>6. \A x \in Thread : /\ status'[x] = "BLOCKED" <=> status[x] = "BLOCKED"
                          /\ x # cur => (status'[x] \in Awake <=> status[x] \in Awake)
    BY <1>a, <1>b, <2>1, <2>4 DEF SameFor, Runs
  <2>7. ready' \in Lists
    BY <1>a, <2>1, <2>2, ScheduleType DEF SwitchTypeOK
  <2>8. \A x \in Thread : status'[x] = "READY" => effective_priority'[x] = effective_priority[x]
    <3>1. cur \in Thread => status'[cur] \notin Awake
      BY <2>1, <2>4 DEF SameFor, Awake
    <3> QED BY <1>a, <1>b, <2>5, <3>1 DEF Awake
  <2>9. Linked(ready', status', effective_priority')
    BY <2>4, <2>7, <2>8, Repriced
  <2>10. WaitInv' /\ PlaceInv' /\ NoLostWakeup' /\ SleepersStay
    BY <2>2, <2>5, <2>6, QuietStep
  <2> QED BY <2>4, <2>9, <2>10 DEF QueueInv
<1>3. ASSUME Linked(ready', status', effective_priority), Runs(cur', status'), SameFor(status, status'),
             UNCHANGED <<threadVars, arg, semaVars>>, \A t \in Thread : pc'[t] = pc[t]
      PROVE  QueueInv' /\ SleepersStay
  <2>1. WaitInv' /\ PlaceInv' /\ NoLostWakeup' /\ SleepersStay
    BY <1>3, QuietStep DEF SameFor, threadVars, semaVars
  <2> QED BY <1>3, <2>1 DEF QueueInv, threadVars
<1>4. CASE Yield
  <2>1. thread_yield(ready, status, effective_priority)
    BY <1>4 DEF Yield
  <2>2. Linked(ready', status', effective_priority) /\ Runs(cur', status') /\ SameFor(status, status')
    BY <1>a, <2>1, YieldLinked
  <2> QED BY <1>3, <1>4, <2>2 DEF Yield
<1>5. CASE idle
  <2> DEFINE st == [status EXCEPT ![Idle] = "BLOCKED"]
  <2>1. st \in [AnyThread -> Status] /\ st[Idle] = "BLOCKED" /\ \A x \in AnyThread \ {Idle} : st[x] = status[x]
    BY <1>a DEF Status, AnyThread
  <2>2. schedule(ready, st) /\ cur = Idle
    BY <1>5 DEF idle
  <2> HIDE DEF st
  <2>3. Linked(ready, st, effective_priority) /\ SameFor(status, st)
    BY <1>a, <1>b, <2>1 DEF Linked, SameFor
  <2>4. \A x \in AnyThread : st[x] # "RUNNING"
    BY <1>a, <2>1, <2>2 DEF Runs
  <2>5. /\ Linked(ready', status', effective_priority) /\ Runs(cur', status')
        /\ SameFor(st, status')
    BY <1>a, <2>1, <2>2, <2>3, <2>4, ScheduleLinked
  <2>6. SameFor(status, status')
    BY <2>3, <2>5 DEF SameFor
  <2>7. \A x \in Thread : pc'[x] = pc[x]
    BY <1>5, <1>b DEF idle
  <2> QED BY <1>3, <1>5, <2>5, <2>6, <2>7 DEF idle
<1>6. CASE thread_tick
  <2>1. Tick(ready, status)
    BY <1>6 DEF thread_tick
  <2>2. Linked(ready', status', effective_priority) /\ Runs(cur', status') /\ SameFor(status, status')
    BY <1>a, <2>1, TickLinked
  <2>3. \A x \in Thread : pc'[x] = pc[x]
    BY <1>6, <1>b DEF thread_tick, IdleWakes
  <2> QED BY <1>3, <1>6, <2>2, <2>3 DEF thread_tick
<1>7. CASE CreateReturns
  <2>1. /\ pc[cur] = "create" /\ cur \in Thread
        /\ UNCHANGED <<threadVars, semaVars>>
        /\ thread_yield(ready, status, effective_priority) \/ Continue(ready, status)
    BY <1>7, <1>b DEF CreateReturns
  <2>2. Linked(ready', status', effective_priority) /\ Runs(cur', status') /\ SameFor(status, status')
    <3>1. CASE thread_yield(ready, status, effective_priority)
      BY <1>a, <3>1, YieldLinked
    <3>2. CASE Continue(ready, status)
      BY <1>a, <3>2 DEF Continue, SameFor
    <3> QED BY <2>1, <3>1, <3>2
  <2>3. /\ pc'[cur] = "run" /\ arg'[cur] = None
        /\ \A x \in Thread \ {cur} : pc'[x] = pc[x] /\ arg'[x] = arg[x]
    BY <1>7, <1>b, <2>1 DEF CreateReturns
  <2>4. donated_to[cur] = None
    BY <1>b, <2>1 DEF QueueInv, PlaceInv, Placed
  <2>5. \A s \in Semaphore : value'[s] \in Nat /\ value'[s] <= value[s]
    BY <1>b, <2>1 DEF semaVars
  <2>6. \A x \in Thread : /\ status'[x] = "BLOCKED" <=> status[x] = "BLOCKED"
                          /\ status[x] \in Awake => status'[x] \in Awake
    BY <2>2 DEF SameFor
  <2>7. WaitInv' /\ PlaceInv' /\ NoLostWakeup' /\ SleepersStay
    BY <1>b, <2>1, <2>3, <2>4, <2>5, <2>6, CallerStep DEF Placed, threadVars, semaVars
  <2> QED BY <2>1, <2>2, <2>7 DEF QueueInv, threadVars
<1> QED BY <1>1, <1>2, <1>4, <1>5, <1>6, <1>7

\* sema_up of a semaphore that nobody waits for.
LEMMA EmptyUpStep ==
  ASSUME TypeInv, QueueInv, NEW s \in Semaphore, waiters[s] = <<>>,
         value' = [value EXCEPT ![s] = @ + 1], status' = status,
         UNCHANGED <<waiters, arg, donated_to>>,
         \A t \in Thread : pc'[t] = pc[t]
  PROVE  WaitInv' /\ PlaceInv' /\ NoLostWakeup' /\ SleepersStay
<1>1. WaitInv' /\ PlaceInv' /\ SleepersStay
  BY DEF QueueInv, WaitInv, PlaceInv, SleepersStay, Sleeping
<1>2. \A r : Takers(r)' = Takers(r)
  BY DEF Takers
<1>3. \A r \in Semaphore : waiters'[r] # <<>> => value'[r] = value[r]
  BY DEF TypeInv, OtherTypeOK
<1>4. NoLostWakeup'
  BY <1>2, <1>3, NoLostWakeupIs DEF QueueInv
<1> QED BY <1>1, <1>4

\* sema_up wakes the front of the list as sorted now: nobody who waits is higher.
Woken(s, u, e) ==
  /\ Pops(s, u)
  /\ \A v \in Elements(waiters'[s]) : e[u] >= e[v]

\* sema_up either finds nobody to wake, or wakes u and no waiter outranks u.
LEMMA SemaUpWakes ==
  ASSUME TypeInv, QueueInv, NEW s \in Semaphore, NEW e, Numbers(e),
         Linked(ready, status, e), SemaUp(s, e)
  PROVE  /\ Linked(ready', status', e) /\ Runs(cur', status')
         /\ value' = [value EXCEPT ![s] = @ + 1]
         /\ \/ waiters[s] = <<>> /\ waiters' = waiters /\ status' = status
            \/ \E u \in Elements(waiters[s]) :
                 Woken(s, u, e) /\ SameFor([status EXCEPT ![u] = "READY"], status')
<1>a. SwitchTypeOK /\ Runs(cur, status)
  BY ReadyFacts
<1>b. waiters \in [Semaphore -> Seq(Thread)] /\ Distinct(waiters[s])
  BY DEF TypeInv, OtherTypeOK, QueueInv, WaitInv
<1>1. CASE waiters[s] = <<>> /\ Continue(ready, status) /\ UNCHANGED waiters
  BY <1>1, <1>a DEF Continue, SemaUp
<1>2. ASSUME NEW w \in Sorted(waiters[s], e), w # <<>>,
             waiters' = [waiters EXCEPT ![s] = Tail(w)],
             UnblockAndPreempt(Head(w), e)
      PROVE  /\ Linked(ready', status', e) /\ Runs(cur', status')
             /\ \E u \in Elements(waiters[s]) :
                  Woken(s, u, e) /\ SameFor([status EXCEPT ![u] = "READY"], status')
  <2> DEFINE u == Head(w)
  <2>1. /\ w \in Seq(Thread) /\ Ordered(w, e) /\ Distinct(w)
        /\ Elements(w) = Elements(waiters[s])
    BY <1>b, SortedType, SortedPermutes DEF Numbers
  <2>2. /\ u \in Elements(w) /\ Distinct(Tail(w))
        /\ Elements(Tail(w)) = Elements(w) \ {u}
    BY <1>2, <2>1, Popped
  <2>3. \A v \in Elements(w) : e[u] >= e[v]
    BY <1>2, <2>1, PoppedOrdered DEF Numbers
  <2> HIDE DEF u
  <2>4. u \in Thread /\ status[u] = "BLOCKED"
    BY <2>1, <2>2, WaiterPlace
  <2>5. waiters'[s] = Tail(w) /\ waiters' = [waiters EXCEPT ![s] = waiters'[s]]
    BY <1>2, <1>b
  <2>6. Woken(s, u, e)
    BY <2>1, <2>2, <2>3, <2>5 DEF Woken, Pops
  <2>7. UnblockAndPreempt(u, e)
    BY <1>2 DEF u
  <2>8. /\ Linked(ready', status', e) /\ Runs(cur', status')
        /\ SameFor([status EXCEPT ![u] = "READY"], status')
    BY <1>a, <2>4, <2>7, UnblockLinked DEF Awake
  <2> QED BY <2>1, <2>2, <2>6, <2>8
<1>3. value' = [value EXCEPT ![s] = @ + 1]
  BY DEF SemaUp
<1> QED BY <1>1, <1>2, <1>3 DEF SemaUp

\* sema_up within an operation that changes nobody's place.
LEMMA SemaUpStep ==
  ASSUME TypeInv, QueueInv, NEW s \in Semaphore, NEW e, Numbers(e),
         Linked(ready, status, e), SemaUp(s, e), UNCHANGED <<arg, donated_to, pc>>
  PROVE  WaitInv' /\ PlaceInv' /\ NoLostWakeup' /\ SleepersStay
<1>1. /\ value' = [value EXCEPT ![s] = @ + 1]
      /\ \/ waiters[s] = <<>> /\ waiters' = waiters /\ status' = status
         \/ \E u \in Elements(waiters[s]) :
              Woken(s, u, e) /\ SameFor([status EXCEPT ![u] = "READY"], status')
  BY SemaUpWakes
<1>2. CASE waiters[s] = <<>> /\ waiters' = waiters /\ status' = status
  BY <1>1, <1>2, EmptyUpStep
<1>3. CASE \E u \in Elements(waiters[s]) :
             Woken(s, u, e) /\ SameFor([status EXCEPT ![u] = "READY"], status')
  BY <1>1, <1>3, WakeStep DEF Woken
<1> QED BY <1>1, <1>2, <1>3

\* A device's interrupt handler raises a semaphore.
LEMMA DeviceQueueInv ==
  ASSUME TypeInv, QueueInv, DeviceInterrupt
  PROVE  QueueInv' /\ SleepersStay
<1>a. /\ SwitchTypeOK /\ ready \in Lists /\ status \in [AnyThread -> Status]
      /\ Runs(cur, status) /\ Numbers(effective_priority)
      /\ Linked(ready, status, effective_priority)
  BY ReadyFacts
<1>1. PICK s \in Sema : InterruptSemaUp(s)
  BY DEF DeviceInterrupt
<1>2. /\ s \in Semaphore /\ waiters \in [Semaphore -> Seq(Thread)]
      /\ Distinct(waiters[s]) /\ pc \in [AnyThread -> PC]
  BY DEF Semaphore, TypeInv, OtherTypeOK, QueueInv, WaitInv
<1>3. \A t \in Thread : pc'[t] = pc[t]
  BY <1>1, <1>2, ThreadAssumption DEF InterruptSemaUp, IdleWakes, AnyThread
<1>4. /\ value' = [value EXCEPT ![s] = @ + 1]
      /\ UNCHANGED <<arg, donated_to, effective_priority>>
  BY <1>1 DEF InterruptSemaUp, threadVars
<1>5. CASE waiters[s] = <<>>
  <2>1. waiters' = waiters /\ cur' = cur /\ status' = status /\ ready' = ready
    BY <1>1, <1>5 DEF InterruptSemaUp, Continue
  <2>2. WaitInv' /\ PlaceInv' /\ NoLostWakeup' /\ SleepersStay
    BY <1>2, <1>3, <1>4, <1>5, <2>1, EmptyUpStep
  <2> QED BY <1>a, <1>4, <2>1, <2>2 DEF QueueInv
<1>6. CASE waiters[s] # <<>>
  <2> DEFINE u  == Head(waiters[s])
             st == [status EXCEPT ![u] = "READY"]
  <2>1. /\ waiters' = [waiters EXCEPT ![s] = Tail(@)]
        /\ Continue(thread_enqueue(ready, u, effective_priority), st)
    BY <1>1, <1>6 DEF InterruptSemaUp
  <2>2. /\ Distinct(Tail(waiters[s])) /\ u \in Elements(waiters[s])
        /\ Elements(Tail(waiters[s])) = Elements(waiters[s]) \ {u}
    BY <1>2, <1>6, Popped
  <2> HIDE DEF u
  <2>3. u \in Thread /\ status[u] = "BLOCKED" /\ u # cur
    BY <1>2, <2>2, WaiterPlace
  <2>4. Pops(s, u)
    BY <1>2, <2>1, <2>2 DEF Pops
  <2>5. Linked(ready', status', effective_priority)
    BY <1>a, <2>1, <2>3, EnqueueLinked DEF Continue
  <2>6. Runs(cur', status')
    BY <1>a, <2>1, <2>3 DEF Continue, Runs
  <2>7. SameFor(st, status')
    BY <2>1 DEF Continue, SameFor
  <2>8. WaitInv' /\ PlaceInv' /\ NoLostWakeup' /\ SleepersStay
    BY <1>2, <1>3, <1>4, <2>2, <2>4, <2>7, WakeStep
  <2> QED BY <1>4, <2>5, <2>6, <2>8 DEF QueueInv
<1> QED BY <1>5, <1>6

\* The operations on semaphores by threads.
LEMMA SemaQueueInv ==
  ASSUME TypeInv, QueueInv,
         \/ \E s \in Sema : sema_down(s) \/ sema_try_down(s) \/ sema_up(s)
         \/ \E s \in Semaphore : SemaBlock(s) \/ SemaTake(s)
  PROVE  QueueInv' /\ SleepersStay
<1>a. /\ SwitchTypeOK /\ ready \in Lists /\ status \in [AnyThread -> Status]
      /\ Runs(cur, status) /\ cur \in AnyThread
      /\ Numbers(effective_priority)
      /\ Linked(ready, status, effective_priority)
  BY ReadyFacts
<1>b. /\ pc \in [AnyThread -> PC] /\ arg \in [AnyThread -> Semaphore \cup Thread \cup {None}]
      /\ donated_to \in [AnyThread -> Lock \cup {None}]
      /\ value \in [Semaphore -> Nat] /\ waiters \in [Semaphore -> Seq(Thread)]
      /\ Sema \subseteq Semaphore /\ Lock \cap Sema = {} /\ None \notin Semaphore
      /\ Thread \subseteq AnyThread /\ (cur # Idle => cur \in Thread)
  BY <1>a, SemaphoreAssumption DEF TypeInv, OtherTypeOK, Semaphore, AnyThread
<1>c. ASSUME UNCHANGED <<switchVars, effective_priority>>,
             WaitInv' /\ PlaceInv' /\ NoLostWakeup' /\ SleepersStay
      PROVE  QueueInv' /\ SleepersStay
  BY <1>a, <1>c DEF switchVars, QueueInv
<1>1. ASSUME NEW s \in Sema, sema_down(s)
      PROVE  QueueInv' /\ SleepersStay
  <2>1. /\ pc[cur] = "run" /\ cur \in Thread
        /\ pc' = [pc EXCEPT ![cur] = "down"] /\ arg' = [arg EXCEPT ![cur] = s]
        /\ UNCHANGED <<switchVars, threadVars, semaVars>>
    BY <1>1, <1>b DEF sema_down
  <2>2. donated_to[cur] = None
    BY <2>1, <1>b DEF QueueInv, PlaceInv, Placed
  <2>3. \A r \in Semaphore : value'[r] \in Nat /\ value'[r] <= value[r]
    BY <2>1, <1>b DEF semaVars
  <2>4. WaitInv' /\ PlaceInv' /\ NoLostWakeup' /\ SleepersStay
    <3>1. UNCHANGED <<status, waiters>> /\ donated_to' = donated_to
      BY <2>1 DEF switchVars, semaVars, threadVars
    <3>2. /\ pc'[cur] = "down" /\ arg'[cur] = s /\ s # None /\ s \notin Lock
          /\ \A t \in Thread \ {cur} : pc'[t] = pc[t] /\ arg'[t] = arg[t]
      BY <2>1, <1>b
    <3>3. Placed(pc'[cur], arg'[cur])
      BY <1>b, <3>2 DEF Placed
    <3> QED BY <2>1, <2>2, <2>3, <3>1, <3>2, <3>3, CallerStep
  <2> QED BY <1>c, <2>1, <2>4 DEF threadVars
<1>2. ASSUME NEW s \in Sema, sema_try_down(s)
      PROVE  QueueInv' /\ SleepersStay
  <2>1. /\ pc[cur] = "run" /\ cur \in Thread /\ value[s] > 0
        /\ value' = [value EXCEPT ![s] = @ - 1]
        /\ UNCHANGED <<switchVars, pc, threadVars, arg, waiters>>
    BY <1>2, <1>b DEF sema_try_down, Available
  <2>2. \A r \in Semaphore : value'[r] \in Nat /\ value'[r] <= value[r]
    BY <2>1, <1>b
  <2>3. WaitInv' /\ PlaceInv' /\ NoLostWakeup' /\ SleepersStay
    <3>1. UNCHANGED <<status, waiters, pc, arg, donated_to>>
      BY <2>1 DEF switchVars, threadVars
    <3> QED BY <2>1, <2>2, <3>1, CallerStep DEF QueueInv, PlaceInv
  <2> QED BY <1>c, <2>1, <2>3 DEF threadVars
<1>3. ASSUME NEW s \in Sema, sema_up(s)
      PROVE  QueueInv' /\ SleepersStay
  <2>1. /\ SemaUp(s, effective_priority)
        /\ UNCHANGED <<arg, donated_to, pc, effective_priority>>
    BY <1>3 DEF sema_up, threadVars
  <2>2. WaitInv' /\ PlaceInv' /\ NoLostWakeup' /\ SleepersStay
    BY <1>a, <1>b, <2>1, SemaUpStep
  <2>3. Linked(ready', status', effective_priority) /\ Runs(cur', status')
    BY <1>a, <1>b, <2>1, SemaUpWakes
  <2> QED BY <2>1, <2>2, <2>3 DEF QueueInv
<1>4. ASSUME NEW s \in Semaphore, SemaBlock(s)
      PROVE  QueueInv' /\ SleepersStay
  <2> DEFINE st == [status EXCEPT ![cur] = "BLOCKED"]
  <2>1. /\ pc[cur] = "down" /\ arg[cur] = s /\ ~ (value[s] > 0)
        /\ waiters' = [waiters EXCEPT ![s] = Append(@, cur)]
        /\ schedule(ready, st)
        /\ UNCHANGED <<pc, threadVars, arg, value>>
    BY <1>4 DEF SemaBlock, Available
  <2>2. cur \in Thread /\ status[cur] = "RUNNING"
    BY <1>a, <1>b, <2>1 DEF TypeInv, DonorInv, Runs
  <2>3. /\ st \in [AnyThread -> Status] /\ st[cur] = "BLOCKED"
        /\ \A x \in AnyThread \ {cur} : st[x] = status[x]
    BY <1>a DEF Status
  <2> HIDE DEF st
  <2>4. Linked(ready, st, effective_priority) /\ \A x \in AnyThread : st[x] # "RUNNING"
    BY <1>a, <1>b, <2>2, <2>3 DEF Linked, Runs
  <2>5. /\ Linked(ready', status', effective_priority) /\ Runs(cur', status')
        /\ SameFor(st, status')
    BY <1>a, <2>1, <2>3, <2>4, ScheduleLinked
  <2>6. \A x \in Thread : /\ status'[x] = "BLOCKED" <=> status[x] = "BLOCKED" \/ x = cur
                          /\ status'[x] \in Awake <=> status[x] \in Awake /\ x # cur
    BY <1>b, <2>2, <2>3, <2>5 DEF SameFor, Awake
  <2>7. cur \notin Elements(waiters[s])
    BY <1>a, WaiterPlace
  <2>8. /\ Distinct(waiters'[s]) /\ Elements(waiters'[s]) = Elements(waiters[s]) \cup {cur}
        /\ \A r \in Semaphore \ {s} : waiters'[r] = waiters[r]
    <3>1. Distinct(waiters[s]) /\ waiters[s] \in Seq(Thread)
      BY <1>b DEF QueueInv, WaitInv
    <3>2. waiters'[s] = Append(waiters[s], cur) /\ \A r \in Semaphore \ {s} : waiters'[r] = waiters[r]
      BY <1>b, <2>1
    <3> QED BY <2>2, <2>7, <3>1, <3>2, AppendedOnce
  <2>9. WaitInv'
    <3>1. ASSUME NEW r \in Semaphore, NEW t \in Thread
          PROVE  t \in Elements(waiters'[r]) <=> status'[t] = "BLOCKED" /\ arg'[t] = r
      <4>1. t \in Elements(waiters[r]) <=> status[t] = "BLOCKED" /\ arg[t] = r
        BY DEF QueueInv, WaitInv
      <4>2. CASE r = s
        BY <2>1, <2>2, <2>6, <2>8, <4>1, <4>2
      <4>3. CASE r # s
        BY <2>1, <2>2, <2>6, <2>8, <4>1, <4>3
      <4> QED BY <4>2, <4>3
    <3>2. \A r \in Semaphore : Distinct(waiters'[r])
      BY <2>8 DEF QueueInv, WaitInv
    <3> QED BY <3>1, <3>2 DEF WaitInv
  <2>10. PlaceInv'
    BY <2>1, <2>6 DEF QueueInv, PlaceInv, threadVars
  <2>11. NoLostWakeup'
    <3>1. value'[s] = 0 /\ value' = value
      BY <1>b, <2>1
    <3>2. ASSUME NEW r \in Semaphore \ {s}, waiters'[r] # <<>>
          PROVE  value'[r] <= Cardinality(Takers(r)')
      <4>1. Takers(r)' = Takers(r)
        BY <2>1, <2>6 DEF Takers
      <4> QED BY <2>8, <3>1, <3>2, <4>1, NoLostWakeupIs DEF QueueInv
    <3>3. Cardinality(Takers(s)') \in Nat
      BY ThreadAssumption, FS_Subset, FS_CardinalityType DEF Takers
    <3>4. value'[s] <= Cardinality(Takers(s)')
      BY <3>1, <3>3
    <3>5. \A r \in Semaphore : waiters'[r] # <<>> => value'[r] <= Cardinality(Takers(r)')
      BY <3>2, <3>4
    <3> QED BY <3>5, NoLostWakeupIs
  <2>12. SleepersStay
    BY <1>b, <2>1, <2>2, <2>6 DEF SleepersStay, Sleeping
  <2> QED BY <2>1, <2>5, <2>9, <2>10, <2>11, <2>12 DEF QueueInv, threadVars
<1>5. ASSUME NEW s \in Semaphore, SemaTake(s)
      PROVE  QueueInv' /\ SleepersStay
  <2>1. /\ pc[cur] = "down" /\ arg[cur] = s /\ value[s] > 0
        /\ value' = [value EXCEPT ![s] = @ - 1]
        /\ pc' = [pc EXCEPT ![cur] = "run"] /\ arg' = [arg EXCEPT ![cur] = None]
        /\ UNCHANGED <<switchVars, effective_priority, waiters>>
        /\ IF s \in Lock THEN donated_to' = [donated_to EXCEPT ![cur] = None]
                         ELSE donated_to' = donated_to
    BY <1>5 DEF SemaTake, Available
  <2>2. cur \in Thread /\ status[cur] = "RUNNING"
    BY <1>a, <1>b, <2>1 DEF TypeInv, DonorInv, Runs
  <2>3. /\ pc'[cur] = "run" /\ arg'[cur] = None
        /\ \A t \in Thread \ {cur} : pc'[t] = pc[t] /\ arg'[t] = arg[t]
        /\ UNCHANGED <<status, waiters>>
    BY <1>b, <2>1, <2>2 DEF switchVars
  <2>4. donated_to'[cur] = None /\ \A t \in Thread \ {cur} : donated_to'[t] = donated_to[t]
    <3>1. donated_to[cur] = IF s \in Lock THEN s ELSE None
      BY <2>1, <2>2 DEF QueueInv, PlaceInv
    <3> QED BY <1>b, <2>1, <2>2, <3>1
  <2>5. WaitInv'
    BY <1>b, <2>2, <2>3 DEF QueueInv, WaitInv
  <2>6. PlaceInv'
    BY <1>b, <2>2, <2>3, <2>4, SemaphoreAssumption DEF QueueInv, PlaceInv, Placed, Awake
  <2>7. SleepersStay
    BY <2>2, <2>3 DEF SleepersStay, Sleeping
  <2>8. NoLostWakeup'
    <3>1. \A r \in Semaphore \ {s} : Takers(r)' = Takers(r) /\ value'[r] = value[r]
      BY <1>b, <2>1, <2>2, <2>3 DEF Takers
    <3>2. Takers(s)' = Takers(s) \ {cur} /\ cur \in Takers(s)
      BY <1>b, <2>1, <2>2, <2>3 DEF Takers, Awake
    <3>3. Cardinality(Takers(s)') = Cardinality(Takers(s)) - 1
      BY <3>2, TakersFinite, FS_RemoveElement
    <3>4. value'[s] = value[s] - 1
      BY <1>b, <2>1
    <3>5. waiters[s] # <<>> => value[s] <= Cardinality(Takers(s))
      BY NoLostWakeupIs DEF QueueInv
    <3>6. waiters'[s] # <<>> => value'[s] <= Cardinality(Takers(s)')
      BY <1>b, <2>3, <3>3, <3>4, <3>5, TakersFinite
    <3>7. ASSUME NEW r \in Semaphore \ {s}, waiters'[r] # <<>>
          PROVE  value'[r] <= Cardinality(Takers(r)')
      BY <2>3, <3>1, <3>7, NoLostWakeupIs DEF QueueInv
    <3>8. \A r \in Semaphore : waiters'[r] # <<>> => value'[r] <= Cardinality(Takers(r)')
      BY <3>6, <3>7
    <3> QED BY <3>8, NoLostWakeupIs
  <2> QED BY <1>c, <2>1, <2>5, <2>6, <2>7, <2>8
<1> QED BY <1>1, <1>2, <1>3, <1>4, <1>5

\* The running thread's priority is not looked at in the ready lists.
LEMMA OwnPriority ==
  ASSUME TypeInv, QueueInv, NEW p \in Priority
  PROVE  LET e == [effective_priority EXCEPT ![cur] = p]
         IN  Numbers(e) /\ Linked(ready, status, e)
<1> DEFINE e == [effective_priority EXCEPT ![cur] = p]
<1>1. /\ ready \in Lists /\ Runs(cur, status) /\ effective_priority \in [AnyThread -> Priority]
      /\ Linked(ready, status, effective_priority)
  BY ReadyFacts
<1>2. e \in [AnyThread -> Priority]
  BY <1>1
<1>3. \A t \in Thread : status[t] = "READY" => e[t] = effective_priority[t]
  BY <1>1 DEF Runs, AnyThread
<1> HIDE DEF e
<1>4. Numbers(e) /\ Linked(ready, status, e)
  BY <1>1, <1>2, <1>3, PrioritiesAreNumbers, Repriced
<1> QED BY <1>4 DEF e

\* lock_release raises the lock's semaphore with the priority that the caller has
\* once it has given back what it was donated.
LEMMA ReleaseRaises ==
  ASSUME TypeInv, QueueInv, NEW l \in Lock, lock_release(l)
  PROVE  \E locks \in Unlinked(l) : \E p \in UpdatedPriority(cur, locks) :
           LET e == [effective_priority EXCEPT ![cur] = p]
           IN  /\ donated_locks' = [donated_locks EXCEPT ![cur] = locks]
               /\ p \in Priority /\ effective_priority' = e /\ SemaUp(l, e)
               /\ Numbers(e) /\ Linked(ready, status, e)
<1>1. PICK locks \in Unlinked(l) :
        /\ donated_locks' = [donated_locks EXCEPT ![cur] = locks]
        /\ \E p \in UpdatedPriority(cur, locks) :
             LET e == [effective_priority EXCEPT ![cur] = p]
             IN  effective_priority' = e /\ SemaUp(l, e)
  BY DEF lock_release
<1>2. PICK p \in UpdatedPriority(cur, locks) :
        LET e == [effective_priority EXCEPT ![cur] = p]
        IN  effective_priority' = e /\ SemaUp(l, e)
  BY <1>1
<1>3. p \in Priority
  <2>1. cur \in AnyThread /\ OtherTypeOK /\ locks \in SUBSET Lock
    BY <1>1, ReadyFacts DEF TypeInv, OtherTypeOK, Unlinked
  <2> QED BY <1>2, <2>1, UpdatedPriorityType
<1> QED BY <1>1, <1>2, <1>3, OwnPriority

\* Locks, donation and thread_set_priority.
LEMMA LockQueueInv ==
  ASSUME TypeInv, QueueInv,
         \/ \E l \in Lock : lock_acquire(l) \/ lock_release(l)
         \/ recurse_donate
         \/ DonateToFreed
         \/ DonationEnds
         \/ \E p \in Priority : thread_set_priority(p)
         \/ StoreEffective
         \/ update_priority
  PROVE  QueueInv' /\ SleepersStay
<1>a. /\ SwitchTypeOK /\ ready \in Lists /\ status \in [AnyThread -> Status]
      /\ Runs(cur, status) /\ cur \in AnyThread
      /\ effective_priority \in [AnyThread -> Priority]
      /\ Numbers(effective_priority)
      /\ Linked(ready, status, effective_priority)
  BY ReadyFacts
<1>b. /\ pc \in [AnyThread -> PC] /\ arg \in [AnyThread -> Semaphore \cup Thread \cup {None}]
      /\ donated_to \in [AnyThread -> Lock \cup {None}]
      /\ holder \in [Lock -> Thread \cup {None}]
      /\ value \in [Semaphore -> Nat] /\ None \notin Semaphore /\ Lock \subseteq Semaphore
      /\ Thread \subseteq AnyThread /\ (cur # Idle => cur \in Thread)
  BY <1>a, SemaphoreAssumption DEF TypeInv, OtherTypeOK, Semaphore, AnyThread
<1>c. ASSUME UNCHANGED <<switchVars, semaVars>>,
             UNCHANGED effective_priority \/ \E p \in Priority :
               effective_priority' = [effective_priority EXCEPT ![cur] = p],
             pc[cur] # "down",
             \A t \in Thread \ {cur} : /\ pc'[t] = pc[t] /\ arg'[t] = arg[t]
                                       /\ donated_to'[t] = donated_to[t],
             Placed(pc'[cur], arg'[cur]),
             donated_to'[cur] = IF arg'[cur] \in Lock THEN arg'[cur] ELSE None
      PROVE  QueueInv' /\ SleepersStay
  <2>1. UNCHANGED <<cur, status, ready, value, waiters>>
    BY <1>c DEF switchVars, semaVars
  <2>2. \A s \in Semaphore : value'[s] \in Nat /\ value'[s] <= value[s]
    BY <1>b, <2>1
  <2>3. WaitInv' /\ PlaceInv' /\ NoLostWakeup' /\ SleepersStay
    BY <1>c, <2>1, <2>2, CallerStep
  <2>4. Linked(ready, status, effective_priority')
    BY <1>a, <1>c, OwnPriority
  <2> QED BY <1>a, <2>1, <2>3, <2>4 DEF QueueInv
<1>1. ASSUME NEW l \in Lock, lock_acquire(l)
      PROVE  QueueInv' /\ SleepersStay
  <2>1. /\ pc[cur] = "run" /\ cur \in Thread
        /\ donated_to' = [donated_to EXCEPT ![cur] = l]
        /\ arg' = [arg EXCEPT ![cur] = l]
        /\ \/ pc' = [pc EXCEPT ![cur] = "donate"]
           \/ pc' = [pc EXCEPT ![cur] = "down"]
        /\ UNCHANGED <<switchVars, effective_priority, semaVars>>
    BY <1>1, <1>b DEF lock_acquire
  <2>2. /\ pc'[cur] \in {"donate", "down"} /\ arg'[cur] = l /\ donated_to'[cur] = l /\ l # None
        /\ \A t \in Thread \ {cur} : /\ pc'[t] = pc[t] /\ arg'[t] = arg[t]
                                     /\ donated_to'[t] = donated_to[t]
    BY <1>b, <2>1
  <2>3. Placed(pc'[cur], arg'[cur])
    BY <1>b, <2>2 DEF Placed
  <2> QED BY <1>c, <2>1, <2>2, <2>3
<1>2. ASSUME NEW l \in Lock, lock_release(l)
      PROVE  QueueInv' /\ SleepersStay
  <2>1. PICK p \in Priority :
          LET e == [effective_priority EXCEPT ![cur] = p]
          IN  /\ effective_priority' = e /\ SemaUp(l, e)
              /\ Numbers(e) /\ Linked(ready, status, e)
    BY <1>2, ReleaseRaises
  <2> DEFINE e == [effective_priority EXCEPT ![cur] = p]
  <2>2. effective_priority' = e /\ SemaUp(l, e) /\ Numbers(e) /\ Linked(ready, status, e)
    BY <2>1
  <2>3. UNCHANGED <<arg, donated_to, pc>>
    BY <1>2 DEF lock_release
  <2> HIDE DEF e
  <2>4. WaitInv' /\ PlaceInv' /\ NoLostWakeup' /\ SleepersStay
    BY <1>b, <2>2, <2>3, SemaUpStep
  <2>5. Linked(ready', status', e) /\ Runs(cur', status')
    BY <1>b, <2>2, SemaUpWakes
  <2> QED BY <2>2, <2>4, <2>5 DEF QueueInv
<1>3. CASE recurse_donate
  <2> DEFINE next == NextHolder
             e == [effective_priority EXCEPT ![next] = effective_priority[donor]]
             r == [list \in DOMAIN ready |-> Remove(ready[list], next)]
  <2>1. donor \in Thread
    BY <1>3, <1>a DEF recurse_donate, TypeInv, DonorInv
  <2>2. next \in Thread
    BY <1>3, <1>b, <2>1 DEF recurse_donate, Donates, NextHolder
  <2>3. e \in [AnyThread -> Priority] /\ \A t \in Thread \ {next} : e[t] = effective_priority[t]
    BY <1>a, <1>b, <2>1
  <2>4. effective_priority' = e /\ UNCHANGED <<cur, status, pc, donated_to, arg, semaVars>>
    BY <1>3 DEF recurse_donate
  <2>5. Linked(ready', status, e)
    <3>1. CASE status[next] = "READY"
      <4>1. ready' = [r EXCEPT !["PRIO"] = InsertOrdered(@, next, e)]
        BY <1>3, <3>1 DEF recurse_donate
      <4>2. Numbers(e)
        BY <2>3, PrioritiesAreNumbers
      <4> HIDE DEF next, e
      <4> QED BY <1>a, <2>2, <2>3, <3>1, <4>1, <4>2, Relinked
    <3>2. CASE status[next] # "READY"
      <4>1. ready' = ready
        BY <1>3, <3>2 DEF recurse_donate
      <4> HIDE DEF next, e
      <4> QED BY <1>a, <2>3, <3>2, <4>1, Repriced
    <3> QED BY <3>1, <3>2
  <2> HIDE DEF next, e
  <2>6. WaitInv' /\ PlaceInv' /\ NoLostWakeup' /\ SleepersStay
    BY <2>4, QuietStep DEF semaVars
  <2> QED BY <1>a, <2>4, <2>5, <2>6 DEF QueueInv
<1>4. CASE DonationEnds
  <2>1. /\ pc[cur] = "donate" /\ pc' = [pc EXCEPT ![cur] = "down"]
        /\ UNCHANGED <<switchVars, effective_priority, donated_to, arg, semaVars>>
    BY <1>4 DEF DonationEnds, threadVars
  <2>2. cur \in Thread
    BY <1>b, <2>1 DEF TypeInv, DonorInv
  <2>3. pc'[cur] = "down" /\ \A t \in Thread \ {cur} : pc'[t] = pc[t]
    BY <1>b, <2>1, <2>2
  <2>4. /\ Placed(pc'[cur], arg'[cur])
        /\ donated_to[cur] = IF arg[cur] \in Lock THEN arg[cur] ELSE None
    BY <2>1, <2>2, <2>3 DEF QueueInv, PlaceInv, Placed
  <2> QED BY <1>c, <2>1, <2>3, <2>4
<1>5. ASSUME NEW to, to \in {"run", "store", "set"}, cur \in Thread,
             pc[cur] \in {"run", "store", "set"},
             pc' = [pc EXCEPT ![cur] = to],
             UNCHANGED <<switchVars, donated_to, arg, semaVars>>,
             UNCHANGED effective_priority \/ \E p \in Priority :
               effective_priority' = [effective_priority EXCEPT ![cur] = p]
      PROVE  QueueInv' /\ SleepersStay
  <2>1. pc'[cur] = to /\ \A t \in Thread \ {cur} : pc'[t] = pc[t]
    BY <1>b, <1>5
  <2>2. /\ Placed(to, arg[cur])
        /\ donated_to[cur] = IF arg[cur] \in Lock THEN arg[cur] ELSE None
    BY <1>5 DEF QueueInv, PlaceInv, Placed
  <2> QED BY <1>c, <1>5, <2>1, <2>2
<1>6. ASSUME NEW p \in Priority, thread_set_priority(p)
      PROVE  QueueInv' /\ SleepersStay
  BY <1>b, <1>5, <1>6 DEF thread_set_priority
<1>7. CASE update_priority
  <2>1. PICK p \in UpdatedPriority(cur, donated_locks[cur]) :
          effective_priority' = [effective_priority EXCEPT ![cur] = p]
    BY <1>7 DEF update_priority
  <2>2. p \in Priority
    BY <1>a, <2>1, UpdatedPriorityType DEF TypeInv, OtherTypeOK
  <2>3. cur \in Thread
    BY <1>7, <1>b DEF update_priority, TypeInv, DonorInv
  <2> QED BY <1>5, <1>7, <2>1, <2>2, <2>3 DEF update_priority
<1>8. CASE StoreEffective
  <2>1. cur \in Thread /\ priority[cur] \in Priority
    BY <1>8, <1>b DEF StoreEffective, TypeInv, DonorInv, OtherTypeOK
  <2> QED BY <1>5, <1>8, <2>1 DEF StoreEffective
<1>9. CASE DonateToFreed
  <2>1. /\ pc[cur] = "donate" /\ pc' = [pc EXCEPT ![cur] = "fault"]
        /\ UNCHANGED <<switchVars, effective_priority, donated_to, arg, semaVars>>
    BY <1>9 DEF DonateToFreed, threadVars
  <2>2. cur \in Thread
    BY <1>b, <2>1 DEF TypeInv, DonorInv
  <2>3. pc'[cur] = "fault" /\ \A t \in Thread \ {cur} : pc'[t] = pc[t]
    BY <1>b, <2>1, <2>2
  <2>4. /\ Placed(pc'[cur], arg'[cur])
        /\ donated_to[cur] = IF arg[cur] \in Lock THEN arg[cur] ELSE None
    BY <2>1, <2>2, <2>3 DEF QueueInv, PlaceInv, Placed
  <2> QED BY <1>c, <2>1, <2>3, <2>4
<1> QED BY <1>1, <1>2, <1>3, <1>4, <1>6, <1>7, <1>8, <1>9

\* Every step of Threads keeps the invariant, and blocks a thread on semaphores only.
LEMMA CallsQueueInv ==
  ASSUME TypeInv, QueueInv, Calls
  PROVE  QueueInv' /\ SleepersStay
BY LifeQueueInv, SemaQueueInv, LockQueueInv DEF Calls

NoSleepers == \A t \in Thread : ~ Sleeping(t)
ThreadsInv == TypeInv /\ QueueInv /\ NoSleepers

\* Every step keeps the invariant.
LEMMA NextThreadsInv == ThreadsInv /\ [Next]_vars => ThreadsInv'
<1> SUFFICES ASSUME ThreadsInv, [Next]_vars PROVE ThreadsInv'
  OBVIOUS
<1>1. TypeInv'
  BY NextTypeInv DEF ThreadsInv
<1>2. CASE Next
  <2>1. QueueInv' /\ SleepersStay
    BY <1>2, CallsQueueInv, LifeQueueInv, DeviceQueueInv DEF ThreadsInv, Next
  <2> QED BY <1>1, <2>1 DEF ThreadsInv, NoSleepers, SleepersStay
<1>3. CASE UNCHANGED vars
  <2>1. QueueInv'
    BY <1>3 DEF vars, ThreadsInv, QueueInv, WaitInv, PlaceInv, NoLostWakeup
  <2>2. NoSleepers'
    BY <1>3 DEF vars, ThreadsInv, NoSleepers, Sleeping
  <2> QED BY <1>1, <2>1, <2>2 DEF ThreadsInv
<1> QED BY <1>2, <1>3

\* After thread_start() only main runs, and every list is empty.
LEMMA InitQueueInv == Init => QueueInv /\ NoSleepers
<1> SUFFICES ASSUME Init PROVE QueueInv /\ NoSleepers
  OBVIOUS
<1>1. /\ cur = Main /\ Main \in Thread /\ Thread \subseteq AnyThread /\ Idle \notin Thread
      /\ \A t \in AnyThread : status[t] = IF t = Main THEN "RUNNING"
                                          ELSE IF t = Idle THEN "BLOCKED" ELSE "FREE"
      /\ \A t \in Thread : /\ pc[t] = "run" /\ arg[t] = None /\ donated_to[t] = None
      /\ ready["FIFO"] = <<>> /\ ready["PRIO"] = <<>>
      /\ \A s \in Semaphore : waiters[s] = <<>>
  BY ThreadAssumption DEF Init, AnyThread
<1>2. Distinct(<<>>) /\ Elements(<<>>) = {} /\ \A e : Ordered(<<>>, e)
  BY DEF Distinct, Elements, Ordered
<1>3. Runs(cur, status)
  BY <1>1 DEF Runs
<1>4. Linked(ready, status, effective_priority)
  BY <1>1, <1>2 DEF Linked
<1>5. WaitInv
  BY <1>1, <1>2 DEF WaitInv
<1>6. PlaceInv
  BY <1>1, SemaphoreAssumption DEF PlaceInv, Placed
<1>7. NoLostWakeup
  BY <1>1 DEF NoLostWakeup
<1>8. NoSleepers
  BY <1>1 DEF NoSleepers, Sleeping
<1> QED BY <1>3, <1>4, <1>5, <1>6, <1>7, <1>8 DEF QueueInv

\* The invariant that the theorems below come from.
LEMMA ThreadsInvariant == Spec => []ThreadsInv
<1>1. Init => ThreadsInv
  BY InitTypeInv, InitQueueInv DEF ThreadsInv
<1> QED BY <1>1, NextThreadsInv, PTL DEF Spec

-----------------------------------------------------------------------------
(* The theorems.                                                           *)

\* priority_queue is sorted whatever is donated to threads in it (recurse_donate,
\* thread_enqueue), under both policies.
THEOREM QueueSorted == Spec => []ReadySorted
<1>1. ThreadsInv => ReadySorted
  BY DEF ThreadsInv, QueueInv, Linked, Ordered, ReadySorted
<1> QED BY <1>1, ThreadsInvariant, PTL

\* No sema_up is lost, also when another thread takes the value before the woken one.
THEOREM WakeupsKept == Spec => []NoLostWakeup
<1>1. ThreadsInv => NoLostWakeup
  BY DEF ThreadsInv, QueueInv
<1> QED BY <1>1, ThreadsInvariant, PTL

\* Under the priority scheduler a ready thread is linked into priority_queue, a blocked
\* one into the wait list it waits in, once, and any other thread nowhere.
THEOREM LinkedOnce == ASSUME active_sched_policy = "PRIO" PROVE Spec => []OneList
<1>1. ThreadsInv => OneList
  <2> SUFFICES ASSUME ThreadsInv, NEW t \in Thread
               PROVE  /\ \A p \in {"FIFO", "PRIO"} :
                           Places(ready[p], t) =
                             IF status[t] = "READY" /\ p = active_sched_policy THEN 1 ELSE 0
                      /\ \A s \in Semaphore :
                           Places(waiters[s], t) =
                             IF status[t] = "BLOCKED" /\ s = arg[t] THEN 1 ELSE 0
                      /\ status[t] = "BLOCKED" => arg[t] # None
    BY DEF OneList, ThreadsInv, TypeInv, SwitchTypeOK, Lists
  <2>1. Linked(ready, status, effective_priority) /\ ready["FIFO"] = <<>>
    BY DEF ThreadsInv, QueueInv, Linked
  <2>2. Elements(ready["FIFO"]) = {}
    BY <2>1 DEF Elements
  <2>3. Places(ready["FIFO"], t) = 0
    BY <2>1, <2>2, PlacesOnce DEF Linked
  <2>4. Places(ready["PRIO"], t) = IF status[t] = "READY" THEN 1 ELSE 0
    BY <2>1, <2>2, PlacesOnce DEF Linked
  <2>5. ASSUME NEW s \in Semaphore
        PROVE  Places(waiters[s], t) = IF status[t] = "BLOCKED" /\ s = arg[t] THEN 1 ELSE 0
    BY PlacesOnce DEF ThreadsInv, QueueInv, WaitInv
  <2>6. status[t] = "BLOCKED" => arg[t] # None
    BY DEF ThreadsInv, NoSleepers, Sleeping
  <2> QED BY <2>3, <2>4, <2>5, <2>6
<1> QED BY <1>1, ThreadsInvariant, PTL

\* What WakesHighest says of one lock in one step.
HighestWoken(l) ==
  Elements(waiters'[l]) \subseteq Elements(waiters[l]) =>
    \A u \in Elements(waiters[l]) \ Elements(waiters'[l]),
       w \in Elements(waiters'[l]) :
      effective_priority[u] >= effective_priority[w]

\* The same of one step: only lock_release wakes a waiter of a lock.
LEMMA StepWakesHighest ==
  ASSUME ThreadsInv, [Next]_vars, NEW l \in Lock
  PROVE  HighestWoken(l)
<1> USE DEF ThreadsInv
<1>a. l \in Semaphore /\ l \notin Sema /\ waiters \in [Semaphore -> Seq(Thread)]
  BY SemaphoreAssumption DEF Semaphore, TypeInv, OtherTypeOK
<1>b. Linked(ready, status, effective_priority) /\ Numbers(effective_priority)
  BY ReadyFacts
<1>1. ASSUME waiters'[l] = waiters[l] PROVE HighestWoken(l)
  BY <1>1 DEF HighestWoken
<1>2. ASSUME NEW s \in Sema, sema_up(s) \/ InterruptSemaUp(s) PROVE HighestWoken(l)
  <2>1. \/ waiters' = waiters
        \/ waiters' = [waiters EXCEPT ![s] = waiters'[s]]
    <3>1. CASE sema_up(s)
      BY <1>b, <3>1, SemaUpWakes DEF sema_up, Woken, Pops, Semaphore
    <3>2. CASE InterruptSemaUp(s)
      <4>1. waiters' = waiters \/ waiters' = [waiters EXCEPT ![s] = Tail(@)]
        BY <3>2 DEF InterruptSemaUp
      <4> QED BY <1>a, <4>1 DEF Semaphore
    <3> QED BY <1>2, <3>1, <3>2
  <2>2. l # s
    BY <1>a
  <2> QED BY <1>1, <1>a, <2>1, <2>2
<1>3. ASSUME NEW s \in Semaphore, SemaBlock(s) PROVE HighestWoken(l)
  <2>1. waiters' = [waiters EXCEPT ![s] = Append(@, cur)] /\ pc[cur] = "down"
    BY <1>3 DEF SemaBlock
  <2>2. CASE s # l
    BY <1>1, <1>a, <2>1, <2>2
  <2>3. CASE s = l
    <3>1. cur \in Thread
      BY <2>1, ReadyFacts DEF TypeInv, DonorInv, AnyThread
    <3>2. waiters'[l] = Append(waiters[l], cur)
      BY <1>a, <2>1, <2>3
    <3>3. cur \notin Elements(waiters[l]) /\ Distinct(waiters[l])
      BY <1>a, WaiterPlace DEF QueueInv, WaitInv
    <3>4. Elements(waiters'[l]) = Elements(waiters[l]) \cup {cur}
      BY <1>a, <3>1, <3>2, <3>3, AppendedOnce
    <3> QED BY <3>4 DEF HighestWoken
  <2> QED BY <2>2, <2>3
<1>4. ASSUME NEW m \in Lock, lock_release(m) PROVE HighestWoken(l)
  <2>1. PICK p \in Priority :
          LET e == [effective_priority EXCEPT ![cur] = p]
          IN  SemaUp(m, e) /\ Numbers(e) /\ Linked(ready, status, e)
    BY <1>4, ReleaseRaises
  <2> DEFINE e == [effective_priority EXCEPT ![cur] = p]
  <2>2. SemaUp(m, e) /\ Numbers(e) /\ Linked(ready, status, e)
    BY <2>1
  <2>3. \A t \in Thread \ {cur} : e[t] = effective_priority[t]
    BY DEF TypeInv, OtherTypeOK, AnyThread
  <2> HIDE DEF e
  <2>4. waiters' = waiters \/ \E u \in Elements(waiters[m]) : Woken(m, u, e)
    BY <2>2, SemaUpWakes DEF Semaphore
  <2>5. CASE waiters' = waiters
    BY <1>1, <2>5
  <2>6. ASSUME NEW u \in Elements(waiters[m]), Woken(m, u, e)
        PROVE  HighestWoken(l)
    <3>1. CASE l # m
      <4>1. waiters'[l] = waiters[l]
        BY <1>a, <2>6, <3>1 DEF Woken, Pops
      <4> QED BY <1>1, <4>1
    <3>2. CASE l = m
      <4>1. /\ Elements(waiters'[l]) = Elements(waiters[l]) \ {u}
            /\ \A v \in Elements(waiters'[l]) : e[u] >= e[v]
        BY <2>6, <3>2 DEF Woken, Pops
      <4>2. \A v \in Elements(waiters[l]) : v \in Thread \ {cur}
        BY <1>a, WaiterPlace
      <4>3. \A v \in Elements(waiters'[l]) : effective_priority[u] >= effective_priority[v]
        BY <2>3, <2>6, <3>2, <4>1, <4>2
      <4> QED BY <4>1, <4>3 DEF HighestWoken
    <3> QED BY <3>1, <3>2
  <2> QED BY <2>4, <2>5, <2>6
<1>5. ASSUME \/ \E t \in Thread, p \in Priority : thread_create(t, p)
             \/ CreateReturns \/ thread_exit \/ Yield \/ idle \/ thread_tick
             \/ \E s \in Sema : sema_down(s) \/ sema_try_down(s)
             \/ \E s \in Semaphore : SemaTake(s)
             \/ \E m \in Lock : lock_acquire(m)
             \/ recurse_donate \/ DonateToFreed \/ DonationEnds
             \/ \E p \in Priority : thread_set_priority(p)
             \/ StoreEffective \/ update_priority \/ UNCHANGED vars
      PROVE  HighestWoken(l)
  <2>1. waiters' = waiters
    BY <1>5, Zenon DEF thread_create, CreateReturns, thread_exit, Yield, idle,
         thread_tick, sema_down, sema_try_down, SemaTake, lock_acquire, recurse_donate,
         DonateToFreed, DonationEnds, thread_set_priority, StoreEffective,
         update_priority, vars, threadVars, semaVars
  <2> QED BY <1>1, <2>1
<1> QED BY <1>2, <1>3, <1>4, <1>5 DEF Next, Calls, DeviceInterrupt

\* lock_release wakes a waiter that no other outranks, by the priorities of that moment.
THEOREM HighestWakes == Spec => WakesHighest
<1>1. ThreadsInv /\ [Next]_vars => [\A l \in Lock : HighestWoken(l)]_vars
  BY StepWakesHighest
<1> QED BY <1>1, ThreadsInvariant, PTL DEF Spec, WakesHighest, HighestWoken

-----------------------------------------------------------------------------
(* Donations.                                                              *)

\* w waits for a lock that t holds.
Wants(w, t) == donated_to[w] # None /\ holder[donated_to[w]] = t

\* t's donated priority has a reason: a thread that wants a lock which t holds.
Reason(t) ==
  \/ effective_priority[t] <= priority[t]
  \/ pc[t] = "store"
  \/ \E w \in Thread : Wants(w, t) /\ effective_priority[w] >= effective_priority[t]

\* A step in which t's reason does not go: what changes is a thread that waits for no
\* lock, or whose priority rises.
LEMMA ReasonStays ==
  ASSUME TypeInv, TypeInv', NoStaleDonation, NEW t \in AnyThread,
         priority'[t] = priority[t], effective_priority'[t] = effective_priority[t],
         pc[t] = "store" => pc'[t] = "store",
         \A w \in Thread : Wants(w, t) =>
           Wants(w, t)' /\ effective_priority'[w] >= effective_priority[w]
  PROVE  Reason(t)'
<1>1. /\ \A w \in AnyThread : effective_priority[w] \in Int /\ effective_priority'[w] \in Int
      /\ Thread \subseteq AnyThread
  BY NumberAssumption DEF TypeInv, OtherTypeOK, Priority, AnyThread
<1>2. CASE effective_priority[t] <= priority[t] \/ pc[t] = "store"
  BY <1>2 DEF Reason
<1>3. ASSUME NEW w \in Thread, Wants(w, t), effective_priority[w] >= effective_priority[t]
      PROVE  Reason(t)'
  <2>1. Wants(w, t)' /\ effective_priority'[w] >= effective_priority[w]
    BY <1>3
  <2>2. effective_priority'[w] >= effective_priority'[t]
    BY <1>1, <1>3, <2>1
  <2> QED BY <2>1, <2>2 DEF Reason
<1> QED BY <1>2, <1>3 DEF NoStaleDonation, Wants

\* NoStaleDonation, in these words.
LEMMA StaleParts ==
  /\ NoStaleDonation <=> \A t \in AnyThread : Reason(t)
  /\ NoStaleDonation' <=> \A t \in AnyThread : Reason(t)'
BY DEF NoStaleDonation, Reason, Wants

\* A thread that wants no lock gets another priority, its own and its effective one.
LEMMA RepricedReason ==
  ASSUME ThreadsInv, TypeInv', NoStaleDonation, NEW c \in Thread,
         pc[c] \in {"run", "store"}, NEW p \in Int,
         priority' = [priority EXCEPT ![c] = p],
         effective_priority' = [effective_priority EXCEPT ![c] = p],
         \A t \in AnyThread \ {c} : pc[t] = "store" => pc'[t] = "store",
         UNCHANGED <<donated_to, holder>>
  PROVE  NoStaleDonation'
<1>1. /\ priority \in [AnyThread -> Priority] /\ effective_priority \in [AnyThread -> Priority]
      /\ Thread \subseteq AnyThread /\ \A x \in Priority : x \in Int
  BY NumberAssumption DEF ThreadsInv, TypeInv, OtherTypeOK, AnyThread, Priority
<1>2. donated_to[c] = None
  BY SemaphoreAssumption DEF ThreadsInv, QueueInv, PlaceInv, Placed
<1>3. ASSUME NEW t \in AnyThread PROVE Reason(t)'
  <2>1. CASE t = c
    BY <1>1, <2>1 DEF Reason
  <2>2. CASE t # c
    <3>1. \A w \in Thread : Wants(w, t) =>
            Wants(w, t)' /\ effective_priority'[w] >= effective_priority[w]
      BY <1>1, <1>2 DEF Wants
    <3>2. priority'[t] = priority[t] /\ effective_priority'[t] = effective_priority[t]
      BY <1>1, <2>2
    <3> QED BY <2>2, <3>1, <3>2, ReasonStays DEF ThreadsInv
  <2> QED BY <2>1, <2>2
<1> QED BY <1>3, StaleParts

\* update_priority gives the running thread a priority that it has a reason for, by the
\* locks it still holds.
LEMMA UpdatedReason ==
  ASSUME ThreadsInv, TypeInv', NoStaleDonation, NEW c \in Thread, pc[c] \in {"run", "set"},
         NEW locks \in SUBSET Lock, NEW p \in UpdatedPriority(c, locks),
         effective_priority' = [effective_priority EXCEPT ![c] = p],
         \A l \in locks : holder'[l] = c,
         \A l \in Lock : holder[l] # c => holder'[l] = holder[l],
         \A t \in AnyThread \ {c} : pc'[t] = pc[t],
         UNCHANGED <<priority, donated_to>>
  PROVE  NoStaleDonation'
<1>1. /\ priority \in [AnyThread -> Priority] /\ effective_priority \in [AnyThread -> Priority]
      /\ effective_priority' \in [AnyThread -> Priority]
      /\ donated_to \in [AnyThread -> Lock \cup {None}] /\ None \notin Lock
      /\ waiters \in [Semaphore -> Seq(Thread)] /\ Lock \subseteq Semaphore
      /\ Thread \subseteq AnyThread /\ \A x \in Priority : x \in Int
  BY NumberAssumption, SemaphoreAssumption
     DEF ThreadsInv, TypeInv, OtherTypeOK, AnyThread, Priority, Semaphore
<1>2. donated_to[c] = None
  BY SemaphoreAssumption DEF ThreadsInv, QueueInv, PlaceInv, Placed
<1>3. ASSUME NEW t \in AnyThread \ {c} PROVE Reason(t)'
  <2>1. \A w \in Thread : Wants(w, t) =>
          Wants(w, t)' /\ effective_priority'[w] >= effective_priority[w]
    BY <1>1, <1>2 DEF Wants
  <2>2. priority'[t] = priority[t] /\ effective_priority'[t] = effective_priority[t]
    BY <1>1
  <2> QED BY <2>1, <2>2, ReasonStays DEF ThreadsInv
<1>4. Reason(c)'
  <2>1. effective_priority'[c] = p /\ p \in Int /\ priority'[c] = priority[c]
    BY <1>1
  <2>2. \/ p = priority[c]
        \/ \E m \in locks :
             waiters[m] # <<>> /\ p = effective_priority[Head(waiters[m])]
    BY DEF UpdatedPriority
  <2>3. CASE p = priority[c]
    BY <2>1, <2>3 DEF Reason
  <2>4. ASSUME NEW m \in locks, waiters[m] # <<>>,
               p = effective_priority[Head(waiters[m])]
        PROVE  Reason(c)'
    <3>1. m \in Lock /\ m \in Semaphore /\ waiters[m] \in Seq(Thread)
      BY <1>1
    <3>2. PICK w \in Elements(waiters[m]) : w = Head(waiters[m])
      BY <2>4, <3>1, Popped DEF ThreadsInv, QueueInv, WaitInv
    <3>3. w \in Thread /\ w # c /\ arg[w] = m
      BY <3>1, <3>2, WaiterPlace, <1>2 DEF ThreadsInv, QueueInv, PlaceInv
    <3>4. donated_to[w] = m
      BY <3>1, <3>3 DEF ThreadsInv, QueueInv, PlaceInv
    <3>5. effective_priority'[w] = p
      BY <1>1, <2>4, <3>2, <3>3
    <3>6. Wants(w, c)' /\ effective_priority'[w] >= effective_priority'[c]
      BY <1>1, <2>1, <3>1, <3>4, <3>5 DEF Wants
    <3> QED BY <3>3, <3>6 DEF Reason
  <2> QED BY <2>2, <2>3, <2>4
<1> QED BY <1>3, <1>4, StaleParts

\* A step that takes a lock, a donation or a priority away reprices who loses it.
LEMMA NextNoStaleDonation ==
  ThreadsInv /\ LockInv /\ NoStaleDonation /\ [Next]_vars => NoStaleDonation'
<1> SUFFICES ASSUME ThreadsInv, LockInv, NoStaleDonation, [Next]_vars PROVE NoStaleDonation'
  OBVIOUS
<1>a. TypeInv'
  BY NextTypeInv DEF ThreadsInv
<1>b. /\ cur \in AnyThread /\ (cur # Idle => cur \in Thread) /\ pc[Idle] \in {"run", "halt"}
      /\ pc \in [AnyThread -> PC]
      /\ priority \in [AnyThread -> Priority]
      /\ effective_priority \in [AnyThread -> Priority]
      /\ donated_to \in [AnyThread -> Lock \cup {None}]
      /\ donated_locks \in [AnyThread -> SUBSET Lock]
      /\ holder \in [Lock -> Thread \cup {None}]
      /\ None \notin Lock /\ Thread \subseteq AnyThread /\ \A x \in Priority : x \in Int
      /\ Idle \notin Thread /\ None \notin AnyThread
  BY NumberAssumption, SemaphoreAssumption, ThreadAssumption, ReadyFacts
     DEF ThreadsInv, TypeInv, OtherTypeOK, DonorInv, AnyThread, Priority
<1>1. ASSUME UNCHANGED <<threadVars, holder>>,
             \A t \in AnyThread : pc[t] = "store" => pc'[t] = "store"
      PROVE  NoStaleDonation'
  BY <1>1 DEF NoStaleDonation, threadVars
<1>2. ASSUME NEW t \in Thread, NEW p \in Priority, thread_create(t, p)
      PROVE  NoStaleDonation'
  <2>1. pc[t] = "run"
    BY <1>2 DEF thread_create, ThreadsInv, QueueInv, PlaceInv, Awake
  <2>2. \A x \in AnyThread \ {t} : pc[x] = "store" => pc'[x] = "store"
    BY <1>2, <1>b DEF thread_create
  <2> QED BY <1>2, <1>a, <1>b, <2>1, <2>2, RepricedReason DEF thread_create
<1>3. CASE thread_exit
  <2>1. /\ cur \in Thread /\ pc[cur] = "run" /\ 0 \in Int
        /\ UNCHANGED <<donated_to, holder, pc>>
    BY <1>3, <1>b DEF thread_exit
  <2>2. CASE cur = Main
    BY <1>3, <2>1, <2>2 DEF thread_exit, Freed, NoStaleDonation
  <2>3. CASE cur # Main
    <3>1. /\ priority' = [priority EXCEPT ![cur] = 0]
          /\ effective_priority' = [effective_priority EXCEPT ![cur] = 0]
      BY <1>3, <2>3 DEF thread_exit, Freed
    <3> QED BY <1>a, <2>1, <3>1, RepricedReason
  <2> QED BY <2>2, <2>3
<1>4. ASSUME NEW p \in Priority, thread_set_priority(p)
      PROVE  NoStaleDonation'
  <2>1. /\ priority' = [priority EXCEPT ![cur] = p] /\ pc' = [pc EXCEPT ![cur] = "store"]
        /\ UNCHANGED <<effective_priority, donated_to, holder>>
    BY <1>4 DEF thread_set_priority
  <2>2. ASSUME NEW t \in AnyThread PROVE Reason(t)'
    <3>1. CASE t = cur
      BY <1>b, <2>1, <3>1 DEF Reason
    <3>2. CASE t # cur
      BY <1>b, <2>1, <3>2, StaleParts DEF Reason, Wants
    <3> QED BY <3>1, <3>2
  <2> QED BY <2>2, StaleParts
<1>5. CASE update_priority
  <2>1. cur \in Thread /\ pc[cur] = "set" /\ donated_locks[cur] \in SUBSET Lock
    BY <1>5, <1>b DEF update_priority
  <2>2. PICK p \in UpdatedPriority(cur, donated_locks[cur]) :
          effective_priority' = [effective_priority EXCEPT ![cur] = p]
    BY <1>5 DEF update_priority
  <2>3. /\ \A l \in donated_locks[cur] : holder[l] = cur
        /\ \A t \in AnyThread \ {cur} : pc'[t] = pc[t]
        /\ UNCHANGED <<priority, donated_to, holder>>
    BY <1>5, <1>b, <2>1 DEF update_priority, LockInv
  <2> QED BY <1>a, <2>1, <2>2, <2>3, UpdatedReason
<1>6. ASSUME NEW l \in Lock, lock_release(l)
      PROVE  NoStaleDonation'
  <2>1. /\ cur \in Thread /\ pc[cur] = "run"
        /\ holder[l] = cur /\ holder' = [holder EXCEPT ![l] = None]
        /\ UNCHANGED <<priority, donated_to, pc>>
    BY <1>6, <1>b DEF lock_release
  <2>a. PICK locks \in Unlinked(l) : \E p \in UpdatedPriority(cur, locks) :
          effective_priority' = [effective_priority EXCEPT ![cur] = p]
    BY <1>6, ReleaseRaises DEF ThreadsInv
  <2>2. PICK p \in UpdatedPriority(cur, locks) :
          effective_priority' = [effective_priority EXCEPT ![cur] = p]
    BY <2>a
  <2>3. locks \subseteq donated_locks[cur] /\ l \notin locks
    BY <2>a DEF Unlinked
  <2>4. locks \in SUBSET Lock /\ \A m \in locks : holder'[m] = cur
    BY <1>b, <2>1, <2>3 DEF LockInv
  <2>5. \A m \in Lock : holder[m] # cur => holder'[m] = holder[m]
    BY <1>b, <2>1
  <2> QED BY <1>a, <2>1, <2>2, <2>4, <2>5, UpdatedReason
<1>7. ASSUME UNCHANGED <<priority, effective_priority>>,
             \A t \in AnyThread : pc[t] = "store" => pc'[t] = "store",
             \A t \in AnyThread, w \in Thread : Wants(w, t) => Wants(w, t)'
      PROVE  NoStaleDonation'
  <2>1. ASSUME NEW t \in AnyThread PROVE Reason(t)'
    <3>1. \A w \in Thread : Wants(w, t) =>
            Wants(w, t)' /\ effective_priority'[w] >= effective_priority[w]
      BY <1>7, <1>b
    <3> QED BY <1>7, <1>a, <3>1, ReasonStays DEF ThreadsInv
  <2> QED BY <2>1, StaleParts
<1>8. ASSUME NEW l \in Lock, lock_acquire(l)
      PROVE  NoStaleDonation'
  <2>1. cur \in Thread /\ pc[cur] = "run"
    BY <1>8, <1>b DEF lock_acquire
  <2>2. donated_to[cur] = None
    BY <2>1, SemaphoreAssumption DEF ThreadsInv, QueueInv, PlaceInv, Placed
  <2>3. \A t \in AnyThread, w \in Thread : Wants(w, t) => Wants(w, t)'
    BY <1>8, <1>b, <2>2 DEF lock_acquire, Wants
  <2>4. \A t \in AnyThread : pc[t] = "store" => pc'[t] = "store"
    BY <1>8, <1>b, <2>1 DEF lock_acquire
  <2> QED BY <1>7, <1>8, <2>3, <2>4 DEF lock_acquire
<1>9. ASSUME NEW s \in Semaphore, SemaTake(s)
      PROVE  NoStaleDonation'
  <2>1. cur \in Thread /\ arg[cur] = s /\ value[s] > 0
    BY <1>9, <1>b DEF SemaTake, Available
  <2>a. \A t \in AnyThread : pc[t] = "store" => pc'[t] = "store"
    BY <1>9, <1>b DEF SemaTake
  <2>2. CASE s \notin Lock
    BY <1>1, <1>9, <2>a, <2>2 DEF SemaTake, threadVars
  <2>3. CASE s \in Lock
    <3>1. holder[s] = None
      BY <2>1, <2>3 DEF LockInv
    <3>2. donated_to[cur] = s
      BY <2>1, <2>3 DEF ThreadsInv, QueueInv, PlaceInv
    <3>3. /\ donated_to' = [donated_to EXCEPT ![cur] = None]
          /\ holder' = [holder EXCEPT ![s] = cur]
          /\ UNCHANGED <<priority, effective_priority>>
      BY <1>9, <2>3 DEF SemaTake
    <3>4. \A t \in AnyThread, w \in Thread : Wants(w, t) => Wants(w, t)'
      BY <1>b, <2>3, <3>1, <3>2, <3>3 DEF Wants
    <3> QED BY <1>7, <2>a, <3>3, <3>4
  <2> QED BY <2>2, <2>3
<1>10. CASE recurse_donate
  <2>1. PICK d \in Thread : d = donor
    BY <1>10, <1>b DEF recurse_donate, ThreadsInv, TypeInv, DonorInv
  <2>2. PICK next \in Thread :
          /\ next = NextHolder /\ donated_to[d] \in Lock
          /\ holder[donated_to[d]] = next
          /\ effective_priority[next] < effective_priority[d]
    BY <1>10, <1>b, <2>1 DEF recurse_donate, Donates, NextHolder
  <2>3. /\ effective_priority' = [effective_priority EXCEPT ![next] = effective_priority[d]]
        /\ UNCHANGED <<pc, priority, donated_to, holder>>
    BY <1>10, <2>1, <2>2 DEF recurse_donate
  <2>4. d # next
    BY <1>b, <2>1, <2>2
  <2>5. Reason(next)'
    <3>1. Wants(d, next)'
      BY <1>b, <2>2, <2>3 DEF Wants
    <3>2. effective_priority'[d] = effective_priority[d]
      BY <1>b, <2>1, <2>3, <2>4
    <3>3. effective_priority'[next] = effective_priority[d]
      BY <1>b, <2>2, <2>3
    <3>4. effective_priority'[d] >= effective_priority'[next]
      BY <1>b, <2>1, <3>2, <3>3
    <3> QED BY <2>1, <3>1, <3>4 DEF Reason
  <2>6. ASSUME NEW t \in AnyThread \ {next} PROVE Reason(t)'
    <3>1. \A w \in Thread : effective_priority'[w] >= effective_priority[w]
      BY <1>b, <2>1, <2>2, <2>3
    <3>2. effective_priority'[t] = effective_priority[t]
      BY <1>b, <2>3
    <3>3. \A w \in Thread : Wants(w, t)' <=> Wants(w, t)
      BY <2>3 DEF Wants
    <3> QED BY <1>a, <2>3, <3>1, <3>2, <3>3, ReasonStays DEF ThreadsInv
  <2> QED BY <2>5, <2>6, StaleParts
<1>11. CASE StoreEffective
  <2>1. cur \in Thread /\ pc[cur] = "store" /\ priority[cur] \in Int
    BY <1>11, <1>b DEF StoreEffective
  <2>2. priority' = [priority EXCEPT ![cur] = priority[cur]]
    BY <1>11, <1>b DEF StoreEffective
  <2>3. \A t \in AnyThread \ {cur} : pc'[t] = pc[t]
    BY <1>11, <1>b DEF StoreEffective
  <2> QED BY <1>11, <1>a, <2>1, <2>2, <2>3, RepricedReason DEF StoreEffective
<1>12. ASSUME \/ CreateReturns \/ Yield \/ idle \/ thread_tick
              \/ \E s \in Sema : sema_down(s) \/ sema_try_down(s) \/ sema_up(s) \/ InterruptSemaUp(s)
              \/ \E s \in Semaphore : SemaBlock(s)
              \/ DonateToFreed \/ DonationEnds \/ UNCHANGED vars
       PROVE  NoStaleDonation'
  <2>1. UNCHANGED <<threadVars, holder>>
    BY <1>12, Zenon DEF CreateReturns, Yield, idle, thread_tick, sema_down, sema_try_down,
         sema_up, InterruptSemaUp, SemaBlock, DonateToFreed, DonationEnds, vars, threadVars
  <2>2. \/ pc' = pc
        \/ \E x : pc[cur] # "store" /\ pc' = [pc EXCEPT ![cur] = x]
        \/ pc[Idle] # "store" /\ \E x : pc' = [pc EXCEPT ![Idle] = x]
    BY <1>12, <1>b DEF CreateReturns, Yield, idle, thread_tick, IdleWakes, sema_down,
         sema_try_down, sema_up, InterruptSemaUp, SemaBlock, DonateToFreed, DonationEnds,
         vars
  <2>3. \A t \in AnyThread : pc[t] = "store" => pc'[t] = "store"
    BY <1>b, <2>2
  <2> QED BY <1>1, <2>1, <2>3
<1> QED BY <1>2, <1>3, <1>4, <1>5, <1>6, <1>8, <1>9, <1>10, <1>11, <1>12
        DEF Next, Calls, DeviceInterrupt

\* A donation is given back no later than its cause goes (lock_release and
\* update_priority, through every chain of recurse_donate), but for the time between
\* the two stores of thread_set_priority.
THEOREM DonationsEnd == Spec => []NoStaleDonation
<1>1. Init => NoStaleDonation
  BY NumberAssumption, ThreadAssumption DEF Init, NoStaleDonation, AnyThread
<1> QED BY <1>1, MutualExclusion, ThreadsInvariant, NextNoStaleDonation, PTL DEF Spec
=============================================================================
