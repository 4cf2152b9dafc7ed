------------------------------- MODULE RWLock -------------------------------
(***************************************************************************)
(* The readers-writers lock of threads/synch.c and the condition variables *)
(* it is made of, on top of a lock as Mutex describes it (Threads shows    *)
(* that the kernel's locks are such).                                      *)
(*                                                                         *)
(* Threads interleave as they like: every scheduler's choice, preemption   *)
(* and wake-up order is one of these behaviours.  What a thread does while *)
(* it holds the guard lock is seen by nobody before it releases the guard, *)
(* so an action goes from one lock_acquire or sema_down to the next.       *)
(***************************************************************************)
EXTENDS Integers, Sequences, FiniteSets

CONSTANTS
  Thread,   \* the threads that use the rw_lock
  guard,    \* rw_lock.lock
  None,     \* the null pointer
  MaxUses   \* bound on the acquisitions of one thread, for TLC

ASSUME RWAssumption ==
  /\ IsFiniteSet(Thread) /\ None \notin Thread
  /\ MaxUses \in Nat

VARIABLES
  holder,   \* the holder of the guard
  AR, WR, AW, WW,  \* the active and waiting readers and writers
  waiters,  \* the lists of rw_lock.read and rw_lock.write
  semaphore, \* the value of the semaphore_elem a thread waits on
  reader,   \* the argument of the call in progress
  pc,       \* where a thread stands, see PC
  uses,     \* the acquisitions of a thread so far
  panic     \* why the kernel stopped, None while it runs

counters == <<AR, WR, AW, WW>>
vars == <<holder, AR, WR, AW, WW, waiters, semaphore, reader, pc, uses, panic>>

Guard == INSTANCE Mutex WITH Lock <- {guard}

(***************************************************************************)
(* "out": not using the lock.  "enter", "rewait", "leave": at the          *)
(* lock_acquire of rw_lock_acquire, of cond_wait, of rw_lock_release.      *)
(* "check": at the head of the while, the guard held.  "down": in          *)
(* cond_wait's sema_down.  "in": rw_lock_acquire has returned.  "wake":    *)
(* in rw_lock_release, the guard held.                                     *)
(***************************************************************************)
PC == {"out", "enter", "check", "down", "rewait", "in", "leave", "wake"}

CondOf(t) == IF reader[t] THEN "read" ELSE "write"

-----------------------------------------------------------------------------
Init ==
  /\ Guard!Init
  /\ AR = 0 /\ WR = 0 /\ AW = 0 /\ WW = 0
  /\ waiters = [c \in {"read", "write"} |-> <<>>]
  /\ semaphore = [t \in Thread |-> 0]
  /\ reader = [t \in Thread |-> FALSE]
  /\ pc = [t \in Thread |-> "out"]
  /\ uses = [t \in Thread |-> 0]
  /\ panic = None

\* A call of rw_lock_acquire.
rw_lock_acquire(t, r) ==
  /\ pc[t] = "out" /\ uses[t] < MaxUses
  /\ uses' = [uses EXCEPT ![t] = @ + 1]
  /\ reader' = [reader EXCEPT ![t] = r]
  /\ pc' = [pc EXCEPT ![t] = "enter"]
  /\ UNCHANGED <<holder, counters, waiters, semaphore, panic>>

\* A call of rw_lock_release; callers release what they acquired.
rw_lock_release(t) ==
  /\ pc[t] = "in"
  /\ pc' = [pc EXCEPT ![t] = "leave"]
  /\ UNCHANGED <<holder, counters, waiters, semaphore, reader, uses, panic>>

\* Seeded fault: back from cond_wait, the other kind's count goes down.
AcquireAndMiscount(t) ==
  /\ Guard!Acquire(t, guard)
  /\ \/ /\ pc[t] = "enter" /\ pc' = [pc EXCEPT ![t] = "check"]
        /\ UNCHANGED <<WR, WW>>
     \/ /\ pc[t] = "rewait" /\ pc' = [pc EXCEPT ![t] = "check"]
        /\ WR' = IF reader[t] THEN WR ELSE WR - 1
        /\ WW' = IF reader[t] THEN WW - 1 ELSE WW
     \/ /\ pc[t] = "leave" /\ pc' = [pc EXCEPT ![t] = "wake"]
        /\ UNCHANGED <<WR, WW>>
  /\ UNCHANGED <<AR, AW, waiters, semaphore, reader, uses, panic>>

\* lock_acquire(&rw_lock->lock), in any of its three places.  Back from
\* cond_wait, the thread no longer counts as waiting.
lock_acquire(t) ==
  /\ Guard!Acquire(t, guard)
  /\ \/ /\ pc[t] = "enter" /\ pc' = [pc EXCEPT ![t] = "check"]
        /\ UNCHANGED <<WR, WW>>
     \/ /\ pc[t] = "rewait" /\ pc' = [pc EXCEPT ![t] = "check"]
        /\ WR' = IF reader[t] THEN WR - 1 ELSE WR
        /\ WW' = IF reader[t] THEN WW ELSE WW - 1
     \/ /\ pc[t] = "leave" /\ pc' = [pc EXCEPT ![t] = "wake"]
        /\ UNCHANGED <<WR, WW>>
  /\ UNCHANGED <<AR, AW, waiters, semaphore, reader, uses, panic>>

\* Seeded faults: writers do not wait for readers; readers only for writers
\* that are inside.
WaitOnlyForWriters(t) == IF reader[t] THEN AW + WW > 0 ELSE AW > 0
WaitOnlyForActive(t)  == IF reader[t] THEN AW > 0 ELSE AR + AW > 0

\* The condition of the while loop of rw_lock_acquire.
MustWait(t) == IF reader[t] THEN AW + WW > 0 ELSE AR + AW > 0

\* The loop's body up to cond_wait's sema_down.
cond_wait(t) ==
  /\ pc[t] = "check" /\ MustWait(t)
  /\ WR' = IF reader[t] THEN WR + 1 ELSE WR
  /\ WW' = IF reader[t] THEN WW ELSE WW + 1
  /\ waiters' = [waiters EXCEPT ![CondOf(t)] = Append(@, t)]
  /\ semaphore' = [semaphore EXCEPT ![t] = 0]
  /\ Guard!Release(t, guard)
  /\ pc' = [pc EXCEPT ![t] = "down"]
  /\ UNCHANGED <<AR, AW, reader, uses, panic>>

\* cond_wait's sema_down returns.
sema_down(t) ==
  /\ pc[t] = "down" /\ semaphore[t] > 0
  /\ semaphore' = [semaphore EXCEPT ![t] = @ - 1]
  /\ pc' = [pc EXCEPT ![t] = "rewait"]
  /\ UNCHANGED <<holder, counters, waiters, reader, uses, panic>>

\* The end of the loop and of rw_lock_acquire.
Enter(t) ==
  /\ pc[t] = "check" /\ ~ MustWait(t)
  /\ AR' = IF reader[t] THEN AR + 1 ELSE AR
  /\ AW' = IF reader[t] THEN AW ELSE AW + 1
  /\ Guard!Release(t, guard)
  /\ pc' = [pc EXCEPT ![t] = "in"]
  /\ UNCHANGED <<WR, WW, waiters, semaphore, reader, uses, panic>>

-----------------------------------------------------------------------------
(* Signals.  cond_wait leaves the `thread' of its semaphore_elem           *)
(* uninitialised, and sema_comparator follows it when there are two        *)
(* waiters to compare: any of them may come out first, or the access       *)
(* faults.                                                                 *)

NoSignal == UNCHANGED <<waiters, semaphore, panic>>

\* Seeded fault: the waiter that is woken stays on the list.
SignalWithoutPop(c) ==
  \/ /\ waiters[c] = <<>>
     /\ panic' = "list_front" /\ UNCHANGED <<waiters, semaphore>>
  \/ \E i \in DOMAIN waiters[c] :
       /\ semaphore' = [semaphore EXCEPT ![waiters[c][i]] = @ + 1]
       /\ UNCHANGED <<waiters, panic>>

\* list_pop_front asserts that the list is not empty.
cond_signal(c) ==
  \/ /\ waiters[c] = <<>>
     /\ panic' = "list_front" /\ UNCHANGED <<waiters, semaphore>>
  \/ \E i \in DOMAIN waiters[c] :
       /\ waiters' = [waiters EXCEPT ![c] = SubSeq(@, 1, i - 1) \o SubSeq(@, i + 1, Len(@))]
       /\ semaphore' = [semaphore EXCEPT ![waiters[c][i]] = @ + 1]
       /\ UNCHANGED panic
  \/ /\ Len(waiters[c]) > 1
     /\ panic' = "page_fault" /\ UNCHANGED <<waiters, semaphore>>

\* Seeded fault: a broadcast wakes one waiter.
WakeOne(c) == waiters[c] # <<>> /\ cond_signal(c)

\* The order of the wake-ups does not matter: they all end at lock_acquire.
cond_broadcast(c) ==
  \/ /\ waiters' = [waiters EXCEPT ![c] = <<>>]
     /\ semaphore' = [t \in Thread |->
                        IF \E i \in DOMAIN waiters[c] : waiters[c][i] = t
                        THEN semaphore[t] + 1 ELSE semaphore[t]]
     /\ UNCHANGED panic
  \/ /\ Len(waiters[c]) > 1
     /\ panic' = "page_fault" /\ UNCHANGED <<waiters, semaphore>>

\* rw_lock_release from the guard's lock_acquire to its lock_release.
Leave(t) ==
  /\ pc[t] = "wake"
  /\ IF reader[t]
     THEN /\ AR' = AR - 1 /\ UNCHANGED AW
          /\ IF AR' = 0 /\ WW > 0 THEN cond_signal("write") ELSE NoSignal
     ELSE /\ AW' = AW - 1 /\ UNCHANGED AR
          /\ IF WW > 0 THEN cond_signal("write")
             ELSE IF WR > 0 THEN cond_broadcast("read") ELSE NoSignal
  /\ Guard!Release(t, guard)
  /\ pc' = [pc EXCEPT ![t] = "out"]
  /\ UNCHANGED <<WR, WW, reader, uses>>

-----------------------------------------------------------------------------
\* What thread t does once it has called, up to the end of its release.
Progress(t) ==
  \/ lock_acquire(t) \/ cond_wait(t) \/ sema_down(t) \/ Enter(t)
  \/ rw_lock_release(t) \/ Leave(t)

\* A panic stops the kernel.
Next ==
  /\ panic = None
  /\ \E t \in Thread : Progress(t) \/ \E r \in BOOLEAN : rw_lock_acquire(t, r)

Spec == Init /\ [][Next]_vars

\* Every ready thread runs in the end, and callers release what they acquired.
FairSpec == Spec /\ \A t \in Thread : WF_vars(panic = None /\ Progress(t))

-----------------------------------------------------------------------------
(* What it promises.                                                       *)

TypeOK ==
  /\ holder \in [{guard} -> Thread \cup {None}]
  /\ AR \in Nat /\ WR \in Nat /\ AW \in Nat /\ WW \in Nat
  /\ waiters \in [{"read", "write"} -> Seq(Thread)]
  /\ semaphore \in [Thread -> 0 .. 1]
  /\ reader \in [Thread -> BOOLEAN]
  /\ pc \in [Thread -> PC]
  /\ uses \in [Thread -> 0 .. MaxUses]
  /\ panic \in {None, "list_front", "page_fault"}

Active(t)  == pc[t] \in {"in", "leave", "wake"}
Waiting(t) == pc[t] \in {"down", "rewait"}

\* Any number of readers or one writer alone (synch.c:277-291), although the
\* checks and the counts are made at different times by different threads.
RW == INSTANCE ReadersWriters
        WITH readers <- {t \in Thread : Active(t) /\ reader[t]},
             writers <- {t \in Thread : Active(t) /\ ~ reader[t]}
ImplementsReadersWriters == RW!Spec

\* "Writer-centric" (synch.c:271): no reader gets in while a writer waits, be it
\* on the list or woken and on its way back to the guard.
WritersFirst ==
  [][\A r, w \in Thread :
       (reader'[r] /\ ~ Active(r) /\ Active(r)') => ~ (Waiting(w) /\ ~ reader[w])]_vars

\* A thread is on the list of its condition exactly while it waits for a signal:
\* a signal is neither lost nor given twice, also when it is sent between
\* cond_wait's lock_release and its sema_down.
SignalledOnce ==
  \A t \in Thread :
    LET places == {p \in {"read", "write"} \X (1 .. Cardinality(Thread)) :
                     p[2] <= Len(waiters[p[1]]) /\ waiters[p[1]][p[2]] = t}
    IN  /\ Cardinality(places) + semaphore[t] = IF pc[t] = "down" THEN 1 ELSE 0
        /\ \A p \in places : p[1] = CondOf(t)

\* Every thread that waits gets the lock in the end, if the others stop asking
\* for it (each asks MaxUses times) and the kernel does not panic.
WaitersEnter ==
  \A t \in Thread : Waiting(t) ~> (Active(t) \/ panic # None)

\* synch.c:371-372: cond_signal signals a waiting thread "if any threads are
\* waiting".  With none it does not return: rw_lock_release calls it when WW > 0,
\* and WW still counts a writer that was signalled and has not run.
SignalFindsWaiter == panic # "list_front"
=============================================================================
