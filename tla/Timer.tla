------------------------------- MODULE Timer -------------------------------
(***************************************************************************)
(* timer_sleep() and the timer's interrupt handler (devices/timer.c), put  *)
(* together with the threads they block and wake.  The list sleeping_list  *)
(* links threads by the same `elem' as the ready lists and wait lists.     *)
(***************************************************************************)
EXTENDS Threads

CONSTANTS
  Durations,  \* the arguments of timer_sleep that are not rounded to 0
  MaxTicks    \* bound on the clock, for TLC

ASSUME TimerAssumption == Durations \subseteq Nat \ {0} /\ MaxTicks \in Nat

VARIABLES
  ticks,          \* timer interrupts since the start
  wake_time,      \* thread.wake_time
  sleeping_list,  \* the threads asleep, by wake_time
  sleep           \* where a thread stands in timer_sleep(): "no", "set" when it
                  \* has its wake_time and interrupts are still on, "asleep"

timerVars == <<ticks, wake_time, sleeping_list, sleep>>

TimerInit ==
  /\ Init
  /\ ticks = 0
  /\ wake_time = [t \in Thread |-> 0]
  /\ sleeping_list = <<>>
  /\ sleep = [t \in Thread |-> "no"]

InTimerSleep == cur # Idle /\ sleep[cur] # "no"

-----------------------------------------------------------------------------
\* timer_sleep up to intr_disable().
timer_sleep(n) ==
  /\ pc[cur] = "run" /\ cur # Idle /\ sleep[cur] = "no"
  /\ wake_time' = [wake_time EXCEPT ![cur] = ticks + n]
  /\ sleep' = [sleep EXCEPT ![cur] = "set"]
  /\ UNCHANGED <<vars, ticks, sleeping_list>>

\* Seeded fault: the list is in the order of arrival.
EnterAtEnd(q, x) == Append(q, x)

\* list_insert_ordered by wake_time_comparator: before the first that wakes later.
EnterOrdered(q, x) ==
  LET k == Cardinality({i \in DOMAIN q :
                          \A j \in 1..i : wake_time[q[j]] <= wake_time[x]})
  IN  SubSeq(q, 1, k) \o <<x>> \o SubSeq(q, k + 1, Len(q))

\* Seeded fault: the sleeper yields instead of blocking.
SleepAndYield ==
  /\ cur # Idle /\ sleep[cur] = "set"
  /\ sleeping_list' = EnterOrdered(sleeping_list, cur)
  /\ sleep' = [sleep EXCEPT ![cur] = "asleep"]
  /\ thread_yield(ready, status, effective_priority)
  /\ UNCHANGED <<pc, threadVars, arg, donor, holder, semaVars, ticks,
                 wake_time>>

\* The rest of timer_sleep.
SleepBlock ==
  /\ cur # Idle /\ sleep[cur] = "set"
  /\ sleeping_list' = EnterOrdered(sleeping_list, cur)
  /\ sleep' = [sleep EXCEPT ![cur] = "asleep"]
  /\ schedule(ready, [status EXCEPT ![cur] = "BLOCKED"])
  /\ UNCHANGED <<pc, threadVars, arg, donor, holder, semaVars, ticks,
                 wake_time>>

\* thread_unblock of the threads of q, first to last.
Unblocked(r, q) ==
  LET after[i \in 0 .. Len(q)] ==
        IF i = 0 THEN r ELSE thread_enqueue(after[i - 1], q[i], effective_priority)
  IN  after[Len(q)]

\* The front of the list, as far as it is due at tick now: what the loop of
\* timer_interrupt removes.
DueLength(now) ==
  Cardinality({i \in DOMAIN sleeping_list :
                 \A j \in 1..i : wake_time[sleeping_list[j]] <= now})

\* ticks++, the loop that wakes, thread_tick().
timer_interrupt ==
  LET now == ticks + 1
      due == SubSeq(sleeping_list, 1, DueLength(now))
  IN  /\ InterruptsOn /\ ticks < MaxTicks
      /\ ticks' = now
      /\ sleeping_list' = SubSeq(sleeping_list, Len(due) + 1, Len(sleeping_list))
      /\ sleep' = [t \in Thread |-> IF t \in Elements(due) THEN "no" ELSE sleep[t]]
      /\ Tick(Unblocked(ready, due),
              [t \in AnyThread |-> IF t \in Elements(due) THEN "READY" ELSE status[t]])
      /\ IdleWakes
      /\ UNCHANGED <<threadVars, arg, donor, holder, semaVars, wake_time>>

-----------------------------------------------------------------------------
TimerNext ==
  \/ \E n \in Durations : timer_sleep(n)
  \/ SleepBlock
  \/ timer_interrupt
  \/ ~ InTimerSleep /\ Calls /\ UNCHANGED timerVars
  \/ DeviceInterrupt /\ UNCHANGED timerVars

TimerSpec == TimerInit /\ [][TimerNext]_<<vars, timerVars>>

-----------------------------------------------------------------------------
TimerTypeOK ==
  /\ TypeOK
  /\ ticks \in 0 .. MaxTicks
  /\ wake_time \in [Thread -> Nat]
  /\ sleeping_list \in Seq(Thread)
  /\ sleep \in [Thread -> {"no", "set", "asleep"}]

\* thread.h:78-83, with the third use of `elem' that timer.c adds: a thread that
\* is ready is linked into the ready list, one that is blocked into one wait
\* list or the sleeping list, a running or dead one nowhere.
OneListOrAsleep ==
  \A t \in Thread :
    /\ Places(ready["FIFO"], t) + Places(ready["PRIO"], t)
         = IF status[t] = "READY" THEN 1 ELSE 0
    /\ \A s \in Semaphore :
         Places(waiters[s], t) = IF pc[t] = "down" /\ status[t] = "BLOCKED"
                                    /\ arg[t] = s THEN 1 ELSE 0
    /\ Places(sleeping_list, t) = IF sleep[t] = "asleep" THEN 1 ELSE 0
    /\ status[t] = "BLOCKED" <=> \/ sleep[t] = "asleep"
                                 \/ \E s \in Semaphore : Places(waiters[s], t) = 1

\* The tick a thread sleeps to wakes it, and no earlier one: also when it was
\* preempted between reading the clock and going to sleep, and so got on the
\* list when its time was past already (the next tick wakes it then).
WakesOnTime ==
  [][\A t \in Thread :
       /\ (sleep[t] = "asleep" /\ ticks' # ticks) =>
            (sleep'[t] = "no" <=> wake_time[t] <= ticks')
       /\ (sleep[t] = "asleep" /\ ticks' = ticks) => sleep'[t] = "asleep"]_<<vars, timerVars>>

\* tests/threads/alarm-priority.c:1-2: "when the alarm clock wakes up threads,
\* the higher-priority threads run first".  A tick leaves the processor to a
\* thread that no ready thread outranks, the ones it has just woken included.
TickRunsHighest ==
  [][ticks' # ticks =>
       \A t \in Thread : status'[t] = "READY" =>
         effective_priority'[t] <= effective_priority'[cur']]_<<vars, timerVars>>
=============================================================================
