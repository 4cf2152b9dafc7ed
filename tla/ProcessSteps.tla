---------------------------- MODULE ProcessSteps -----------------------------
(***************************************************************************)
(* The actions of Process as the proofs see them: the fields of its        *)
(* records as functions of their own, for each action a step that says,    *)
(* field by field, what becomes of them, and a lemma that the action takes *)
(* that step.                                                              *)
(***************************************************************************)
EXTENDS Process, FiniteSetTheorems, SequenceTheorems, TLAPS

(***************************************************************************)
(* The fields of the records, as functions of their own.                   *)
(***************************************************************************)
stateOf    == [p \in Thread |-> process[p].state]
markedOf   == [p \in Thread |-> process[p].marked_for_slaughter]
childrenOf == [p \in Thread |-> process[p].children]
joinsOf    == [p \in Thread |-> process[p].thread_joins]
listOf     == [p \in Thread |-> process[p].thread_list]
joinedOf   == [t \in Thread |-> join_elem[t].joined]
joinOf     == [t \in Thread |-> join_elem[t].join]
liveOf     == [c \in Thread |-> wait_status[c].live]
refOf      == [c \in Thread |-> wait_status[c].ref_cnt]
codeOf     == [c \in Thread |-> wait_status[c].exit_code]
deadOf     == [c \in Thread |-> wait_status[c].dead]

processes == <<stateOf, markedOf, childrenOf, joinsOf, listOf>>
elems     == <<joinedOf, joinOf>>
statuses  == <<liveOf, refOf, codeOf, deadOf>>

ProcessRecord == [state : {"none", "live", "freed"},
  marked_for_slaughter : BOOLEAN, children : SUBSET Thread,
  thread_joins : SUBSET Thread, thread_list : Seq(Thread)]
ElemRecord == [joined : BOOLEAN, join : Nat]
StatusRecord == [live : BOOLEAN, ref_cnt : Int, exit_code : Status, dead : Nat]

\* Types of the records, the ranges of counters left open.
RecordInv ==
  /\ process \in [Thread -> ProcessRecord]
  /\ join_elem \in [Thread -> ElemRecord]
  /\ wait_status \in [Thread -> StatusRecord]

\* Types of the fields.
FieldInv ==
  /\ stateOf \in [Thread -> {"none", "live", "freed"}] /\ markedOf \in [Thread -> BOOLEAN]
  /\ childrenOf \in [Thread -> SUBSET Thread] /\ joinsOf \in [Thread -> SUBSET Thread]
  /\ listOf \in [Thread -> Seq(Thread)]
  /\ joinedOf \in [Thread -> BOOLEAN] /\ joinOf \in [Thread -> Nat]
  /\ liveOf \in [Thread -> BOOLEAN] /\ refOf \in [Thread -> Int]
  /\ codeOf \in [Thread -> Status] /\ deadOf \in [Thread -> Nat]

\* Types of the rest.
ShapeInv ==
  /\ pc \in [Thread -> PC]
  /\ pcb \in [Thread -> Thread \cup {None}]
  /\ arg \in [Thread -> Thread \cup {None}]
  /\ at \in [Thread -> Nat]
  /\ freeing \in [Thread -> Thread \cup {None}]
  /\ load \in [Thread -> {"pending", "ok", "failed"}]
  /\ returned \in [Thread -> Seq(Status)]

\* What stays as it is.
LEMMA SameFields ==
  /\ UNCHANGED process => UNCHANGED processes
  /\ UNCHANGED join_elem => UNCHANGED elems
  /\ UNCHANGED wait_status => UNCHANGED statuses
  /\ UNCHANGED <<process, join_elem, wait_status>> /\ RecordInv => RecordInv'
BY DEF processes, elems, statuses, stateOf, markedOf, childrenOf, joinsOf, listOf, joinedOf, joinOf,
   liveOf, refOf, codeOf, deadOf, RecordInv

\* Fields have the types of their records.
LEMMA FieldTypes ==
  /\ RecordInv => FieldInv
  /\ RecordInv' => FieldInv'
BY DEF RecordInv, FieldInv, ProcessRecord, ElemRecord, StatusRecord, stateOf, markedOf, childrenOf,
   joinsOf, listOf, joinedOf, joinOf, liveOf, refOf, codeOf, deadOf

\* A process record is replaced.
LEMMA SetProcess ==
  ASSUME RecordInv, NEW p \in Thread, NEW r \in ProcessRecord,
         process' = [process EXCEPT ![p] = r]
  PROVE  /\ process' \in [Thread -> ProcessRecord]
         /\ stateOf' = [stateOf EXCEPT ![p] = r.state]
         /\ markedOf' = [markedOf EXCEPT ![p] = r.marked_for_slaughter]
         /\ childrenOf' = [childrenOf EXCEPT ![p] = r.children]
         /\ joinsOf' = [joinsOf EXCEPT ![p] = r.thread_joins]
         /\ listOf' = [listOf EXCEPT ![p] = r.thread_list]
BY DEF RecordInv, stateOf, markedOf, childrenOf, joinsOf, listOf

\* Some of its fields are.
LEMMA SetChildren ==
  ASSUME RecordInv, NEW p \in Thread, NEW C \in SUBSET Thread,
         process' = [process EXCEPT ![p].children = C]
  PROVE  /\ process' \in [Thread -> ProcessRecord]
         /\ childrenOf' = [childrenOf EXCEPT ![p] = C]
         /\ UNCHANGED <<stateOf, markedOf, joinsOf, listOf>>
<1> DEFINE r == [process[p] EXCEPT !.children = C]
<1>1. process[p] \in ProcessRecord
  BY DEF RecordInv
<1>2. /\ r \in ProcessRecord
      /\ r.state = process[p].state /\ r.marked_for_slaughter = process[p].marked_for_slaughter /\ r.children = C
      /\ r.thread_joins = process[p].thread_joins /\ r.thread_list = process[p].thread_list
  BY <1>1 DEF ProcessRecord
<1>3. process' = [process EXCEPT ![p] = r]
  OBVIOUS
<1> HIDE DEF r
<1>4. /\ process' \in [Thread -> ProcessRecord]
      /\ stateOf' = [stateOf EXCEPT ![p] = r.state]
      /\ markedOf' = [markedOf EXCEPT ![p] = r.marked_for_slaughter]
      /\ childrenOf' = [childrenOf EXCEPT ![p] = r.children]
      /\ joinsOf' = [joinsOf EXCEPT ![p] = r.thread_joins]
      /\ listOf' = [listOf EXCEPT ![p] = r.thread_list]
  BY <1>2, <1>3, SetProcess
<1> QED BY <1>2, <1>4 DEF stateOf, markedOf, joinsOf, listOf

\* Its joins: a thread joins or its join is over.
LEMMA SetJoins ==
  ASSUME RecordInv, NEW p \in Thread, NEW C \in SUBSET Thread,
         process' = [process EXCEPT ![p].thread_joins = C]
  PROVE  /\ process' \in [Thread -> ProcessRecord]
         /\ joinsOf' = [joinsOf EXCEPT ![p] = C]
         /\ UNCHANGED <<stateOf, markedOf, childrenOf, listOf>>
<1> DEFINE r == [process[p] EXCEPT !.thread_joins = C]
<1>1. process[p] \in ProcessRecord
  BY DEF RecordInv
<1>2. /\ r \in ProcessRecord
      /\ r.state = process[p].state /\ r.marked_for_slaughter = process[p].marked_for_slaughter /\ r.children = process[p].children
      /\ r.thread_joins = C /\ r.thread_list = process[p].thread_list
  BY <1>1 DEF ProcessRecord
<1>3. process' = [process EXCEPT ![p] = r]
  OBVIOUS
<1> HIDE DEF r
<1>4. /\ process' \in [Thread -> ProcessRecord]
      /\ stateOf' = [stateOf EXCEPT ![p] = r.state]
      /\ markedOf' = [markedOf EXCEPT ![p] = r.marked_for_slaughter]
      /\ childrenOf' = [childrenOf EXCEPT ![p] = r.children]
      /\ joinsOf' = [joinsOf EXCEPT ![p] = r.thread_joins]
      /\ listOf' = [listOf EXCEPT ![p] = r.thread_list]
  BY <1>2, <1>3, SetProcess
<1> QED BY <1>2, <1>4 DEF stateOf, markedOf, childrenOf, listOf

\* The mark that process_exit leaves.
LEMMA SetMarked ==
  ASSUME RecordInv, NEW p \in Thread, NEW m \in BOOLEAN,
         process' = [process EXCEPT ![p].marked_for_slaughter = m]
  PROVE  /\ process' \in [Thread -> ProcessRecord]
         /\ markedOf' = [markedOf EXCEPT ![p] = m]
         /\ UNCHANGED <<stateOf, childrenOf, joinsOf, listOf>>
<1> DEFINE r == [process[p] EXCEPT !.marked_for_slaughter = m]
<1>1. process[p] \in ProcessRecord
  BY DEF RecordInv
<1>2. /\ r \in ProcessRecord
      /\ r.state = process[p].state /\ r.marked_for_slaughter = m /\ r.children = process[p].children
      /\ r.thread_joins = process[p].thread_joins /\ r.thread_list = process[p].thread_list
  BY <1>1 DEF ProcessRecord
<1>3. process' = [process EXCEPT ![p] = r]
  OBVIOUS
<1> HIDE DEF r
<1>4. /\ process' \in [Thread -> ProcessRecord]
      /\ stateOf' = [stateOf EXCEPT ![p] = r.state]
      /\ markedOf' = [markedOf EXCEPT ![p] = r.marked_for_slaughter]
      /\ childrenOf' = [childrenOf EXCEPT ![p] = r.children]
      /\ joinsOf' = [joinsOf EXCEPT ![p] = r.thread_joins]
      /\ listOf' = [listOf EXCEPT ![p] = r.thread_list]
  BY <1>2, <1>3, SetProcess
<1> QED BY <1>2, <1>4 DEF stateOf, childrenOf, joinsOf, listOf

\* A thread is linked into thread_list.
LEMMA SetList ==
  ASSUME RecordInv, NEW p \in Thread, NEW s \in Seq(Thread),
         process' = [process EXCEPT ![p].thread_list = s]
  PROVE  /\ process' \in [Thread -> ProcessRecord]
         /\ listOf' = [listOf EXCEPT ![p] = s]
         /\ UNCHANGED <<stateOf, markedOf, childrenOf, joinsOf>>
<1> DEFINE r == [process[p] EXCEPT !.thread_list = s]
<1>1. process[p] \in ProcessRecord
  BY DEF RecordInv
<1>2. /\ r.state = process[p].state /\ r.marked_for_slaughter = process[p].marked_for_slaughter
      /\ r.children = process[p].children /\ r.thread_joins = process[p].thread_joins
      /\ r.thread_list = s
  BY <1>1 DEF ProcessRecord
<1>3. process' = [process EXCEPT ![p] = r]
  OBVIOUS
<1>4. r \in ProcessRecord
  BY <1>1 DEF ProcessRecord
<1> HIDE DEF r
<1>5. /\ process' \in [Thread -> ProcessRecord]
      /\ stateOf' = [stateOf EXCEPT ![p] = r.state]
      /\ markedOf' = [markedOf EXCEPT ![p] = r.marked_for_slaughter]
      /\ childrenOf' = [childrenOf EXCEPT ![p] = r.children]
      /\ joinsOf' = [joinsOf EXCEPT ![p] = r.thread_joins]
      /\ listOf' = [listOf EXCEPT ![p] = r.thread_list]
  BY <1>3, <1>4, SetProcess
<1> QED BY <1>2, <1>5 DEF stateOf, markedOf, childrenOf, joinsOf

\* A join_elem is marked as joined.
LEMMA SetJoined ==
  ASSUME RecordInv, NEW x \in Thread, NEW b \in BOOLEAN,
         join_elem' = [join_elem EXCEPT ![x].joined = b]
  PROVE  /\ join_elem' \in [Thread -> ElemRecord]
         /\ joinedOf' = [joinedOf EXCEPT ![x] = b] /\ UNCHANGED joinOf
BY DEF RecordInv, ElemRecord, joinedOf, joinOf

\* Its semaphore goes up or down.
LEMMA SetJoin ==
  ASSUME RecordInv, NEW x \in Thread, NEW n \in Nat,
         join_elem' = [join_elem EXCEPT ![x].join = n]
  PROVE  /\ join_elem' \in [Thread -> ElemRecord]
         /\ joinOf' = [joinOf EXCEPT ![x] = n] /\ UNCHANGED joinedOf
BY DEF RecordInv, ElemRecord, joinedOf, joinOf

\* A wait_status is set up.
LEMMA SetStatus ==
  ASSUME RecordInv, NEW c \in Thread, NEW r \in StatusRecord,
         wait_status' = [wait_status EXCEPT ![c] = r]
  PROVE  /\ wait_status' \in [Thread -> StatusRecord]
         /\ liveOf' = [liveOf EXCEPT ![c] = r.live] /\ refOf' = [refOf EXCEPT ![c] = r.ref_cnt]
         /\ codeOf' = [codeOf EXCEPT ![c] = r.exit_code] /\ deadOf' = [deadOf EXCEPT ![c] = r.dead]
BY DEF RecordInv, liveOf, refOf, codeOf, deadOf

\* It is freed.
LEMMA SetLive ==
  ASSUME RecordInv, NEW c \in Thread, NEW b \in BOOLEAN,
         wait_status' = [wait_status EXCEPT ![c].live = b]
  PROVE  /\ wait_status' \in [Thread -> StatusRecord]
         /\ liveOf' = [liveOf EXCEPT ![c] = b] /\ UNCHANGED <<refOf, codeOf, deadOf>>
BY DEF RecordInv, StatusRecord, liveOf, refOf, codeOf, deadOf

\* release_child counts down.
LEMMA SetRef ==
  ASSUME RecordInv, NEW c \in Thread, NEW n \in Int,
         wait_status' = [wait_status EXCEPT ![c].ref_cnt = n]
  PROVE  /\ wait_status' \in [Thread -> StatusRecord]
         /\ refOf' = [refOf EXCEPT ![c] = n] /\ UNCHANGED <<liveOf, codeOf, deadOf>>
BY DEF RecordInv, StatusRecord, liveOf, refOf, codeOf, deadOf

\* The exit code is set.
LEMMA SetCode ==
  ASSUME RecordInv, NEW c \in Thread, NEW e \in Status,
         wait_status' = [wait_status EXCEPT ![c].exit_code = e]
  PROVE  /\ wait_status' \in [Thread -> StatusRecord]
         /\ codeOf' = [codeOf EXCEPT ![c] = e] /\ UNCHANGED <<liveOf, refOf, deadOf>>
BY DEF RecordInv, StatusRecord, liveOf, refOf, codeOf, deadOf

\* Its semaphore goes up or down.
LEMMA SetDead ==
  ASSUME RecordInv, NEW c \in Thread, NEW n \in Nat,
         wait_status' = [wait_status EXCEPT ![c].dead = n]
  PROVE  /\ wait_status' \in [Thread -> StatusRecord]
         /\ deadOf' = [deadOf EXCEPT ![c] = n] /\ UNCHANGED <<liveOf, refOf, codeOf>>
BY DEF RecordInv, StatusRecord, liveOf, refOf, codeOf, deadOf

\* The assumptions on the constants that the proofs need most.
LEMMA Basics == Root \in Thread /\ None \notin Thread
BY ProcessAssumption

-----------------------------------------------------------------------------
(***************************************************************************)
(* The steps, field by field: t is the thread that takes the step, p its   *)
(* process, c or x the process or thread it is about.                      *)
(***************************************************************************)
Live(p) == stateOf[p] = "live"

\* Function g is f but for the value v at x.
Becomes(f, g, x, v) == g[x] = v /\ \A z \in Thread : z # x => g[z] = f[z]

\* What a thread of a live process is about to do.
Acts(t, p, from) == freeing[t] = None /\ pcb[t] = p /\ Live(p) /\ pc[t] = from

SameProcesses == UNCHANGED <<stateOf, markedOf, childrenOf, joinsOf, listOf>>
SameElems     == UNCHANGED <<joinedOf, joinOf>>
SameStatuses  == UNCHANGED <<liveOf, refOf, codeOf, deadOf>>
SameRecords   == SameProcesses /\ SameElems /\ SameStatuses

ExecuteStep(t, p, c) ==
  /\ Acts(t, p, "user") /\ pc[c] = "none"
  /\ pc'[t] = "load_done" /\ pc'[c] = "start_process"
  /\ \A z \in Thread : z # t /\ z # c => pc'[z] = pc[z]
  /\ Becomes(arg, arg', t, c)
  /\ UNCHANGED <<pcb, at, freeing, load, returned>> /\ SameRecords

StartStep(t) ==
  /\ freeing[t] = None /\ pc[t] = "start_process" /\ Becomes(pc, pc', t, "user")
  /\ Becomes(pcb, pcb', t, t) /\ Becomes(load, load', t, "ok")
  /\ Becomes(stateOf, stateOf', t, "live") /\ \A z \in Thread : z # t => markedOf'[z] = markedOf[z]
  /\ Becomes(childrenOf, childrenOf', t, {}) /\ Becomes(joinsOf, joinsOf', t, {t})
  /\ Becomes(listOf, listOf', t, <<t>>)
  /\ Becomes(liveOf, liveOf', t, TRUE) /\ Becomes(refOf, refOf', t, 2)
  /\ Becomes(codeOf, codeOf', t, -1) /\ Becomes(deadOf, deadOf', t, 0)
  /\ UNCHANGED <<arg, at, freeing, returned>> /\ SameElems

StartFailsStep(t) ==
  /\ freeing[t] = None /\ pc[t] = "start_process" /\ Becomes(pc, pc', t, "gone")
  /\ Becomes(load, load', t, "failed")
  /\ UNCHANGED <<pcb, arg, at, freeing, returned>> /\ SameRecords

ExecutedStep(t, p, c) ==
  /\ Acts(t, p, "load_done") /\ arg[t] = c /\ load[c] = "ok"
  /\ Becomes(pc, pc', t, "user") /\ Becomes(arg, arg', t, None)
  /\ Becomes(childrenOf, childrenOf', p, childrenOf[p] \cup {c})
  /\ UNCHANGED <<pcb, at, freeing, load, returned, stateOf, markedOf, joinsOf, listOf>>
  /\ SameElems /\ SameStatuses

NotExecutedStep(t, p, c) ==
  /\ Acts(t, p, "load_done") /\ arg[t] = c /\ load[c] = "failed"
  /\ Becomes(pc, pc', t, "user") /\ Becomes(arg, arg', t, None)
  /\ UNCHANGED <<pcb, at, freeing, load, returned>> /\ SameRecords

FindStep(t, c) ==
  /\ Acts(t, t, "user") /\ c \in childrenOf[t]
  /\ Becomes(pc, pc', t, "wait") /\ Becomes(arg, arg', t, c)
  /\ UNCHANGED <<pcb, at, freeing, load, returned>> /\ SameRecords

RemoveStep(t, p, c) ==
  /\ Acts(t, p, "wait") /\ arg[t] = c
  /\ Becomes(pc, pc', t, "dead")
  /\ Becomes(childrenOf, childrenOf', p, childrenOf[p] \ {c})
  /\ UNCHANGED <<pcb, arg, at, freeing, load, returned, stateOf, markedOf, joinsOf, listOf>>
  /\ SameElems /\ SameStatuses

ChildDeadStep(t, p, c) ==
  /\ Acts(t, p, "dead") /\ arg[t] = c /\ deadOf[c] > 0
  /\ Becomes(pc, pc', t, "reap") /\ Becomes(deadOf, deadOf', c, deadOf[c] - 1)
  /\ Becomes(returned, returned', c, Append(returned[c], codeOf[c]))
  /\ UNCHANGED <<pcb, arg, at, freeing, load, liveOf, refOf, codeOf>> /\ SameProcesses /\ SameElems

\* Thread t gives up a reference to the wait_status of c.
Releases(t, c) ==
  /\ Becomes(refOf, refOf', c, refOf[c] - 1)
  /\ Becomes(freeing, freeing', t, IF refOf[c] = 1 THEN c ELSE None)

ReapStep(t, p, c) ==
  /\ Acts(t, p, "reap") /\ arg[t] = c /\ Releases(t, c)
  /\ Becomes(pc, pc', t, "user") /\ Becomes(arg, arg', t, None)
  /\ UNCHANGED <<pcb, at, load, returned, liveOf, codeOf, deadOf>> /\ SameProcesses /\ SameElems

FreeStatusStep(t, c) ==
  /\ freeing[t] = c /\ Becomes(freeing, freeing', t, None) /\ Becomes(liveOf, liveOf', c, FALSE)
  /\ UNCHANGED <<pc, pcb, arg, at, load, returned, refOf, codeOf, deadOf>> /\ SameProcesses /\ SameElems

ExecuteThreadStep(t, p, x) ==
  /\ Acts(t, p, "user") /\ pc[x] = "none" /\ t # Root
  /\ pc'[t] = "pthread_load_done" /\ pc'[x] = "start_pthread"
  /\ arg'[t] = x /\ arg'[x] = p
  /\ \A z \in Thread : z # t /\ z # x => pc'[z] = pc[z] /\ arg'[z] = arg[z]
  /\ UNCHANGED <<pcb, at, freeing, load, returned>> /\ SameRecords

StartThreadStep(t, p) ==
  /\ freeing[t] = None /\ pc[t] = "start_pthread" /\ arg[t] = p
  /\ Becomes(pc, pc', t, "link") /\ Becomes(pcb, pcb', t, p) /\ Becomes(arg, arg', t, None)
  /\ Becomes(joinsOf, joinsOf', p, joinsOf[p] \cup {t})
  /\ UNCHANGED <<at, freeing, load, returned, stateOf, markedOf, childrenOf, listOf>>
  /\ SameElems /\ SameStatuses

LinkStep(t, p) ==
  /\ Acts(t, p, "link") /\ Becomes(pc, pc', t, "setup")
  /\ Becomes(listOf, listOf', p, Append(listOf[p], t))
  /\ UNCHANGED <<pcb, arg, at, freeing, load, returned, stateOf, markedOf, childrenOf, joinsOf>>
  /\ SameElems /\ SameStatuses

SetupStep(t, p) ==
  /\ Acts(t, p, "setup") /\ Becomes(pc, pc', t, "user") /\ Becomes(load, load', t, "ok")
  /\ UNCHANGED <<pcb, arg, at, freeing, returned>> /\ SameRecords

SetupFailsStep(t, p) ==
  /\ Acts(t, p, "setup") /\ Becomes(pc, pc', t, "gone") /\ Becomes(load, load', t, "failed")
  /\ Becomes(joinedOf, joinedOf', t, TRUE)
  /\ UNCHANGED <<pcb, arg, at, freeing, returned, joinOf>> /\ SameProcesses /\ SameStatuses

ExecutedThreadStep(t, p, x) ==
  /\ Acts(t, p, "pthread_load_done") /\ arg[t] = x /\ load[x] # "pending"
  /\ Becomes(pc, pc', t, "user") /\ Becomes(arg, arg', t, None)
  /\ UNCHANGED <<pcb, at, freeing, load, returned>> /\ SameRecords

\* Thread t finds that it may join x: from one place of the code to another.
Tests(t, p, x, from, to) ==
  /\ Acts(t, p, from) /\ x \in joinsOf[p] /\ ~ joinedOf[x]
  /\ Becomes(pc, pc', t, to) /\ Becomes(arg, arg', t, x)
  /\ UNCHANGED <<pcb, at, freeing, load, returned>> /\ SameRecords

\* It sets joined.
Begins(t, p, x, from, to) ==
  /\ Acts(t, p, from) /\ arg[t] = x
  /\ Becomes(pc, pc', t, to) /\ Becomes(joinedOf, joinedOf', x, TRUE)
  /\ UNCHANGED <<pcb, arg, at, freeing, load, returned, joinOf>> /\ SameProcesses /\ SameStatuses

\* And is woken.
Joined(t, p, x, from, to) ==
  /\ Acts(t, p, from) /\ arg[t] = x /\ joinOf[x] > 0
  /\ Becomes(pc, pc', t, to) /\ Becomes(arg, arg', t, None)
  /\ Becomes(joinOf, joinOf', x, joinOf[x] - 1) /\ Becomes(joinsOf, joinsOf', p, joinsOf[p] \ {x})
  /\ UNCHANGED <<pcb, freeing, load, returned, stateOf, markedOf, childrenOf, listOf, joinedOf>>
  /\ SameStatuses

JoinStep(t, p, x)   == t # Root /\ Tests(t, p, x, "user", "joining")
BeginStep(t, p, x)  == Begins(t, p, x, "joining", "join")
JoinedStep(t, p, x) == Joined(t, p, x, "join", "user") /\ UNCHANGED at

\* The joiner of t is woken.
Woken(t, p) ==
  \/ t \in joinsOf[p] /\ Becomes(joinOf, joinOf', t, joinOf[t] + 1)
  \/ t \notin joinsOf[p] /\ UNCHANGED joinOf

ThreadExitStep(t, p) ==
  /\ Acts(t, p, "user") /\ t # p /\ Woken(t, p) /\ Becomes(pc, pc', t, "dying")
  /\ UNCHANGED <<pcb, arg, at, freeing, load, returned, joinedOf>> /\ SameProcesses /\ SameStatuses

GoneStep(t, p) ==
  /\ Acts(t, p, "dying") /\ Becomes(pc, pc', t, "gone")
  /\ UNCHANGED <<pcb, arg, at, freeing, load, returned>> /\ SameRecords

\* From here on t is the main thread of its process.
MainExitStep(t) ==
  /\ Acts(t, t, "user") /\ t # Root /\ Woken(t, t)
  /\ Becomes(pc, pc', t, "exit_main") /\ Becomes(at, at', t, 1)
  /\ UNCHANGED <<pcb, arg, freeing, load, returned, joinedOf>> /\ SameProcesses /\ SameStatuses

ExitStep(t, from) ==
  /\ Acts(t, t, from) /\ t # Root /\ Woken(t, t)
  /\ Becomes(pc, pc', t, "exit") /\ Becomes(at, at', t, 1)
  /\ \A z \in Thread : z # t => markedOf'[z] = markedOf[z] /\ codeOf'[z] = codeOf[z]
  /\ UNCHANGED <<pcb, arg, freeing, load, returned, joinedOf, liveOf, refOf, deadOf>>
  /\ UNCHANGED <<stateOf, childrenOf, joinsOf, listOf>>

\* The thread that the loop of t has reached, and the one that it joins then.
Reaches(t, x) == at[t] \in 1 .. Len(listOf[t]) /\ x = listOf[t][at[t]]
StandsFor(t, y) == \E x \in Thread : Reaches(t, x) /\ (x = y \/ pc[x] = "gone")

PassStep(t, x, from) ==
  /\ Acts(t, t, from) /\ Reaches(t, x)
  /\ pc[x] = "gone" \/ x \notin joinsOf[t] \/ joinedOf[x]
  /\ Becomes(at, at', t, at[t] + 1)
  /\ UNCHANGED <<pc, pcb, arg, freeing, load, returned>> /\ SameRecords

LoopJoinStep(t, x, from, to) == StandsFor(t, x) /\ Tests(t, t, x, from, to)
LoopBeginStep(t, x, from, to) == StandsFor(t, x) /\ Begins(t, t, x, from, to)
LoopJoinedStep(t, x, from, to) ==
  StandsFor(t, x) /\ Joined(t, t, x, from, to) /\ Becomes(at, at', t, at[t] + 1)

TablesStep(t) ==
  /\ Acts(t, t, "exit") /\ at[t] > Len(listOf[t])
  /\ Becomes(pc, pc', t, "children") /\ Becomes(at, at', t, 0)
  /\ UNCHANGED <<pcb, arg, freeing, load, returned>> /\ SameRecords

OrphanStep(t, c) ==
  /\ Acts(t, t, "children") /\ c \in childrenOf[t] /\ Releases(t, c)
  /\ Becomes(childrenOf, childrenOf', t, childrenOf[t] \ {c})
  /\ UNCHANGED <<pc, pcb, arg, at, load, returned, stateOf, markedOf, joinsOf, listOf>>
  /\ UNCHANGED <<liveOf, codeOf, deadOf>> /\ SameElems

ChildlessStep(t) ==
  /\ Acts(t, t, "children") /\ childrenOf[t] = {} /\ Becomes(pc, pc', t, "wait_status")
  /\ UNCHANGED <<pcb, arg, at, freeing, load, returned>> /\ SameRecords

WakeStep(t) ==
  /\ Acts(t, t, "wait_status") /\ Becomes(pc, pc', t, "release")
  /\ Becomes(deadOf, deadOf', t, deadOf[t] + 1)
  /\ UNCHANGED <<pcb, arg, at, freeing, load, returned, liveOf, refOf, codeOf>>
  /\ SameProcesses /\ SameElems

OwnStep(t) ==
  /\ Acts(t, t, "release") /\ Becomes(pc, pc', t, "free") /\ Releases(t, t)
  /\ UNCHANGED <<pcb, arg, at, load, returned, liveOf, codeOf, deadOf>> /\ SameProcesses /\ SameElems

FreeStep(t) ==
  /\ Acts(t, t, "free") /\ Becomes(pc, pc', t, "gone") /\ Becomes(pcb, pcb', t, None)
  /\ Becomes(stateOf, stateOf', t, "freed") /\ \A z \in Thread : z # t => markedOf'[z] = markedOf[z]
  /\ Becomes(childrenOf, childrenOf', t, {}) /\ Becomes(joinsOf, joinsOf', t, {})
  /\ Becomes(listOf, listOf', t, <<>>)
  /\ UNCHANGED <<arg, at, freeing, load, returned>> /\ SameElems /\ SameStatuses

IdleStep ==
  UNCHANGED <<pc, pcb, arg, at, freeing, load, returned>> /\ SameRecords

\* A step of thread t.
Step(t) ==
  \/ StartStep(t) \/ StartFailsStep(t)
  \/ \E p, c \in Thread :
       \/ ExecuteStep(t, p, c) \/ ExecutedStep(t, p, c) \/ NotExecutedStep(t, p, c)
       \/ RemoveStep(t, p, c) \/ ChildDeadStep(t, p, c) \/ ReapStep(t, p, c)
       \/ ExecuteThreadStep(t, p, c) \/ ExecutedThreadStep(t, p, c)
       \/ JoinStep(t, p, c) \/ BeginStep(t, p, c) \/ JoinedStep(t, p, c)
  \/ \E p \in Thread :
       \/ StartThreadStep(t, p) \/ LinkStep(t, p) \/ SetupStep(t, p) \/ SetupFailsStep(t, p)
       \/ ThreadExitStep(t, p) \/ GoneStep(t, p)
  \/ MainExitStep(t) \/ ExitStep(t, "user") \/ ExitStep(t, "exit_main")
  \/ \E c \in Thread :
       \/ PassStep(t, c, "exit") \/ PassStep(t, c, "exit_main")
       \/ LoopJoinStep(t, c, "exit", "exit_joining")
       \/ LoopJoinStep(t, c, "exit_main", "main_joining")
       \/ LoopBeginStep(t, c, "exit_joining", "exit_join")
       \/ LoopBeginStep(t, c, "main_joining", "main_join")
       \/ LoopJoinedStep(t, c, "exit_join", "exit") \/ LoopJoinedStep(t, c, "main_join", "exit_main")
       \/ FindStep(t, c) \/ OrphanStep(t, c) \/ FreeStatusStep(t, c)
  \/ TablesStep(t) \/ ChildlessStep(t) \/ WakeStep(t) \/ OwnStep(t) \/ FreeStep(t)
  \/ IdleStep

-----------------------------------------------------------------------------
(* The actions take these steps.                                           *)

\* A process has t in thread_joins, and its joiner is woken.
LEMMA WakeJoinerEffect ==
  ASSUME RecordInv, NEW t \in Thread, pcb[t] \in Thread, WakeJoiner(t)
  PROVE  /\ join_elem' \in [Thread -> ElemRecord] /\ UNCHANGED joinedOf
         /\ joinOf' = IF t \in joinsOf[pcb[t]] THEN [joinOf EXCEPT ![t] = joinOf[t] + 1] ELSE joinOf
<1>1. joinsOf[pcb[t]] = process[pcb[t]].thread_joins /\ joinOf[t] = join_elem[t].join
  BY DEF joinsOf, joinOf
<1>2. CASE t \in joinsOf[pcb[t]]
  <2>1. join_elem[t].join \in Nat
    BY DEF RecordInv, ElemRecord
  <2>2. join_elem' = [join_elem EXCEPT ![t].join = join_elem[t].join + 1]
    BY <1>1, <1>2 DEF WakeJoiner
  <2>3. join_elem[t].join + 1 \in Nat
    BY <2>1
  <2>4. /\ join_elem' \in [Thread -> ElemRecord]
        /\ joinOf' = [joinOf EXCEPT ![t] = join_elem[t].join + 1] /\ UNCHANGED joinedOf
    BY <2>2, <2>3, SetJoin
  <2> QED BY <1>1, <1>2, <2>4
<1>3. CASE t \notin joinsOf[pcb[t]]
  BY <1>1, <1>3, SameFields DEF WakeJoiner, elems, RecordInv
<1> QED BY <1>2, <1>3

\* A reference to the wait_status of c is given up.
LEMMA ReleaseEffect ==
  ASSUME RecordInv, NEW t, NEW c \in Thread, release_child(t, c)
  PROVE  /\ wait_status' \in [Thread -> StatusRecord] /\ UNCHANGED <<liveOf, codeOf, deadOf>>
         /\ refOf' = [refOf EXCEPT ![c] = refOf[c] - 1]
         /\ freeing' = IF refOf[c] = 1 THEN [freeing EXCEPT ![t] = c] ELSE freeing
<1>1. refOf[c] = wait_status[c].ref_cnt /\ wait_status[c].ref_cnt \in Int
  BY DEF refOf, RecordInv, StatusRecord
<1>2. wait_status' = [wait_status EXCEPT ![c].ref_cnt = refOf[c] - 1]
  BY <1>1 DEF release_child
<1>3. freeing' = IF refOf[c] - 1 = 0 THEN [freeing EXCEPT ![t] = c] ELSE freeing
  BY <1>1 DEF release_child
<1>4. refOf[c] \in Int /\ refOf[c] - 1 \in Int
  BY <1>1
<1>5. /\ wait_status' \in [Thread -> StatusRecord] /\ UNCHANGED <<liveOf, codeOf, deadOf>>
      /\ refOf' = [refOf EXCEPT ![c] = refOf[c] - 1]
  BY <1>2, <1>4, SetRef
<1>6. refOf[c] - 1 = 0 <=> refOf[c] = 1
  BY <1>4
<1> QED BY <1>3, <1>5, <1>6

\* Calls and returns that leave the records alone.
LEMMA QuietEffect ==
  ASSUME RecordInv, UNCHANGED <<process, join_elem, wait_status>>
  PROVE  RecordInv' /\ UNCHANGED <<processes, elems, statuses>>
BY SameFields

\* start_process: a live process with a thread, and a record with two holders.
LEMMA StartTaken ==
  ASSUME RecordInv, FieldInv, ShapeInv, NEW t \in Thread,
         freeing[t] = None, start_process(t)
  PROVE  RecordInv' /\ ShapeInv' /\ StartStep(t)
<1>1. PICK marked \in BOOLEAN :
        process' = [process EXCEPT ![t] =
          [state |-> "live", marked_for_slaughter |-> marked,
           children |-> {}, thread_joins |-> {t}, thread_list |-> <<t>>]]
  BY DEF start_process
<1> DEFINE r == [state |-> "live", marked_for_slaughter |-> marked,
                 children |-> {}, thread_joins |-> {t}, thread_list |-> <<t>>]
           w == [live |-> TRUE, ref_cnt |-> 2, exit_code |-> -1, dead |-> 0]
<1>2. r \in ProcessRecord /\ w \in StatusRecord
  <2>1. <<t>> \in Seq(Thread)
    OBVIOUS
  <2> QED BY <2>1 DEF ProcessRecord, StatusRecord, Status
<1>3. /\ r.state = "live" /\ r.marked_for_slaughter = marked /\ r.children = {}
      /\ r.thread_joins = {t} /\ r.thread_list = <<t>>
      /\ w.live = TRUE /\ w.ref_cnt = 2 /\ w.exit_code = -1 /\ w.dead = 0
  OBVIOUS
<1>4. process' = [process EXCEPT ![t] = r] /\ wait_status' = [wait_status EXCEPT ![t] = w]
  BY <1>1 DEF start_process
<1> HIDE DEF r, w
<1>5. /\ process' \in [Thread -> ProcessRecord]
      /\ stateOf' = [stateOf EXCEPT ![t] = r.state]
      /\ markedOf' = [markedOf EXCEPT ![t] = r.marked_for_slaughter]
      /\ childrenOf' = [childrenOf EXCEPT ![t] = r.children]
      /\ joinsOf' = [joinsOf EXCEPT ![t] = r.thread_joins]
      /\ listOf' = [listOf EXCEPT ![t] = r.thread_list]
  BY <1>2, <1>4, SetProcess
<1>6. /\ wait_status' \in [Thread -> StatusRecord]
      /\ liveOf' = [liveOf EXCEPT ![t] = w.live] /\ refOf' = [refOf EXCEPT ![t] = w.ref_cnt]
      /\ codeOf' = [codeOf EXCEPT ![t] = w.exit_code] /\ deadOf' = [deadOf EXCEPT ![t] = w.dead]
  BY <1>2, <1>4, SetStatus
<1>7. \A p \in Thread \ {t} : markedOf'[p] = markedOf[p]
  BY <1>5 DEF markedOf
<1>8. /\ pc[t] = "start_process" /\ pc' = [pc EXCEPT ![t] = "user"]
      /\ pcb' = [pcb EXCEPT ![t] = t] /\ load' = [load EXCEPT ![t] = "ok"]
      /\ stateOf' = [stateOf EXCEPT ![t] = "live"]
      /\ \A p \in Thread \ {t} : markedOf'[p] = markedOf[p]
      /\ childrenOf' = [childrenOf EXCEPT ![t] = {}]
      /\ joinsOf' = [joinsOf EXCEPT ![t] = {t}]
      /\ listOf' = [listOf EXCEPT ![t] = <<t>>]
      /\ liveOf' = [liveOf EXCEPT ![t] = TRUE] /\ refOf' = [refOf EXCEPT ![t] = 2]
      /\ codeOf' = [codeOf EXCEPT ![t] = -1] /\ deadOf' = [deadOf EXCEPT ![t] = 0]
      /\ RecordInv' /\ UNCHANGED <<arg, at, freeing, returned, elems>>
  BY <1>3, <1>5, <1>6, <1>7, SameFields DEF start_process, Go, RecordInv
<1>9. ShapeInv'
  BY <1>8 DEF ShapeInv, PC
<1>10. StartStep(t)
  BY <1>8 DEF StartStep, Becomes, Acts, FieldInv, ShapeInv, SameRecords, SameProcesses, SameElems,
     SameStatuses, processes, elems, statuses
<1> QED BY <1>8, <1>9, <1>10

\* start_process fails: the new thread goes, and its record with it.
LEMMA StartFailsTaken ==
  ASSUME RecordInv, FieldInv, ShapeInv, NEW t \in Thread,
         freeing[t] = None, start_process_fails(t)
  PROVE  RecordInv' /\ ShapeInv' /\ StartFailsStep(t)
<1>1. RecordInv'
  BY QuietEffect DEF start_process_fails, Go
<1>2. ShapeInv'
  BY QuietEffect DEF ShapeInv, PC, start_process_fails, Go
<1>3. StartFailsStep(t)
  BY QuietEffect DEF StartFailsStep, Becomes, Acts, FieldInv, ShapeInv, SameRecords,
     SameProcesses, SameElems, SameStatuses, processes, elems, statuses, start_process_fails, Go
<1> QED BY <1>1, <1>2, <1>3

\* process_execute creates the child's thread and waits for it.
LEMMA ExecuteTaken ==
  ASSUME RecordInv, FieldInv, ShapeInv, NEW t \in Thread, NEW p \in Thread, NEW c \in Thread,
         freeing[t] = None, pcb[t] = p, Live(p), process_execute(t, c)
  PROVE  RecordInv' /\ ShapeInv' /\ ExecuteStep(t, p, c)
<1>1. RecordInv'
  BY QuietEffect DEF process_execute, Calling, allocate_tid
<1>2. ShapeInv'
  BY QuietEffect DEF ShapeInv, PC, process_execute, Calling, allocate_tid
<1>3. ExecuteStep(t, p, c)
  BY QuietEffect DEF ExecuteStep, Becomes, Acts, FieldInv, ShapeInv, SameRecords, SameProcesses,
     SameElems, SameStatuses, processes, elems, statuses, process_execute, Calling, allocate_tid
<1> QED BY <1>1, <1>2, <1>3

\* process_execute returns: the child is among the children if it has started.
LEMMA ExecutedTaken ==
  ASSUME RecordInv, FieldInv, ShapeInv, NEW t \in Thread, NEW p \in Thread, NEW c \in Thread,
         freeing[t] = None, pcb[t] = p, Live(p), arg[t] = c, ExecuteReturns(t)
  PROVE  RecordInv' /\ ShapeInv' /\ (ExecutedStep(t, p, c) \/ NotExecutedStep(t, p, c))
<1>1. childrenOf[p] = process[p].children /\ childrenOf[p] \in SUBSET Thread
  BY DEF childrenOf, RecordInv, ProcessRecord
<1>2. /\ pc[t] = "load_done" /\ load[c] # "pending"
      /\ pc' = [pc EXCEPT ![t] = "user"] /\ arg' = [arg EXCEPT ![t] = None]
      /\ UNCHANGED <<pcb, at, freeing, load, returned, join_elem, wait_status>>
  BY DEF ExecuteReturns, Return, Call, Go
<1>3. ShapeInv'
  BY <1>2 DEF ShapeInv, PC
<1>4. ASSUME load[c] = "ok"
      PROVE  RecordInv' /\ ExecutedStep(t, p, c)
  <2>1. process' = [process EXCEPT ![p].children = childrenOf[p] \cup {c}]
    BY <1>1, <1>4 DEF ExecuteReturns
  <2>2. childrenOf[p] \cup {c} \in SUBSET Thread
    BY <1>1
  <2>3. /\ process' \in [Thread -> ProcessRecord]
        /\ childrenOf' = [childrenOf EXCEPT ![p] = childrenOf[p] \cup {c}]
        /\ UNCHANGED <<stateOf, markedOf, joinsOf, listOf>>
    BY <2>1, <2>2, SetChildren
  <2>4. RecordInv' /\ UNCHANGED <<elems, statuses>>
    BY <1>2, <2>3, SameFields DEF RecordInv
  <2> QED BY <1>2, <1>4, <2>3, <2>4 DEF ExecutedStep, Becomes, Acts, FieldInv, ShapeInv,
         SameElems, SameStatuses, elems, statuses
<1>5. ASSUME load[c] # "ok"
      PROVE  RecordInv' /\ NotExecutedStep(t, p, c)
  <2>1. process' = process
    BY <1>5 DEF ExecuteReturns
  <2>2. RecordInv' /\ UNCHANGED <<processes, elems, statuses>>
    BY <1>2, <2>1, SameFields
  <2> QED BY <1>2, <1>5, <2>2 DEF NotExecutedStep, Becomes, Acts, ShapeInv, SameRecords,
         SameProcesses, SameElems, SameStatuses, processes, elems, statuses
<1> QED BY <1>3, <1>4, <1>5

\* process_wait finds the child.
LEMMA FindTaken ==
  ASSUME RecordInv, FieldInv, ShapeInv, NEW t \in Thread, NEW c \in Thread,
         freeing[t] = None, pcb[t] = t, Live(t), process_wait(t, c)
  PROVE  RecordInv' /\ ShapeInv' /\ FindStep(t, c)
<1>1. RecordInv'
  BY QuietEffect DEF process_wait, Call, Go
<1>2. ShapeInv'
  BY QuietEffect DEF ShapeInv, PC, process_wait, Call, Go
<1>3. c \in childrenOf[t] /\ pc[t] = "user"
  BY DEF process_wait, Calling, childrenOf
<1>4. FindStep(t, c)
  BY <1>3, QuietEffect DEF FindStep, Becomes, Acts, FieldInv, ShapeInv, SameRecords,
     SameProcesses, SameElems, SameStatuses, processes, elems, statuses, process_wait, Call, Go
<1> QED BY <1>1, <1>2, <1>4

\* And takes it off the list.
LEMMA RemoveTaken ==
  ASSUME RecordInv, FieldInv, ShapeInv, NEW t \in Thread, NEW p \in Thread, NEW c \in Thread,
         freeing[t] = None, pcb[t] = p, Live(p), arg[t] = c, WaitRemoves(t)
  PROVE  RecordInv' /\ ShapeInv' /\ RemoveStep(t, p, c)
<1>1. childrenOf[p] = process[p].children /\ childrenOf[p] \in SUBSET Thread
  BY DEF childrenOf, RecordInv, ProcessRecord
<1>2. process' = [process EXCEPT ![p].children = childrenOf[p] \ {c}]
  BY <1>1 DEF WaitRemoves
<1>3. childrenOf[p] \ {c} \in SUBSET Thread
  BY <1>1
<1>4. /\ process' \in [Thread -> ProcessRecord]
      /\ childrenOf' = [childrenOf EXCEPT ![p] = childrenOf[p] \ {c}]
      /\ UNCHANGED <<stateOf, markedOf, joinsOf, listOf>>
  BY <1>2, <1>3, SetChildren
<1>5. /\ pc[t] = "wait" /\ pc' = [pc EXCEPT ![t] = "dead"]
      /\ RecordInv' /\ UNCHANGED <<elems, statuses>>
      /\ UNCHANGED <<pcb, arg, at, freeing, load, returned>>
  BY <1>4, SameFields DEF WaitRemoves, Go, RecordInv
<1>6. ShapeInv'
  BY <1>5 DEF ShapeInv, PC
<1>7. RemoveStep(t, p, c)
  BY <1>4, <1>5 DEF RemoveStep, Becomes, Acts, FieldInv, ShapeInv, SameElems, SameStatuses,
     elems, statuses
<1> QED BY <1>5, <1>6, <1>7

\* The exit code is read after the end.
LEMMA ChildDeadTaken ==
  ASSUME RecordInv, FieldInv, ShapeInv, NEW t \in Thread, NEW p \in Thread, NEW c \in Thread,
         freeing[t] = None, pcb[t] = p, Live(p), arg[t] = c, ChildDead(t)
  PROVE  RecordInv' /\ ShapeInv' /\ ChildDeadStep(t, p, c)
<1>1. /\ deadOf[c] = wait_status[c].dead /\ deadOf[c] \in Nat /\ codeOf[c] = wait_status[c].exit_code
  BY DEF deadOf, codeOf, RecordInv, StatusRecord
<1>2. deadOf[c] > 0 /\ wait_status' = [wait_status EXCEPT ![c].dead = deadOf[c] - 1]
  BY <1>1 DEF ChildDead
<1>3. deadOf[c] - 1 \in Nat
  BY <1>1, <1>2
<1>4. /\ wait_status' \in [Thread -> StatusRecord]
      /\ deadOf' = [deadOf EXCEPT ![c] = deadOf[c] - 1] /\ UNCHANGED <<liveOf, refOf, codeOf>>
  BY <1>2, <1>3, SetDead
<1>5. /\ pc[t] = "dead" /\ deadOf[arg[t]] > 0
      /\ pc' = [pc EXCEPT ![t] = "reap"]
      /\ deadOf' = [deadOf EXCEPT ![arg[t]] = deadOf[arg[t]] - 1]
      /\ returned' = [returned EXCEPT ![arg[t]] = Append(returned[arg[t]], codeOf[arg[t]])]
      /\ RecordInv' /\ UNCHANGED <<pcb, arg, at, freeing, load, processes, elems>>
      /\ UNCHANGED <<liveOf, refOf, codeOf>>
  BY <1>1, <1>2, <1>4, SameFields DEF ChildDead, Go, RecordInv
<1>6. ShapeInv'
  <2>1. Append(returned[c], codeOf[c]) \in Seq(Status)
    BY AppendProperties DEF ShapeInv, FieldInv
  <2>2. returned' \in [Thread -> Seq(Status)]
    BY <1>5, <2>1 DEF ShapeInv
  <2> QED BY <1>5, <2>2 DEF ShapeInv, PC
<1>7. ChildDeadStep(t, p, c)
  BY <1>5 DEF ChildDeadStep, Becomes, Acts, FieldInv, ShapeInv, SameRecords, SameProcesses,
     SameElems, SameStatuses, processes, elems, statuses
<1> QED BY <1>5, <1>6, <1>7

\* The parent's reference, in process_wait.
LEMMA ReapTaken ==
  ASSUME RecordInv, FieldInv, ShapeInv, NEW t \in Thread, NEW p \in Thread, NEW c \in Thread,
         freeing[t] = None, pcb[t] = p, Live(p), arg[t] = c, WaitReturns(t)
  PROVE  RecordInv' /\ ShapeInv' /\ ReapStep(t, p, c)
<1>1. release_child(t, arg[t])
  BY DEF WaitReturns
<1>2. /\ pc[t] = "reap" /\ pc' = [pc EXCEPT ![t] = "user"] /\ arg' = [arg EXCEPT ![t] = None]
      /\ refOf' = [refOf EXCEPT ![arg[t]] = refOf[arg[t]] - 1]
      /\ freeing' = IF refOf[arg[t]] = 1 THEN [freeing EXCEPT ![t] = arg[t]] ELSE freeing
      /\ RecordInv' /\ UNCHANGED <<pcb, at, load, returned, processes, elems>>
      /\ UNCHANGED <<liveOf, codeOf, deadOf>>
  BY <1>1, ReleaseEffect, SameFields DEF WaitReturns, Return, Call, Go, RecordInv
<1>3. ShapeInv'
  BY <1>2 DEF ShapeInv, PC
<1>4. ReapStep(t, p, c)
  BY <1>2 DEF ReapStep, Releases, Becomes, Acts, FieldInv, ShapeInv, SameRecords, SameProcesses,
     SameElems, SameStatuses, processes, elems, statuses
<1> QED BY <1>2, <1>3, <1>4

\* The record is freed.
LEMMA FreeStatusTaken ==
  ASSUME RecordInv, FieldInv, ShapeInv, NEW t \in Thread,
         FreeStatus(t)
  PROVE  RecordInv' /\ ShapeInv' /\ FreeStatusStep(t, freeing[t])
<1>1. freeing[t] \in Thread
  BY DEF ShapeInv, FreeStatus
<1>2. wait_status' = [wait_status EXCEPT ![freeing[t]].live = FALSE]
  BY DEF FreeStatus
<1>3. /\ freeing[t] \in Thread /\ freeing' = [freeing EXCEPT ![t] = None]
      /\ liveOf' = [liveOf EXCEPT ![freeing[t]] = FALSE]
      /\ RecordInv' /\ UNCHANGED <<pc, pcb, arg, at, load, returned, processes, elems>>
      /\ UNCHANGED <<refOf, codeOf, deadOf>>
  BY <1>1, <1>2, SetLive, SameFields DEF FreeStatus, RecordInv
<1>4. ShapeInv'
  BY <1>3 DEF ShapeInv, PC
<1>5. FreeStatusStep(t, freeing[t])
  BY <1>3 DEF FreeStatusStep, Becomes, Acts, FieldInv, ShapeInv, SameRecords, SameProcesses,
     SameElems, SameStatuses, processes, elems, statuses
<1> QED BY <1>3, <1>4, <1>5

\* pthread_execute creates a thread and waits for it.
LEMMA ExecuteThreadTaken ==
  ASSUME RecordInv, FieldInv, ShapeInv, NEW t \in Thread, NEW p \in Thread, NEW c \in Thread,
         freeing[t] = None, pcb[t] = p, Live(p), pthread_execute(t, c)
  PROVE  RecordInv' /\ ShapeInv' /\ ExecuteThreadStep(t, p, c)
<1>1. RecordInv'
  BY QuietEffect DEF pthread_execute, User, Calling, allocate_tid
<1>2. ShapeInv'
  BY QuietEffect DEF ShapeInv, PC, pthread_execute, User, Calling, allocate_tid
<1>3. ExecuteThreadStep(t, p, c)
  BY QuietEffect DEF ExecuteThreadStep, Becomes, Acts, FieldInv, ShapeInv, SameRecords,
     SameProcesses, SameElems, SameStatuses, processes, elems, statuses, pthread_execute, User,
     Calling, allocate_tid
<1> QED BY <1>1, <1>2, <1>3

\* start_pthread: one more thread of the process, which can be joined.
LEMMA StartThreadTaken ==
  ASSUME RecordInv, FieldInv, ShapeInv, NEW t \in Thread, NEW p \in Thread,
         freeing[t] = None, arg[t] = p, start_pthread(t)
  PROVE  RecordInv' /\ ShapeInv' /\ StartThreadStep(t, p)
<1>1. joinsOf[p] = process[p].thread_joins /\ joinsOf[p] \in SUBSET Thread
  BY DEF joinsOf, RecordInv, ProcessRecord
<1>2. process' = [process EXCEPT ![p].thread_joins = joinsOf[p] \cup {t}]
  BY <1>1 DEF start_pthread
<1>3. joinsOf[p] \cup {t} \in SUBSET Thread
  BY <1>1
<1>4. /\ process' \in [Thread -> ProcessRecord]
      /\ joinsOf' = [joinsOf EXCEPT ![p] = joinsOf[p] \cup {t}]
      /\ UNCHANGED <<stateOf, markedOf, childrenOf, listOf>>
  BY <1>2, <1>3, SetJoins
<1>5. /\ pc[t] = "start_pthread" /\ pc' = [pc EXCEPT ![t] = "link"]
      /\ pcb' = [pcb EXCEPT ![t] = arg[t]] /\ arg' = [arg EXCEPT ![t] = None]
      /\ RecordInv' /\ UNCHANGED <<elems, statuses, at, freeing, load, returned>>
  BY <1>4, SameFields DEF start_pthread, Call, Go, RecordInv
<1>6. ShapeInv'
  BY <1>5 DEF ShapeInv, PC
<1>7. StartThreadStep(t, p)
  BY <1>4, <1>5 DEF StartThreadStep, Becomes, FieldInv, ShapeInv, SameElems, SameStatuses,
     elems, statuses
<1> QED BY <1>5, <1>6, <1>7

\* It is linked into thread_list.
LEMMA LinkTaken ==
  ASSUME RecordInv, FieldInv, ShapeInv, NEW t \in Thread, NEW p \in Thread,
         freeing[t] = None, pcb[t] = p, Live(p), Link(t)
  PROVE  RecordInv' /\ ShapeInv' /\ LinkStep(t, p)
<1>1. listOf[p] = process[p].thread_list /\ listOf[p] \in Seq(Thread)
  BY DEF listOf, RecordInv, ProcessRecord
<1>2. process' = [process EXCEPT ![p].thread_list = Append(listOf[p], t)]
  BY <1>1 DEF Link
<1>3. Append(listOf[p], t) \in Seq(Thread)
  BY <1>1, AppendProperties
<1>4. /\ process' \in [Thread -> ProcessRecord]
      /\ listOf' = [listOf EXCEPT ![p] = Append(listOf[p], t)]
      /\ UNCHANGED <<stateOf, markedOf, childrenOf, joinsOf>>
  BY <1>2, <1>3, SetList
<1>5. /\ pc[t] = "link" /\ pc' = [pc EXCEPT ![t] = "setup"]
      /\ RecordInv' /\ UNCHANGED <<elems, statuses, pcb, arg, at, freeing, load, returned>>
  BY <1>4, SameFields DEF Link, Go, RecordInv
<1>6. ShapeInv'
  BY <1>5 DEF ShapeInv, PC
<1>7. LinkStep(t, p)
  BY <1>4, <1>5 DEF LinkStep, Becomes, Acts, FieldInv, ShapeInv, SameElems, SameStatuses,
     elems, statuses
<1> QED BY <1>5, <1>6, <1>7

\* setup_thread: the thread runs, or it is gone and passes for joined.
LEMMA SetupTaken ==
  ASSUME RecordInv, FieldInv, ShapeInv, NEW t \in Thread, NEW p \in Thread,
         freeing[t] = None, pcb[t] = p, Live(p), setup_thread(t)
  PROVE  RecordInv' /\ ShapeInv' /\ (SetupStep(t, p) \/ SetupFailsStep(t, p))
<1>1. pc[t] = "setup" /\ UNCHANGED <<pcb, arg, at, freeing, returned, process, wait_status>>
  BY DEF setup_thread
<1>2. ASSUME load' = [load EXCEPT ![t] = "ok"], pc' = [pc EXCEPT ![t] = "user"], UNCHANGED join_elem
      PROVE  RecordInv' /\ ShapeInv' /\ SetupStep(t, p)
  <2>1. RecordInv' /\ UNCHANGED <<processes, elems, statuses>>
    BY <1>1, <1>2, SameFields
  <2>2. ShapeInv'
    BY <1>1, <1>2 DEF ShapeInv, PC
  <2> QED BY <1>1, <1>2, <2>1, <2>2 DEF SetupStep, Becomes, Acts, ShapeInv, SameRecords,
         SameProcesses, SameElems, SameStatuses, processes, elems, statuses
<1>3. ASSUME load' = [load EXCEPT ![t] = "failed"], pc' = [pc EXCEPT ![t] = "gone"],
             join_elem' = [join_elem EXCEPT ![t].joined = TRUE]
      PROVE  RecordInv' /\ ShapeInv' /\ SetupFailsStep(t, p)
  <2>1. /\ join_elem' \in [Thread -> ElemRecord]
        /\ joinedOf' = [joinedOf EXCEPT ![t] = TRUE] /\ UNCHANGED joinOf
    BY <1>3, SetJoined
  <2>2. RecordInv' /\ UNCHANGED <<processes, statuses>>
    BY <1>1, <2>1, SameFields DEF RecordInv
  <2>3. ShapeInv'
    BY <1>1, <1>3 DEF ShapeInv, PC
  <2> QED BY <1>1, <1>3, <2>1, <2>2, <2>3 DEF SetupFailsStep, Becomes, Acts, FieldInv, ShapeInv,
         SameProcesses, SameStatuses, processes, statuses
<1> QED BY <1>2, <1>3 DEF setup_thread, Go

\* pthread_execute returns.
LEMMA ExecutedThreadTaken ==
  ASSUME RecordInv, FieldInv, ShapeInv, NEW t \in Thread, NEW p \in Thread, NEW c \in Thread,
         freeing[t] = None, pcb[t] = p, Live(p), arg[t] = c, PthreadExecuteReturns(t)
  PROVE  RecordInv' /\ ShapeInv' /\ ExecutedThreadStep(t, p, c)
<1>1. RecordInv'
  BY QuietEffect DEF PthreadExecuteReturns, Return, Call, Go
<1>2. ShapeInv'
  BY QuietEffect DEF ShapeInv, PC, PthreadExecuteReturns, Return, Call, Go
<1>3. ExecutedThreadStep(t, p, c)
  BY QuietEffect DEF ExecutedThreadStep, Becomes, Acts, FieldInv, ShapeInv, SameRecords,
     SameProcesses, SameElems, SameStatuses, processes, elems, statuses, PthreadExecuteReturns,
     Return, Call, Go
<1> QED BY <1>1, <1>2, <1>3

\* The test of pthread_join.
LEMMA JoinTaken ==
  ASSUME RecordInv, FieldInv, ShapeInv, NEW t \in Thread, NEW p \in Thread, NEW c \in Thread,
         freeing[t] = None, pcb[t] = p, Live(p), pthread_join(t, c)
  PROVE  RecordInv' /\ ShapeInv' /\ JoinStep(t, p, c)
<1>1. RecordInv'
  BY QuietEffect DEF pthread_join, Call, Go
<1>2. ShapeInv'
  BY QuietEffect DEF ShapeInv, PC, pthread_join, Call, Go
<1>3. pc[t] = "user" /\ t # Root /\ c \in joinsOf[p] /\ ~ joinedOf[c]
  BY DEF pthread_join, User, Calling, Joinable, joinsOf, joinedOf
<1>4. JoinStep(t, p, c)
  BY <1>3, QuietEffect DEF JoinStep, Tests, Becomes, Acts, FieldInv, ShapeInv, SameRecords,
     SameProcesses, SameElems, SameStatuses, processes, elems, statuses, pthread_join, Call, Go
<1> QED BY <1>1, <1>2, <1>4

\* JoinBegins sets joined.
LEMMA BeginTaken ==
  ASSUME RecordInv, FieldInv, ShapeInv, NEW t \in Thread, NEW p \in Thread, NEW c \in Thread,
         freeing[t] = None, pcb[t] = p, Live(p), arg[t] = c, JoinBegins(t),
         pc[t] # "joining" => p = t /\ StandsFor(t, c)
  PROVE  /\ RecordInv' /\ ShapeInv'
         /\ \/ BeginStep(t, p, c) \/ LoopBeginStep(t, c, "exit_joining", "exit_join")
            \/ LoopBeginStep(t, c, "main_joining", "main_join")
<1>1. /\ join_elem' = [join_elem EXCEPT ![c].joined = TRUE]
      /\ UNCHANGED <<pcb, arg, at, freeing, load, process, wait_status, returned>>
      /\ \/ pc[t] = "joining" /\ pc' = [pc EXCEPT ![t] = "join"]
         \/ pc[t] = "exit_joining" /\ pc' = [pc EXCEPT ![t] = "exit_join"]
         \/ pc[t] = "main_joining" /\ pc' = [pc EXCEPT ![t] = "main_join"]
  BY DEF JoinBegins, Go
<1>2. /\ join_elem' \in [Thread -> ElemRecord]
      /\ joinedOf' = [joinedOf EXCEPT ![c] = TRUE] /\ UNCHANGED joinOf
  BY <1>1, SetJoined
<1>3. RecordInv' /\ UNCHANGED <<processes, statuses>>
  BY <1>1, <1>2, SameFields DEF RecordInv
<1>4. ShapeInv'
  BY <1>1 DEF ShapeInv, PC
<1>5. SameProcesses /\ SameStatuses /\ Becomes(joinedOf, joinedOf', c, TRUE)
  BY <1>2, <1>3 DEF SameProcesses, SameStatuses, processes, statuses, Becomes, FieldInv
<1>6. \/ pc[t] = "joining" /\ Becomes(pc, pc', t, "join")
      \/ pc[t] = "exit_joining" /\ Becomes(pc, pc', t, "exit_join")
      \/ pc[t] = "main_joining" /\ Becomes(pc, pc', t, "main_join")
  BY <1>1 DEF Becomes, ShapeInv
<1>7. \/ BeginStep(t, p, c) \/ LoopBeginStep(t, c, "exit_joining", "exit_join")
      \/ LoopBeginStep(t, c, "main_joining", "main_join")
  BY <1>1, <1>2, <1>5, <1>6 DEF BeginStep, LoopBeginStep, Begins, Acts
<1> QED BY <1>3, <1>4, <1>7

\* JoinReturns: the joined thread has raised join, and the call of pthread_join or
\* the loop over thread_list goes on.
LEMMA JoinedTaken ==
  ASSUME RecordInv, FieldInv, ShapeInv, NEW t \in Thread, NEW p \in Thread, NEW c \in Thread,
         freeing[t] = None, pcb[t] = p, Live(p), arg[t] = c, JoinReturns(t),
         pc[t] # "join" => p = t /\ StandsFor(t, c)
  PROVE  /\ RecordInv' /\ ShapeInv'
         /\ \/ JoinedStep(t, p, c) \/ LoopJoinedStep(t, c, "exit_join", "exit")
            \/ LoopJoinedStep(t, c, "main_join", "exit_main")
<1>1. /\ joinsOf[p] = process[p].thread_joins /\ joinsOf[p] \in SUBSET Thread
      /\ joinOf[c] = join_elem[c].join /\ joinOf[c] \in Nat
  BY DEF joinsOf, joinOf, RecordInv, ProcessRecord, ElemRecord
<1>2. /\ joinOf[c] > 0
      /\ join_elem' = [join_elem EXCEPT ![c].join = joinOf[c] - 1]
      /\ process' = [process EXCEPT ![p].thread_joins = joinsOf[p] \ {c}]
  BY <1>1 DEF JoinReturns
<1>3. joinOf[c] - 1 \in Nat /\ joinsOf[p] \ {c} \in SUBSET Thread
  BY <1>1, <1>2
<1>4. /\ process' \in [Thread -> ProcessRecord]
      /\ joinsOf' = [joinsOf EXCEPT ![p] = joinsOf[p] \ {c}]
      /\ UNCHANGED <<stateOf, markedOf, childrenOf, listOf>>
  BY <1>2, <1>3, SetJoins
<1>5. /\ join_elem' \in [Thread -> ElemRecord]
      /\ joinOf' = [joinOf EXCEPT ![c] = joinOf[c] - 1] /\ UNCHANGED joinedOf
  BY <1>2, <1>3, SetJoin
<1>6. /\ \/ pc[t] = "join" /\ pc' = [pc EXCEPT ![t] = "user"] /\ at' = at
         \/ pc[t] = "exit_join" /\ pc' = [pc EXCEPT ![t] = "exit"] /\ at' = [at EXCEPT ![t] = at[t] + 1]
         \/ pc[t] = "main_join" /\ pc' = [pc EXCEPT ![t] = "exit_main"] /\ at' = [at EXCEPT ![t] = at[t] + 1]
      /\ arg' = [arg EXCEPT ![t] = None]
      /\ UNCHANGED <<pcb, freeing, load, returned, wait_status>>
  BY DEF JoinReturns, Call, Go
<1>7. RecordInv' /\ UNCHANGED statuses
  BY <1>4, <1>5, <1>6, SameFields DEF RecordInv
<1>8. ShapeInv'
  <2>1. at[t] + 1 \in Nat
    BY DEF ShapeInv
  <2>2. at \in [Thread -> Nat] /\ pc \in [Thread -> PC] /\ {"user", "exit", "exit_main"} \subseteq PC
    BY DEF ShapeInv, PC
  <2>3. at' \in [Thread -> Nat]
    BY <1>6, <2>1, <2>2
  <2>4. pc' \in [Thread -> PC]
    BY <1>6, <2>2
  <2> QED BY <1>6, <2>3, <2>4 DEF ShapeInv
<1>9. /\ Becomes(arg, arg', t, None)
      /\ Becomes(joinOf, joinOf', c, joinOf[c] - 1) /\ Becomes(joinsOf, joinsOf', p, joinsOf[p] \ {c})
  BY <1>4, <1>5, <1>6 DEF Becomes, ShapeInv, FieldInv
<1>10. /\ \/ pc[t] = "join" /\ Becomes(pc, pc', t, "user") /\ at' = at
          \/ pc[t] = "exit_join" /\ Becomes(pc, pc', t, "exit") /\ Becomes(at, at', t, at[t] + 1)
          \/ pc[t] = "main_join" /\ Becomes(pc, pc', t, "exit_main") /\ Becomes(at, at', t, at[t] + 1)
  BY <1>6 DEF Becomes, ShapeInv
<1>11. \/ JoinedStep(t, p, c) \/ LoopJoinedStep(t, c, "exit_join", "exit")
       \/ LoopJoinedStep(t, c, "main_join", "exit_main")
  BY <1>2, <1>4, <1>5, <1>6, <1>7, <1>9, <1>10 DEF JoinedStep, LoopJoinedStep, Joined, Acts,
     SameStatuses, statuses
<1> QED BY <1>7, <1>8, <1>11

\* pthread_exit of another thread: its joiner is woken.
LEMMA ThreadExitTaken ==
  ASSUME RecordInv, FieldInv, ShapeInv, NEW t \in Thread, NEW p \in Thread,
         freeing[t] = None, pcb[t] = p, Live(p), pc[t] = "user", t # Root, t # p, PthreadExit(t)
  PROVE  RecordInv' /\ ShapeInv' /\ ThreadExitStep(t, p)
<1>1. WakeJoiner(t)
  BY DEF PthreadExit
<1>2. /\ joinOf' = IF t \in joinsOf[pcb[t]] THEN [joinOf EXCEPT ![t] = joinOf[t] + 1] ELSE joinOf
      /\ \/ pcb[t] = t /\ pc' = [pc EXCEPT ![t] = "exit_main"] /\ at' = [at EXCEPT ![t] = 1]
         \/ pcb[t] # t /\ pc' = [pc EXCEPT ![t] = "dying"] /\ at' = at
      /\ RecordInv' /\ UNCHANGED <<pcb, arg, freeing, load, returned, joinedOf, processes, statuses>>
  BY <1>1, WakeJoinerEffect, SameFields DEF PthreadExit, Go, RecordInv
<1>3. ShapeInv'
  BY <1>2 DEF ShapeInv, PC
<1>4. ThreadExitStep(t, p)
  BY <1>2 DEF ThreadExitStep, Woken, Becomes, Acts, FieldInv, ShapeInv, SameRecords,
     SameProcesses, SameElems, SameStatuses, processes, elems, statuses
<1> QED BY <1>2, <1>3, <1>4

\* pthread_exit of a main thread: its joiner is woken, and it waits for the others.
LEMMA MainExitTaken ==
  ASSUME RecordInv, FieldInv, ShapeInv, NEW t \in Thread,
         freeing[t] = None, pcb[t] = t, Live(t), pc[t] = "user", t # Root, PthreadExit(t)
  PROVE  RecordInv' /\ ShapeInv' /\ MainExitStep(t)
<1>1. WakeJoiner(t)
  BY DEF PthreadExit
<1>2. /\ joinOf' = IF t \in joinsOf[pcb[t]] THEN [joinOf EXCEPT ![t] = joinOf[t] + 1] ELSE joinOf
      /\ \/ pcb[t] = t /\ pc' = [pc EXCEPT ![t] = "exit_main"] /\ at' = [at EXCEPT ![t] = 1]
         \/ pcb[t] # t /\ pc' = [pc EXCEPT ![t] = "dying"] /\ at' = at
      /\ RecordInv' /\ UNCHANGED <<pcb, arg, freeing, load, returned, joinedOf, processes, statuses>>
  BY <1>1, WakeJoinerEffect, SameFields DEF PthreadExit, Go, RecordInv
<1>3. pc' = [pc EXCEPT ![t] = "exit_main"] /\ at' = [at EXCEPT ![t] = 1]
  BY <1>2
<1>4. ShapeInv'
  BY <1>2, <1>3 DEF ShapeInv, PC
<1>5. MainExitStep(t)
  <2>1. Becomes(pc, pc', t, "exit_main") /\ Becomes(at, at', t, 1)
    BY <1>3 DEF Becomes, ShapeInv
  <2>2. Woken(t, t)
    BY <1>2 DEF Woken, Becomes, FieldInv
  <2>3. SameProcesses /\ SameStatuses
    BY <1>2 DEF SameProcesses, SameStatuses, processes, statuses
  <2> QED BY <1>2, <2>1, <2>2, <2>3 DEF MainExitStep, Acts
<1> QED BY <1>2, <1>4, <1>5

\* thread_exit: the page of the thread is freed.
LEMMA GoneTaken ==
  ASSUME RecordInv, FieldInv, ShapeInv, NEW t \in Thread, NEW p \in Thread,
         freeing[t] = None, pcb[t] = p, Live(p), thread_exit(t)
  PROVE  RecordInv' /\ ShapeInv' /\ GoneStep(t, p)
<1>1. RecordInv'
  BY QuietEffect DEF thread_exit, Go
<1>2. ShapeInv'
  BY QuietEffect DEF ShapeInv, PC, thread_exit, Go
<1>3. GoneStep(t, p)
  BY QuietEffect DEF GoneStep, Becomes, Acts, FieldInv, ShapeInv, SameRecords, SameProcesses,
     SameElems, SameStatuses, processes, elems, statuses, thread_exit, Go
<1> QED BY <1>1, <1>2, <1>3

\* process_exit: the joiner is woken, the others are marked.
LEMMA ExitTaken ==
  ASSUME RecordInv, FieldInv, ShapeInv, NEW t \in Thread,
         freeing[t] = None, pcb[t] = t, Live(t), NEW from, pc[t] = from, t # Root,
         NEW e \in Status,
         UNCHANGED wait_status \/ wait_status' = [wait_status EXCEPT ![pcb[t]].exit_code = e],
         process_exit(t)
  PROVE  RecordInv' /\ ShapeInv' /\ ExitStep(t, from)
<1>1. /\ process' \in [Thread -> ProcessRecord] /\ UNCHANGED <<stateOf, childrenOf, joinsOf, listOf>>
      /\ markedOf' = [markedOf EXCEPT ![pcb[t]] = TRUE]
  BY SetMarked DEF process_exit
<1>2. \A p \in Thread \ {pcb[t]} : markedOf'[p] = markedOf[p]
  BY <1>1 DEF markedOf
<1>3. WakeJoiner(t)
  BY DEF process_exit
<1>4. /\ wait_status' \in [Thread -> StatusRecord] /\ UNCHANGED <<liveOf, refOf, deadOf>>
      /\ codeOf' = [codeOf EXCEPT ![pcb[t]] = e] \/ UNCHANGED codeOf
  BY SetCode, SameFields DEF RecordInv, statuses
<1>5. /\ joinOf' = IF t \in joinsOf[pcb[t]] THEN [joinOf EXCEPT ![t] = joinOf[t] + 1] ELSE joinOf
      /\ pc' = [pc EXCEPT ![t] = "exit"] /\ at' = [at EXCEPT ![t] = 1]
      /\ \A p \in Thread \ {pcb[t]} : markedOf'[p] = markedOf[p]
      /\ codeOf' = [codeOf EXCEPT ![pcb[t]] = e] \/ UNCHANGED codeOf
      /\ RecordInv' /\ UNCHANGED <<pcb, arg, freeing, load, returned, joinedOf>>
      /\ UNCHANGED <<stateOf, childrenOf, joinsOf, listOf, liveOf, refOf, deadOf>>
  BY <1>1, <1>2, <1>3, <1>4, WakeJoinerEffect DEF process_exit, Go, RecordInv
<1>6. ShapeInv'
  BY <1>5 DEF ShapeInv, PC
<1>7. ExitStep(t, from)
  BY <1>5 DEF ExitStep, Woken, Becomes, Acts, FieldInv, ShapeInv, SameRecords, SameProcesses,
     SameElems, SameStatuses, processes, elems, statuses
<1> QED BY <1>5, <1>6, <1>7

\* A round of the loop over thread_list.
LEMMA LoopTaken ==
  ASSUME RecordInv, FieldInv, ShapeInv, NEW t \in Thread, NEW x \in Thread,
         freeing[t] = None, pcb[t] = t, Live(t), Reaches(t, x), JoinEach(t)
  PROVE  /\ RecordInv' /\ ShapeInv'
         /\ \/ PassStep(t, x, "exit") \/ PassStep(t, x, "exit_main")
            \/ \E y \in Thread : \/ LoopJoinStep(t, y, "exit", "exit_joining")
                               \/ LoopJoinStep(t, y, "exit_main", "main_joining")
<1>1. listOf[t] = process[t].thread_list /\ x = process[t].thread_list[at[t]]
  BY DEF listOf, Reaches
<1>2. joinsOf[t] = process[t].thread_joins /\ \A y \in Thread : joinedOf[y] = join_elem[y].joined
  BY DEF joinsOf, joinedOf
<1>3. /\ pc[t] \in {"exit", "exit_main"}
      /\ UNCHANGED <<pcb, freeing, load, process, join_elem, wait_status, returned>>
  BY DEF JoinEach
<1>4. RecordInv' /\ UNCHANGED <<processes, elems, statuses>>
  BY <1>3, SameFields
<1>5. SameRecords
  BY <1>4 DEF SameRecords, SameProcesses, SameElems, SameStatuses, processes, elems, statuses
<1>6. ASSUME NEW y \in Thread, y = x \/ pc[x] = "gone", Joinable(t, y), UNCHANGED at,
             Call(t, IF pc[t] = "exit" THEN "exit_joining" ELSE "main_joining", y)
      PROVE  /\ ShapeInv'
             /\ \/ LoopJoinStep(t, y, "exit", "exit_joining")
                \/ LoopJoinStep(t, y, "exit_main", "main_joining")
  <2>1. y \in joinsOf[t] /\ ~ joinedOf[y]
    BY <1>2, <1>6 DEF Joinable
  <2>2. StandsFor(t, y)
    BY <1>6 DEF StandsFor
  <2>3. /\ Becomes(arg, arg', t, y)
        /\ \/ pc[t] = "exit" /\ Becomes(pc, pc', t, "exit_joining")
           \/ pc[t] = "exit_main" /\ Becomes(pc, pc', t, "main_joining")
    BY <1>3, <1>6 DEF Call, Go, Becomes, ShapeInv
  <2>4. ShapeInv'
    BY <1>3, <1>6 DEF ShapeInv, PC, Call, Go
  <2> QED BY <1>3, <1>5, <1>6, <2>1, <2>2, <2>3, <2>4 DEF LoopJoinStep, Tests, Acts
<1>7. ASSUME pc[x] = "gone" \/ ~ Joinable(t, x), at' = [at EXCEPT ![t] = @ + 1],
             UNCHANGED <<pc, arg>>
      PROVE  ShapeInv' /\ (PassStep(t, x, "exit") \/ PassStep(t, x, "exit_main"))
  <2>1. pc[x] = "gone" \/ x \notin joinsOf[t] \/ joinedOf[x]
    BY <1>2, <1>7 DEF Joinable
  <2>2. ShapeInv'
    BY <1>3, <1>7 DEF ShapeInv
  <2>3. Becomes(at, at', t, at[t] + 1)
    BY <1>7 DEF Becomes, ShapeInv
  <2> QED BY <1>3, <1>5, <1>7, <2>1, <2>2, <2>3 DEF PassStep, Acts
<1>8. \/ /\ \E y \in Thread :
              /\ y = x \/ pc[x] = "gone"
              /\ Joinable(t, y)
              /\ Call(t, IF pc[t] = "exit" THEN "exit_joining" ELSE "main_joining", y)
         /\ UNCHANGED at
      \/ /\ pc[x] = "gone" \/ ~ Joinable(t, x)
         /\ at' = [at EXCEPT ![t] = @ + 1] /\ UNCHANGED <<pc, arg>>
  BY <1>1 DEF JoinEach, Threads
<1>9. CASE \E y \in Thread :
             /\ (y = x \/ pc[x] = "gone") /\ Joinable(t, y) /\ UNCHANGED at
             /\ Call(t, IF pc[t] = "exit" THEN "exit_joining" ELSE "main_joining", y)
  BY <1>4, <1>6, <1>9
<1>10. CASE /\ pc[x] = "gone" \/ ~ Joinable(t, x)
            /\ at' = [at EXCEPT ![t] = @ + 1] /\ UNCHANGED <<pc, arg>>
  BY <1>4, <1>7, <1>10
<1> QED BY <1>8, <1>9, <1>10

\* The tables of user locks and semaphores are freed, after the loop.
LEMMA TablesTaken ==
  ASSUME RecordInv, FieldInv, ShapeInv, NEW t \in Thread,
         freeing[t] = None, pcb[t] = t, Live(t), FreeTables(t)
  PROVE  RecordInv' /\ ShapeInv' /\ TablesStep(t)
<1>1. RecordInv'
  BY QuietEffect DEF FreeTables, Go, Threads, listOf
<1>2. ShapeInv'
  BY QuietEffect DEF ShapeInv, PC, FreeTables, Go, Threads, listOf
<1>3. TablesStep(t)
  BY QuietEffect DEF TablesStep, Becomes, Acts, FieldInv, ShapeInv, SameRecords, SameProcesses,
     SameElems, SameStatuses, processes, elems, statuses, FreeTables, Go, Threads, listOf
<1> QED BY <1>1, <1>2, <1>3

\* The parent's reference, at its exit.
LEMMA OrphanTaken ==
  ASSUME RecordInv, FieldInv, ShapeInv, NEW t \in Thread,
         freeing[t] = None, pcb[t] = t, Live(t), ReleaseChildren(t)
  PROVE  RecordInv' /\ ShapeInv' /\ (ChildlessStep(t) \/ \E c \in Thread : OrphanStep(t, c))
<1>1. childrenOf[t] = process[t].children /\ childrenOf[t] \in SUBSET Thread
  BY DEF childrenOf, RecordInv, ProcessRecord
<1>2. pc[t] = "children" /\ UNCHANGED <<pcb, arg, at, load, join_elem, returned>>
  BY DEF ReleaseChildren
<1>3. ASSUME NEW c \in childrenOf[t], UNCHANGED pc, release_child(t, c),
             process' = [process EXCEPT ![t].children = @ \ {c}]
      PROVE  RecordInv' /\ ShapeInv' /\ OrphanStep(t, c)
  <2>1. process' = [process EXCEPT ![t].children = childrenOf[t] \ {c}]
    BY <1>1, <1>3
  <2>2. childrenOf[t] \ {c} \in SUBSET Thread /\ c \in Thread
    BY <1>1
  <2>3. /\ process' \in [Thread -> ProcessRecord]
        /\ childrenOf' = [childrenOf EXCEPT ![t] = childrenOf[t] \ {c}]
        /\ UNCHANGED <<stateOf, markedOf, joinsOf, listOf>>
    BY <2>1, <2>2, SetChildren
  <2>4. /\ wait_status' \in [Thread -> StatusRecord] /\ UNCHANGED <<liveOf, codeOf, deadOf>>
        /\ refOf' = [refOf EXCEPT ![c] = refOf[c] - 1]
        /\ freeing' = IF refOf[c] = 1 THEN [freeing EXCEPT ![t] = c] ELSE freeing
    BY <1>3, <2>2, ReleaseEffect
  <2>5. RecordInv' /\ UNCHANGED elems
    BY <1>2, <2>3, <2>4, SameFields DEF RecordInv
  <2>6. ShapeInv'
    BY <1>2, <1>3, <2>2, <2>4 DEF ShapeInv
  <2>7. Releases(t, c) /\ Becomes(childrenOf, childrenOf', t, childrenOf[t] \ {c})
    BY <2>2, <2>3, <2>4 DEF Releases, Becomes, ShapeInv, FieldInv
  <2> QED BY <1>2, <1>3, <2>3, <2>4, <2>5, <2>6, <2>7 DEF OrphanStep, Acts, SameElems, elems
<1>4. ASSUME childrenOf[t] = {}, Go(t, "wait_status"), UNCHANGED <<process, wait_status, freeing>>
      PROVE  RecordInv' /\ ShapeInv' /\ ChildlessStep(t)
  <2>1. RecordInv' /\ UNCHANGED <<processes, elems, statuses>>
    BY <1>2, <1>4, SameFields
  <2>2. ShapeInv'
    BY <1>2, <1>4 DEF ShapeInv, PC, Go
  <2> QED BY <1>2, <1>4, <2>1, <2>2 DEF ChildlessStep, Becomes, Acts, Go, ShapeInv, SameRecords,
         SameProcesses, SameElems, SameStatuses, processes, elems, statuses
<1> QED BY <1>1, <1>3, <1>4 DEF ReleaseChildren

\* The parent is woken.
LEMMA WakeTaken ==
  ASSUME RecordInv, FieldInv, ShapeInv, NEW t \in Thread,
         freeing[t] = None, pcb[t] = t, Live(t), WakeParent(t)
  PROVE  RecordInv' /\ ShapeInv' /\ WakeStep(t)
<1>1. deadOf[pcb[t]] = wait_status[pcb[t]].dead /\ deadOf[pcb[t]] \in Nat
  BY DEF deadOf, RecordInv, StatusRecord
<1>2. wait_status' = [wait_status EXCEPT ![pcb[t]].dead = deadOf[pcb[t]] + 1]
  BY <1>1 DEF WakeParent
<1>3. deadOf[pcb[t]] + 1 \in Nat
  BY <1>1
<1>4. /\ wait_status' \in [Thread -> StatusRecord]
      /\ deadOf' = [deadOf EXCEPT ![pcb[t]] = deadOf[pcb[t]] + 1] /\ UNCHANGED <<liveOf, refOf, codeOf>>
  BY <1>2, <1>3, SetDead
<1>5. /\ pc[t] = "wait_status" /\ pc' = [pc EXCEPT ![t] = "release"]
      /\ deadOf' = [deadOf EXCEPT ![pcb[t]] = deadOf[pcb[t]] + 1]
      /\ RecordInv' /\ UNCHANGED <<pcb, arg, at, freeing, load, returned, processes, elems>>
      /\ UNCHANGED <<liveOf, refOf, codeOf>>
  BY <1>4, SameFields DEF WakeParent, Go, RecordInv
<1>6. ShapeInv'
  BY <1>5 DEF ShapeInv, PC
<1>7. WakeStep(t)
  BY <1>5 DEF WakeStep, Becomes, Acts, FieldInv, ShapeInv, SameRecords, SameProcesses, SameElems,
     SameStatuses, processes, elems, statuses
<1> QED BY <1>5, <1>6, <1>7

\* The process's own reference.
LEMMA OwnTaken ==
  ASSUME RecordInv, FieldInv, ShapeInv, NEW t \in Thread,
         freeing[t] = None, pcb[t] = t, Live(t), ReleaseOwn(t)
  PROVE  RecordInv' /\ ShapeInv' /\ OwnStep(t)
<1>1. release_child(t, pcb[t])
  BY DEF ReleaseOwn
<1>2. /\ pc[t] = "release" /\ pc' = [pc EXCEPT ![t] = "free"]
      /\ refOf' = [refOf EXCEPT ![pcb[t]] = refOf[pcb[t]] - 1]
      /\ freeing' = IF refOf[pcb[t]] = 1 THEN [freeing EXCEPT ![t] = pcb[t]] ELSE freeing
      /\ RecordInv' /\ UNCHANGED <<pcb, arg, at, load, returned, processes, elems>>
      /\ UNCHANGED <<liveOf, codeOf, deadOf>>
  BY <1>1, ReleaseEffect, SameFields DEF ReleaseOwn, Go, RecordInv
<1>3. ShapeInv'
  BY <1>2 DEF ShapeInv, PC
<1>4. OwnStep(t)
  BY <1>2 DEF OwnStep, Releases, Becomes, Acts, FieldInv, ShapeInv, SameRecords, SameProcesses,
     SameElems, SameStatuses, processes, elems, statuses
<1> QED BY <1>2, <1>3, <1>4

\* The pcb is freed.
LEMMA FreeTaken ==
  ASSUME RecordInv, FieldInv, ShapeInv, NEW t \in Thread,
         freeing[t] = None, pcb[t] = t, Live(t), FreeProcess(t)
  PROVE  RecordInv' /\ ShapeInv' /\ FreeStep(t)
<1> DEFINE r == [NoProcess EXCEPT !.state = "freed"]
<1>1. /\ r \in ProcessRecord /\ r.state = "freed" /\ r.children = {} /\ r.thread_joins = {}
      /\ r.thread_list = <<>>
  <2>1. <<>> \in Seq(Thread)
    BY EmptySeq
  <2> QED BY <2>1 DEF NoProcess, ProcessRecord
<1>2. process' = [process EXCEPT ![t] = r]
  BY DEF FreeProcess
<1> HIDE DEF r
<1>3. /\ process' \in [Thread -> ProcessRecord]
      /\ stateOf' = [stateOf EXCEPT ![t] = r.state]
      /\ markedOf' = [markedOf EXCEPT ![t] = r.marked_for_slaughter]
      /\ childrenOf' = [childrenOf EXCEPT ![t] = r.children]
      /\ joinsOf' = [joinsOf EXCEPT ![t] = r.thread_joins]
      /\ listOf' = [listOf EXCEPT ![t] = r.thread_list]
  BY <1>1, <1>2, SetProcess
<1>4. \A p \in Thread \ {t} : markedOf'[p] = markedOf[p]
  BY <1>3 DEF markedOf
<1>5. /\ pc[t] = "free" /\ pc' = [pc EXCEPT ![t] = "gone"] /\ pcb' = [pcb EXCEPT ![t] = None]
      /\ stateOf' = [stateOf EXCEPT ![t] = "freed"]
      /\ \A p \in Thread \ {t} : markedOf'[p] = markedOf[p]
      /\ childrenOf' = [childrenOf EXCEPT ![t] = {}]
      /\ joinsOf' = [joinsOf EXCEPT ![t] = {}]
      /\ listOf' = [listOf EXCEPT ![t] = <<>>]
      /\ RecordInv' /\ UNCHANGED <<arg, at, freeing, load, returned, elems, statuses>>
  BY <1>1, <1>3, <1>4, SameFields DEF FreeProcess, Go, RecordInv
<1>6. ShapeInv'
  BY <1>5 DEF ShapeInv, PC
<1>7. FreeStep(t)
  BY <1>5 DEF FreeStep, Becomes, Acts, FieldInv, ShapeInv, SameRecords, SameProcesses, SameElems,
     SameStatuses, processes, elems, statuses
<1> QED BY <1>5, <1>6, <1>7
=============================================================================
