---------------------------- MODULE CleanProofs ------------------------------
(***************************************************************************)
(* Proofs that a block of the buffer cache that is not dirty can be        *)
(* dropped, that a transfer is the one a thread has asked for, and that    *)
(* the types of BufferCache are kept within the bounds of the model: a     *)
(* strengthening of the invariant of CacheProofs.                          *)
(***************************************************************************)
EXTENDS CacheProofs, FiniteSetTheorems

-----------------------------------------------------------------------------
(* What is written back, and what is read meanwhile.                       *)

NoFlush  == \A t \in Thread : pc[t] \notin {"flush", "flush_write", "off"}
AllValid == \A i \in Slot : block[i].valid = 1

\* A block is written back when all are in use; then it is block 0, and its old sector
\* is in no block any more.
Victim(t) ==
  /\ pc[t] = "claim" => at[t] = 0 \/ block[at[t]].valid = 0
  /\ pc[t] = "claim" /\ old[t].flush => AllValid
  /\ pc[t] = "write_back" => AllValid /\ at[t] = 0 /\ \A j \in Slot : ~ Match(j, request[t].sec_no)
  /\ pc[t] \in {"write_back", "read_in"} => block[at[t]].valid = 1
VictimInv == \A t \in Thread : Victim(t)

\* While the disk writes a sector, who has a block for it has not read it yet.
WriteInv ==
  NoFlush /\ device.phase = "writing" =>
    \A j \in Slot : Match(j, device.sector) =>
      /\ block_lock[j] # None
      /\ ~ (pc[block_lock[j]] = "read_in" /\ io[block_lock[j]] = "done")

\* What a thread has read is what the disk holds.
ReadInv ==
  NoFlush => \A t \in Thread :
    pc[t] = "read_in" /\ io[t] = "done" => data[at[t]] = disk[block[at[t]].sector]

CleanInv == VictimInv /\ WriteInv /\ ReadInv /\ CleanIsOnDisk

-----------------------------------------------------------------------------
(* The victim.                                                             *)

\* A thread that stays where it is stays so while the blocks keep their names.
LEMMA VictimStays ==
  ASSUME TypeInv, NEW x \in Thread, Victim(x),
         \A i \in Slot : block'[i].sector = block[i].sector /\ block'[i].valid = block[i].valid,
         pc'[x] = pc[x], at'[x] = at[x], old'[x] = old[x], request'[x] = request[x]
  PROVE  Victim(x)'
<1>1. AllValid' <=> AllValid
  BY DEF AllValid
<1>2. \A s : \A j \in Slot : Match(j, s)' <=> Match(j, s)
  BY DEF Match
<1>3. pc[x] \in {"claim", "write_back", "read_in"} => at[x] \in Slot
  BY DEF TypeInv, CallTypeOK
<1> QED BY <1>1, <1>2, <1>3 DEF Victim

\* The victim is not valid, or it is block 0 and all are valid.
LEMMA ChosenVictim ==
  ASSUME CacheInv, VictimInv, NEW t \in Thread, clock_find_victim(t)
  PROVE  VictimInv'
<1>1. /\ pc[t] = "victim" /\ UNCHANGED <<block, request>> /\ clock_hand = 0
      /\ \A x \in Thread \ {t} : pc'[x] = pc[x] /\ at'[x] = at[x] /\ old'[x] = old[x]
  BY DEF clock_find_victim, Choose, Go, ideVars, CacheInv, TypeInv, CallTypeOK, CacheTypeOK
<1>2. Victim(t)'
  <2>1. CASE pc'[t] = "clear"
    BY <2>1 DEF Victim
  <2>2. ASSUME NEW i \in Slot, Choose(t, i), block[i].valid = 0 \/ (i = 0 /\ AllValid)
        PROVE  Victim(t)'
    <3>1. pc'[t] = "claim" /\ at'[t] = i /\ (old'[t].flush => block[i].valid = 1)
      BY <2>2 DEF Choose, Go, CacheInv, TypeInv, CallTypeOK
    <3>2. AllValid' <=> AllValid
      BY <1>1 DEF AllValid
    <3> QED BY <1>1, <2>2, <3>1, <3>2, SlotFacts DEF Victim
  <2>3. \/ pc'[t] = "clear"
        \/ \E i \in Slot : Choose(t, i) /\ (block[i].valid = 0 \/ (i = 0 /\ AllValid))
    BY <1>1, HandStays, SlotFacts DEF clock_find_victim, Go, AllValid, CacheInv, TypeInv, CallTypeOK
  <2> QED BY <2>1, <2>2, <2>3
<1>3. ASSUME NEW x \in Thread \ {t}
      PROVE  Victim(x)'
  BY <1>1, VictimStays DEF VictimInv, CacheInv
<1> QED BY <1>2, <1>3 DEF VictimInv

\* Nobody claims a block while another is written back.
LEMMA ClaimAlone ==
  ASSUME CacheInv, VictimInv, NEW t \in Thread, Claim(t)
  PROVE  \A x \in Thread : pc[x] # "write_back"
<1> SUFFICES ASSUME NEW x \in Thread, pc[x] = "write_back"
             PROVE  FALSE
  OBVIOUS
<1>1. AllValid /\ block_lock[0] = x
  BY DEF VictimInv, Victim, CacheInv, DataInv, RequestInv
<1>2. at[t] = 0
  <2>1. pc[t] = "claim" /\ at[t] \in Slot
    BY DEF Claim, CacheInv, TypeInv, CallTypeOK
  <2> QED BY <1>1, <2>1 DEF VictimInv, Victim, AllValid
<1>3. block_lock[0] = None
  BY <1>2 DEF Claim
<1> QED BY <1>1, <1>3, IdeAssumption

\* The sector that a claim drops is in no block then.
LEMMA ClaimVictim ==
  ASSUME CacheInv, VictimInv, NEW t \in Thread, Claim(t)
  PROVE  VictimInv'
<1> DEFINE i == at[t]
<1>1. /\ pc[t] = "claim" /\ i \in Slot /\ UNCHANGED at
      /\ block' = [block EXCEPT ![i] =
                    [sector |-> access[t].sec, use |-> 1, dirty |-> 0, valid |-> 1]]
  BY DEF Claim, CacheInv, TypeInv, CallTypeOK
<1>2. /\ block'[i].sector = access[t].sec /\ block'[i].valid = 1
      /\ \A j \in Slot \ {i} : block'[j] = block[j]
  BY <1>1 DEF CacheInv, TypeInv, CacheTypeOK
<1>3. \A x \in Thread \ {t} : /\ pc'[x] = pc[x] /\ old'[x] = old[x] /\ request'[x] = request[x]
                              /\ pc[x] \notin Locked
  <2>1. \A x \in Thread \ {t} : pc[x] \notin Locked
    BY <1>1 DEF CacheInv, PlaceInv, Locked
  <2> QED BY <2>1 DEF Claim, StartIo, Go, CacheInv, TypeInv, CallTypeOK, DriverTypeOK
<1>4. /\ \/ /\ pc'[t] = "write_back" /\ old[t].flush /\ request'[t].sec_no = old[t].sector
         \/ pc'[t] = "read_in"
  BY DEF Claim, StartIo, Go, CacheInv, TypeInv, CallTypeOK, DriverTypeOK
<1>5. CASE pc'[t] = "write_back"
  <2>1. AllValid /\ block[i].valid = 1 /\ block[i].sector = old[t].sector
    BY <1>1, <1>4, <1>5 DEF VictimInv, Victim, CacheInv, DataInv, RequestInv
  <2>2. i = 0
    BY <1>1, <2>1 DEF VictimInv, Victim
  <2>3. AllValid'
    BY <1>2, <2>1 DEF AllValid
  <2>4. ASSUME NEW j \in Slot
        PROVE  block'[j].sector # old[t].sector
    <3>1. CASE j = i
      <4>1. ~ Match(i, access[t].sec)
        BY <1>1 DEF CacheInv, SearchInv
      <4> QED BY <1>2, <2>1, <3>1, <4>1 DEF Match
    <3>2. CASE j # i
      <4>1. block[j].valid = 1
        BY <2>1 DEF AllValid
      <4>2. block[j].sector # block[i].sector
        BY <1>1, <2>1, <3>2, <4>1 DEF CacheInv, OneBlockPerSector, Match
      <4> QED BY <1>2, <2>1, <3>2, <4>2
    <3> QED BY <3>1, <3>2
  <2>5. Victim(t)'
    BY <1>1, <1>2, <1>4, <1>5, <2>2, <2>3, <2>4 DEF Victim, Match
  <2> QED BY <1>1, <1>2, <1>3, <2>5, ClaimAlone
          DEF VictimInv, Victim, Locked, CacheInv, TypeInv, CallTypeOK
<1>6. CASE pc'[t] = "read_in"
  <2>1. Victim(t)'
    BY <1>1, <1>2, <1>6 DEF Victim
  <2> QED BY <1>1, <1>2, <1>3, <2>1, ClaimAlone
          DEF VictimInv, Victim, Locked, CacheInv, TypeInv, CallTypeOK
<1> QED BY <1>4, <1>5, <1>6

\* Every step.
LEMMA VictimStep ==
  ASSUME CacheInv, VictimInv, [Next]_vars
  PROVE  VictimInv'
<1> USE DEF Go, CacheInv, TypeInv, CallTypeOK, DriverTypeOK
<1>1. CASE \E t \in Thread : Claim(t)
  BY <1>1, ClaimVictim
<1>2. CASE \E t \in Thread : clock_find_victim(t)
  BY <1>2, ChosenVictim
<1>3. CASE \A t \in Thread : ~ Claim(t) /\ ~ clock_find_victim(t)
  <2>1. \A i \in Slot : block'[i].sector = block[i].sector /\ block'[i].valid = block[i].valid
    BY <1>3, NamesKept
  <2>2. CASE UNCHANGED vars
    BY <2>1, <2>2, VictimStays DEF VictimInv, vars, threads, ideVars
  <2>3. CASE DiskStep
    <3>1. UNCHANGED <<pc, at, old, request>>
      BY <2>3 DEF DiskStep, DeviceAnswers, interrupt_handler, threads
    <3> QED BY <2>1, <3>1, VictimStays DEF VictimInv
  <2>4. ASSUME NEW t \in Thread, Progress(t) \/ Call(t)
        PROVE  VictimInv'
    <3>1. \A x \in Thread \ {t} : pc'[x] = pc[x] /\ at'[x] = at[x] /\ old'[x] = old[x]
                                   /\ request'[x] = request[x]
      BY <1>3, <2>4 DEF Progress, Call, DriverStep, Driver, IssueCommand, Issue, Completion, Transfer,
         TransferFails, Begin, get_cached_block, cache_search, ClearUse, WrittenBack, ReadIn, Retry, cache_read,
         cache_write, Write, Finish, filesys_done, FlushBlock, Flushed, PowerOff, IoReturns,
         StartIo, threads, ideVars
    <3>2. \A x \in Thread \ {t} : Victim(x)'
      BY <2>1, <3>1, VictimStays DEF VictimInv
    <3>3. CASE DriverStep(t)
      <4>1. UNCHANGED <<pc, at, old, request>>
        BY <3>3 DEF DriverStep, Driver, IssueCommand, Issue, Completion, Transfer, TransferFails, threads
      <4> QED BY <2>1, <4>1, VictimStays DEF VictimInv
    <3>4. CASE WrittenBack(t)
      <4>1. pc[t] = "write_back" /\ pc'[t] = "read_in" /\ at'[t] = at[t] /\ at[t] \in Slot
        BY <3>4 DEF WrittenBack
      <4>2. Victim(t)'
        BY <2>1, <4>1 DEF VictimInv, Victim
      <4> QED BY <3>2, <4>2 DEF VictimInv
    <3>5. CASE ~ DriverStep(t) /\ ~ WrittenBack(t)
      <4>1. pc'[t] \notin {"claim", "write_back", "read_in"}
        BY <1>3, <2>4, <3>5 DEF Progress, Call, Begin, get_cached_block, cache_search, ClearUse,
           ReadIn, Retry, cache_read, cache_write, Write, Finish, filesys_done, FlushBlock, Flushed,
           PowerOff, IoReturns
      <4>2. Victim(t)'
        BY <4>1 DEF Victim
      <4> QED BY <3>2, <4>2 DEF VictimInv
    <3> QED BY <3>3, <3>4, <3>5
  <2> QED BY <2>2, <2>3, <2>4 DEF Next
<1> QED BY <1>1, <1>2, <1>3

-----------------------------------------------------------------------------
(* Clean blocks.                                                           *)

\* Once a flush has begun it does not end.
LEMMA FlushStays ==
  ASSUME TypeInv, [Next]_vars, NoFlush'
  PROVE  /\ NoFlush
         /\ \A t \in Thread : ~ filesys_done(t) /\ ~ FlushBlock(t) /\ ~ Flushed(t) /\ ~ PowerOff(t)
<1> USE DEF Go, TypeInv, CallTypeOK
<1>1. \A t \in Thread : ~ filesys_done(t) /\ ~ FlushBlock(t) /\ ~ Flushed(t) /\ ~ PowerOff(t)
  BY DEF NoFlush, filesys_done, FlushBlock, Flushed, IoReturns, PowerOff
<1>2. ASSUME NEW t \in Thread, Progress(t) \/ Call(t)
      PROVE  NoFlush
  <2>1. \A x \in Thread \ {t} : pc'[x] = pc[x]
    BY <1>2 DEF Progress, Call, DriverStep, Begin, get_cached_block, cache_search,
       clock_find_victim, Choose, ClearUse, Claim, WrittenBack, ReadIn, Retry, cache_read,
       cache_write, Write, Finish, filesys_done, FlushBlock, Flushed, PowerOff, IoReturns, threads
  <2>2. pc'[t] = pc[t] \/ pc[t] \notin {"flush", "flush_write", "off"}
    BY <1>1, <1>2 DEF Progress, Call, DriverStep, Begin, get_cached_block, cache_search,
       clock_find_victim, ClearUse, Claim, WrittenBack, ReadIn, Retry, cache_read, cache_write,
       IoReturns, threads
  <2> QED BY <2>1, <2>2 DEF NoFlush
<1>3. NoFlush
  BY <1>2 DEF NoFlush, Next, DiskStep, vars, threads
<1> QED BY <1>1, <1>3

\* A step that leaves the names, the flags and the locks of the blocks, their bytes and
\* the disk leaves clean blocks clean.
LEMMA QuietKeepsClean ==
  ASSUME TypeInv, WriteInv, ReadInv, CleanIsOnDisk, NoFlush, UNCHANGED <<block_lock, io, data, disk, device>>,
         \A i \in Slot : /\ block'[i].sector = block[i].sector /\ block'[i].valid = block[i].valid
                         /\ block'[i].dirty = block[i].dirty,
         \A x \in Thread : pc'[x] = "read_in" => pc[x] = "read_in" /\ at'[x] = at[x]
  PROVE  WriteInv' /\ ReadInv' /\ CleanIsOnDisk'
<1>1. WriteInv'
  <2> SUFFICES ASSUME device.phase = "writing", NEW j \in Slot, Match(j, device.sector)'
               PROVE  /\ block_lock[j] # None
                      /\ ~ (pc'[block_lock[j]] = "read_in" /\ io[block_lock[j]] = "done")
    BY DEF WriteInv
  <2>1. Match(j, device.sector)
    BY DEF Match
  <2>2. block_lock[j] # None => block_lock[j] \in Thread
    BY DEF TypeInv, CacheTypeOK
  <2> QED BY <2>1, <2>2 DEF WriteInv
<1>2. ReadInv'
  <2> SUFFICES ASSUME NEW x \in Thread, pc'[x] = "read_in", io[x] = "done"
               PROVE  data[at'[x]] = disk[block'[at'[x]].sector]
    BY DEF ReadInv
  <2>1. pc[x] = "read_in" /\ at'[x] = at[x] /\ at[x] \in Slot
    BY DEF TypeInv, CallTypeOK
  <2> QED BY <2>1 DEF ReadInv
<1>3. CleanIsOnDisk'
  BY DEF CleanIsOnDisk, NoFlush
<1> QED BY <1>1, <1>2, <1>3

\* The look-up of a block reads nothing in.
LEMMA LookupKeepsClean ==
  ASSUME CacheInv, CleanInv, NoFlush, NEW t \in Thread,
         \/ \E op \in {"read", "write"}, sec \in Sector : Begin(t, op, sec)
         \/ get_cached_block(t) \/ cache_search(t) \/ clock_find_victim(t) \/ ClearUse(t)
         \/ Retry(t)
  PROVE  WriteInv' /\ ReadInv' /\ CleanIsOnDisk'
<1> USE DEF Go, CacheInv, TypeInv, CallTypeOK
<1>1. UNCHANGED <<block_lock, io, data, disk, device>>
  BY DEF Begin, get_cached_block, cache_search, clock_find_victim, ClearUse, Retry, cache, ideVars
<1>2. \A i \in Slot : /\ block'[i].sector = block[i].sector /\ block'[i].valid = block[i].valid
                      /\ block'[i].dirty = block[i].dirty
  <2>1. CASE ClearUse(t)
    BY <2>1 DEF ClearUse, CacheTypeOK
  <2>2. CASE ~ ClearUse(t)
    BY <2>2 DEF Begin, get_cached_block, cache_search, clock_find_victim, Retry, cache
  <2> QED BY <2>1, <2>2
<1>3. pc'[t] # "read_in" /\ \A x \in Thread \ {t} : pc'[x] = pc[x] /\ at'[x] = at[x]
  BY DEF Begin, get_cached_block, cache_search, clock_find_victim, Choose, ClearUse, Retry
<1> QED BY <1>1, <1>2, <1>3, QuietKeepsClean DEF CleanInv

\* A claimed block is locked.
LEMMA ClaimKeepsClean ==
  ASSUME CacheInv, CleanInv, NoFlush, NEW t \in Thread, Claim(t)
  PROVE  WriteInv' /\ ReadInv' /\ CleanIsOnDisk'
<1> USE DEF Go, CacheInv, TypeInv, CallTypeOK, DriverTypeOK
<1> DEFINE i == at[t]
<1>1. /\ pc[t] = "claim" /\ i \in Slot /\ UNCHANGED <<at, data, disk, device>>
      /\ block_lock[i] = None /\ block_lock' = [block_lock EXCEPT ![i] = t]
      /\ \A j \in Slot \ {i} : block'[j] = block[j]
      /\ io' = [io EXCEPT ![t] = "lock"]
  BY DEF Claim, StartIo, GoIo, CacheTypeOK
<1>2. block_lock'[i] = t /\ \A j \in Slot \ {i} : block_lock'[j] = block_lock[j]
  BY <1>1 DEF CacheTypeOK
<1>3. io'[t] = "lock" /\ \A x \in Thread \ {t} : io'[x] = io[x] /\ pc'[x] = pc[x]
  BY <1>1 DEF Claim
<1>4. ASSUME NEW x \in Thread, pc[x] = "read_in"
      PROVE  at[x] \in Slot \ {i} /\ x # t
  <2>1. at[x] \in Slot /\ block_lock[at[x]] = x
    BY <1>4 DEF DataInv, RequestInv
  <2> QED BY <1>1, <1>4, <2>1, IdeAssumption
<1>5. WriteInv'
  <2> SUFFICES ASSUME device.phase = "writing", NEW j \in Slot, Match(j, device.sector)'
               PROVE  /\ block_lock'[j] # None
                      /\ ~ (pc'[block_lock'[j]] = "read_in" /\ io'[block_lock'[j]] = "done")
    BY <1>1 DEF WriteInv
  <2>1. CASE j = i
    BY <1>2, <1>3, <2>1, IdeAssumption
  <2>2. CASE j # i
    <3>1. Match(j, device.sector)
      BY <1>1, <2>2 DEF Match
    <3>2. /\ block_lock[j] # None /\ block_lock[j] \in Thread
          /\ ~ (pc[block_lock[j]] = "read_in" /\ io[block_lock[j]] = "done")
      BY <3>1 DEF CleanInv, WriteInv, CacheTypeOK
    <3> QED BY <1>2, <1>3, <2>2, <3>2
  <2> QED BY <2>1, <2>2
<1>6. ReadInv'
  <2> SUFFICES ASSUME NEW x \in Thread, pc'[x] = "read_in", io'[x] = "done"
               PROVE  data'[at'[x]] = disk'[block'[at'[x]].sector]
    BY DEF ReadInv
  <2>1. x # t /\ pc[x] = "read_in" /\ io[x] = "done"
    BY <1>3
  <2> QED BY <1>1, <1>4, <2>1 DEF CleanInv, ReadInv
<1>7. CleanIsOnDisk'
  <2> SUFFICES ASSUME NEW j \in Slot, block'[j].valid = 1, block'[j].dirty = 0, block_lock'[j] = None
               PROVE  data'[j] = disk'[block'[j].sector] \/ data'[j] = Callers
    BY DEF CleanIsOnDisk
  <2>1. j # i
    BY <1>2, IdeAssumption
  <2> QED BY <1>1, <1>2, <2>1 DEF CleanInv, CleanIsOnDisk, NoFlush
<1> QED BY <1>5, <1>6, <1>7

\* After the block has been written back it is read in.
LEMMA WrittenBackKeepsClean ==
  ASSUME CacheInv, CleanInv, NoFlush, NEW t \in Thread, WrittenBack(t)
  PROVE  WriteInv' /\ ReadInv' /\ CleanIsOnDisk'
<1> USE DEF Go, CacheInv, TypeInv, CallTypeOK, DriverTypeOK
<1>1. /\ UNCHANGED <<at, block, block_lock, data, disk, device>>
      /\ io'[t] = "lock" /\ \A x \in Thread \ {t} : io'[x] = io[x] /\ pc'[x] = pc[x]
  BY DEF WrittenBack, StartIo, GoIo, cache
<1>2. WriteInv'
  <2> SUFFICES ASSUME device.phase = "writing", NEW j \in Slot, Match(j, device.sector)'
               PROVE  /\ block_lock[j] # None
                      /\ ~ (pc'[block_lock[j]] = "read_in" /\ io'[block_lock[j]] = "done")
    BY <1>1 DEF WriteInv
  <2>1. /\ block_lock[j] # None /\ block_lock[j] \in Thread
        /\ ~ (pc[block_lock[j]] = "read_in" /\ io[block_lock[j]] = "done")
    BY <1>1 DEF CleanInv, WriteInv, CacheTypeOK, Match
  <2> QED BY <1>1, <2>1
<1>3. ReadInv'
  BY <1>1 DEF CleanInv, ReadInv
<1>4. CleanIsOnDisk'
  BY <1>1 DEF CleanInv, CleanIsOnDisk, NoFlush
<1> QED BY <1>2, <1>3, <1>4

\* A block that has been read in holds what the disk holds.
LEMMA ReadInKeepsClean ==
  ASSUME CacheInv, CleanInv, NoFlush, NEW t \in Thread, ReadIn(t)
  PROVE  WriteInv' /\ ReadInv' /\ CleanIsOnDisk'
<1> USE DEF Go, CacheInv, TypeInv, CallTypeOK, DriverTypeOK
<1> DEFINE i == at[t]
<1>1. /\ pc[t] = "read_in" /\ io[t] = "done" /\ i \in Slot
      /\ UNCHANGED <<at, block, data, disk, device>>
      /\ block_lock' = [block_lock EXCEPT ![i] = None]
      /\ pc'[t] = "use" /\ \A x \in Thread \ {t} : io'[x] = io[x] /\ pc'[x] = pc[x]
  BY DEF ReadIn, IoReturns, GoIo
<1>2. block_lock[i] = t /\ block[i].valid = 1 /\ data[i] = disk[block[i].sector]
  BY <1>1 DEF DataInv, RequestInv, CleanInv, VictimInv, Victim, ReadInv
<1>3. \A j \in Slot \ {i} : block_lock'[j] = block_lock[j] /\ block_lock[j] # t
  <2> TAKE j \in Slot \ {i}
  <2>1. block_lock'[j] = block_lock[j]
    BY <1>1 DEF CacheTypeOK
  <2>2. block_lock[j] = t => at[t] = j
    BY IdeAssumption DEF DataInv, BlockLockInv
  <2> QED BY <2>1, <2>2
<1>4. WriteInv'
  <2> SUFFICES ASSUME device.phase = "writing", NEW j \in Slot, Match(j, device.sector)'
               PROVE  /\ block_lock'[j] # None
                      /\ ~ (pc'[block_lock'[j]] = "read_in" /\ io'[block_lock'[j]] = "done")
    BY <1>1 DEF WriteInv
  <2>1. /\ block_lock[j] # None /\ block_lock[j] \in Thread
        /\ ~ (pc[block_lock[j]] = "read_in" /\ io[block_lock[j]] = "done")
    BY <1>1 DEF CleanInv, WriteInv, CacheTypeOK, Match
  <2>2. j # i
    BY <1>1, <1>2, <2>1
  <2> QED BY <1>1, <1>3, <2>1, <2>2
<1>5. ReadInv'
  BY <1>1 DEF CleanInv, ReadInv
<1>6. CleanIsOnDisk'
  BY <1>1, <1>2, <1>3 DEF CleanInv, CleanIsOnDisk, NoFlush
<1> QED BY <1>4, <1>5, <1>6

\* cache_read leaves what was in its buffer; cache_write sets dirty.
LEMMA AccessKeepsClean ==
  ASSUME CacheInv, CleanInv, NoFlush, NEW t \in Thread, cache_read(t) \/ cache_write(t)
  PROVE  WriteInv' /\ ReadInv' /\ CleanIsOnDisk'
<1> USE DEF Go, CacheInv, TypeInv, CallTypeOK, DriverTypeOK
<1> DEFINE i == at[t]
<1>1. /\ pc[t] = "use" /\ i \in Slot /\ block_lock[i] = None
      /\ UNCHANGED <<block_lock, io, disk, device>>
      /\ pc'[t] = "idle" /\ \A x \in Thread \ {t} : pc'[x] = pc[x] /\ at'[x] = at[x]
  BY DEF cache_read, cache_write, Write, Finish, cache, ideVars
<1>2. \A j \in Slot : block'[j].sector = block[j].sector /\ block'[j].valid = block[j].valid
  <2>1. CASE cache_read(t)
    BY <2>1 DEF cache_read, cache
  <2>2. CASE cache_write(t)
    <3>1. block' = [block EXCEPT ![i].dirty = 1]
      BY <2>2 DEF cache_write, Write
    <3> QED BY <1>1, <3>1, FlagsKeepNames DEF CacheTypeOK
  <2> QED BY <2>1, <2>2
<1>3. \A j \in Slot \ {i} : block'[j] = block[j] /\ data'[j] = data[j]
  <2>1. CASE cache_read(t)
    BY <2>1, SlotFacts DEF cache_read, cache
  <2>2. CASE cache_write(t)
    BY <2>2, SlotFacts DEF cache_write, Write, CacheTypeOK
  <2> QED BY <2>1, <2>2
<1>4. data'[i] = Callers \/ block'[i].dirty = 1
  BY <1>1, SlotFacts DEF cache_read, cache_write, Write, CacheTypeOK
<1>5. WriteInv'
  <2> SUFFICES ASSUME device.phase = "writing", NEW j \in Slot, Match(j, device.sector)'
               PROVE  /\ block_lock[j] # None
                      /\ ~ (pc'[block_lock[j]] = "read_in" /\ io[block_lock[j]] = "done")
    BY <1>1 DEF WriteInv
  <2>1. /\ block_lock[j] # None /\ block_lock[j] \in Thread
        /\ ~ (pc[block_lock[j]] = "read_in" /\ io[block_lock[j]] = "done")
    BY <1>1, <1>2 DEF CleanInv, WriteInv, CacheTypeOK, Match
  <2> QED BY <1>1, <2>1
<1>6. ReadInv'
  <2> SUFFICES ASSUME NEW x \in Thread, pc'[x] = "read_in", io[x] = "done"
               PROVE  data'[at'[x]] = disk[block'[at'[x]].sector]
    BY <1>1 DEF ReadInv
  <2>1. x # t /\ pc[x] = "read_in"
    BY <1>1
  <2>2. at[x] \in Slot /\ block_lock[at[x]] = x
    BY <2>1 DEF DataInv, RequestInv
  <2>3. at[x] # i
    BY <1>1, <2>2, IdeAssumption
  <2>4. data[at[x]] = disk[block[at[x]].sector]
    BY <2>1 DEF CleanInv, ReadInv
  <2> QED BY <1>1, <1>3, <2>1, <2>2, <2>3, <2>4
<1>7. CleanIsOnDisk'
  <2> SUFFICES ASSUME NEW j \in Slot, block'[j].valid = 1, block'[j].dirty = 0, block_lock[j] = None
               PROVE  data'[j] = disk[block'[j].sector] \/ data'[j] = Callers
    BY <1>1 DEF CleanIsOnDisk
  <2>1. CASE j = i
    BY <1>4, <2>1
  <2>2. CASE j # i
    BY <1>3, <2>2 DEF CleanInv, CleanIsOnDisk, NoFlush
  <2> QED BY <2>1, <2>2
<1> QED BY <1>5, <1>6, <1>7

\* A transfer to memory fills a block that is locked; the disk gets a sector that no
\* block holds.
LEMMA TransferKeepsClean ==
  ASSUME CacheInv, CleanInv, NoFlush, NEW t \in Thread, Transfer(t), UNCHANGED <<threads, cache>>
  PROVE  WriteInv' /\ ReadInv' /\ CleanIsOnDisk'
<1> USE DEF GoIo, CacheInv, TypeInv, CallTypeOK, DriverTypeOK
<1> DEFINE i == at[t]
<1>1. UNCHANGED <<pc, at, block, block_lock, disk>> /\ io[t] = "transfer" /\ channel = t
  BY DEF Transfer, threads, cache, DriverInv
<1>2. pc[t] \in {"write_back", "read_in"} /\ i \in Slot /\ request[t].buffer = i /\ block_lock[i] = t
  BY <1>1 DEF PlaceInv, InDriver, NoFlush, DataInv, RequestInv
<1>3. \A x \in Thread \ {t} : io'[x] = io[x]
  BY DEF Transfer
<1>4. CASE request[t].op = "read"
  <2>1. /\ data' = [data EXCEPT ![i] = device.buffer] /\ device' = Idle /\ io'[t] = "done"
    BY <1>1, <1>2, <1>4 DEF Transfer
  <2>2. device.buffer = disk[block[i].sector] /\ pc[t] = "read_in"
    <3>1. pc[t] = "read_in" /\ request[t].sec_no = block[i].sector
      BY <1>2, <1>4 DEF DataInv, RequestInv
    <3>2. device.phase = "read_ready" /\ device.sector = request[t].sec_no
      BY <1>1, <1>4 DEF DriverInv, Transfer, DataRequest
    <3> QED BY <3>1, <3>2 DEF DriverInv
  <2>3. data'[i] = disk[block[i].sector] /\ \A j \in Slot \ {i} : data'[j] = data[j]
    BY <1>2, <2>1, <2>2, SlotFacts
  <2>4. WriteInv'
    BY <2>1 DEF WriteInv, Idle
  <2>5. ReadInv'
    <3> SUFFICES ASSUME NEW x \in Thread, pc[x] = "read_in", io'[x] = "done"
                 PROVE  data'[at[x]] = disk[block[at[x]].sector]
      BY <1>1 DEF ReadInv
    <3>1. CASE x = t
      BY <2>3, <3>1
    <3>2. CASE x # t
      <4>1. at[x] \in Slot /\ block_lock[at[x]] = x
        BY DEF DataInv, RequestInv
      <4>2. data[at[x]] = disk[block[at[x]].sector]
        BY <1>3, <3>2 DEF CleanInv, ReadInv
      <4> QED BY <1>2, <2>3, <3>2, <4>1, <4>2
    <3> QED BY <3>1, <3>2
  <2>6. CleanIsOnDisk'
    <3> SUFFICES ASSUME NEW j \in Slot, block[j].valid = 1, block[j].dirty = 0, block_lock[j] = None
                 PROVE  data'[j] = disk[block[j].sector] \/ data'[j] = Callers
      BY <1>1 DEF CleanIsOnDisk
    <3>1. j # i
      BY <1>2, IdeAssumption
    <3> QED BY <2>3, <3>1 DEF CleanInv, CleanIsOnDisk, NoFlush
  <2> QED BY <2>4, <2>5, <2>6
<1>5. CASE request[t].op = "write"
  <2>1. /\ data' = data /\ io'[t] = "wait"
        /\ device' = [device EXCEPT !.phase = "writing", !.buffer = data[i]]
    BY <1>2, <1>5 DEF Transfer
  <2>2. pc[t] = "write_back" /\ device.sector = request[t].sec_no
    BY <1>1, <1>2, <1>5 DEF DataInv, RequestInv, DriverInv, Transfer, DataRequest
  <2>3. \A j \in Slot : ~ Match(j, device'.sector)
    BY <2>1, <2>2 DEF CleanInv, VictimInv, Victim
  <2>4. WriteInv'
    BY <1>1, <2>3 DEF WriteInv, Match
  <2>5. ReadInv'
    BY <1>1, <1>3, <2>1 DEF CleanInv, ReadInv
  <2>6. CleanIsOnDisk'
    BY <1>1, <2>1 DEF CleanInv, CleanIsOnDisk
  <2> QED BY <2>4, <2>5, <2>6
<1> QED BY <1>4, <1>5

\* A command is given, or lost, or its completion heard of, or nothing comes of it.
LEMMA CommandKeepsClean ==
  ASSUME CacheInv, CleanInv, NoFlush, NEW t \in Thread,
         IssueCommand(t) \/ Completion(t) \/ TransferFails(t),
         UNCHANGED <<threads, cache>>
  PROVE  WriteInv' /\ ReadInv' /\ CleanIsOnDisk'
<1> USE DEF GoIo, CacheInv, TypeInv, CallTypeOK, DriverTypeOK
<1>1. UNCHANGED <<pc, at, block, block_lock, data, disk>> /\ \A x \in Thread \ {t} : io'[x] = io[x]
  BY DEF IssueCommand, Issue, Completion, TransferFails, threads, cache
<1>2. pc[t] = "read_in" => io'[t] # "done"
  BY DEF IssueCommand, Issue, Completion, TransferFails, DataInv, RequestInv
<1>3. device'.phase = "writing" => device' = device
  BY DEF IssueCommand, Issue, Completion, TransferFails
<1>4. WriteInv'
  <2> SUFFICES ASSUME device'.phase = "writing", NEW j \in Slot, Match(j, device.sector)
               PROVE  /\ block_lock[j] # None
                      /\ ~ (pc[block_lock[j]] = "read_in" /\ io'[block_lock[j]] = "done")
    BY <1>1, <1>3 DEF WriteInv, Match
  <2>1. /\ block_lock[j] # None /\ block_lock[j] \in Thread
        /\ ~ (pc[block_lock[j]] = "read_in" /\ io[block_lock[j]] = "done")
    BY <1>3 DEF CleanInv, WriteInv, CacheTypeOK
  <2> QED BY <1>1, <1>2, <2>1
<1>5. ReadInv'
  BY <1>1, <1>2 DEF CleanInv, ReadInv
<1>6. CleanIsOnDisk'
  BY <1>1 DEF CleanInv, CleanIsOnDisk
<1> QED BY <1>4, <1>5, <1>6

\* The disk puts in a sector what no clean block is a copy of.
LEMMA DiskKeepsClean ==
  ASSUME CacheInv, CleanInv, NoFlush, DiskStep
  PROVE  WriteInv' /\ ReadInv' /\ CleanIsOnDisk'
<1> USE DEF CacheInv, TypeInv, CallTypeOK, DriverTypeOK
<1>1. UNCHANGED <<pc, at, block, block_lock, data, io>>
  BY DEF DiskStep, DeviceAnswers, interrupt_handler, threads, cache
<1>2. CASE UNCHANGED disk /\ (device' = device \/ device'.phase # "writing")
  <2>1. WriteInv'
    BY <1>1, <1>2 DEF CleanInv, WriteInv, Match
  <2>2. ReadInv' /\ CleanIsOnDisk'
    BY <1>1, <1>2 DEF CleanInv, ReadInv, CleanIsOnDisk
  <2> QED BY <2>1, <2>2
<1>3. CASE device.phase = "writing" /\ disk' = [disk EXCEPT ![device.sector] = device.buffer] /\ device' = Idle
  <2>1. \A s \in Sector : s # device.sector => disk'[s] = disk[s]
    BY <1>3
  <2>2. WriteInv'
    BY <1>3 DEF WriteInv, Idle
  <2>3. ReadInv'
    <3> SUFFICES ASSUME NEW x \in Thread, pc[x] = "read_in", io[x] = "done"
                 PROVE  data[at[x]] = disk'[block[at[x]].sector]
      BY <1>1 DEF ReadInv
    <3>1. at[x] \in Slot /\ block_lock[at[x]] = x /\ block[at[x]].valid = 1
      BY DEF DataInv, RequestInv, CleanInv, VictimInv, Victim
    <3>2. block[at[x]].sector # device.sector
      BY <1>3, <3>1 DEF CleanInv, WriteInv, Match
    <3> QED BY <2>1, <3>1, <3>2 DEF CleanInv, ReadInv, CacheTypeOK
  <2>4. CleanIsOnDisk'
    <3> SUFFICES ASSUME NEW j \in Slot, block[j].valid = 1, block[j].dirty = 0, block_lock[j] = None
                 PROVE  data[j] = disk'[block[j].sector] \/ data[j] = Callers
      BY <1>1 DEF CleanIsOnDisk
    <3>1. block[j].sector # device.sector
      BY <1>3 DEF CleanInv, WriteInv, Match
    <3> QED BY <2>1, <3>1 DEF CleanInv, CleanIsOnDisk, NoFlush, CacheTypeOK
  <2> QED BY <2>2, <2>3, <2>4
<1> QED BY <1>2, <1>3 DEF DiskStep, DeviceAnswers, interrupt_handler

\* Every step keeps clean blocks clean.
LEMMA CleanStep ==
  ASSUME CacheInv, CleanInv, [Next]_vars
  PROVE  CleanInv'
<1>1. VictimInv'
  BY VictimStep DEF CleanInv
<1>2. CASE ~ NoFlush'
  BY <1>1, <1>2 DEF CleanInv, WriteInv, ReadInv, CleanIsOnDisk, NoFlush
<1>3. CASE NoFlush'
  <2>1. NoFlush /\ \A t \in Thread : ~ filesys_done(t) /\ ~ FlushBlock(t) /\ ~ Flushed(t)
                                    /\ ~ PowerOff(t)
    BY <1>3, FlushStays DEF CacheInv
  <2>2. CASE UNCHANGED vars
    <3>1. UNCHANGED <<pc, at, block, block_lock, io, data, disk, device>>
      BY <2>2 DEF vars, threads, cache, ideVars
    <3>2. WriteInv' /\ ReadInv' /\ CleanIsOnDisk'
      BY <3>1 DEF CleanInv, WriteInv, ReadInv, CleanIsOnDisk, NoFlush, Match
    <3> QED BY <1>1, <3>2 DEF CleanInv
  <2>3. CASE DiskStep
    BY <1>1, <2>1, <2>3, DiskKeepsClean DEF CleanInv
  <2>4. ASSUME NEW t \in Thread, Progress(t) \/ Call(t)
        PROVE  WriteInv' /\ ReadInv' /\ CleanIsOnDisk'
    BY <2>1, <2>4, LookupKeepsClean, ClaimKeepsClean, WrittenBackKeepsClean, ReadInKeepsClean,
       AccessKeepsClean, TransferKeepsClean, CommandKeepsClean
       DEF Progress, Call, DriverStep, Driver
  <2> QED BY <1>1, <2>2, <2>3, <2>4 DEF Next, CleanInv
<1> QED BY <1>2, <1>3

\* At the start no block is valid, and nothing is read or written.
LEMMA InitCleanInv ==
  ASSUME Init
  PROVE  CleanInv
<1>1. VictimInv
  BY DEF Init, VictimInv, Victim
<1>2. WriteInv /\ ReadInv
  BY DEF Init, IdeInit, WriteInv, ReadInv, Idle
<1>3. CleanIsOnDisk
  BY DEF Init, CleanIsOnDisk
<1> QED BY <1>1, <1>2, <1>3 DEF CleanInv

\* A block that is not dirty can be dropped, for any threads, sectors and size of the
\* cache (evict_and_replace, cache_read and cache_write, until flush_cache).
THEOREM DropsClean == Spec => []CleanIsOnDisk
<1>1. Init => CleanInv
  BY InitCleanInv
<1>2. CacheInv /\ CleanInv /\ [Next]_vars => CleanInv'
  BY CleanStep
<1>3. CleanInv => CleanIsOnDisk
  BY DEF CleanInv
<1> QED BY <1>1, <1>2, <1>3, CacheInvariant, PTL DEF Spec

-----------------------------------------------------------------------------
(* Interrupts, with their bounds.                                          *)

\* Interrupts that are to come or have come are those that the holder of the channel
\* waits for, and spurious ones.
AsOne(b) == IF b THEN 1 ELSE 0
Owed     == \E t \in Thread : channel = t /\ ~ (request[t].op = "read" /\ io[t] = "transfer")
Answers  == device.phase \in {"reading", "write_command", "write_ready", "writing"}
CountInv ==
  /\ completion_wait \in Nat /\ spurious \in 0 .. MaxSpurious
  /\ irq \in BOOLEAN /\ panic \in BOOLEAN
  /\ completion_wait + AsOne(irq) + AsOne(Answers) <= spurious + AsOne(Owed)

\* A sector has been written as often as accesses are over, at most.
InCall == {t \in Thread : pc[t] \notin {"idle", "flush", "flush_write", "off"}}
VersionInv ==
  /\ ops \in 0 .. MaxOps /\ due \in [Sector -> Bytes]
  /\ \A s \in Sector : latest[s].version \in Nat /\ latest[s].version + Cardinality(InCall) <= ops
  /\ \A s \in Sector : disk[s].version \in -1 .. ops /\ due[s].version \in -1 .. ops
  /\ \A i \in Slot : data[i].version \in -1 .. ops
  /\ device.buffer.version \in -1 .. ops

\* The driver's steps: every command is one completion, and one wait for it.
LEMMA DriverCounts ==
  ASSUME CacheInv, CountInv, NEW t \in Thread, Driver(t)
  PROVE  CountInv'
<1> USE DEF CacheInv, TypeInv, DriverTypeOK
<1>1. t # None /\ request' = request /\ spurious' = spurious /\ irq \in BOOLEAN
      /\ \A x \in Thread \ {t} : io'[x] = io[x]
  BY IdeAssumption DEF Driver, IssueCommand, Issue, Completion, Transfer, TransferFails, GoIo, CountInv
<1>2. CASE IssueCommand(t)
  <2>1. /\ channel' = t /\ irq' = FALSE /\ io'[t] \in {"wait", "transfer"}
        /\ request[t].op = "read" => io'[t] = "wait"
        /\ UNCHANGED <<completion_wait, panic>> /\ channel = None
    BY <1>2 DEF IssueCommand, Issue, GoIo
  <2>2. Owed' /\ ~ Owed
    BY <1>1, <2>1, IdeAssumption DEF Owed
  <2>3. completion_wait + AsOne(Answers) <= spurious
    BY <1>1, <2>1, <2>2 DEF CountInv, AsOne
  <2>4. /\ AsOne(irq') = 0 /\ AsOne(Owed') = 1
        /\ AsOne(Answers') \in {0, 1} /\ AsOne(Answers) \in {0, 1}
        /\ AsOne(Answers') <= 1 + AsOne(Answers)
    BY <2>1, <2>2 DEF AsOne
  <2>5. completion_wait' + AsOne(irq') + AsOne(Answers') <= spurious' + AsOne(Owed')
    BY <1>1, <2>1, <2>3, <2>4 DEF CountInv
  <2> QED BY <1>1, <2>1, <2>5 DEF CountInv
<1>3. CASE Completion(t)
  <2>1. /\ io[t] = "wait" /\ channel = t /\ completion_wait > 0
        /\ completion_wait' = completion_wait - 1 /\ UNCHANGED <<irq, device, panic>>
        /\ \/ request[t].op = "read" /\ io'[t] = "transfer" /\ channel' = t
           \/ request[t].op = "write" /\ channel' = None
    BY <1>3 DEF Completion, GoIo, DriverInv
  <2>2. Owed
    BY <2>1 DEF Owed
  <2>3. ~ Owed'
    BY <1>1, <2>1, IdeAssumption DEF Owed
  <2>4. Answers' = Answers
    BY <2>1 DEF Answers
  <2> QED BY <1>1, <2>1, <2>2, <2>3, <2>4 DEF CountInv, AsOne
<1>4. CASE Transfer(t)
  <2>1. /\ io[t] = "transfer" /\ channel = t /\ DataRequest
        /\ UNCHANGED <<completion_wait, irq, panic>>
    BY <1>4 DEF Transfer, DriverInv
  <2>2. CASE request[t].op = "read"
    <3>1. channel' = None /\ device' = Idle
      BY <1>4, <2>2 DEF Transfer
    <3>2. ~ Owed' /\ ~ Owed
      BY <1>1, <2>1, <2>2, <3>1, IdeAssumption DEF Owed
    <3>3. ~ Answers'
      BY <3>1 DEF Answers, Idle
    <3> QED BY <1>1, <2>1, <3>2, <3>3 DEF CountInv, AsOne
  <2>3. CASE request[t].op = "write"
    <3>1. channel' = t /\ device'.phase = "writing" /\ device.phase = "write_ready"
      BY <1>4, <2>1, <2>3 DEF Transfer, DriverInv, DataRequest
    <3>2. Owed' /\ Owed
      BY <1>1, <2>1, <2>3, <3>1 DEF Owed
    <3>3. Answers' /\ Answers
      BY <3>1 DEF Answers
    <3> QED BY <1>1, <2>1, <3>2, <3>3 DEF CountInv, AsOne
  <2> QED BY <2>2, <2>3
<1>5. CASE TransferFails(t)
  <2>1. UNCHANGED <<channel, io, device, completion_wait, irq>> /\ panic' \in BOOLEAN
    BY <1>5 DEF TransferFails
  <2>2. Owed' = Owed /\ Answers' = Answers
    BY <1>1, <2>1 DEF Owed, Answers
  <2> QED BY <1>1, <2>1, <2>2 DEF CountInv
<1> QED BY <1>2, <1>3, <1>4, <1>5 DEF Driver

\* The disk's answer is one interrupt, and every interrupt raises the semaphore.
LEMMA DiskCounts ==
  ASSUME CacheInv, CountInv, DiskStep
  PROVE  CountInv'
<1> USE DEF CacheInv, TypeInv, DriverTypeOK
<1>1. Owed' = Owed /\ panic' = panic
  BY DEF DiskStep, DeviceAnswers, interrupt_handler, Owed
<1>2. CASE DeviceAnswers
  <2>1. UNCHANGED <<completion_wait, spurious>>
    BY <1>2 DEF DeviceAnswers
  <2>2. CASE irq' = irq /\ Answers /\ Answers'
    BY <1>1, <2>1, <2>2 DEF CountInv, AsOne
  <2>3. CASE irq' = TRUE /\ Answers /\ ~ Answers'
    BY <1>1, <2>1, <2>3 DEF CountInv, AsOne
  <2>4. Idle.phase = "idle"
    BY DEF Idle
  <2>5. \/ irq' = irq /\ Answers /\ Answers'
        \/ irq' = TRUE /\ Answers /\ ~ Answers'
    BY <1>2, <2>4 DEF DeviceAnswers, Answers
  <2> QED BY <2>2, <2>3, <2>5
<1>3. CASE interrupt_handler
  <2>1. /\ irq' = FALSE /\ completion_wait' = completion_wait + 1 /\ Answers' = Answers
        /\ \/ irq /\ spurious' = spurious
           \/ ~ irq /\ spurious < MaxSpurious /\ spurious' = spurious + 1
    BY <1>3 DEF interrupt_handler, Answers
  <2>2. completion_wait' + AsOne(irq') <= completion_wait + AsOne(irq) + spurious' - spurious
    BY <2>1, IdeAssumption DEF CountInv, AsOne
  <2>3. AsOne(Answers') = AsOne(Answers) /\ AsOne(Owed') = AsOne(Owed)
    BY <1>1, <2>1
  <2>4. {AsOne(irq), AsOne(irq'), AsOne(Answers), AsOne(Owed)} \subseteq {0, 1}
    BY DEF AsOne
  <2>5. completion_wait' \in Nat /\ spurious' \in 0 .. MaxSpurious
    BY <2>1, IdeAssumption DEF CountInv
  <2>6. completion_wait' + AsOne(irq') + AsOne(Answers') <= spurious' + AsOne(Owed')
    BY <2>2, <2>3, <2>4, <2>5 DEF CountInv
  <2> QED BY <1>1, <2>1, <2>5, <2>6 DEF CountInv
<1> QED BY <1>2, <1>3 DEF DiskStep

\* The other steps leave the driver, or call it or return from it, and then without the
\* channel.
LEMMA CountStep ==
  ASSUME CacheInv, CountInv, [Next]_vars
  PROVE  CountInv'
<1> USE DEF CacheInv, TypeInv, DriverTypeOK
<1>1. CASE DiskStep
  BY <1>1, DiskCounts
<1>2. ASSUME NEW t \in Thread, DriverStep(t)
      PROVE  CountInv'
  BY <1>2, DriverCounts DEF DriverStep
<1>3. ASSUME UNCHANGED <<channel, completion_wait, device, irq, spurious, panic>>,
             NEW t \in Thread, channel # t,
             \A x \in Thread \ {t} : io'[x] = io[x] /\ request'[x] = request[x]
      PROVE  CountInv'
  <2>1. Owed' = Owed
    BY <1>3 DEF Owed
  <2>2. Answers' = Answers
    BY <1>3 DEF Answers
  <2> QED BY <1>3, <2>1, <2>2 DEF CountInv
<1>4. CASE UNCHANGED ideVars
  <2>1. Owed' = Owed /\ Answers' = Answers
    BY <1>4 DEF Owed, Answers, ideVars
  <2> QED BY <1>4, <2>1 DEF CountInv, ideVars
<1>5. ASSUME NEW t \in Thread, Claim(t) \/ WrittenBack(t) \/ ReadIn(t) \/ FlushBlock(t) \/ Flushed(t)
      PROVE  CountInv'
  <2>1. UNCHANGED <<channel, completion_wait, device, irq, spurious, panic>>
    BY <1>5 DEF Claim, WrittenBack, ReadIn, FlushBlock, Flushed, IoReturns
  <2>2. \A x \in Thread \ {t} : io'[x] = io[x] /\ request'[x] = request[x]
    BY <1>5 DEF Claim, WrittenBack, ReadIn, FlushBlock, Flushed, IoReturns, StartIo, GoIo
  <2>3. io[t] \in {"none", "done"}
    BY <1>5 DEF Claim, WrittenBack, ReadIn, FlushBlock, Flushed, IoReturns, PlaceInv, InDriver
  <2>4. channel # t
    BY <2>3 DEF DriverInv
  <2> QED BY <1>3, <2>1, <2>2, <2>4
<1>6. CASE UNCHANGED vars
  BY <1>4, <1>6 DEF vars
<1>7. ASSUME NEW t \in Thread, Progress(t) \/ Call(t)
      PROVE  \/ DriverStep(t) \/ UNCHANGED ideVars
             \/ Claim(t) \/ WrittenBack(t) \/ ReadIn(t) \/ FlushBlock(t) \/ Flushed(t)
  BY <1>7 DEF Progress, Call, Begin, get_cached_block, cache_search, clock_find_victim, ClearUse,
     Retry, cache_read, cache_write, Write, filesys_done, PowerOff
<1> QED BY <1>1, <1>2, <1>4, <1>5, <1>6, <1>7 DEF Next

-----------------------------------------------------------------------------
(* Without spurious interrupts the disk is where the driver expects it.    *)

\* The command of the thread that has the channel has not been lost.
Fresh(t) ==
  /\ request[t].op = "read" => device.phase \in {"reading", "read_ready"}
  /\ request[t].op = "write" /\ io[t] = "transfer" =>
       device.phase \in {"write_command", "write_ready"}
FreshInv == spurious = 0 => ~ panic /\ \A t \in Thread : channel = t => Fresh(t)

\* A command finds the disk idle: nothing is owed, and so nothing is to come.
LEMMA DriverStepsFresh ==
  ASSUME CacheInv, CountInv, FreshInv, NEW t \in Thread, Driver(t)
  PROVE  FreshInv'
<1> USE DEF CacheInv, TypeInv, DriverTypeOK
<1> SUFFICES ASSUME spurious = 0
             PROVE  ~ panic' /\ \A x \in Thread : channel' = x => Fresh(x)'
  BY DEF FreshInv, Driver, IssueCommand, Issue, Completion, Transfer, TransferFails
<1>1. ~ panic /\ request' = request
  BY DEF FreshInv, Driver, IssueCommand, Issue, Completion, Transfer, TransferFails
<1>2. CASE IssueCommand(t)
  <2>1. /\ channel' = t /\ channel = None /\ panic' = panic
        /\ io'[t] = IF request[t].op = "read" THEN "wait" ELSE "transfer"
    BY <1>2 DEF IssueCommand, Issue, GoIo
  <2>2. ~ Answers
    <3>1. ~ Owed
      BY <2>1, IdeAssumption DEF Owed
    <3> QED BY <3>1 DEF CountInv, AsOne
  <2>3. ~ Busy /\ ~ DataRequest
    BY <2>1, <2>2 DEF Busy, DataRequest, Answers, DriverInv
  <2>4. device' = [device EXCEPT !.phase = IF request[t].op = "read" THEN "reading"
                                           ELSE "write_command",
                                 !.sector = request[t].sec_no]
    BY <1>2, <2>3 DEF IssueCommand, Issue
  <2> QED BY <1>1, <2>1, <2>4 DEF Fresh
<1>3. CASE Completion(t)
  <2>1. channel = t /\ UNCHANGED <<device, panic>>
        /\ \/ request[t].op = "read" /\ channel' = t
           \/ channel' = None
    BY <1>3 DEF Completion, DriverInv
  <2> QED BY <1>1, <2>1, IdeAssumption DEF FreshInv, Fresh
<1>4. CASE Transfer(t)
  <2>1. channel = t /\ panic' = panic
        /\ \/ channel' = None
           \/ request[t].op = "write" /\ io'[t] = "wait" /\ channel' = t
    BY <1>4 DEF Transfer, GoIo, DriverInv
  <2> QED BY <1>1, <2>1, IdeAssumption DEF Fresh
<1>5. CASE TransferFails(t)
  <2>1. channel = t /\ io[t] = "transfer" /\ ~ Busy /\ ~ DataRequest
    BY <1>5 DEF TransferFails, DriverInv
  <2> QED BY <2>1 DEF FreshInv, Fresh, Busy, DataRequest
<1> QED BY <1>2, <1>3, <1>4, <1>5 DEF Driver

\* The disk goes on with its command, and calls and returns are without the channel.
LEMMA FreshStep ==
  ASSUME CacheInv, CountInv, FreshInv, [Next]_vars
  PROVE  FreshInv'
<1> USE DEF CacheInv, TypeInv, DriverTypeOK
<1>1. CASE DiskStep
  <2>1. UNCHANGED <<channel, io, request, panic>>
    BY <1>1 DEF DiskStep, DeviceAnswers, interrupt_handler
  <2>2. spurious' = 0 => spurious = 0
    BY <1>1 DEF DiskStep, DeviceAnswers, interrupt_handler, CountInv
  <2>3. /\ device.phase \in {"reading", "read_ready"} => device'.phase \in {"reading", "read_ready"}
        /\ device.phase \in {"write_command", "write_ready"} =>
             device'.phase \in {"write_command", "write_ready"}
    BY <1>1 DEF DiskStep, DeviceAnswers, interrupt_handler
  <2> QED BY <2>1, <2>2, <2>3 DEF FreshInv, Fresh
<1>2. ASSUME NEW t \in Thread, DriverStep(t)
      PROVE  FreshInv'
  BY <1>2, DriverStepsFresh DEF DriverStep
<1>3. CASE UNCHANGED ideVars
  BY <1>3 DEF FreshInv, Fresh, ideVars
<1>4. ASSUME NEW t \in Thread, Claim(t) \/ WrittenBack(t) \/ ReadIn(t) \/ FlushBlock(t) \/ Flushed(t)
      PROVE  FreshInv'
  <2>1. UNCHANGED <<channel, device, spurious, panic>>
    BY <1>4 DEF Claim, WrittenBack, ReadIn, FlushBlock, Flushed, IoReturns
  <2>2. \A x \in Thread \ {t} : io'[x] = io[x] /\ request'[x] = request[x]
    BY <1>4 DEF Claim, WrittenBack, ReadIn, FlushBlock, Flushed, IoReturns, StartIo, GoIo
  <2>3. io[t] \in {"none", "done"}
    BY <1>4 DEF Claim, WrittenBack, ReadIn, FlushBlock, Flushed, IoReturns, PlaceInv, InDriver
  <2>4. channel # t
    BY <2>3 DEF DriverInv
  <2> QED BY <2>1, <2>2, <2>4 DEF FreshInv, Fresh
<1>5. CASE UNCHANGED vars
  BY <1>3, <1>5 DEF vars
<1>6. ASSUME NEW t \in Thread, Progress(t) \/ Call(t)
      PROVE  \/ DriverStep(t) \/ UNCHANGED ideVars
             \/ Claim(t) \/ WrittenBack(t) \/ ReadIn(t) \/ FlushBlock(t) \/ Flushed(t)
  BY <1>6 DEF Progress, Call, Begin, get_cached_block, cache_search, clock_find_victim, ClearUse,
     Retry, cache_read, cache_write, Write, filesys_done, PowerOff
<1> QED BY <1>1, <1>2, <1>3, <1>4, <1>5, <1>6 DEF Next

-----------------------------------------------------------------------------
(* Versions, with their bounds.                                            *)

\* The calls in progress are as many as have begun and are not over.
LEMMA CallsCounted ==
  /\ IsFiniteSet(InCall) /\ Cardinality(InCall) \in Nat
  /\ \A t \in InCall : Cardinality(InCall \ {t}) = Cardinality(InCall) - 1
  /\ \A t \in Thread \ InCall : Cardinality(InCall \cup {t}) = Cardinality(InCall) + 1
<1>1. IsFiniteSet(InCall)
  BY IdeAssumption, FS_Subset DEF InCall
<1> QED BY <1>1, FS_CardinalityType, FS_AddElement, FS_RemoveElement DEF InCall

\* A copy is no newer than what it is made from.
LEMMA CopiesKeepVersions ==
  ASSUME VersionInv, ops' = ops, UNCHANGED <<latest, due>>, Cardinality(InCall') = Cardinality(InCall),
         \A s \in Sector : disk'[s].version \in -1 .. ops,
         \A i \in Slot : data'[i].version \in -1 .. ops, device'.buffer.version \in -1 .. ops
  PROVE  VersionInv'
BY DEF VersionInv

\* Transfers and the disk's writes are copies.
LEMMA CopyVersions ==
  ASSUME CacheInv, VersionInv, DiskStep \/ \E t \in Thread : DriverStep(t)
  PROVE  VersionInv'
<1> USE DEF CacheInv, TypeInv, DriverTypeOK
<1>1. UNCHANGED <<threads, history>>
  BY DEF DiskStep, DriverStep
<1>2. ops' = ops /\ latest' = latest /\ due' = due /\ InCall' = InCall
  BY <1>1 DEF threads, history, InCall
<1>3. ops \in Nat /\ 0 \in -1 .. ops
  BY BufferCacheAssumption DEF VersionInv
<1>4. CASE DiskStep
  <2>1. data' = data
    BY <1>4 DEF DiskStep, DeviceAnswers, interrupt_handler
  <2>2. \/ UNCHANGED <<device, disk>>
        \/ device' = [device EXCEPT !.phase = "read_ready", !.buffer = disk[device.sector]] /\ disk' = disk
        \/ device' = [device EXCEPT !.phase = "write_ready"] /\ disk' = disk
        \/ device' = Idle /\ disk' = [disk EXCEPT ![device.sector] = device.buffer]
    BY <1>4 DEF DiskStep, DeviceAnswers, interrupt_handler
  <2>3. Idle.buffer.version = 0
    BY DEF Idle, AtBoot
  <2>4. device'.buffer.version \in -1 .. ops
    BY <1>3, <2>2, <2>3 DEF VersionInv
  <2>5. \A s \in Sector : disk'[s].version \in -1 .. ops
    BY <2>2 DEF VersionInv
  <2> QED BY <1>2, <2>1, <2>4, <2>5, CopiesKeepVersions DEF VersionInv
<1>5. ASSUME NEW t \in Thread, DriverStep(t)
      PROVE  VersionInv'
  <2>1. disk' = disk
    BY <1>5 DEF DriverStep, Driver, IssueCommand, Issue, Completion, Transfer, TransferFails
  <2>2. request[t].buffer \in Slot
    BY SlotFacts
  <2>3. /\ data' = data \/ data' = [data EXCEPT ![request[t].buffer] = device.buffer]
        /\ \/ device'.buffer = device.buffer
           \/ device' = Idle
           \/ device'.buffer = data[request[t].buffer]
    BY <1>5 DEF DriverStep, Driver, IssueCommand, Issue, Completion, Transfer, TransferFails
  <2>4. Idle.buffer.version = 0
    BY DEF Idle, AtBoot
  <2>5. device'.buffer.version \in -1 .. ops
    BY <1>3, <2>2, <2>3, <2>4 DEF VersionInv
  <2>6. \A i \in Slot : data'[i].version \in -1 .. ops
    BY <2>2, <2>3, SlotFacts DEF VersionInv
  <2> QED BY <1>2, <2>1, <2>5, <2>6, CopiesKeepVersions DEF VersionInv
<1> QED BY <1>4, <1>5

\* A write is one version more of its sector, and one call in progress less.
LEMMA AccessVersions ==
  ASSUME CacheInv, VersionInv, NEW t \in Thread, cache_read(t) \/ cache_write(t)
  PROVE  VersionInv'
<1> USE DEF CacheInv, TypeInv, DriverTypeOK, CallTypeOK, CacheTypeOK
<1> DEFINE i == at[t]
           s == access[t].sec
<1>1. /\ i \in Slot /\ s \in Sector /\ pc[t] = "use" /\ pc' = [pc EXCEPT ![t] = "idle"]
      /\ UNCHANGED <<ops, due, disk, device>>
  BY DEF cache_read, cache_write, Write, Finish, Go, history, ideVars
<1>2. InCall' = InCall \ {t} /\ t \in InCall
  BY <1>1 DEF InCall
<1>3. Cardinality(InCall') = Cardinality(InCall) - 1 /\ Cardinality(InCall) \in Nat
  BY <1>2, CallsCounted
<1>4. ops \in 0 .. MaxOps /\ ops \in Nat
  BY BufferCacheAssumption DEF VersionInv
<1>5. Cardinality(InCall) >= 1 /\ latest[s].version + 1 \in 0 .. ops
  <2>1. Cardinality(InCall') \in Nat
    BY <1>2, CallsCounted, FS_RemoveElement, FS_CardinalityType
  <2>2. latest[s].version \in Nat /\ latest[s].version + Cardinality(InCall) <= ops
    BY <1>1 DEF VersionInv
  <2> QED BY <1>3, <1>4, <2>1, <2>2
<1>6. CASE cache_read(t)
  <2>1. latest' = latest
    BY <1>6 DEF cache_read, history
  <2>2. \A j \in Slot : data'[j].version \in -1 .. ops
    BY <1>1, <1>4, <1>6, SlotFacts DEF cache_read, Callers, VersionInv
  <2>3. \A x \in Sector : latest[x].version \in Nat /\ latest[x].version + Cardinality(InCall') <= ops
    BY <1>3, <1>4 DEF VersionInv
  <2> QED BY <1>1, <2>1, <2>2, <2>3 DEF VersionInv
<1>7. CASE cache_write(t)
  <2>1. /\ data' = [data EXCEPT ![i] = [sector |-> s, version |-> latest[s].version + 1]]
        /\ latest' = [latest EXCEPT ![s] = [sector |-> s, version |-> latest[s].version + 1]]
    BY <1>7 DEF cache_write, Write
  <2>2. \A j \in Slot : data'[j].version \in -1 .. ops
    BY <1>1, <1>5, <2>1, SlotFacts DEF VersionInv
  <2>3. \A x \in Sector : latest'[x].version = IF x = s THEN latest[s].version + 1 ELSE latest[x].version
    BY <1>1, <2>1
  <2>4. \A x \in Sector :
          latest'[x].version \in Nat /\ latest'[x].version + Cardinality(InCall') <= ops
    <3> TAKE x \in Sector
    <3>1. /\ latest[x].version \in Nat /\ latest[x].version + Cardinality(InCall) <= ops
          /\ latest[s].version \in Nat /\ latest[s].version + Cardinality(InCall) <= ops
      BY <1>1 DEF VersionInv
    <3>2. latest'[x].version = latest[s].version + 1 \/ latest'[x].version = latest[x].version
      BY <2>3
    <3> QED BY <1>3, <1>4, <3>1, <3>2
  <2> QED BY <1>1, <2>2, <2>4 DEF VersionInv
<1> QED BY <1>6, <1>7

\* Every step.
LEMMA VersionStep ==
  ASSUME CacheInv, VersionInv, [Next]_vars
  PROVE  VersionInv'
<1> USE DEF CacheInv, TypeInv, DriverTypeOK, CallTypeOK, Go
<1>1. CASE DiskStep \/ \E t \in Thread : DriverStep(t)
  BY <1>1, CopyVersions
<1>2. ASSUME NEW t \in Thread, cache_read(t) \/ cache_write(t)
      PROVE  VersionInv'
  BY <1>2, AccessVersions
<1>3. ASSUME NEW t \in Thread, \E op \in {"read", "write"}, sec \in Sector : Begin(t, op, sec)
      PROVE  VersionInv'
  <2>1. /\ pc[t] = "idle" /\ pc' = [pc EXCEPT ![t] = "get"] /\ ops < MaxOps /\ ops' = ops + 1
        /\ UNCHANGED <<latest, due, device, data, disk>>
    BY <1>3 DEF Begin, history, ideVars
  <2>2. InCall' = InCall \cup {t} /\ t \notin InCall
    BY <2>1 DEF InCall
  <2>3. Cardinality(InCall') = Cardinality(InCall) + 1 /\ Cardinality(InCall) \in Nat
    BY <2>2, CallsCounted
  <2>4. ops \in Nat /\ ops' \in 0 .. MaxOps /\ -1 .. ops \subseteq -1 .. ops'
    BY <2>1, BufferCacheAssumption DEF VersionInv
  <2>5. \A s \in Sector :
          latest'[s].version \in Nat /\ latest'[s].version + Cardinality(InCall') <= ops'
    <3> TAKE s \in Sector
    <3>1. latest[s].version \in Nat /\ latest[s].version + Cardinality(InCall) <= ops
      BY DEF VersionInv
    <3> QED BY <2>1, <2>3, <2>4, <3>1
  <2>6. /\ \A s \in Sector : disk'[s].version \in -1 .. ops' /\ due'[s].version \in -1 .. ops'
        /\ \A i \in Slot : data'[i].version \in -1 .. ops'
        /\ device'.buffer.version \in -1 .. ops'
    BY <2>1, <2>4 DEF VersionInv
  <2> QED BY <2>1, <2>4, <2>5, <2>6 DEF VersionInv
<1>4. ASSUME NEW t \in Thread, filesys_done(t)
      PROVE  VersionInv'
  <2>1. /\ pc[t] = "idle" /\ pc' = [pc EXCEPT ![t] = "flush"] /\ (due' = latest \/ due' = due)
        /\ UNCHANGED <<ops, latest, device, data, disk>>
    BY <1>4 DEF filesys_done, ideVars
  <2>2. InCall' = InCall
    BY <2>1 DEF InCall
  <2>3. \A s \in Sector : latest[s].version \in -1 .. ops
    <3> TAKE s \in Sector
    <3>1. latest[s].version \in Nat /\ latest[s].version + Cardinality(InCall) <= ops
      BY DEF VersionInv
    <3>2. Cardinality(InCall) \in Nat /\ ops \in Nat
      BY CallsCounted, BufferCacheAssumption DEF VersionInv
    <3> QED BY <3>1, <3>2
  <2> QED BY <2>1, <2>2, <2>3 DEF VersionInv, CacheTypeOK
<1>5. ASSUME UNCHANGED <<ops, latest, due, device, data, disk>>, InCall' = InCall
      PROVE  VersionInv'
  BY <1>5 DEF VersionInv
<1>6. ASSUME NEW t \in Thread,
             \/ get_cached_block(t) \/ cache_search(t) \/ clock_find_victim(t) \/ ClearUse(t)
             \/ Claim(t) \/ WrittenBack(t) \/ ReadIn(t) \/ Retry(t)
             \/ FlushBlock(t) \/ Flushed(t) \/ PowerOff(t)
      PROVE  VersionInv'
  <2>1. UNCHANGED <<ops, latest, due, device, data, disk>>
    BY <1>6 DEF get_cached_block, cache_search, clock_find_victim, ClearUse, Claim, WrittenBack,
       ReadIn, Retry, FlushBlock, Flushed, PowerOff, IoReturns, history, ideVars
  <2>2. \A x \in Thread \ {t} : pc'[x] = pc[x]
    BY <1>6 DEF get_cached_block, cache_search, clock_find_victim, Choose, ClearUse, Claim,
       WrittenBack, ReadIn, Retry, FlushBlock, Flushed, PowerOff, IoReturns
  <2>3. t \in InCall' <=> t \in InCall
    BY <1>6 DEF InCall, get_cached_block, cache_search, clock_find_victim, Choose, ClearUse, Claim,
       WrittenBack, ReadIn, Retry, FlushBlock, Flushed, PowerOff, IoReturns
  <2>4. InCall' = InCall
    BY <2>2, <2>3 DEF InCall
  <2> QED BY <1>5, <2>1, <2>4
<1>7. CASE UNCHANGED vars
  BY <1>5, <1>7 DEF vars, threads, history, ideVars, InCall
<1> QED BY <1>1, <1>2, <1>3, <1>4, <1>6, <1>7 DEF Next, Progress, Call

\* Nothing has been done at the start.
LEMMA InitBounds ==
  ASSUME Init
  PROVE  CountInv /\ VersionInv
<1>1. CountInv
  <2>1. ~ Answers
    BY DEF Init, IdeInit, Idle, Answers
  <2>2. AsOne(irq) = 0 /\ AsOne(Answers) = 0 /\ AsOne(Owed) \in {0, 1}
    BY <2>1 DEF Init, IdeInit, AsOne
  <2>3. /\ completion_wait = 0 /\ spurious = 0 /\ irq \in BOOLEAN /\ panic \in BOOLEAN
        /\ 0 \in 0 .. MaxSpurious
    <3>1. 0 \in 0 .. MaxSpurious
      BY IdeAssumption
    <3>2. completion_wait = 0 /\ spurious = 0 /\ irq = FALSE /\ panic = FALSE
      BY DEF Init, IdeInit
    <3> QED BY <3>1, <3>2
  <2>4. completion_wait + AsOne(irq) + AsOne(Answers) <= spurious + AsOne(Owed)
    BY <2>2, <2>3
  <2> QED BY <2>3, <2>4 DEF CountInv
<1>2. InCall = {}
  BY DEF Init, InCall
<1>3. Cardinality(InCall) = 0
  BY <1>2, FS_EmptySet
<1>4. \A s \in Sector : AtBoot(s) \in Bytes /\ AtBoot(s).version = 0
  BY DEF AtBoot, Bytes
<1>5. AtBoot(AnySector).version = 0 /\ Idle.buffer = AtBoot(AnySector)
  BY DEF AtBoot, Idle
<1>6. VersionInv
  BY <1>3, <1>4, <1>5, BufferCacheAssumption DEF Init, IdeInit, VersionInv
<1> QED BY <1>1, <1>6

\* The types of the cache and of the driver, with the bounds on versions, accesses and
\* the semaphore: completion_wait is never more than one above the interrupts that came
\* before their time (issue_pio_command, interrupt_handler, ide_read and ide_write).
THEOREM CacheTypes == Spec => []TypeOK
<1>1. Init => CountInv /\ VersionInv
  BY InitBounds
<1>2. CacheInv /\ CountInv /\ VersionInv /\ [Next]_vars => CountInv' /\ VersionInv'
  BY CountStep, VersionStep
<1>3. CacheInv /\ CountInv /\ VersionInv => TypeOK
  <2> SUFFICES ASSUME CacheInv, CountInv, VersionInv
               PROVE  TypeOK
    OBVIOUS
  <2> USE DEF CacheInv, TypeInv
  <2>1. ops \in Nat /\ ops <= MaxWrites /\ MaxWrites \in Nat
    BY BufferCacheAssumption, IdeAssumption DEF VersionInv
  <2>2. ASSUME NEW c \in Bytes, c.version \in -1 .. ops
        PROVE  c \in Content
    BY <2>1, <2>2 DEF Bytes, Content
  <2>3. \A s \in Sector : latest[s].version \in -1 .. ops
    BY <2>1, CallsCounted DEF VersionInv
  <2>4. latest \in [Sector -> Content] /\ due \in [Sector -> Content]
    BY <2>2, <2>3 DEF VersionInv, CacheTypeOK
  <2>5. data \in [Buffer -> Content] /\ disk \in [Sector -> Content]
    BY <2>2, SlotFacts DEF VersionInv, DriverTypeOK
  <2>6. device \in [phase : Phase, sector : Sector, buffer : Content]
    BY <2>2 DEF VersionInv, DriverTypeOK
  <2>7. completion_wait \in 0 .. MaxSpurious + 1
    <3>1. {AsOne(irq), AsOne(Answers), AsOne(Owed)} \subseteq {0, 1}
      BY DEF AsOne
    <3> QED BY <3>1, IdeAssumption DEF CountInv
  <2>8. IdeTypeOK
    BY <2>5, <2>6, <2>7 DEF IdeTypeOK, CountInv, DriverTypeOK
  <2>9. clock_hand \in Slot
    BY SlotFacts DEF CacheTypeOK
  <2> QED BY <2>4, <2>8, <2>9 DEF TypeOK, CallTypeOK, CacheTypeOK, VersionInv
<1> QED BY <1>1, <1>2, <1>3, CacheInvariant, PTL DEF Spec

\* What a thread transfers from or to the disk is what it has asked for, after any number
\* of interrupts that the disk has not raised; and while there has been none the driver
\* does not panic (interrupt_handler, ide_read, ide_write, wait_until_idle).
THEOREM TransfersOwn == Spec => []TransferIsOwn
<1>1. Init => CountInv /\ FreshInv
  <2>1. Init => FreshInv
    BY IdeAssumption DEF Init, IdeInit, FreshInv
  <2> QED BY <2>1, InitBounds
<1>2. CacheInv /\ CountInv /\ FreshInv /\ [Next]_vars => CountInv' /\ FreshInv'
  BY CountStep, FreshStep
<1>3. CacheInv /\ CountInv /\ FreshInv => TransferIsOwn
  <2> SUFFICES ASSUME CacheInv, CountInv, FreshInv
               PROVE  TransferIsOwn
    OBVIOUS
  <2> USE DEF CacheInv, TypeInv, DriverTypeOK, DriverInv
  <2>1. panic => spurious > 0
    BY DEF CountInv, FreshInv
  <2>2. ASSUME NEW t \in Thread, io[t] = "transfer", DataRequest
        PROVE  /\ channel = t
               /\ device.sector = request[t].sec_no
               /\ device.phase = IF request[t].op = "read" THEN "read_ready" ELSE "write_ready"
               /\ request[t].op = "read" => device.buffer = disk[device.sector]
    <3>1. channel = t /\ device.phase \in {"read_ready", "write_ready"}
      BY <2>2 DEF DataRequest
    <3>2. request[t].op \in {"read", "write"}
      OBVIOUS
    <3> QED BY <2>2, <3>1, <3>2
  <2> QED BY <2>1, <2>2 DEF TransferIsOwn
<1> QED BY <1>1, <1>2, <1>3, CacheInvariant, PTL DEF Spec
=============================================================================
