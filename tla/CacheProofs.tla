---------------------------- MODULE CacheProofs -----------------------------
(***************************************************************************)
(* Theorems about the buffer cache over the IDE driver, for any threads,   *)
(* sectors and size of the cache, any number of accesses, and any number   *)
(* of interrupts that the disk has not raised.                             *)
(***************************************************************************)
EXTENDS BufferCache, TLAPS

\* Bytes of a sector, after any number of writes.
Bytes == [sector : Sector, version : Int]

\* Bytes that are the sector's, if cache_read has not copied them from its caller.
IsOf(bytes, sector) == bytes # Callers => bytes.sector = sector

\* The types of TypeOK, without the bounds that TLC needs; the hand of the clock does
\* not move; and the slot a thread has reached is one, but after the flush's last.
DriverTypeOK ==
  /\ io \in [Thread -> {"none", "lock", "wait", "transfer", "done"}]
  /\ request \in [Thread -> [op : {"read", "write"}, sec_no : Sector, buffer : Buffer]]
  /\ channel \in Thread \cup {None}
  /\ device \in [phase : Phase, sector : Sector, buffer : Bytes]
  /\ data \in [Buffer -> Bytes]
  /\ disk \in [Sector -> Bytes]
CallTypeOK ==
  /\ pc \in [Thread -> PC]
  /\ access \in [Thread -> [op : {"read", "write"}, sec : Sector]]
  /\ at \in [Thread -> 0 .. CACHE_SIZE]
  /\ \A t \in Thread : pc[t] \notin {"flush", "off"} => at[t] \in Slot
  /\ old \in [Thread -> [sector : Sector, flush : BOOLEAN]]
CacheTypeOK ==
  /\ block \in [Slot -> [sector : Sector, use : 0 .. 1, dirty : 0 .. 1, valid : 0 .. 1]]
  /\ block_lock \in [Slot -> Thread \cup {None}]
  /\ clock_hand = 0
  /\ buffer_lock \in Thread \cup {None}
  /\ latest \in [Sector -> Bytes]
TypeInv == DriverTypeOK /\ CallTypeOK /\ CacheTypeOK

\* Who holds the cache's lock; and who of them is in the driver.
Locked == {"search", "victim", "clear", "claim", "flush", "flush_write", "off"}
InDriver == {"write_back", "read_in", "flush_write"}
PlaceInv ==
  \A t \in Thread : /\ pc[t] \in Locked <=> buffer_lock = t
                    /\ pc[t] \in InDriver <=> io[t] # "none"

\* What the search has passed does not match, nor does anything after it.
SearchInv ==
  \A t \in Thread : \A i \in Slot :
    \/ pc[t] = "search" /\ i < at[t]
    \/ pc[t] \in {"victim", "clear", "claim"}
    => ~ Match(i, access[t].sec)

\* The disk is where the thread that holds the channel has brought it, or still where
\* the last write has, if that thread's command came too early.
DriverInv ==
  /\ device.phase = "read_ready" => device.buffer = disk[device.sector]
  /\ channel = None => device.phase \in {"idle", "writing"}
  /\ \A t \in Thread :
       /\ channel = t <=> io[t] \in {"wait", "transfer"}
       /\ channel = t /\ request[t].op = "read" =>
            \/ device.phase \in {"reading", "read_ready"} /\ device.sector = request[t].sec_no
            \/ device.phase \in {"writing", "idle"}
       /\ channel = t /\ request[t].op = "write" /\ io[t] = "transfer" =>
            \/ /\ device.phase \in {"write_command", "write_ready"}
               /\ device.sector = request[t].sec_no
            \/ device.phase \in {"writing", "idle"}
       /\ channel = t /\ request[t].op = "write" /\ io[t] = "wait" =>
            device.phase \in {"writing", "idle"}

\* What a thread has asked the driver for, and the lock it does that under.
RequestInv ==
  \A t \in Thread :
    /\ pc[t] \in InDriver => request[t].buffer = at[t]
    /\ pc[t] \in {"write_back", "flush_write"} => request[t].op = "write"
    /\ pc[t] \in {"read_in", "write_back"} => block_lock[at[t]] = t
    /\ pc[t] = "read_in" => request[t].op = "read"
    /\ pc[t] \in {"read_in", "flush_write"} => request[t].sec_no = block[at[t]].sector
    /\ pc[t] = "flush_write" => block_lock[at[t]] = None /\ block[at[t]].valid = 1
    /\ pc[t] = "claim" /\ old[t].flush =>
         /\ block_lock[at[t]] = None /\ block[at[t]].valid = 1
         /\ block[at[t]].sector = old[t].sector

\* Who holds a block's lock across a step brings the block in; it is clean.
BlockLockInv ==
  \A i \in Slot : block_lock[i] # None =>
    /\ pc[block_lock[i]] \in {"write_back", "read_in"} /\ at[block_lock[i]] = i
    /\ block[i].dirty = 0

\* Bytes on the way stay with their sector.
TransitInv ==
  /\ device.phase = "writing" => IsOf(device.buffer, device.sector)
  /\ \A t \in Thread :
       /\ pc[t] = "write_back" /\ io[t] \in {"lock", "transfer"} =>
            IsOf(data[at[t]], request[t].sec_no)
       /\ pc[t] = "read_in" /\ io[t] = "done" => IsOf(data[at[t]], block[at[t]].sector)

\* Bytes stay with their sector.
DataInv == RequestInv /\ BlockLockInv /\ TransitInv /\ SectorsDoNotMix

CacheInv ==
  /\ TypeInv /\ PlaceInv /\ SearchInv /\ OneBlockPerSector
  /\ DriverInv /\ DataInv

-----------------------------------------------------------------------------
(* Types.                                                                  *)

\* Blocks are numbered from 0, and there are at least two.
LEMMA SlotFacts ==
  /\ CACHE_SIZE \in Nat /\ CACHE_SIZE >= 2 /\ Buffer = Slot
  /\ Slot \subseteq Nat /\ 0 \in Slot /\ Slot \subseteq 0 .. CACHE_SIZE
  /\ \A i \in Slot : i + 1 \in 0 .. CACHE_SIZE
  /\ \A i \in 0 .. CACHE_SIZE : i < CACHE_SIZE => i \in Slot
BY BufferCacheAssumption DEF Slot

\* The hand of the clock, on block 0, goes to block 0.
LEMMA HandStays == NextHand(0) = 0
BY BufferCacheAssumption DEF NextHand

\* The values that stand for nothing in particular are of their types.
LEMMA NoValues ==
  ASSUME NEW s \in Sector
  PROVE  /\ AnySector \in Sector /\ NoAccess \in [op : {"read", "write"}, sec : Sector]
         /\ NoOld \in [sector : Sector, flush : BOOLEAN]
         /\ NoRequest \in [op : {"read", "write"}, sec_no : Sector, buffer : Buffer]
         /\ Idle \in [phase : Phase, sector : Sector, buffer : Bytes]
         /\ AtBoot(AnySector) \in Bytes /\ Callers \in Bytes
<1>1. AnySector \in Sector
  BY DEF AnySector
<1>2. (CHOOSE b \in Buffer : TRUE) \in Buffer
  BY SlotFacts
<1>3. AtBoot(AnySector) \in Bytes /\ Callers \in Bytes
  BY <1>1 DEF AtBoot, Callers, Bytes
<1> QED BY <1>1, <1>2, <1>3 DEF NoAccess, NoOld, NoRequest, Idle, Phase

\* Init is of the types.
LEMMA InitTypes ==
  ASSUME Init
  PROVE  TypeInv
<1>1. PICK s \in Sector : TRUE
  BY IdeAssumption
<1> USE <1>1, NoValues, SlotFacts
<1>2. \A x \in Sector : AtBoot(x) \in Bytes
  BY DEF AtBoot, Bytes
<1>3. DriverTypeOK
  BY <1>2, Buffer = Slot DEF DriverTypeOK, Init, IdeInit
<1>4. CallTypeOK
  BY DEF CallTypeOK, Init, PC
<1>5. CacheTypeOK
  BY <1>2 DEF CacheTypeOK, Init, IdeInit
<1> QED BY <1>3, <1>4, <1>5 DEF TypeInv

\* A flag of a block is set to 0 or 1.
LEMMA FlagTypes ==
  ASSUME NEW S, NEW i \in S, NEW v \in 0 .. 1,
         NEW b \in [S -> [sector : Sector, use : 0 .. 1, dirty : 0 .. 1, valid : 0 .. 1]]
  PROVE  /\ [b EXCEPT ![i].use = v]
              \in [S -> [sector : Sector, use : 0 .. 1, dirty : 0 .. 1, valid : 0 .. 1]]
         /\ [b EXCEPT ![i].dirty = v]
              \in [S -> [sector : Sector, use : 0 .. 1, dirty : 0 .. 1, valid : 0 .. 1]]
OBVIOUS

\* The steps of ide_read and ide_write keep the types.
LEMMA DriverStepTypes ==
  ASSUME TypeInv, NEW t \in Thread, DriverStep(t)
  PROVE  TypeInv'
<1> USE DEF TypeInv, DriverTypeOK, GoIo
<1>0. UNCHANGED <<threads, cache, history>>
  BY DEF DriverStep
<1>1. CallTypeOK' /\ CacheTypeOK'
  BY <1>0 DEF CallTypeOK, CacheTypeOK, threads, cache, history
<1>2. CASE IssueCommand(t)
  BY <1>1, <1>2 DEF IssueCommand, Issue, Phase
<1>3. CASE Completion(t)
  BY <1>1, <1>3 DEF Completion
<1>4. CASE Transfer(t)
  <2>1. request[t].buffer \in Buffer /\ data[request[t].buffer] \in Bytes
    BY <1>4
  <2>2. Idle \in [phase : Phase, sector : Sector, buffer : Bytes]
    BY IdeAssumption, NoValues
  <2> QED BY <1>1, <1>4, <2>1, <2>2 DEF Transfer, Phase
<1>5. CASE TransferFails(t)
  BY <1>1, <1>5 DEF TransferFails
<1> QED BY <1>2, <1>3, <1>4, <1>5 DEF DriverStep, Driver

\* The disk's answers, and the interrupt handler, keep the types.
LEMMA DiskStepTypes ==
  ASSUME TypeInv, DiskStep
  PROVE  TypeInv'
<1> USE DEF TypeInv, DriverTypeOK
<1>0. UNCHANGED <<threads, cache, history>>
  BY DEF DiskStep
<1>1. CallTypeOK' /\ CacheTypeOK'
  BY <1>0 DEF CallTypeOK, CacheTypeOK, threads, cache, history
<1>2. CASE DeviceAnswers
  <2>1. Idle \in [phase : Phase, sector : Sector, buffer : Bytes]
    BY IdeAssumption, NoValues
  <2> QED BY <1>1, <1>2, <2>1 DEF DeviceAnswers, Phase
<1>3. CASE interrupt_handler
  BY <1>1, <1>3 DEF interrupt_handler
<1> QED BY <1>2, <1>3 DEF DiskStep

\* So do the steps of get_cached_block and of its callers.
LEMMA LookupTypes ==
  ASSUME TypeInv, NEW t \in Thread,
         \/ \E op \in {"read", "write"}, sec \in Sector : Begin(t, op, sec)
         \/ get_cached_block(t) \/ cache_search(t) \/ clock_find_victim(t) \/ ClearUse(t)
         \/ Retry(t)
  PROVE  TypeInv'
<1> USE SlotFacts DEF TypeInv, CallTypeOK, CacheTypeOK, Go, PC
<1>0. DriverTypeOK'
  BY DEF DriverTypeOK, ideVars, Begin, get_cached_block, cache_search, clock_find_victim,
         ClearUse, Retry
<1>1. CASE \E op \in {"read", "write"}, sec \in Sector : Begin(t, op, sec)
  BY <1>0, <1>1, BufferCacheAssumption DEF Begin, cache, history
<1>2. CASE get_cached_block(t)
  BY <1>0, <1>2 DEF get_cached_block, history
<1>3. CASE cache_search(t)
  <2>1. at[t] \in Slot
    BY <1>3 DEF cache_search
  <2>2. CallTypeOK'
    <3>1. CASE Match(at[t], access[t].sec)
      BY <1>3, <2>1, <3>1 DEF cache_search
    <3>2. CASE ~ Match(at[t], access[t].sec)
      <4>1. at' = [at EXCEPT ![t] = IF at[t] + 1 < CACHE_SIZE THEN at[t] + 1 ELSE 0]
            /\ (pc' = pc \/ pc' = [pc EXCEPT ![t] = "victim"]) /\ UNCHANGED <<access, old>>
        BY <1>3, <3>2 DEF cache_search
      <4>2. (IF at[t] + 1 < CACHE_SIZE THEN at[t] + 1 ELSE 0) \in Slot
        BY <2>1
      <4> QED BY <4>1, <4>2
    <3> QED BY <3>1, <3>2
  <2>3. CacheTypeOK'
    BY <1>3 DEF cache_search, history
  <2> QED BY <1>0, <2>2, <2>3
<1>4. CASE clock_find_victim(t)
  <2>1. ASSUME NEW i \in Slot, Choose(t, i)
        PROVE  CallTypeOK'
    BY <1>4, <2>1 DEF Choose, clock_find_victim
  <2>2. CacheTypeOK'
    BY <1>4, HandStays DEF clock_find_victim, history
  <2> QED BY <1>0, <1>4, <2>1, <2>2, HandStays DEF clock_find_victim
<1>5. CASE ClearUse(t)
  <2>1. CallTypeOK'
    BY <1>5 DEF ClearUse
  <2>2. CacheTypeOK'
    <3>1. block' = [block EXCEPT ![0].use = 0] /\ 0 \in 0 .. 1
      BY <1>5 DEF ClearUse
    <3>2. block' \in [Slot -> [sector : Sector, use : 0 .. 1, dirty : 0 .. 1, valid : 0 .. 1]]
      BY <3>1, FlagTypes
    <3> QED BY <1>5, <3>2 DEF ClearUse, history
  <2> QED BY <1>0, <2>1, <2>2
<1>6. CASE Retry(t)
  BY <1>0, <1>6 DEF Retry, cache, history
<1> QED BY <1>1, <1>2, <1>3, <1>4, <1>5, <1>6

\* block_read and block_write are called with a sector and a block.
LEMMA StartIoTypes ==
  ASSUME TypeInv, NEW t \in Thread, NEW op \in {"read", "write"}, NEW sec \in Sector,
         NEW i \in Slot, StartIo(t, op, sec, i), UNCHANGED <<channel, device, data, disk>>
  PROVE  DriverTypeOK'
BY SlotFacts DEF TypeInv, DriverTypeOK, StartIo, GoIo

\* So do get_cached_block's claim and evict_and_replace.
LEMMA BringInTypes ==
  ASSUME TypeInv, NEW t \in Thread, Claim(t) \/ WrittenBack(t) \/ ReadIn(t)
  PROVE  TypeInv'
<1> USE SlotFacts DEF TypeInv, CallTypeOK, CacheTypeOK, Go, PC
<1>0. at[t] \in Slot /\ access[t].sec \in Sector /\ old[t].sector \in Sector
      /\ block[at[t]].sector \in Sector
  BY DEF Claim, WrittenBack, ReadIn, IoReturns
<1>1. CASE Claim(t)
  <2>1. DriverTypeOK'
    BY <1>0, <1>1, StartIoTypes DEF Claim
  <2>2. NoOld \in [sector : Sector, flush : BOOLEAN]
    BY IdeAssumption, NoValues
  <2>3. CallTypeOK'
    BY <1>0, <1>1, <2>2 DEF Claim
  <2> QED BY <1>0, <1>1, <2>1, <2>3 DEF Claim, history
<1>2. CASE WrittenBack(t)
  <2>1. DriverTypeOK'
    BY <1>0, <1>2, StartIoTypes DEF WrittenBack
  <2> QED BY <1>0, <1>2, <2>1 DEF WrittenBack, cache, history
<1>3. CASE ReadIn(t)
  <2>1. DriverTypeOK'
    BY <1>3, IdeAssumption, NoValues DEF ReadIn, IoReturns, GoIo, DriverTypeOK
  <2> QED BY <1>0, <1>3, <2>1 DEF ReadIn, IoReturns, history
<1> QED BY <1>1, <1>2, <1>3

\* So do the memcpy of cache_read and that of cache_write.
LEMMA AccessTypes ==
  ASSUME TypeInv, NEW t \in Thread, cache_read(t) \/ cache_write(t)
  PROVE  TypeInv'
<1> USE SlotFacts DEF TypeInv, CallTypeOK, CacheTypeOK, Go, PC, Finish, Bytes
<1>0. at[t] \in Slot /\ access[t].sec \in Sector /\ Callers \in Bytes
      /\ NoAccess \in [op : {"read", "write"}, sec : Sector]
  BY IdeAssumption, NoValues DEF cache_read, cache_write
<1>1. CASE cache_read(t)
  <2>1. DriverTypeOK'
    BY <1>0, <1>1 DEF cache_read, DriverTypeOK, ideVars
  <2> QED BY <1>0, <1>1, <2>1 DEF cache_read, cache, history
<1>2. CASE cache_write(t)
  <2>1. latest[access[t].sec].version + 1 \in Int
    BY <1>0
  <2>2. DriverTypeOK'
    BY <1>0, <1>2, <2>1 DEF cache_write, Write, DriverTypeOK, ideVars
  <2>3. CallTypeOK'
    BY <1>0, <1>2 DEF cache_write, Write
  <2>4. CacheTypeOK'
    <3>1. block' = [block EXCEPT ![at[t]].dirty = 1] /\ 1 \in 0 .. 1
      BY <1>2 DEF cache_write, Write
    <3>2. block' \in [Slot -> [sector : Sector, use : 0 .. 1, dirty : 0 .. 1, valid : 0 .. 1]]
      BY <1>0, <3>1, FlagTypes
    <3>3. latest' \in [Sector -> Bytes]
      BY <1>0, <1>2, <2>1 DEF cache_write, Write
    <3> QED BY <1>2, <3>2, <3>3 DEF cache_write, Write
  <2> QED BY <2>2, <2>3, <2>4
<1> QED BY <1>1, <1>2

\* So does flush_cache.
LEMMA FlushTypes ==
  ASSUME TypeInv, NEW t \in Thread,
         filesys_done(t) \/ FlushBlock(t) \/ Flushed(t) \/ PowerOff(t)
  PROVE  TypeInv'
<1> USE SlotFacts DEF TypeInv, CallTypeOK, CacheTypeOK, Go, PC
<1>1. CASE filesys_done(t)
  <2>1. DriverTypeOK'
    BY <1>1 DEF filesys_done, DriverTypeOK, ideVars
  <2> QED BY <1>1, <2>1 DEF filesys_done
<1>2. CASE FlushBlock(t)
  <2>1. at[t] \in Slot /\ block[at[t]].sector \in Sector
    BY <1>2 DEF FlushBlock
  <2>2. CASE block[at[t]].dirty = 1 /\ block[at[t]].valid = 1
    <3>1. DriverTypeOK'
      BY <1>2, <2>1, <2>2, StartIoTypes DEF FlushBlock
    <3> QED BY <1>2, <2>1, <2>2, <3>1 DEF FlushBlock, cache, history
  <2>3. CASE ~ (block[at[t]].dirty = 1 /\ block[at[t]].valid = 1)
    <3>1. DriverTypeOK'
      BY <1>2, <2>3 DEF FlushBlock, DriverTypeOK
    <3> QED BY <1>2, <2>1, <2>3, <3>1 DEF FlushBlock, cache, history
  <2> QED BY <2>2, <2>3
<1>3. CASE Flushed(t)
  <2>1. at[t] \in Slot
    BY <1>3 DEF Flushed, IoReturns
  <2>2. DriverTypeOK'
    BY <1>3, IdeAssumption, NoValues DEF Flushed, IoReturns, GoIo, DriverTypeOK
  <2>3. CallTypeOK'
    BY <1>3, <2>1 DEF Flushed, IoReturns
  <2>4. CacheTypeOK'
    <3>1. block' = [block EXCEPT ![at[t]].dirty = 0] /\ 0 \in 0 .. 1
      BY <1>3 DEF Flushed
    <3>2. block' \in [Slot -> [sector : Sector, use : 0 .. 1, dirty : 0 .. 1, valid : 0 .. 1]]
      BY <2>1, <3>1, FlagTypes
    <3> QED BY <1>3, <3>2 DEF Flushed, history
  <2> QED BY <2>2, <2>3, <2>4
<1>4. CASE PowerOff(t)
  <2>1. DriverTypeOK'
    BY <1>4 DEF PowerOff, DriverTypeOK, ideVars
  <2> QED BY <1>4, <2>1 DEF PowerOff, cache, history
<1> QED BY <1>1, <1>2, <1>3, <1>4

\* Every step keeps the types.
LEMMA TypeStep ==
  ASSUME TypeInv, [Next]_vars
  PROVE  TypeInv'
<1>1. CASE UNCHANGED vars
  BY <1>1 DEF vars, threads, cache, history, ideVars, TypeInv, DriverTypeOK, CallTypeOK,
              CacheTypeOK
<1>2. CASE Next
  <2>1. CASE DiskStep
    BY <2>1, DiskStepTypes
  <2>2. ASSUME NEW t \in Thread, Progress(t) \/ Call(t)
        PROVE  TypeInv'
    BY <2>2, LookupTypes, BringInTypes, AccessTypes, FlushTypes, DriverStepTypes
       DEF Progress, Call
  <2> QED BY <1>2, <2>1, <2>2 DEF Next
<1> QED BY <1>1, <1>2

-----------------------------------------------------------------------------
(* Places, locks and the search.                                           *)

\* A thread is between the lock of the cache and its release if and only if it holds
\* it, and in the driver if and only if it has called it.
LEMMA PlaceStep ==
  ASSUME TypeInv, PlaceInv, [Next]_vars
  PROVE  PlaceInv'
<1> USE DEF TypeInv, DriverTypeOK, CallTypeOK, CacheTypeOK, PlaceInv, Go, GoIo, Locked,
            InDriver, PC
<1> USE IdeAssumption
<1>1. CASE UNCHANGED vars
  BY <1>1 DEF vars, threads, cache, ideVars
<1>2. CASE DiskStep
  BY <1>2 DEF DiskStep, DeviceAnswers, interrupt_handler, threads, cache
<1>3. ASSUME NEW t \in Thread, Progress(t) \/ Call(t)
      PROVE  PlaceInv'
  <2>1. CASE DriverStep(t)
    BY <2>1 DEF DriverStep, Driver, IssueCommand, Issue, Completion, Transfer, TransferFails, threads,
              cache
  <2>2. CASE \E op \in {"read", "write"}, sec \in Sector : Begin(t, op, sec)
    BY <2>2 DEF Begin, cache, ideVars
  <2>3. CASE get_cached_block(t)
    BY <2>3 DEF get_cached_block, ideVars
  <2>4. CASE cache_search(t)
    <3>1. CASE Match(at[t], access[t].sec)
      BY <2>4, <3>1 DEF cache_search, ideVars
    <3>2. CASE ~ Match(at[t], access[t].sec)
      <4>1. pc[t] = "search" /\ (pc' = pc \/ pc' = [pc EXCEPT ![t] = "victim"])
            /\ UNCHANGED <<buffer_lock, io>>
        BY <2>4, <3>2 DEF cache_search, ideVars
      <4> QED BY <4>1
    <3> QED BY <3>1, <3>2
  <2>5. CASE clock_find_victim(t)
    <3>1. pc[t] = "victim" /\ (pc' = [pc EXCEPT ![t] = "claim"] \/ pc' = [pc EXCEPT ![t] = "clear"])
          /\ UNCHANGED <<buffer_lock, io>>
      BY <2>5 DEF clock_find_victim, Choose, ideVars
    <3> QED BY <3>1
  <2>6. CASE ClearUse(t)
    BY <2>6 DEF ClearUse, ideVars
  <2>7. CASE Claim(t)
    BY <2>7 DEF Claim, StartIo
  <2>8. CASE WrittenBack(t)
    BY <2>8 DEF WrittenBack, StartIo, cache
  <2>9. CASE ReadIn(t)
    BY <2>9 DEF ReadIn, IoReturns
  <2>10. CASE Retry(t)
    BY <2>10 DEF Retry, cache, ideVars
  <2>11. CASE cache_read(t)
    BY <2>11 DEF cache_read, Finish, cache, ideVars
  <2>12. CASE cache_write(t)
    BY <2>12 DEF cache_write, Write, Finish, ideVars
  <2>13. CASE filesys_done(t)
    BY <2>13 DEF filesys_done, ideVars
  <2>14. CASE FlushBlock(t)
    <3>1. pc[t] = "flush" /\ UNCHANGED buffer_lock
          /\ \/ UNCHANGED <<pc, io>>
             \/ pc' = [pc EXCEPT ![t] = "flush_write"] /\ io' = [io EXCEPT ![t] = "lock"]
      BY <2>14 DEF FlushBlock, StartIo, cache
    <3> QED BY <3>1
  <2>15. CASE Flushed(t)
    BY <2>15 DEF Flushed, IoReturns
  <2>16. CASE PowerOff(t)
    BY <2>16 DEF PowerOff, cache, ideVars
  <2> QED BY <1>3, <2>1, <2>2, <2>3, <2>4, <2>5, <2>6, <2>7, <2>8, <2>9, <2>10, <2>11,
             <2>12, <2>13, <2>14, <2>15, <2>16 DEF Progress, Call
<1> QED BY <1>1, <1>2, <1>3 DEF Next

\* A flag that is set leaves the sector and the validity of all blocks.
LEMMA FlagsKeepNames ==
  ASSUME NEW S, NEW i \in S, NEW j \in S, NEW v,
         NEW b \in [S -> [sector : Sector, use : 0 .. 1, dirty : 0 .. 1, valid : 0 .. 1]]
  PROVE  /\ [b EXCEPT ![i].use = v][j].sector = b[j].sector
         /\ [b EXCEPT ![i].use = v][j].valid = b[j].valid
         /\ [b EXCEPT ![i].dirty = v][j].sector = b[j].sector
         /\ [b EXCEPT ![i].dirty = v][j].valid = b[j].valid
<1>1. CASE i = j
  BY <1>1
<1>2. CASE i # j
  BY <1>2
<1> QED BY <1>1, <1>2

\* Nothing but Claim changes what sector a block names.
LEMMA NamesKept ==
  ASSUME TypeInv, [Next]_vars, \A t \in Thread : ~ Claim(t)
  PROVE  \A i \in Slot : block'[i].sector = block[i].sector /\ block'[i].valid = block[i].valid
<1> DEFINE Kept == \A i \in Slot : /\ block'[i].sector = block[i].sector
                                   /\ block'[i].valid = block[i].valid
<1>1. block \in [Slot -> [sector : Sector, use : 0 .. 1, dirty : 0 .. 1, valid : 0 .. 1]]
  BY DEF TypeInv, CacheTypeOK
<1>2. CASE UNCHANGED block
  BY <1>2
<1>3. ASSUME NEW t \in Thread, Progress(t) \/ Call(t), block' # block
      PROVE  Kept
  <2>1. ClearUse(t) \/ cache_write(t) \/ Flushed(t)
    BY <1>3 DEF Progress, Call, cache, DriverStep, Begin, get_cached_block, cache_search,
       clock_find_victim, WrittenBack, ReadIn, Retry, cache_read, filesys_done, FlushBlock,
       PowerOff
  <2>2. CASE ClearUse(t)
    <3>1. block' = [block EXCEPT ![0].use = 0] /\ 0 \in Slot
      BY <2>2, SlotFacts DEF ClearUse, TypeInv, CacheTypeOK
    <3> QED BY <1>1, <3>1, FlagsKeepNames
  <2>3. CASE cache_write(t)
    <3>1. block' = [block EXCEPT ![at[t]].dirty = 1] /\ at[t] \in Slot
      BY <2>3 DEF cache_write, Write, TypeInv, CallTypeOK
    <3> QED BY <1>1, <3>1, FlagsKeepNames
  <2>4. CASE Flushed(t)
    <3>1. block' = [block EXCEPT ![at[t]].dirty = 0] /\ at[t] \in Slot
      BY <2>4 DEF Flushed, IoReturns, TypeInv, CallTypeOK
    <3> QED BY <1>1, <3>1, FlagsKeepNames
  <2> QED BY <2>1, <2>2, <2>3, <2>4
<1>4. DiskStep \/ UNCHANGED vars => UNCHANGED block
  BY DEF DiskStep, vars, cache
<1> QED BY <1>2, <1>3, <1>4 DEF Next

\* The slots passed after one more round, or after the last, are those before it and its own.
LEMMA PassedSlots ==
  ASSUME NEW i \in Slot, NEW k \in Slot, i < k + 1 \/ ~ (k + 1 < CACHE_SIZE)
  PROVE  i < k \/ i = k
BY SlotFacts DEF Slot

\* What a search has passed still does not match after a step: whoever would claim a
\* block for the sector has to hold the lock of the cache.
LEMMA SearchStep ==
  ASSUME TypeInv, PlaceInv, SearchInv, [Next]_vars
  PROVE  SearchInv'
<1> USE DEF TypeInv, CallTypeOK, CacheTypeOK, SearchInv, Go
<1>1. CASE \E t \in Thread : Claim(t)
  <2>1. PICK t \in Thread : Claim(t)
    BY <1>1
  <2>2. \A x \in Thread : pc'[x] \notin {"search", "victim", "clear", "claim"}
    BY <2>1 DEF Claim, PlaceInv, Locked
  <2> QED BY <2>2
<1>2. CASE \A t \in Thread : ~ Claim(t)
  <2>1. SUFFICES ASSUME NEW x \in Thread, NEW i \in Slot,
                        \/ pc'[x] = "search" /\ i < at'[x]
                        \/ pc'[x] \in {"victim", "clear", "claim"}
                 PROVE  ~ Match(i, access'[x].sec)
    BY <1>2, NamesKept DEF Match
  <2>2. CASE UNCHANGED <<pc, at, access>>
    BY <2>1, <2>2
  <2>3. ASSUME NEW t \in Thread, Progress(t) \/ Call(t), x # t
        PROVE  pc'[x] = pc[x] /\ at'[x] = at[x] /\ access'[x] = access[x]
    BY <1>2, <2>3 DEF Progress, Call, DriverStep, threads, Begin, get_cached_block,
       cache_search, clock_find_victim, Choose, ClearUse, WrittenBack, ReadIn, IoReturns,
       Retry, cache_read, cache_write, Write, Finish, filesys_done, FlushBlock, Flushed,
       PowerOff
  <2>4. ASSUME Progress(x) \/ Call(x)
        PROVE  ~ Match(i, access'[x].sec)
    <3>1. \/ get_cached_block(x) \/ cache_search(x) \/ clock_find_victim(x) \/ ClearUse(x)
          \/ pc'[x] = pc[x] /\ at' = at /\ access' = access
          \/ pc'[x] \in {"get", "idle"}
      BY <1>2, <2>1, <2>4 DEF Progress, Call, DriverStep, threads, Begin, WrittenBack, ReadIn,
         IoReturns, Retry, cache_read, cache_write, Write, Finish, filesys_done, FlushBlock,
         Flushed, PowerOff
    <3>2. CASE get_cached_block(x)
      <4>1. at'[x] = 0 /\ pc'[x] = "search"
        BY <3>2 DEF get_cached_block
      <4> QED BY <2>1, <4>1, SlotFacts
    <3>3. CASE cache_search(x)
      <4>1. pc[x] = "search" /\ at[x] \in Slot /\ access' = access
        BY <3>3 DEF cache_search
      <4>2. ~ Match(at[x], access[x].sec)
        BY <2>1, <3>3 DEF cache_search
      <4>4. i < at[x] \/ i = at[x]
        <5>1. CASE at[x] + 1 < CACHE_SIZE
          <6>1. pc'[x] = "search" /\ at'[x] = at[x] + 1
            BY <3>3, <4>2, <5>1 DEF cache_search
          <6> QED BY <2>1, <4>1, <6>1, PassedSlots
        <5>2. CASE ~ (at[x] + 1 < CACHE_SIZE)
          BY <4>1, <5>2, PassedSlots
        <5> QED BY <5>1, <5>2
      <4> QED BY <4>1, <4>2, <4>4
    <3>4. CASE clock_find_victim(x) \/ ClearUse(x)
      <4>1. pc[x] \in {"victim", "clear"} /\ access' = access
        BY <3>4 DEF clock_find_victim, ClearUse
      <4> QED BY <4>1
    <3>5. CASE pc'[x] = pc[x] /\ at' = at /\ access' = access
      BY <2>1, <3>5
    <3> QED BY <2>1, <3>1, <3>2, <3>3, <3>4, <3>5
  <2>5. DiskStep \/ UNCHANGED vars => UNCHANGED <<pc, at, access>>
    BY DEF DiskStep, vars, threads
  <2> QED BY <2>1, <2>2, <2>3, <2>4, <2>5 DEF Next
<1> QED BY <1>1, <1>2

\* A claim makes a second block of a sector of none.
LEMMA OneBlockStep ==
  ASSUME TypeInv, SearchInv, OneBlockPerSector, [Next]_vars
  PROVE  OneBlockPerSector'
<1> USE DEF OneBlockPerSector, Match
<1>1. CASE \A t \in Thread : ~ Claim(t)
  BY <1>1, NamesKept
<1>2. CASE \E t \in Thread : Claim(t)
  <2>1. PICK t \in Thread : Claim(t)
    BY <1>2
  <2>2. at[t] \in Slot
    BY <2>1 DEF Claim, TypeInv, CallTypeOK
  <2>3. \A i \in Slot \ {at[t]} : block'[i] = block[i]
    BY <2>1, <2>2 DEF Claim, TypeInv, CacheTypeOK
  <2>4. block'[at[t]].sector = access[t].sec /\ block'[at[t]].valid = 1
    BY <2>1, <2>2 DEF Claim, TypeInv, CacheTypeOK
  <2>5. \A i \in Slot : ~ (block[i].valid = 1 /\ block[i].sector = access[t].sec)
    BY <2>1 DEF SearchInv, Claim
  <2> QED BY <2>2, <2>3, <2>4, <2>5
<1> QED BY <1>1, <1>2

-----------------------------------------------------------------------------
(* The driver.                                                             *)

\* While a thread is not in a command its calls and returns do not touch the channel.
LEMMA CallsKeepDriver ==
  ASSUME TypeInv, PlaceInv, DriverInv, NEW t \in Thread, Progress(t) \/ Call(t), ~ DriverStep(t)
  PROVE  DriverInv'
<1> USE DEF TypeInv, DriverTypeOK, CallTypeOK
<1>1. UNCHANGED <<channel, device, disk>>
  BY DEF Progress, Call, Begin, get_cached_block, cache_search, clock_find_victim, Choose, ClearUse,
     Claim, WrittenBack, ReadIn, IoReturns, Retry, cache_read, cache_write, Write,
     filesys_done, FlushBlock, Flushed, PowerOff, ideVars
<1>2. \A x \in Thread \ {t} : io'[x] = io[x] /\ request'[x] = request[x]
  BY DEF Progress, Call, Begin, get_cached_block, cache_search, clock_find_victim, Choose, ClearUse,
     Claim, WrittenBack, ReadIn, IoReturns, Retry, cache_read, cache_write, Write,
     filesys_done, FlushBlock, Flushed, PowerOff, ideVars, StartIo, GoIo
<1>3. CASE UNCHANGED <<io, request>>
  BY <1>1, <1>3 DEF DriverInv
<1>4. CASE ~ UNCHANGED <<io, request>>
  <2>1. io[t] \in {"none", "done"} /\ io'[t] \in {"none", "lock"}
    <3>1. Claim(t) \/ WrittenBack(t) \/ ReadIn(t) \/ FlushBlock(t) \/ Flushed(t)
      BY <1>4 DEF Progress, Call, Begin, get_cached_block, cache_search, clock_find_victim,
         ClearUse, Retry, cache_read, cache_write, Write, filesys_done, PowerOff, ideVars
    <3>2. CASE Claim(t)
      BY <3>2 DEF Claim, StartIo, GoIo, PlaceInv, InDriver
    <3>3. CASE WrittenBack(t)
      BY <3>3 DEF WrittenBack, StartIo, GoIo
    <3>4. CASE ReadIn(t) \/ Flushed(t)
      BY <3>4 DEF ReadIn, Flushed, IoReturns, GoIo
    <3>5. CASE FlushBlock(t)
      BY <1>4, <3>5 DEF FlushBlock, StartIo, GoIo, PlaceInv, InDriver
    <3> QED BY <3>1, <3>2, <3>3, <3>4, <3>5
  <2>2. channel # t
    BY <2>1 DEF DriverInv
  <2>3. ASSUME NEW x \in Thread
        PROVE  /\ channel' = x <=> io'[x] \in {"wait", "transfer"}
               /\ channel' = x => x # t
    BY <1>1, <1>2, <2>1, <2>2 DEF DriverInv
  <2> QED BY <1>1, <1>2, <2>3 DEF DriverInv
<1> QED BY <1>3, <1>4

\* A command of the thread that has the channel moves the disk as the thread goes on.
LEMMA DriverStepKeepsDriver ==
  ASSUME TypeInv, DriverInv, NEW t \in Thread, DriverStep(t)
  PROVE  DriverInv'
<1> USE DEF TypeInv, DriverTypeOK, GoIo, DriverInv, Busy, DataRequest, Phase
<1> USE IdeAssumption
<1>1. CASE IssueCommand(t)
  <2>1. \A x \in Thread : io[x] \notin {"wait", "transfer"}
    BY <1>1 DEF IssueCommand
  <2>2. device.phase \in {"idle", "writing"}
    BY <1>1 DEF IssueCommand
  <2>3. channel' = t /\ request' = request /\ disk' = disk
    BY <1>1 DEF IssueCommand
  <2>4. CASE request[t].op = "read"
    <3>1. /\ \/ device' = [device EXCEPT !.phase = "reading", !.sector = request[t].sec_no]
             \/ device' = device
          /\ io' = [io EXCEPT ![t] = "wait"]
      BY <1>1, <2>4 DEF IssueCommand, Issue
    <3> QED BY <2>1, <2>2, <2>3, <2>4, <3>1
  <2>5. CASE request[t].op = "write"
    <3>1. /\ \/ device' = [device EXCEPT !.phase = "write_command", !.sector = request[t].sec_no]
             \/ device' = device
          /\ io' = [io EXCEPT ![t] = "transfer"]
      BY <1>1, <2>5 DEF IssueCommand, Issue
    <3> QED BY <2>1, <2>2, <2>3, <2>5, <3>1
  <2> QED BY <2>4, <2>5
<1>2. CASE Completion(t)
  <2>1. channel = t /\ UNCHANGED <<device, request, disk>>
    BY <1>2 DEF Completion
  <2>2. CASE request[t].op = "read"
    BY <1>2, <2>1, <2>2 DEF Completion
  <2>3. CASE request[t].op = "write"
    BY <1>2, <2>1, <2>3 DEF Completion
  <2> QED BY <2>2, <2>3
<1>3. CASE Transfer(t)
  <2>1. channel = t /\ UNCHANGED <<request, disk>>
    BY <1>3 DEF Transfer
  <2>3. CASE request[t].op = "read"
    <3>1. device' = Idle /\ channel' = None /\ io' = [io EXCEPT ![t] = "done"]
      BY <1>3, <2>3 DEF Transfer
    <3>2. Idle.phase = "idle"
      BY DEF Idle
    <3> QED BY <2>1, <3>1, <3>2
  <2>4. CASE request[t].op = "write"
    <3>1. /\ device' = [device EXCEPT !.phase = "writing", !.buffer = data[request[t].buffer]]
          /\ channel' = channel /\ io' = [io EXCEPT ![t] = "wait"]
      BY <1>3, <2>4 DEF Transfer
    <3> QED BY <2>1, <2>4, <3>1
  <2> QED BY <2>3, <2>4
<1>4. CASE TransferFails(t)
  BY <1>4 DEF TransferFails
<1> QED BY <1>1, <1>2, <1>3, <1>4 DEF DriverStep, Driver

\* The disk's answer is to the command of the thread that has the channel.
LEMMA DiskKeepsDriver ==
  ASSUME TypeInv, DriverInv, DiskStep
  PROVE  DriverInv'
<1> USE DEF TypeInv, DriverTypeOK, DriverInv
<1>1. CASE interrupt_handler
  BY <1>1 DEF interrupt_handler
<1>2. CASE DeviceAnswers
  <2>0. UNCHANGED <<io, request, channel>>
    BY <1>2 DEF DeviceAnswers
  <2>1. CASE device.phase = "reading"
    <3>1. /\ device' = [device EXCEPT !.phase = "read_ready", !.buffer = disk[device.sector]]
          /\ disk' = disk
      BY <1>2, <2>1 DEF DeviceAnswers
    <3>2. /\ device'.phase = "read_ready" /\ device'.sector = device.sector
          /\ device'.buffer = disk[device.sector]
      BY <3>1
    <3> QED BY <2>0, <2>1, <3>1, <3>2
  <2>2. CASE device.phase = "write_command"
    BY <1>2, <2>0, <2>2 DEF DeviceAnswers
  <2>3. CASE device.phase = "writing"
    <3>1. device' = Idle /\ Idle.phase = "idle"
      BY <1>2, <2>3 DEF DeviceAnswers, Idle
    <3> QED BY <2>0, <2>3, <3>1
  <2> QED BY <1>2, <2>1, <2>2, <2>3 DEF DeviceAnswers
<1> QED BY <1>1, <1>2 DEF DiskStep

\* Every step keeps the disk in step with the thread that has the channel.
LEMMA DriverInvStep ==
  ASSUME TypeInv, PlaceInv, DriverInv, [Next]_vars
  PROVE  DriverInv'
<1>1. CASE UNCHANGED vars
  BY <1>1 DEF vars, ideVars, DriverInv
<1> QED BY <1>1, CallsKeepDriver, DriverStepKeepsDriver, DiskKeepsDriver DEF Next

-----------------------------------------------------------------------------
(* Bytes stay with their sector.                                           *)

\* A step outside the driver that leaves locks, bytes and what blocks say of them.
LEMMA QuietKeepsData ==
  ASSUME TypeInv, DataInv, NEW t \in Thread,
         UNCHANGED <<io, request, block_lock, data, disk, device>>,
         \A x \in Thread \ {t} : pc'[x] = pc[x] /\ at'[x] = at[x] /\ old'[x] = old[x],
         pc[t] \notin InDriver, pc'[t] \notin InDriver,
         pc'[t] = "claim" /\ old'[t].flush =>
           /\ block_lock[at'[t]] = None /\ at'[t] \in Slot /\ block[at'[t]].valid = 1
           /\ block[at'[t]].sector = old'[t].sector,
         \A i \in Slot : /\ block'[i].sector = block[i].sector
                         /\ block'[i].valid = block[i].valid
                         /\ block'[i].dirty = block[i].dirty
  PROVE  DataInv'
<1> USE DEF IsOf, TypeInv, CallTypeOK, CacheTypeOK, DataInv, InDriver
<1>0. ASSUME NEW x \in Thread \ {t}, pc[x] \in InDriver \cup {"claim"}
      PROVE  at[x] \in Slot
  BY <1>0
<1>1. RequestInv'
  BY <1>0 DEF RequestInv
<1>2. BlockLockInv'
  BY DEF BlockLockInv
<1>3. TransitInv'
  <2>1. device'.phase = "writing" => IsOf(device'.buffer, device'.sector)
    BY DEF TransitInv
  <2>2. ASSUME NEW x \in Thread
        PROVE  /\ pc'[x] = "write_back" /\ io'[x] \in {"lock", "transfer"} =>
                    IsOf(data'[at'[x]], request'[x].sec_no)
               /\ pc'[x] = "read_in" /\ io'[x] = "done" =>
                    IsOf(data'[at'[x]], block'[at'[x]].sector)
    <3>1. CASE x = t
      BY <3>1
    <3>2. CASE x # t
      BY <1>0, <3>2 DEF TransitInv
    <3> QED BY <3>1, <3>2
  <2> QED BY <2>1, <2>2 DEF TransitInv
<1>4. SectorsDoNotMix'
  BY DEF SectorsDoNotMix
<1> QED BY <1>1, <1>2, <1>3, <1>4

\* The steps of lookups up to the claim, the begin and the end of a flush.
LEMMA LookupKeepsData ==
  ASSUME TypeInv, DataInv, NEW t \in Thread,
         \/ \E op \in {"read", "write"}, sec \in Sector : Begin(t, op, sec)
         \/ get_cached_block(t) \/ cache_search(t) \/ clock_find_victim(t) \/ ClearUse(t)
         \/ Retry(t) \/ filesys_done(t) \/ PowerOff(t)
  PROVE  DataInv'
<1> USE DEF IsOf, TypeInv, CallTypeOK, CacheTypeOK, Go
<1>1. UNCHANGED <<io, request, block_lock, data, disk, device>>
  BY DEF Begin, get_cached_block, cache_search, clock_find_victim, ClearUse, Retry,
         filesys_done, PowerOff, ideVars, cache
<1>2. \A x \in Thread \ {t} : pc'[x] = pc[x] /\ at'[x] = at[x] /\ old'[x] = old[x]
  BY DEF Begin, get_cached_block, cache_search, clock_find_victim, Choose, ClearUse, Retry,
         filesys_done, PowerOff
<1>3. pc[t] \notin InDriver /\ pc'[t] \notin InDriver
  BY DEF Begin, get_cached_block, cache_search, clock_find_victim, Choose, ClearUse, Retry,
         filesys_done, PowerOff, InDriver
<1>4. \A i \in Slot : /\ block'[i].sector = block[i].sector
                      /\ block'[i].valid = block[i].valid
                      /\ block'[i].dirty = block[i].dirty
  <2>1. CASE ClearUse(t)
    <3>1. block' = [block EXCEPT ![0].use = 0] /\ 0 \in Slot
      BY <2>1, SlotFacts DEF ClearUse
    <3> QED BY <3>1, FlagsKeepNames
  <2>2. CASE ~ ClearUse(t)
    BY <2>2 DEF Begin, get_cached_block, cache_search, clock_find_victim, Retry, filesys_done,
                PowerOff, cache
  <2> QED BY <2>1, <2>2
<1>5. ASSUME pc'[t] = "claim" /\ old'[t].flush
      PROVE  /\ block_lock[at'[t]] = None /\ at'[t] \in Slot /\ block[at'[t]].valid = 1
             /\ block[at'[t]].sector = old'[t].sector
  <2>1. clock_find_victim(t)
    BY <1>5 DEF Begin, get_cached_block, cache_search, ClearUse, Retry, filesys_done, PowerOff
  <2>2. PICK i \in Slot : Choose(t, i)
    BY <1>5, <2>1, HandStays, SlotFacts DEF clock_find_victim
  <2>3. at'[t] = i /\ old'[t] = [sector |-> block[i].sector,
                                 flush |-> block[i].dirty = 1 /\ block[i].valid = 1]
    BY <2>2 DEF Choose
  <2>4. block[i].dirty = 1 /\ block[i].valid = 1
    <3> DEFINE f == block[i].dirty = 1 /\ block[i].valid = 1
    <3>1. old'[t].flush = f
      <4> HIDE DEF f
      <4>1. old'[t] = [sector |-> block[i].sector, flush |-> f]
        BY <2>3 DEF f
      <4> QED BY <4>1
    <3> QED BY <1>5, <3>1, Zenon
  <2>5. block_lock[i] = None
    BY <2>4 DEF DataInv, BlockLockInv
  <2>6. old'[t].sector = block[i].sector
    BY <2>3
  <2> QED BY <2>3, <2>4, <2>5, <2>6
<1> QED BY <1>1, <1>2, <1>3, <1>4, <1>5, QuietKeepsData

\* The victim's bytes, if they are to be written back, are those of its old sector.
LEMMA ClaimKeepsData ==
  ASSUME TypeInv, PlaceInv, DataInv, NEW t \in Thread, Claim(t)
  PROVE  DataInv'
<1> USE DEF IsOf, TypeInv, DriverTypeOK, CallTypeOK, CacheTypeOK, Go
<1> DEFINE i == at[t]
<1>1. /\ pc[t] = "claim" /\ i \in Slot /\ block_lock[i] = None /\ buffer_lock = t
      /\ block_lock' = [block_lock EXCEPT ![i] = t]
      /\ block' = [block EXCEPT ![i] =
                    [sector |-> access[t].sec, use |-> 1, dirty |-> 0, valid |-> 1]]
      /\ UNCHANGED <<at, data, disk, device>>
  BY DEF Claim, PlaceInv, Locked
<1>2. block'[i].sector = access[t].sec /\ block'[i].dirty = 0
      /\ \A j \in Slot \ {i} : block'[j] = block[j] /\ block_lock'[j] = block_lock[j]
  BY <1>1
<1>3. \A x \in Thread \ {t} : /\ pc'[x] = pc[x] /\ old'[x] = old[x] /\ request'[x] = request[x]
                              /\ io'[x] = io[x] /\ pc[x] \notin Locked
  BY <1>1 DEF Claim, StartIo, GoIo, PlaceInv
<1>4. io'[t] = "lock" /\ request'[t].buffer = i
      /\ \/ /\ pc'[t] = "write_back" /\ old[t].flush
            /\ request'[t].op = "write" /\ request'[t].sec_no = old[t].sector
         \/ /\ pc'[t] = "read_in"
            /\ request'[t].op = "read" /\ request'[t].sec_no = access[t].sec
  BY DEF Claim, StartIo, GoIo
<1>5. RequestInv'
  <2>1. ASSUME NEW x \in Thread \ {t}, pc[x] \in {"write_back", "read_in"}
        PROVE  at[x] \in Slot \ {i}
    <3>1. at[x] \in Slot /\ block_lock[at[x]] = x
      BY <2>1 DEF DataInv, RequestInv
    <3> QED BY <1>1, <3>1, IdeAssumption
  <2> QED BY <1>1, <1>2, <1>3, <1>4, <2>1 DEF DataInv, RequestInv, InDriver, Locked
<1>6. BlockLockInv'
  <2>1. ASSUME NEW j \in Slot \ {i}, block_lock[j] # None
        PROVE  block_lock[j] # t
    BY <1>1, <2>1 DEF DataInv, BlockLockInv
  <2> QED BY <1>1, <1>2, <1>3, <1>4, <2>1 DEF DataInv, BlockLockInv
<1>7. TransitInv'
  <2>1. pc'[t] = "write_back" => IsOf(data[i], old[t].sector)
    BY <1>1, <1>4 DEF DataInv, RequestInv, SectorsDoNotMix
  <2>2. ASSUME NEW x \in Thread \ {t}, pc[x] = "read_in"
        PROVE  at[x] \in Slot \ {i}
    <3>1. at[x] \in Slot /\ block_lock[at[x]] = x
      BY <2>2 DEF DataInv, RequestInv
    <3> QED BY <1>1, <3>1, IdeAssumption
  <2>3. device'.phase = "writing" => IsOf(device'.buffer, device'.sector)
    BY <1>1 DEF DataInv, TransitInv
  <2>4. /\ pc'[t] = "write_back" => IsOf(data'[at'[t]], request'[t].sec_no)
        /\ io'[t] = "lock"
    BY <1>1, <1>4, <2>1
  <2>5. ASSUME NEW x \in Thread \ {t}
        PROVE  /\ pc'[x] = "write_back" /\ io'[x] \in {"lock", "transfer"} =>
                    IsOf(data'[at'[x]], request'[x].sec_no)
               /\ pc'[x] = "read_in" /\ io'[x] = "done" =>
                    IsOf(data'[at'[x]], block'[at'[x]].sector)
    <3>1. CASE pc[x] = "write_back"
      BY <1>1, <1>3, <3>1 DEF DataInv, TransitInv
    <3>2. CASE pc[x] = "read_in"
      <4>1. at[x] \in Slot \ {i}
        BY <2>2, <3>2
      <4> QED BY <1>1, <1>2, <1>3, <3>2, <4>1 DEF DataInv, TransitInv
    <3> QED BY <1>3, <3>1, <3>2
  <2> QED BY <2>3, <2>4, <2>5 DEF TransitInv
<1>8. SectorsDoNotMix'
  BY <1>1, <1>2, IdeAssumption DEF DataInv, SectorsDoNotMix
<1> QED BY <1>5, <1>6, <1>7, <1>8 DEF DataInv

\* The victim written back, evict_and_replace asks for the sector the block now names.
LEMMA WrittenBackKeepsData ==
  ASSUME TypeInv, DataInv, NEW t \in Thread, WrittenBack(t)
  PROVE  DataInv'
<1> USE DEF IsOf, TypeInv, DriverTypeOK, CallTypeOK, CacheTypeOK, Go
<1>1. /\ pc[t] = "write_back" /\ pc' = [pc EXCEPT ![t] = "read_in"]
      /\ io' = [io EXCEPT ![t] = "lock"]
      /\ request' = [request EXCEPT ![t] =
           [op |-> "read", sec_no |-> block[at[t]].sector, buffer |-> at[t]]]
      /\ UNCHANGED <<at, old, block, block_lock, data, disk, device>>
  BY DEF WrittenBack, StartIo, GoIo, cache
<1>2. RequestInv'
  BY <1>1 DEF DataInv, RequestInv, InDriver
<1>3. BlockLockInv'
  BY <1>1 DEF DataInv, BlockLockInv
<1>4. TransitInv' /\ SectorsDoNotMix'
  BY <1>1 DEF DataInv, TransitInv, SectorsDoNotMix
<1> QED BY <1>2, <1>3, <1>4 DEF DataInv

\* Read in, the block holds bytes of its sector, and its lock is released.
LEMMA ReadInKeepsData ==
  ASSUME TypeInv, DataInv, NEW t \in Thread, ReadIn(t)
  PROVE  DataInv'
<1> USE DEF IsOf, TypeInv, DriverTypeOK, CallTypeOK, CacheTypeOK, Go
<1>1. /\ pc[t] = "read_in" /\ pc' = [pc EXCEPT ![t] = "use"] /\ at[t] \in Slot
      /\ io[t] = "done" /\ io' = [io EXCEPT ![t] = "none"]
      /\ request' = [request EXCEPT ![t] = NoRequest]
      /\ block_lock' = [block_lock EXCEPT ![at[t]] = None]
      /\ UNCHANGED <<at, old, block, data, disk, device>>
  BY DEF ReadIn, IoReturns, GoIo
<1>2. block_lock[at[t]] = t
  BY <1>1 DEF DataInv, RequestInv
<1>3. RequestInv'
  BY <1>1, <1>2 DEF DataInv, RequestInv, InDriver
<1>4. BlockLockInv'
  BY <1>1, <1>2 DEF DataInv, BlockLockInv
<1>5. TransitInv'
  BY <1>1 DEF DataInv, TransitInv
<1>6. SectorsDoNotMix'
  BY <1>1 DEF DataInv, TransitInv, SectorsDoNotMix
<1> QED BY <1>3, <1>4, <1>5, <1>6 DEF DataInv

\* The memcpy of an access goes to a block of its sector that nobody brings in.
LEMMA AccessKeepsData ==
  ASSUME TypeInv, DataInv, NEW t \in Thread, cache_read(t) \/ cache_write(t)
  PROVE  DataInv'
<1> USE DEF IsOf, TypeInv, DriverTypeOK, CallTypeOK, CacheTypeOK, Go
<1> DEFINE i == at[t]
<1>1. /\ pc[t] = "use" /\ pc' = [pc EXCEPT ![t] = "idle"] /\ i \in Slot
      /\ block_lock[i] = None /\ block[i].sector = access[t].sec
      /\ at' = [at EXCEPT ![t] = 0]
      /\ UNCHANGED <<old, block_lock, io, request, disk, device>>
  BY DEF cache_read, cache_write, Write, Finish, cache, ideVars
<1>2. IsOf(data'[i], block[i].sector) /\ \A j \in Slot \ {i} : data'[j] = data[j]
  BY <1>1, SlotFacts DEF cache_read, cache_write, Write
<1>3. \A j \in Slot : block'[j].sector = block[j].sector /\ block'[j].valid = block[j].valid
  <2>1. CASE cache_read(t)
    BY <2>1 DEF cache_read, cache
  <2>2. CASE cache_write(t)
    <3>1. block' = [block EXCEPT ![i].dirty = 1]
      BY <2>2 DEF cache_write, Write
    <3> QED BY <1>1, <3>1, FlagsKeepNames
  <2> QED BY <2>1, <2>2
<1>4. \A j \in Slot \ {i} : block'[j] = block[j]
  BY <1>1 DEF cache_read, cache_write, Write, cache
<1>5. ASSUME NEW x \in Thread, pc[x] \in {"write_back", "read_in"}
      PROVE  at[x] \in Slot \ {i}
  <2>1. at[x] \in Slot /\ block_lock[at[x]] = x
    BY <1>5 DEF DataInv, RequestInv
  <2> QED BY <1>1, <2>1, IdeAssumption
<1>6. RequestInv'
  <2>1. \A x \in Thread : pc[x] \in {"claim", "read_in", "write_back", "flush_write"} => at[x] \in Slot
    OBVIOUS
  <2> QED BY <1>1, <1>3, <2>1 DEF DataInv, RequestInv, InDriver
<1>7. BlockLockInv'
  BY <1>1, <1>4 DEF DataInv, BlockLockInv
<1>8. TransitInv'
  <2>1. device'.phase = "writing" => IsOf(device'.buffer, device'.sector)
    BY <1>1 DEF DataInv, TransitInv
  <2>2. ASSUME NEW x \in Thread, pc'[x] \in {"write_back", "read_in"}
        PROVE  /\ pc[x] = pc'[x] /\ data'[at'[x]] = data[at[x]] /\ at[x] \in Slot /\ at'[x] = at[x]
    BY <1>1, <1>2, <1>5, <2>2
  <2>3. ASSUME NEW x \in Thread, pc'[x] = "write_back", io'[x] \in {"lock", "transfer"}
        PROVE  IsOf(data'[at'[x]], request'[x].sec_no)
    <3>1. IsOf(data[at[x]], request[x].sec_no)
      BY <1>1, <2>2, <2>3 DEF DataInv, TransitInv
    <3> QED BY <1>1, <2>2, <2>3, <3>1
  <2>4. ASSUME NEW x \in Thread, pc'[x] = "read_in", io'[x] = "done"
        PROVE  IsOf(data'[at'[x]], block'[at'[x]].sector)
    <3>1. IsOf(data[at[x]], block[at[x]].sector)
      BY <1>1, <2>2, <2>4 DEF DataInv, TransitInv
    <3>2. data'[at'[x]] = data[at[x]] /\ at'[x] = at[x] /\ at[x] \in Slot
      BY <2>2, <2>4
    <3>3. block'[at[x]].sector = block[at[x]].sector
      BY <1>3, <3>2
    <3> QED BY <3>1, <3>2, <3>3
  <2> QED BY <2>1, <2>3, <2>4 DEF TransitInv
<1>9. SectorsDoNotMix'
  <2>1. ASSUME NEW j \in Slot, block'[j].valid = 1, block_lock'[j] = None
        PROVE  IsOf(data'[j], block'[j].sector)
    <3>1. CASE j = i
      BY <1>2, <1>3, <3>1
    <3>2. CASE j # i
      <4>1. IsOf(data[j], block[j].sector)
        BY <1>1, <1>3, <2>1 DEF DataInv, SectorsDoNotMix
      <4> QED BY <1>2, <1>3, <3>2, <4>1
    <3> QED BY <3>1, <3>2
  <2>2. \A s \in Sector : IsOf(disk'[s], s)
    BY <1>1 DEF DataInv, SectorsDoNotMix
  <2> QED BY <2>1, <2>2 DEF SectorsDoNotMix
<1> QED BY <1>6, <1>7, <1>8, <1>9 DEF DataInv

\* flush_cache writes a dirty block, and a dirty block is nobody's.
LEMMA FlushKeepsData ==
  ASSUME TypeInv, DataInv, NEW t \in Thread, FlushBlock(t) \/ Flushed(t)
  PROVE  DataInv'
<1> USE DEF IsOf, TypeInv, DriverTypeOK, CallTypeOK, CacheTypeOK, Go
<1> DEFINE i == at[t]
<1>1. CASE FlushBlock(t) /\ ~ (block[i].dirty = 1 /\ block[i].valid = 1)
  <2>1. /\ pc[t] = "flush" /\ at' = [at EXCEPT ![t] = i + 1]
        /\ UNCHANGED <<pc, old, io, request, block, block_lock, data, disk, device>>
    BY <1>1 DEF FlushBlock, cache
  <2> QED BY <2>1, QuietKeepsData DEF InDriver
<1>2. CASE FlushBlock(t) /\ block[i].dirty = 1 /\ block[i].valid = 1
  <2>1. /\ pc[t] = "flush" /\ i \in Slot /\ pc' = [pc EXCEPT ![t] = "flush_write"]
        /\ io' = [io EXCEPT ![t] = "lock"]
        /\ request' = [request EXCEPT ![t] =
             [op |-> "write", sec_no |-> block[i].sector, buffer |-> i]]
        /\ UNCHANGED <<at, old, block, block_lock, data, disk, device>>
    BY <1>2, SlotFacts DEF FlushBlock, StartIo, GoIo, cache
  <2>2. block_lock[i] = None
    BY <1>2, <2>1 DEF DataInv, BlockLockInv
  <2>3. RequestInv'
    BY <1>2, <2>1, <2>2 DEF DataInv, RequestInv, InDriver
  <2>4. BlockLockInv'
    BY <2>1 DEF DataInv, BlockLockInv
  <2>5. TransitInv' /\ SectorsDoNotMix'
    BY <2>1 DEF DataInv, TransitInv, SectorsDoNotMix
  <2> QED BY <2>3, <2>4, <2>5 DEF DataInv
<1>3. CASE Flushed(t)
  <2>1. /\ pc[t] = "flush_write" /\ pc' = [pc EXCEPT ![t] = "flush"] /\ i \in Slot
        /\ io' = [io EXCEPT ![t] = "none"]
        /\ request' = [request EXCEPT ![t] = NoRequest]
        /\ at' = [at EXCEPT ![t] = i + 1]
        /\ block' = [block EXCEPT ![i].dirty = 0]
        /\ UNCHANGED <<old, block_lock, data, disk, device>>
    BY <1>3 DEF Flushed, IoReturns, GoIo
  <2>2. \A j \in Slot : block'[j].sector = block[j].sector /\ block'[j].valid = block[j].valid
    BY <2>1, FlagsKeepNames
  <2>3. block'[i].dirty = 0 /\ \A j \in Slot \ {i} : block'[j] = block[j]
    BY <2>1
  <2>4. \A x \in Thread \ {t} : pc'[x] = pc[x] /\ at'[x] = at[x] /\ io'[x] = io[x]
                                 /\ request'[x] = request[x]
    BY <2>1
  <2>5. \A x \in Thread : pc[x] \in {"claim", "read_in", "write_back", "flush_write"} => at[x] \in Slot
    OBVIOUS
  <2>6. RequestInv'
    BY <2>1, <2>2, <2>4, <2>5 DEF DataInv, RequestInv, InDriver
  <2>7. BlockLockInv'
    BY <2>1, <2>3, <2>4 DEF DataInv, BlockLockInv
  <2>8. TransitInv'
    BY <2>1, <2>2, <2>4, <2>5 DEF DataInv, TransitInv
  <2>9. SectorsDoNotMix'
    BY <2>1, <2>2 DEF DataInv, SectorsDoNotMix
  <2> QED BY <2>6, <2>7, <2>8, <2>9 DEF DataInv
<1> QED BY <1>1, <1>2, <1>3

\* A transfer fills the block with the sector that is to be in it, or the disk's buffer
\* with the sector that is to be written.
LEMMA DriverStepKeepsData ==
  ASSUME TypeInv, PlaceInv, DriverInv, DataInv, NEW t \in Thread, DriverStep(t)
  PROVE  DataInv'
<1> USE DEF IsOf, TypeInv, DriverTypeOK, CallTypeOK, CacheTypeOK, GoIo
<1> DEFINE i == at[t]
<1>1. UNCHANGED <<pc, at, old, block, block_lock, request, disk>>
  BY DEF DriverStep, Driver, IssueCommand, Issue, Completion, Transfer, TransferFails, threads,
              cache
<1>2. io[t] # "none" /\ pc[t] \in InDriver /\ i \in Slot /\ request[t].buffer = i
  <2>1. io[t] # "none"
    BY DEF DriverStep, Driver, IssueCommand, Issue, Completion, Transfer, TransferFails
  <2>2. pc[t] \in InDriver
    BY <2>1 DEF PlaceInv
  <2> QED BY <2>1, <2>2 DEF DataInv, RequestInv, InDriver
<1>3. RequestInv' /\ BlockLockInv'
  BY <1>1 DEF DataInv, RequestInv, BlockLockInv
<1>4. \A x \in Thread \ {t} : io'[x] = io[x]
  BY DEF DriverStep, Driver, IssueCommand, Issue, Completion, Transfer, TransferFails
<1>5. CASE IssueCommand(t)
  <2>1. /\ io[t] = "lock" /\ data' = data
        /\ device'.phase \in {"reading", "write_command"} \/ device' = device
    BY <1>5 DEF IssueCommand, Issue
  <2>2. SectorsDoNotMix'
    BY <1>1, <2>1 DEF DataInv, SectorsDoNotMix
  <2>3. io'[t] = IF request[t].op = "read" THEN "wait" ELSE "transfer"
    BY <1>5 DEF IssueCommand, Issue
  <2>5. pc[t] = "read_in" => request[t].op = "read"
    BY DEF DataInv, RequestInv
  <2>4. TransitInv'
    BY <1>1, <1>4, <2>1, <2>3, <2>5 DEF DataInv, TransitInv
  <2> QED BY <1>3, <2>2, <2>4 DEF DataInv
<1>6. CASE Completion(t)
  <2>1. io[t] = "wait" /\ UNCHANGED <<data, device>>
    BY <1>6 DEF Completion
  <2>2. SectorsDoNotMix'
    BY <1>1, <2>1 DEF DataInv, SectorsDoNotMix
  <2>3. IF request[t].op = "read" THEN io'[t] = "transfer" ELSE io'[t] = "done"
    BY <1>6 DEF Completion
  <2>4. /\ pc[t] = "read_in" => request[t].op = "read"
        /\ pc[t] = "write_back" => request[t].op = "write"
    BY DEF DataInv, RequestInv
  <2>5. TransitInv'
    BY <1>1, <1>4, <2>1, <2>3, <2>4 DEF DataInv, TransitInv
  <2> QED BY <1>3, <2>2, <2>5 DEF DataInv
<1>7. CASE Transfer(t)
  <2>1. io[t] = "transfer" /\ channel = t /\ device.phase \in {"read_ready", "write_ready"}
    BY <1>7 DEF Transfer, DataRequest, DriverInv
  <2>2. CASE request[t].op = "read"
    <3>1. /\ data' = [data EXCEPT ![i] = device.buffer] /\ device' = Idle
          /\ io' = [io EXCEPT ![t] = "done"]
      BY <1>2, <1>7, <2>2 DEF Transfer
    <3>2. pc[t] = "read_in"
      BY <1>2, <2>2 DEF DataInv, RequestInv, InDriver
    <3>3. IsOf(device.buffer, block[i].sector)
      BY <2>1, <2>2, <3>2 DEF DataInv, RequestInv, DriverInv, SectorsDoNotMix
    <3>4. block_lock[i] = t
      BY <3>2 DEF DataInv, RequestInv
    <3>5. SectorsDoNotMix'
      BY <1>1, <1>2, <3>1, <3>4, IdeAssumption, SlotFacts DEF DataInv, SectorsDoNotMix
    <3>6. \A x \in Thread \ {t} : pc[x] \in {"write_back", "read_in"} => at[x] \in Slot \ {i}
      BY <3>4 DEF DataInv, RequestInv
    <3>7. Idle.phase = "idle"
      BY DEF Idle
    <3>8. TransitInv'
      BY <1>1, <1>2, <1>4, <3>1, <3>2, <3>3, <3>6, <3>7, SlotFacts DEF DataInv, TransitInv
    <3> QED BY <1>3, <3>5, <3>8 DEF DataInv
  <2>3. CASE request[t].op = "write"
    <3>1. /\ device' = [device EXCEPT !.phase = "writing", !.buffer = data[i]]
          /\ io' = [io EXCEPT ![t] = "wait"] /\ data' = data
      BY <1>2, <1>7, <2>3 DEF Transfer
    <3>2. device.sector = request[t].sec_no
      BY <2>1, <2>3 DEF DriverInv
    <3>3. IsOf(data[i], request[t].sec_no)
      <4>1. pc[t] \in {"write_back", "flush_write"}
        BY <1>2, <2>3 DEF DataInv, RequestInv, InDriver
      <4>2. CASE pc[t] = "write_back"
        BY <2>1, <4>2 DEF DataInv, TransitInv
      <4>3. CASE pc[t] = "flush_write"
        BY <1>2, <4>3 DEF DataInv, RequestInv, SectorsDoNotMix
      <4> QED BY <4>1, <4>2, <4>3
    <3>4. IsOf(device'.buffer, device'.sector)
      BY <3>1, <3>2, <3>3
    <3>5. SectorsDoNotMix'
      BY <1>1, <3>1 DEF DataInv, SectorsDoNotMix
    <3>6. TransitInv'
      BY <1>1, <1>4, <3>1, <3>4 DEF DataInv, TransitInv
    <3> QED BY <1>3, <3>5, <3>6 DEF DataInv
  <2> QED BY <2>2, <2>3
<1>8. CASE TransferFails(t)
  BY <1>1, <1>3, <1>8 DEF TransferFails, DataInv, TransitInv, SectorsDoNotMix
<1> QED BY <1>5, <1>6, <1>7, <1>8 DEF DriverStep, Driver

\* The disk puts in a sector the bytes that are that sector's.
LEMMA DiskKeepsData ==
  ASSUME TypeInv, DataInv, DiskStep
  PROVE  DataInv'
<1> USE DEF IsOf, TypeInv, DriverTypeOK, CallTypeOK, CacheTypeOK
<1>1. UNCHANGED <<pc, at, old, block, block_lock, request, io, data>>
  BY DEF DiskStep, DeviceAnswers, interrupt_handler, threads, cache
<1>2. RequestInv' /\ BlockLockInv'
  BY <1>1 DEF DataInv, RequestInv, BlockLockInv
<1>3. device'.phase = "writing" => device' = device
  <2>1. CASE interrupt_handler
    BY <2>1 DEF interrupt_handler
  <2>2. CASE DeviceAnswers
    <3>1. \/ device' = [device EXCEPT !.phase = "read_ready", !.buffer = disk[device.sector]]
          \/ device' = [device EXCEPT !.phase = "write_ready"]
          \/ device' = Idle
      BY <2>2 DEF DeviceAnswers
    <3>2. Idle.phase = "idle"
      BY DEF Idle
    <3>3. device'.phase # "writing"
      BY <3>1, <3>2 DEF DriverTypeOK
    <3> QED BY <3>3
  <2> QED BY <2>1, <2>2 DEF DiskStep
<1>4. TransitInv'
  BY <1>1, <1>3 DEF DataInv, TransitInv
<1>5. \A s \in Sector : IsOf(disk'[s], s)
  BY DEF DiskStep, DeviceAnswers, interrupt_handler, DataInv, TransitInv, SectorsDoNotMix
<1>6. SectorsDoNotMix'
  BY <1>1, <1>5 DEF DataInv, SectorsDoNotMix
<1> QED BY <1>2, <1>4, <1>6 DEF DataInv

\* Every step keeps bytes with their sector.
LEMMA DataStep ==
  ASSUME TypeInv, PlaceInv, DriverInv, DataInv, [Next]_vars
  PROVE  DataInv'
<1>1. CASE UNCHANGED vars
  BY <1>1 DEF vars, threads, cache, ideVars, DataInv, RequestInv, BlockLockInv, TransitInv,
              SectorsDoNotMix, IsOf
<1>2. CASE Next
  <2>1. CASE DiskStep
    BY <2>1, DiskKeepsData
  <2>2. ASSUME NEW t \in Thread, Progress(t) \/ Call(t)
        PROVE  DataInv'
    BY <2>2, LookupKeepsData, ClaimKeepsData, WrittenBackKeepsData, ReadInKeepsData,
       AccessKeepsData, FlushKeepsData, DriverStepKeepsData DEF Progress, Call
  <2> QED BY <1>2, <2>1, <2>2 DEF Next
<1> QED BY <1>1, <1>2

-----------------------------------------------------------------------------
(* The invariant, and what follows from it.                                *)

\* After buffer_cache_init no block is valid, and nobody is in a call.
LEMMA InitCacheInv ==
  ASSUME Init
  PROVE  CacheInv
<1>1. TypeInv
  BY InitTypes
<1>2. PlaceInv /\ SearchInv /\ OneBlockPerSector
  BY IdeAssumption DEF Init, IdeInit, PlaceInv, SearchInv, OneBlockPerSector, Match, Locked,
                       InDriver
<1>3. DriverInv
  <2>1. Idle.phase = "idle"
    BY DEF Idle
  <2> QED BY <2>1, IdeAssumption DEF Init, IdeInit, DriverInv
<1>4. DataInv
  <2>1. Idle.phase = "idle"
    BY DEF Idle
  <2>2. \A s \in Sector : AtBoot(s).sector = s
    BY DEF AtBoot
  <2> QED BY <2>1, <2>2 DEF Init, IdeInit, DataInv, RequestInv, BlockLockInv, TransitInv,
                            SectorsDoNotMix, InDriver, IsOf
<1> QED BY <1>1, <1>2, <1>3, <1>4 DEF CacheInv

\* Every step keeps the whole invariant.
LEMMA CacheInvStep == CacheInv /\ [Next]_vars => CacheInv'
BY TypeStep, PlaceStep, SearchStep, OneBlockStep, DriverInvStep, DataStep DEF CacheInv


\* The invariant holds of every state of the cache.
LEMMA CacheInvariant == Spec => []CacheInv
BY InitCacheInv, CacheInvStep, PTL DEF Spec

\* A sector is in one block at most, however the searches and evictions of threads
\* interleave (get_cached_block).
THEOREM OneBlock == Spec => []OneBlockPerSector
<1>1. CacheInv => OneBlockPerSector
  BY DEF CacheInv
<1> QED BY <1>1, CacheInvariant, PTL

\* A block that nobody brings in holds bytes of the sector it names, and so does the
\* disk, but for those a cache_read has copied from its caller's buffer (evict_and_replace, cache_read and cache_write over ide_read and ide_write).
THEOREM NoMixing == Spec => []SectorsDoNotMix
<1>1. CacheInv => SectorsDoNotMix
  BY DEF CacheInv, DataInv
<1> QED BY <1>1, CacheInvariant, PTL
=============================================================================
