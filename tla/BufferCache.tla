---------------------------- MODULE BufferCache -----------------------------
(***************************************************************************)
(* The buffer cache of filesys/inode.c over the IDE driver: threads that   *)
(* read and write sectors through it, eviction, and the flush at power-off.*)
(*                                                                         *)
(* The locks are those of Threads.  Interrupts are on, so threads          *)
(* interleave as they like; an action is what a thread does under a lock,  *)
(* or one access to what is not under one.  A chunk is the whole sector.   *)
(***************************************************************************)
EXTENDS Ide

CONSTANTS
  CACHE_SIZE,
  MaxOps,        \* bound: accesses
  MaxReads,      \* bound: how many of them, the first ones, may be reads
  FlushAfter     \* bound: accesses before the flush

Slot == 0 .. CACHE_SIZE - 1

ASSUME BufferCacheAssumption ==
  /\ Buffer = Slot
  /\ CACHE_SIZE \in {2, 4, 8, 16, 32, 64}      \* up to the code's, powers of two
  /\ MaxOps \in Nat /\ MaxOps <= MaxWrites      \* each may be a write
  /\ MaxReads \in Nat /\ FlushAfter \in 0 .. MaxOps

VARIABLES
  pc,            \* where a thread stands, see PC
  access,        \* its call: op and sec
  at,            \* the slot its loop has reached, or the block it has found
  old,           \* old_sec and flush of get_cached_block
  block,         \* struct cached_block without lock and data
  block_lock,    \* the holder of each block's lock
  clock_hand,
  buffer_lock,   \* the holder of buffer_cache->lock
  ops,           \* accesses so far
  latest,        \* history: what was last written to a sector
  due            \* history: what a flush found already written

threads == <<pc, access, at, old, ops>>
cache == <<block, block_lock, clock_hand, buffer_lock>>
history == <<latest, due>>
vars == <<threads, cache, history, ideVars, data, disk>>

(***************************************************************************)
(* "idle": in no call.  "get": at get_cached_block.  "search", "victim",   *)
(* "clear": in cache_search, clock_find_victim, its else branch.  "claim": *)
(* at the lock of the victim.  "write_back", "read_in": in the two calls   *)
(* of evict_and_replace.  "use": at the memcpy of cache_read, cache_write. *)
(* "flush", "flush_write": in flush_cache, in its block_write.  "off": the *)
(* power is off.                                                           *)
(***************************************************************************)
PC == {"idle", "get", "search", "victim", "clear", "claim", "write_back", "read_in",
       "use", "flush", "flush_write", "off"}

NoAccess == [op |-> "read", sec |-> AnySector]
NoOld == [sector |-> AnySector, flush |-> FALSE]

\* buffer_cache_init; the sector of a block that is not valid is garbage.
Init ==
  /\ IdeInit
  /\ data = [i \in Slot |-> AtBoot(AnySector)]
  /\ pc = [t \in Thread |-> "idle"]
  /\ access = [t \in Thread |-> NoAccess]
  /\ at = [t \in Thread |-> 0]
  /\ old = [t \in Thread |-> NoOld]
  /\ block = [i \in Slot |-> [sector |-> AnySector, use |-> 0, dirty |-> 0, valid |-> 0]]
  /\ block_lock = [i \in Slot |-> None]
  /\ clock_hand = 0
  /\ buffer_lock = None
  /\ ops = 0
  /\ latest = disk
  /\ due = disk

Go(t, to) == pc' = [pc EXCEPT ![t] = to]

-----------------------------------------------------------------------------
(* get_cached_block.                                                       *)

\* A call of cache_read or cache_write.
Begin(t, op, sec) ==
  /\ pc[t] = "idle" /\ ops < MaxOps
  /\ op = "read" => ops < MaxReads
  /\ ops' = ops + 1
  /\ access' = [access EXCEPT ![t] = [op |-> op, sec |-> sec]]
  /\ Go(t, "get")
  /\ UNCHANGED <<at, old, cache, history, ideVars, data, disk>>

get_cached_block(t) ==
  /\ pc[t] = "get" /\ buffer_lock = None
  /\ buffer_lock' = t
  /\ at' = [at EXCEPT ![t] = 0]
  /\ Go(t, "search")
  /\ UNCHANGED <<access, old, ops, block, block_lock, clock_hand, history,
                 ideVars, data, disk>>

Match(i, sec) == block[i].valid = 1 /\ block[i].sector = sec

\* Seeded faults: the lock of the cache is kept with a block that was found; it is
\* released when none was found.
SearchKeepsLock(t) ==
  LET i == at[t] IN
  /\ pc[t] = "search" /\ block_lock[i] = None
  /\ IF Match(i, access[t].sec)
     THEN Go(t, "use") /\ UNCHANGED at
     ELSE /\ at' = [at EXCEPT ![t] = IF i + 1 < CACHE_SIZE THEN i + 1 ELSE 0]
          /\ IF i + 1 < CACHE_SIZE THEN UNCHANGED pc ELSE Go(t, "victim")
  /\ UNCHANGED <<access, old, ops, cache, history, ideVars, data, disk>>
SearchReleasesLock(t) ==
  LET i == at[t] IN
  /\ pc[t] = "search" /\ block_lock[i] = None
  /\ IF Match(i, access[t].sec)
     THEN Go(t, "use") /\ buffer_lock' = None /\ UNCHANGED at
     ELSE /\ at' = [at EXCEPT ![t] = IF i + 1 < CACHE_SIZE THEN i + 1 ELSE 0]
          /\ IF i + 1 < CACHE_SIZE THEN UNCHANGED <<pc, buffer_lock>>
             ELSE Go(t, "victim") /\ buffer_lock' = None
  /\ UNCHANGED <<access, old, ops, block, block_lock, clock_hand, history,
                 ideVars, data, disk>>

\* One round of cache_search, under the block's lock; with the block found, or
\* after the last, get_cached_block goes on.
cache_search(t) ==
  LET i == at[t] IN
  /\ pc[t] = "search" /\ block_lock[i] = None
  /\ IF Match(i, access[t].sec)
     THEN Go(t, "use") /\ buffer_lock' = None /\ UNCHANGED at
     ELSE /\ at' = [at EXCEPT ![t] = IF i + 1 < CACHE_SIZE THEN i + 1 ELSE 0]
          /\ IF i + 1 < CACHE_SIZE THEN UNCHANGED pc ELSE Go(t, "victim")
          /\ UNCHANGED buffer_lock
  /\ UNCHANGED <<access, old, ops, block, block_lock, clock_hand, history,
                 ideVars, data, disk>>

\* (hand + 1) & CACHE_SIZE: the one bit of a power of two.
NextHand(hand) == ((hand + 1) \div CACHE_SIZE % 2) * CACHE_SIZE

\* The victim i is found; its sector and its dirty flag are read, without its lock.
Choose(t, i) ==
  /\ at' = [at EXCEPT ![t] = i]
  /\ old' = [old EXCEPT ![t] = [sector |-> block[i].sector,
                                flush |-> block[i].dirty = 1 /\ block[i].valid = 1]]
  /\ Go(t, "claim")

clock_find_victim(t) ==
  LET hand == NextHand(clock_hand) IN
  /\ pc[t] = "victim"
  /\ \/ \E i \in Slot :
          /\ block[i].valid = 0 /\ \A j \in 0 .. i - 1 : block[j].valid = 1
          /\ Choose(t, i)
          /\ UNCHANGED clock_hand
     \/ /\ \A i \in Slot : block[i].valid = 1
        /\ clock_hand' = hand
        /\ IF block[hand].use = 0
           THEN Choose(t, hand)
           ELSE Go(t, "clear") /\ UNCHANGED <<at, old>>
  /\ UNCHANGED <<access, ops, block, block_lock, buffer_lock, history,
                 ideVars, data, disk>>

\* The else branch of clock_find_victim.
ClearUse(t) ==
  /\ pc[t] = "clear" /\ block_lock[clock_hand] = None
  /\ block' = [block EXCEPT ![clock_hand].use = 0]
  /\ Go(t, "victim")
  /\ UNCHANGED <<access, at, old, ops, block_lock, clock_hand, buffer_lock, history,
                 ideVars, data, disk>>

\* get_cached_block takes the victim for its sector and starts evict_and_replace.
Claim(t) ==
  LET i == at[t] IN
  /\ pc[t] = "claim" /\ block_lock[i] = None
  /\ block_lock' = [block_lock EXCEPT ![i] = t]
  /\ block' = [block EXCEPT ![i] =
       [sector |-> access[t].sec, use |-> 1, dirty |-> 0, valid |-> 1]]
  /\ buffer_lock' = None
  /\ IF old[t].flush
     THEN StartIo(t, "write", old[t].sector, i) /\ Go(t, "write_back")
     ELSE StartIo(t, "read", access[t].sec, i) /\ Go(t, "read_in")
  /\ old' = [old EXCEPT ![t] = NoOld]
  /\ UNCHANGED <<access, at, ops, clock_hand, history, channel, completion_wait,
                 device, irq, spurious, panic, data, disk>>

\* The driver returns to its caller, which goes on to pc "to".
IoReturns(t, from, to) ==
  /\ pc[t] = from /\ io[t] = "done"
  /\ GoIo(t, "none")
  /\ request' = [request EXCEPT ![t] = NoRequest]
  /\ Go(t, to)
  /\ UNCHANGED <<channel, completion_wait, device, irq, spurious, panic, data, disk>>

WrittenBack(t) ==
  /\ pc[t] = "write_back" /\ io[t] = "done"
  /\ StartIo(t, "read", block[at[t]].sector, at[t])
  /\ Go(t, "read_in")
  /\ UNCHANGED <<access, at, old, ops, cache, history, channel, completion_wait,
                 device, irq, spurious, panic, data, disk>>

ReadIn(t) ==
  /\ IoReturns(t, "read_in", "use")
  /\ block_lock' = [block_lock EXCEPT ![at[t]] = None]
  /\ UNCHANGED <<access, at, old, ops, block, clock_hand, buffer_lock, history>>

-----------------------------------------------------------------------------
(* cache_read and cache_write, after get_cached_block.                     *)

Finish(t) ==
  /\ Go(t, "idle")
  /\ access' = [access EXCEPT ![t] = NoAccess]
  /\ at' = [at EXCEPT ![t] = 0]

\* The block has come to hold another sector meanwhile: once more.
Retry(t) ==
  /\ pc[t] = "use" /\ block_lock[at[t]] = None
  /\ block[at[t]].sector # access[t].sec
  /\ Go(t, "get")
  /\ at' = [at EXCEPT ![t] = 0]
  /\ UNCHANGED <<access, old, ops, cache, history, ideVars, data, disk>>

\* The memcpy of cache_read goes from the caller's buffer to the block, whatever
\* is in that buffer (byte_to_sector has one for several sectors).
cache_read(t) ==
  LET i == at[t] IN
  /\ pc[t] = "use" /\ access[t].op = "read"
  /\ block_lock[i] = None /\ block[i].sector = access[t].sec
  /\ data' = [data EXCEPT ![i] = Callers]
  /\ Finish(t)
  /\ UNCHANGED <<old, ops, cache, history, ideVars, disk>>

Write(t, dirty) ==
  LET i   == at[t]
      new == [sector  |-> access[t].sec, version |-> latest[access[t].sec].version + 1]
  IN  /\ data' = [data EXCEPT ![i] = new]
      /\ latest' = [latest EXCEPT ![access[t].sec] = new]
      /\ block' = [block EXCEPT ![i].dirty = dirty]
      /\ Finish(t)
      /\ UNCHANGED <<old, ops, block_lock, clock_hand, buffer_lock, due,
                     ideVars, disk>>

\* Seeded faults: the block's sector is not looked at; dirty is not set.
WriteUnchecked(t) ==
  /\ pc[t] = "use" /\ access[t].op = "write"
  /\ block_lock[at[t]] = None
  /\ Write(t, 1)
WriteLeavesClean(t) ==
  /\ pc[t] = "use" /\ access[t].op = "write"
  /\ block_lock[at[t]] = None /\ block[at[t]].sector = access[t].sec
  /\ Write(t, block[at[t]].dirty)

cache_write(t) ==
  /\ pc[t] = "use" /\ access[t].op = "write"
  /\ block_lock[at[t]] = None /\ block[at[t]].sector = access[t].sec
  /\ Write(t, 1)

-----------------------------------------------------------------------------
(* filesys_done, on the way to power-off.                                  *)

\* flush_cache takes the lock of the cache and never releases it.  When nobody is
\* in a call, everything written until now is due on the disk.
filesys_done(t) ==
  /\ pc[t] = "idle" /\ buffer_lock = None /\ ops >= FlushAfter
  /\ buffer_lock' = t
  /\ at' = [at EXCEPT ![t] = 0]
  /\ due' = IF \A x \in Thread : pc[x] = "idle" THEN latest ELSE due
  /\ Go(t, "flush")
  /\ UNCHANGED <<access, old, ops, block, block_lock, clock_hand, latest,
                 ideVars, data, disk>>

\* One round of the loop of flush_cache, which takes no block's lock.
FlushBlock(t) ==
  LET i == at[t] IN
  /\ pc[t] = "flush" /\ i < CACHE_SIZE
  /\ IF block[i].dirty = 1 /\ block[i].valid = 1
     THEN /\ StartIo(t, "write", block[i].sector, i)
          /\ Go(t, "flush_write")
          /\ UNCHANGED at
     ELSE /\ at' = [at EXCEPT ![t] = i + 1]
          /\ UNCHANGED <<pc, io, request>>
  /\ UNCHANGED <<access, old, ops, cache, history, channel, completion_wait,
                 device, irq, spurious, panic, data, disk>>

Flushed(t) ==
  /\ IoReturns(t, "flush_write", "flush")
  /\ block' = [block EXCEPT ![at[t]].dirty = 0]
  /\ at' = [at EXCEPT ![t] = @ + 1]
  /\ UNCHANGED <<access, old, ops, block_lock, clock_hand, buffer_lock, history>>

PowerOff(t) ==
  /\ pc[t] = "flush" /\ at[t] = CACHE_SIZE
  /\ Go(t, "off")
  /\ UNCHANGED <<access, at, old, ops, cache, history, ideVars, data, disk>>

-----------------------------------------------------------------------------
Off == \E t \in Thread : pc[t] = "off"

DriverStep(t) == Driver(t) /\ UNCHANGED <<threads, cache, history>>
DiskStep == (DeviceAnswers \/ interrupt_handler) /\ UNCHANGED <<threads, cache, history>>

\* What the scheduler lets a thread do until its call is over.
Progress(t) ==
  \/ get_cached_block(t) \/ cache_search(t) \/ clock_find_victim(t) \/ ClearUse(t)
  \/ Claim(t) \/ WrittenBack(t) \/ ReadIn(t)
  \/ Retry(t) \/ cache_read(t) \/ cache_write(t)
  \/ FlushBlock(t) \/ Flushed(t) \/ PowerOff(t)
  \/ DriverStep(t)

Call(t) ==
  \/ \E op \in {"read", "write"}, sec \in Sector : Begin(t, op, sec)
  \/ filesys_done(t)

\* At power-off, or after a panic, everything ends.
Running == ~ Off /\ ~ panic
Next == Running /\ ((\E t \in Thread : Progress(t) \/ Call(t)) \/ DiskStep)

Spec == Init /\ [][Next]_vars

\* Every ready thread runs in the end, and the disk answers and is heard.
FairSpec ==
  /\ Spec
  /\ \A t \in Thread : WF_vars(Running /\ Progress(t))
  /\ WF_vars(Running /\ (DeviceAnswers \/ (irq /\ interrupt_handler))
                     /\ UNCHANGED <<threads, cache, history>>)
-----------------------------------------------------------------------------
TypeOK ==
  /\ IdeTypeOK
  /\ pc \in [Thread -> PC]
  /\ access \in [Thread -> [op : {"read", "write"}, sec : Sector]]
  /\ at \in [Thread -> 0 .. CACHE_SIZE]
  /\ old \in [Thread -> [sector : Sector, flush : BOOLEAN]]
  /\ block \in [Slot -> [sector : Sector, use : 0 .. 1, dirty : 0 .. 1, valid : 0 .. 1]]
  /\ block_lock \in [Slot -> Thread \cup {None}]
  /\ clock_hand \in Slot
  /\ buffer_lock \in Thread \cup {None}
  /\ ops \in 0 .. MaxOps
  /\ latest \in [Sector -> Content]
  /\ due \in [Sector -> Content]

\* A sector is in one block at most, however searches and evictions interleave:
\* the search of one thread and its claim are one under buffer_cache->lock
\* (inode.c:89-106), or a write would go to one copy and be missing in the other.
OneBlockPerSector ==
  \A i, j \in Slot : block[i].valid = 1 /\ Match(j, block[i].sector) => i = j

\* A block that is not locked holds bytes of the sector it names, and so does the
\* disk, but for what cache_read has copied from its caller (inode.c:121): while a
\* block is on the way from one sector to another no thread copies into it, and a
\* thread that held on to it looks again (inode.c:116-141).
SectorsDoNotMix ==
  /\ \A i \in Slot : block[i].valid = 1 /\ block_lock[i] = None /\ data[i] # Callers
                       => data[i].sector = block[i].sector
  /\ \A s \in Sector : disk[s] # Callers => disk[s].sector = s

\* Until a flush begins, a block that is not dirty and into which cache_read has not
\* copied can be dropped: its bytes are the disk's, although another thread may ask
\* for the sector of a dirty block while it is written back without the lock of the
\* cache (inode.c:95-109): its search waits for the block, and it would take the same
\* one (inode.c:41, 79).
CleanIsOnDisk ==
  (\A t \in Thread : pc[t] \notin {"flush", "flush_write", "off"}) =>
    \A i \in Slot :
      block[i].valid = 1 /\ block[i].dirty = 0 /\ block_lock[i] = None
        => data[i] \in {disk[block[i].sector], Callers}

\* Every access completes, though the search waits under the cache's lock for blocks
\* that wait for the disk (inode.c:79, 46), unless threads go on for ever taking each
\* other's block away before it is used (inode.c:117-125), the system is flushed, or
\* the driver panics.
AccessCompletes ==
  \/ []<><<\E t \in Thread : Retry(t)>>_vars
  \/ \A t \in Thread :
       (pc[t] = "get") ~>
         (pc[t] = "idle" \/ (\E x \in Thread : pc[x] = "flush") \/ Off \/ panic)

\* "Shuts down the file system module, writing any unwritten data to disk."
\* (filesys.c:33-34)
ShutdownKeepsWrites ==
  Off => \A s \in Sector : disk[s].version >= due[s].version
=============================================================================
