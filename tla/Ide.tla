-------------------------------- MODULE Ide ---------------------------------
(***************************************************************************)
(* One channel of the IDE driver, devices/ide.c, with one disk on it: PIO  *)
(* reads and writes of a sector, and the interrupt handler.                *)
(*                                                                         *)
(* The disk is external: it ignores what is written to its registers while *)
(* it is at work, answers each command within the 30 s of wait_while_busy  *)
(* and raises its interrupt as the ATA protocol says.  Interrupts that it  *)
(* has not raised, which the driver is written to expect, come up to       *)
(* MaxSpurious times.                                                      *)
(***************************************************************************)
EXTENDS Integers, FiniteSets

CONSTANTS
  Thread, Sector,
  Buffer,        \* the buffers in memory
  None,          \* no thread
  MaxWrites,     \* bound: contents that a sector can have
  MaxSpurious    \* bound: spurious interrupts

ASSUME IdeAssumption ==
  /\ IsFiniteSet(Thread) /\ None \notin Thread
  /\ Sector # {}
  /\ MaxWrites \in Nat /\ MaxSpurious \in Nat

\* What a sector's bytes are: its contents since its write number "version", 0
\* for those it has at boot.  Callers stands for the bytes of a reader's own buffer, which
\* may be any sector's.
Content == [sector : Sector, version : -1 .. MaxWrites]
AtBoot(s) == [sector |-> s, version |-> 0]

VARIABLES
  io,               \* where a thread stands in ide_read or ide_write
  request,          \* what it has been called with
  channel,          \* the holder of the channel's lock
  completion_wait,  \* value of the semaphore
  device,           \* the disk: phase of its command, selected sector, its buffer
  irq,              \* has the disk an interrupt pending?
  spurious,         \* spurious interrupts so far
  panic,            \* has the driver panicked?
  data,             \* contents of the buffers in memory
  disk              \* contents of the sectors

ideVars == <<io, request, channel, completion_wait, device, irq, spurious, panic>>

Phase == {"idle", "reading", "read_ready", "write_command", "write_ready", "writing"}
Busy == device.phase \in {"reading", "write_command", "writing"}     \* STA_BSY
DataRequest == device.phase \in {"read_ready", "write_ready"}        \* STA_DRQ

\* What an idle disk has last done and what a thread has last asked for are of no
\* consequence, and are forgotten.
AnySector == CHOOSE s \in Sector : TRUE
Callers == [sector |-> AnySector, version |-> -1]
Idle == [phase |-> "idle", sector |-> AnySector, buffer |-> AtBoot(AnySector)]
NoRequest == [op |-> "read", sec_no |-> AnySector, buffer |-> CHOOSE b \in Buffer : TRUE]

\* ide_init is over: identify_ata_device has left expecting_interrupt true, and
\* nothing sets it to false again.
IdeInit ==
  /\ io = [t \in Thread |-> "none"]
  /\ request = [t \in Thread |-> NoRequest]
  /\ channel = None
  /\ completion_wait = 0
  /\ device = Idle
  /\ irq = FALSE
  /\ spurious = 0
  /\ panic = FALSE
  /\ disk = [s \in Sector |-> AtBoot(s)]

GoIo(t, to) == io' = [io EXCEPT ![t] = to]

\* block_read and block_write, up to the lock of ide_read and ide_write.
StartIo(t, op, sec_no, buffer) ==
  /\ GoIo(t, "lock")
  /\ request' = [request EXCEPT ![t] = [op |-> op, sec_no |-> sec_no, buffer |-> buffer]]

\* select_sector and issue_pio_command.  wait_until_idle gives up after a while, and
\* what is written to a disk at work is lost.
Issue(t) ==
  LET r == request[t]
      read == r.op = "read"
  IN  /\ device' = IF Busy \/ DataRequest THEN device
                   ELSE [device EXCEPT !.phase = IF read THEN "reading" ELSE "write_command",
                                       !.sector = r.sec_no]
      /\ GoIo(t, IF read THEN "wait" ELSE "transfer")

\* Seeded fault: the channel's lock is not taken.
IssueUnlocked(t) ==
  /\ io[t] = "lock"
  /\ channel' = t
  /\ irq' = FALSE
  /\ Issue(t)
  /\ UNCHANGED <<request, completion_wait, spurious, panic, data, disk>>

\* The channel's lock, and the command.  To read the status takes a pending
\* interrupt back.
IssueCommand(t) ==
  /\ io[t] = "lock" /\ channel = None
  /\ channel' = t
  /\ irq' = FALSE
  /\ Issue(t)
  /\ UNCHANGED <<request, completion_wait, spurious, panic, data, disk>>

\* Seeded fault: the semaphore is looked at and not taken down.
CompletionSeen(t) ==
  /\ io[t] = "wait" /\ completion_wait > 0
  /\ UNCHANGED completion_wait
  /\ IF request[t].op = "read"
     THEN GoIo(t, "transfer") /\ UNCHANGED channel
     ELSE GoIo(t, "done") /\ channel' = None
  /\ UNCHANGED <<request, device, irq, spurious, panic, data, disk>>

\* sema_down(&c->completion_wait); after it ide_write releases the channel.
Completion(t) ==
  /\ io[t] = "wait" /\ completion_wait > 0
  /\ completion_wait' = completion_wait - 1
  /\ IF request[t].op = "read"
     THEN GoIo(t, "transfer") /\ UNCHANGED channel
     ELSE GoIo(t, "done") /\ channel' = None
  /\ UNCHANGED <<request, device, irq, spurious, panic, data, disk>>

\* wait_while_busy, then input_sector or output_sector; ide_read releases the
\* channel after it.
Transfer(t) ==
  LET r == request[t] IN
  /\ io[t] = "transfer" /\ DataRequest
  /\ IF r.op = "read"
     THEN /\ data' = [data EXCEPT ![r.buffer] = device.buffer]
          /\ device' = Idle
          /\ channel' = None
          /\ GoIo(t, "done")
     ELSE /\ device' = [device EXCEPT !.phase = "writing", !.buffer = data[r.buffer]]
          /\ GoIo(t, "wait")
          /\ UNCHANGED <<data, channel>>
  /\ UNCHANGED <<request, completion_wait, irq, spurious, panic, disk>>

\* wait_while_busy finds a disk that requests no data.
TransferFails(t) ==
  /\ io[t] = "transfer" /\ ~ Busy /\ ~ DataRequest
  /\ panic' = TRUE
  /\ UNCHANGED <<io, request, channel, completion_wait, device, irq, spurious, data, disk>>

Driver(t) ==
  IssueCommand(t) \/ Completion(t) \/ Transfer(t) \/ TransferFails(t)

-----------------------------------------------------------------------------
(* The disk and its interrupt.                                             *)

DeviceAnswers ==
  /\ \/ /\ device.phase = "reading"
        /\ device' = [device EXCEPT !.phase = "read_ready", !.buffer = disk[device.sector]]
        /\ irq' = TRUE
        /\ UNCHANGED disk
     \/ /\ device.phase = "write_command"
        /\ device' = [device EXCEPT !.phase = "write_ready"]
        /\ UNCHANGED <<irq, disk>>
     \/ /\ device.phase = "writing"
        /\ disk' = [disk EXCEPT ![device.sector] = device.buffer]
        /\ device' = Idle
        /\ irq' = TRUE
  /\ UNCHANGED <<io, request, channel, completion_wait, spurious, panic, data>>

\* expecting_interrupt is true: every interrupt raises the semaphore.
interrupt_handler ==
  /\ \/ irq /\ UNCHANGED spurious
     \/ ~ irq /\ spurious < MaxSpurious /\ spurious' = spurious + 1
  /\ irq' = FALSE
  /\ completion_wait' = completion_wait + 1
  /\ UNCHANGED <<io, request, channel, device, panic, data, disk>>

-----------------------------------------------------------------------------
IdeTypeOK ==
  /\ io \in [Thread -> {"none", "lock", "wait", "transfer", "done"}]
  /\ request \in [Thread -> [op : {"read", "write"}, sec_no : Sector, buffer : Buffer]]
  /\ channel \in Thread \cup {None}
  /\ completion_wait \in 0 .. MaxSpurious + 1
  /\ device \in [phase : Phase, sector : Sector, buffer : Content]
  /\ irq \in BOOLEAN /\ panic \in BOOLEAN
  /\ spurious \in 0 .. MaxSpurious
  /\ data \in [Buffer -> Content]
  /\ disk \in [Sector -> Content]

\* The sector that is transferred is the one that was asked for, whatever interrupts
\* have come before their time: the disk asks for data because of this thread's
\* command for this sector, and what it has read is on the disk.  A command given to a
\* disk that is still at work, after wait_until_idle has given up, comes to no transfer
\* (ide.c:313-343, 392-402).  It, and so a panic, takes an interrupt that the disk has
\* not raised: without one the driver keeps the disk's commands apart by itself.
TransferIsOwn ==
  /\ panic => spurious > 0
  /\ \A t \in Thread : io[t] = "transfer" /\ DataRequest =>
       /\ channel = t
       /\ device.sector = request[t].sec_no
       /\ device.phase = IF request[t].op = "read" THEN "read_ready" ELSE "write_ready"
       /\ request[t].op = "read" => device.buffer = disk[device.sector]
=============================================================================
