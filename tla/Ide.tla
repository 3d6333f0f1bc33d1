-------------------------------- MODULE Ide --------------------------------
(***************************************************************************)
(* devices/ide.c under devices/block.c: one ATA channel with two devices,  *)
(* found at boot and then shared by threads that read and write sectors.   *)
(*                                                                         *)
(* Threads run one at a time, but an interrupt may switch them, and the    *)
(* device moves, between any two steps below.  The channel's lock and      *)
(* semaphore are taken as Synch shows them to be.  A device may fail a     *)
(* command, raise interrupts that nothing asked for, and take longer than  *)
(* a wait for it lasts.                                                    *)
(***************************************************************************)
EXTENDS Naturals

CONSTANTS
  Requesters,   \* threads that call block_read() and block_write()
  Boot,         \* the thread that runs ide_init()
  Nobody,       \* no thread
  Devices,      \* the device numbers of the channel
  Kinds,        \* what may be attached: functions from Devices to Kind
  Size,         \* Size[d], the sectors of device d, at least one
  Contents512,  \* contents of a sector
  Zeros,        \* one of them, of a new disk or a new buffer
  MaxSpurious,  \* bound on interrupts that nothing asked for
  MaxErrors     \* bound on failed commands

\* A disk, a disk too large to be used, a device that rejects IDENTIFY, none.
Kind == {"disk", "big", "other", "none"}

\* The sectors that check_sector() lets through.
Blocks == UNION {{d} \X (0 .. Size[d] - 1) : d \in Devices}

ASSUME IdeAssumption ==
  /\ Nobody \notin Requesters \cup {Boot} /\ Boot \notin Requesters
  /\ Devices \subseteq Nat /\ Devices # {}
  /\ Size \in [Devices -> Nat \ {0}]
  /\ Kinds \subseteq [Devices -> Kind]
  /\ Zeros \in Contents512
  /\ MaxSpurious \in Nat /\ MaxErrors \in Nat

VARIABLES
  kind,                 \* kind[d], what is attached as device d
  is_ata,               \* the devices whose is_ata is set
  all_blocks,           \* the devices that block_register() got
  chan_lock,            \* the holder of the channel's lock, or Nobody
  expecting_interrupt,
  completion_wait,      \* the value of the semaphore
  ipc,                  \* ipc[t], where thread t is
  io,                   \* io[t], its request: [op, dev, sec]
  buf,                  \* buf[t], its buffer
  media,                \* media[<<d, s>>], what the disks hold
  ata,                  \* the device: [dev, sec, phase, data]
  irq,                  \* its interrupt: "none", "raised" or "seen" by the CPU
  spurious, errors,     \* bounds: interrupts and errors so far
  halted,               \* whether the kernel has panicked
  gave_up               \* history: wait_until_idle() has ended in an idle timeout

ideThreads == Requesters \cup {Boot}
kernelVars == <<is_ata, all_blocks, chan_lock, expecting_interrupt, completion_wait>>
threadIoVars == <<ipc, io, buf>>
deviceVars == <<kind, media, ata, irq, spurious, errors>>
ideVars == <<kernelVars, threadIoVars, deviceVars, halted, gave_up>>

Request == [op : {"read", "write", "identify"}, dev : Devices, sec : Nat]

\* Where a thread is in ide_init(), ide_read() or ide_write().
IdeLabels == {"reset", "next", "idle", "lock", "select", "issue", "command", "wait", "input",
              "output", "unlock"}

Phases == {"idle", "read", "write", "identify", "ready", "accept", "store"}
AtaState == [dev : Devices, sec : Nat, phase : Phases, data : Contents512]

\* The locals of a thread outside the driver.
NoRequest ==
  [op |-> "identify", dev |-> CHOOSE d \in Devices : TRUE, sec |-> 0]

IdeTypeOK ==
  /\ kind \in [Devices -> Kind]
  /\ is_ata \subseteq Devices /\ all_blocks \subseteq Devices
  /\ chan_lock \in Requesters \cup {Nobody}
  /\ expecting_interrupt \in BOOLEAN /\ halted \in BOOLEAN /\ gave_up \in BOOLEAN
  /\ completion_wait \in Nat
  /\ ipc \in [ideThreads -> IdeLabels]
  /\ io \in [ideThreads -> Request]
  /\ buf \in [ideThreads -> Contents512]
  /\ media \in [Blocks -> Contents512]
  /\ ata \in AtaState
  /\ irq \in {"none", "raised", "seen"}
  /\ spurious \in Nat /\ errors \in Nat

\* ide_init() before the channel is reset.
IdeInit ==
  /\ kind \in Kinds
  /\ is_ata = {} /\ all_blocks = {}
  /\ chan_lock = Nobody
  /\ expecting_interrupt = FALSE
  /\ completion_wait = 0
  /\ ipc = [t \in ideThreads |-> IF t = Boot THEN "reset" ELSE "idle"]
  /\ io = [t \in ideThreads |-> NoRequest]
  /\ buf = [t \in ideThreads |-> Zeros]
  /\ media = [b \in Blocks |-> Zeros]
  /\ ata = [dev |-> NoRequest.dev, sec |-> NoRequest.sec, phase |-> "idle", data |-> Zeros]
  /\ irq = "none"
  /\ spurious = 0 /\ errors = 0
  /\ halted = FALSE /\ gave_up = FALSE
-----------------------------------------------------------------------------
(* The device *)

BSY == ata.phase \in {"read", "write", "identify", "store"}
DRQ == ata.phase \in {"ready", "accept"}

\* The line is an edge to the interrupt controller.
Raised == IF irq = "none" THEN "raised" ELSE irq

DeviceReads ==
  /\ ata.phase = "read"
  /\ ata' = [ata EXCEPT !.phase = "ready", !.data = media[<<ata.dev, ata.sec>>]]
  /\ irq' = Raised
  /\ UNCHANGED <<kernelVars, threadIoVars, kind, media, spurious, errors, halted, gave_up>>

DeviceIdentifies ==
  /\ ata.phase = "identify"
  /\ ata' = [ata EXCEPT !.phase = IF kind[ata.dev] = "other" THEN "idle" ELSE "ready"]
  /\ irq' = Raised
  /\ UNCHANGED <<kernelVars, threadIoVars, kind, media, spurious, errors, halted, gave_up>>

DeviceAccepts ==
  /\ ata.phase = "write"
  /\ ata' = [ata EXCEPT !.phase = "accept"]
  /\ UNCHANGED <<kernelVars, threadIoVars, kind, media, irq, spurious, errors, halted, gave_up>>

DeviceStores ==
  /\ ata.phase = "store"
  /\ media' = [media EXCEPT ![<<ata.dev, ata.sec>>] = ata.data]
  /\ ata' = [ata EXCEPT !.phase = "idle"]
  /\ irq' = Raised
  /\ UNCHANGED <<kernelVars, threadIoVars, kind, spurious, errors, halted, gave_up>>

\* A command fails: an interrupt, and neither BSY nor DRQ.
DeviceFails ==
  /\ ata.phase \in {"read", "write"}
  /\ errors < MaxErrors
  /\ errors' = errors + 1
  /\ ata' = [ata EXCEPT !.phase = "idle"]
  /\ irq' = Raised
  /\ UNCHANGED <<kernelVars, threadIoVars, kind, media, spurious, halted, gave_up>>

DeviceSpurious ==
  /\ spurious < MaxSpurious
  /\ spurious' = spurious + 1
  /\ irq' = Raised
  /\ UNCHANGED <<kernelVars, threadIoVars, kind, media, ata, errors, halted, gave_up>>

Device ==
  \/ DeviceReads \/ DeviceIdentifies \/ DeviceAccepts \/ DeviceStores
  \/ DeviceFails \/ DeviceSpurious
-----------------------------------------------------------------------------
(* The driver *)

\* Whether a wait finds the device idle before it gives up: which it does after
\* 10 ms, and then goes on.
wait_until_idle == ~BSY /\ ~DRQ

\* What a wait returns: FALSE also if the device is busy for 30 s.
wait_while_busy == ~BSY /\ DRQ

\* The registers, which a device that is not idle may take or ignore.
outb_registers(new) == ata' \in IF wait_until_idle THEN {new} ELSE {ata, new}

IdeAt(t, label) == ~halted /\ ipc[t] = label

IdeGoto(t, label) == ipc' = [ipc EXCEPT ![t] = label]

\* The status is read in passing, which takes back a pending interrupt.
interrupt_handler ==
  /\ ~halted /\ irq = "raised"
  /\ IF expecting_interrupt
     THEN completion_wait' = completion_wait + 1 /\ irq' = "none"
     ELSE UNCHANGED completion_wait /\ irq' = "seen"
  /\ UNCHANGED <<is_ata, all_blocks, chan_lock, expecting_interrupt, threadIoVars,
                 kind, media, ata, spurious, errors, halted, gave_up>>

\* reset_channel(), and check_device_type() of each device.
reset_channel ==
  /\ IdeAt(Boot, "reset")
  /\ is_ata' = {d \in Devices : kind[d] # "none"}
  /\ IdeGoto(Boot, "next")
  /\ irq' = "none"
  /\ UNCHANGED <<all_blocks, chan_lock, expecting_interrupt, completion_wait, io, buf,
                 kind, media, ata, spurious, errors, halted, gave_up>>

\* ide_init()'s loop over the devices that are disks; io[Boot].dev is the
\* last one it looked at.
NextDevice ==
  /\ IdeAt(Boot, "next")
  /\ LET todo == {d \in is_ata : d \notin all_blocks} IN
       \/ \E d \in todo :
            /\ \A e \in todo : d <= e
            /\ io' = [io EXCEPT ![Boot].dev = d]
            /\ IdeGoto(Boot, "select")
       \/ /\ todo = {}
          /\ IdeGoto(Boot, "idle")
          /\ UNCHANGED io
  /\ UNCHANGED <<kernelVars, buf, deviceVars, halted, gave_up>>

\* block_read() or block_write() of a device found at boot, up to the lock.
\* What is in the buffer of a read does not matter.
BlockCall(t, o, d, s, b) ==
  /\ IdeAt(t, "idle") /\ ipc[Boot] = "idle" /\ d \in all_blocks
  /\ o = "read" => b = buf[t]
  /\ io' = [io EXCEPT ![t] = [op |-> o, dev |-> d, sec |-> s]]
  /\ buf' = [buf EXCEPT ![t] = b]
  /\ IdeGoto(t, "lock")
  /\ UNCHANGED <<kernelVars, deviceVars, halted, gave_up>>

ChannelLock(t) ==
  /\ IdeAt(t, "lock") /\ chan_lock = Nobody
  /\ chan_lock' = t
  /\ IdeGoto(t, "select")
  /\ UNCHANGED <<is_ata, all_blocks, expecting_interrupt, completion_wait, io, buf, deviceVars, halted,
                 gave_up>>

\* select_device_wait(), its two waits as one, which takes back a pending
\* interrupt, and the sector's number.
select_sector(t) ==
  /\ IdeAt(t, "select")
  /\ gave_up' = (gave_up \/ ~wait_until_idle)
  /\ outb_registers([ata EXCEPT !.dev = io[t].dev, !.sec = io[t].sec])
  /\ irq' = "none"
  /\ IdeGoto(t, "issue")
  /\ UNCHANGED <<kernelVars, io, buf, kind, media, spurious, errors, halted>>

issue_pio_command(t) ==
  /\ IdeAt(t, "issue")
  /\ expecting_interrupt' = TRUE
  /\ IdeGoto(t, "command")
  /\ UNCHANGED <<is_ata, all_blocks, chan_lock, completion_wait, io, buf, deviceVars, halted, gave_up>>

\* A command register that is written takes back a pending interrupt too.
outb_command(t) ==
  /\ IdeAt(t, "command")
  /\ outb_registers([ata EXCEPT !.phase = io[t].op])
  /\ irq' = "none"
  /\ IdeGoto(t, IF io[t].op = "write" THEN "output" ELSE "wait")
  /\ UNCHANGED <<kernelVars, io, buf, kind, media, spurious, errors, halted, gave_up>>

\* sema_down (&c->completion_wait): before the data of a read, after the data
\* of a write.
CompletionWait(t) ==
  /\ IdeAt(t, "wait") /\ completion_wait > 0
  /\ completion_wait' = completion_wait - 1
  /\ IdeGoto(t, IF io[t].op = "write" THEN "unlock" ELSE "input")
  /\ UNCHANGED <<is_ata, all_blocks, chan_lock, expecting_interrupt, io, buf, deviceVars, halted,
                 gave_up>>

block_register(d) == all_blocks' = all_blocks \cup {d}

\* wait_while_busy() and input_sector() in identify_ata_device().
Identify ==
  /\ IdeAt(Boot, "input")
  /\ IF wait_while_busy /\ kind[io[Boot].dev] = "disk"
     THEN block_register(io[Boot].dev) /\ UNCHANGED is_ata
     ELSE is_ata' = is_ata \ {io[Boot].dev} /\ UNCHANGED all_blocks
  /\ ata' = IF wait_while_busy THEN [ata EXCEPT !.phase = "idle"] ELSE ata
  /\ IdeGoto(Boot, "next")
  /\ UNCHANGED <<chan_lock, expecting_interrupt, completion_wait, io, buf,
                 kind, media, irq, spurious, errors, halted, gave_up>>

\* The data port takes and gives a whole sector.
input_sector(t) ==
  /\ buf' = [buf EXCEPT ![t] = ata.data]
  /\ ata' = [ata EXCEPT !.phase = "idle"]
output_sector(t) == ata' = [ata EXCEPT !.phase = "store", !.data = buf[t]]

\* Reading the data without waiting for BSY to clear.
ReadSector_now(t) ==
  /\ IdeAt(t, "input") /\ t # Boot
  /\ input_sector(t)
  /\ IdeGoto(t, "unlock")
  /\ UNCHANGED <<halted, gave_up, kernelVars, io, kind, media, irq, spurious, errors>>

\* wait_while_busy() and input_sector() in ide_read().
ReadSector(t) ==
  /\ IdeAt(t, "input") /\ t # Boot
  /\ IF wait_while_busy
     THEN /\ input_sector(t)
          /\ IdeGoto(t, "unlock")
          /\ UNCHANGED halted
     ELSE halted' = TRUE /\ UNCHANGED <<buf, ata, ipc>>
  /\ UNCHANGED <<kernelVars, io, kind, media, irq, spurious, errors, gave_up>>

\* wait_while_busy() and output_sector() in ide_write().
WriteSector(t) ==
  /\ IdeAt(t, "output")
  /\ IF wait_while_busy
     THEN /\ output_sector(t)
          /\ IdeGoto(t, "wait")
          /\ UNCHANGED halted
     ELSE halted' = TRUE /\ UNCHANGED <<ata, ipc>>
  /\ UNCHANGED <<kernelVars, io, buf, kind, media, irq, spurious, errors, gave_up>>

\* lock_release(), and the return to the caller.
ChannelUnlock(t) ==
  /\ IdeAt(t, "unlock")
  /\ chan_lock' = Nobody
  /\ IdeGoto(t, "idle")
  /\ io' = [io EXCEPT ![t] = NoRequest]
  /\ UNCHANGED <<is_ata, all_blocks, expecting_interrupt, completion_wait, buf, deviceVars, halted,
                 gave_up>>

\* After PANIC the machine stays as it is, after an idle timeout the driver may
\* wait for an interrupt for ever, and without a disk nothing is asked of it.
Halt ==
  /\ ~halted /\ ~gave_up => ipc[Boot] = "idle" /\ all_blocks = {}
  /\ UNCHANGED ideVars

Driver(t) ==
  \/ select_sector(t) \/ issue_pio_command(t) \/ outb_command(t)
  \/ CompletionWait(t)
  \/ ReadSector(t) \/ WriteSector(t)

IdeNext ==
  \/ Device \/ interrupt_handler \/ Halt
  \/ reset_channel \/ NextDevice \/ Identify
  \/ \E t \in Requesters, o \in {"read", "write"}, d \in Devices, b \in Contents512 :
       \E s \in 0 .. Size[d] - 1 : BlockCall(t, o, d, s, b)
  \/ \E t \in Requesters : ChannelLock(t) \/ ChannelUnlock(t)
  \/ \E t \in ideThreads : Driver(t)

IdeSpec == IdeInit /\ [][IdeNext]_ideVars
-----------------------------------------------------------------------------
(* The disks as an array of sectors *)

\* A sector counts as written once the device has the data.
DiskNow ==
  IF ata.phase = "store" THEN [media EXCEPT ![<<ata.dev, ata.sec>>] = ata.data] ELSE media

\* The call a thread is in, until it has handed over or fetched the data.
CallNow(t) ==
  IF ipc[t] \in {"lock", "select", "issue", "command", "output", "input"}
     \/ (ipc[t] = "wait" /\ io[t].op = "read")
  THEN <<io[t].op, <<io[t].dev, io[t].sec>>>>
  ELSE <<>>

Disk == INSTANCE BlockStore WITH
  Threads <- Requesters, Sectors <- Blocks, Data <- Contents512, Blank <- Zeros,
  store <- DiskNow, request <- [t \in Requesters |-> CallNow(t)],
  buffer <- [t \in Requesters |-> buf[t]]

\* Until wait_until_idle() gives up on a device, block_read() and block_write()
\* read and write whole sectors, each at one moment of the call, although
\* expecting_interrupt stays set after the first command, so that an interrupt
\* nothing asked for lets the driver go ahead of the device.  A device that is not
\* idle after 10 ms gets the next command all the same: what its sectors hold and
\* what a call reads is then open, and nothing is said of it.
IdeIsStore ==
  /\ Disk!Init
  /\ [][gave_up' \/ Disk!Next]_
       <<DiskNow, [t \in Requesters |-> CallNow(t)], [t \in Requesters |-> buf[t]]>>
=============================================================================
