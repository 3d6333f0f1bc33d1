---------------------------- MODULE KernelProofs ----------------------------
(***************************************************************************)
(* The disk driver, the console, the interrupt handlers, the serial port   *)
(* and the timer: the disks as arrays of sectors, whose output the console *)
(* prints, which handlers run, who waits for the serial port and what its  *)
(* queues are, and that a sleep lasts as long as it was asked to.          *)
(***************************************************************************)
EXTENDS Ide, Console, Interrupts, Serial, Timer, Integers, TLAPS
-----------------------------------------------------------------------------
\* The ATA driver of devices/ide.c keeps the disks an array of sectors,
\* for any number of threads, devices, sectors, failed commands and
\* interrupts that nothing asked for, as long as no wait for an idle device
\* times out.

\* Where a thread drives the channel: from select_device_wait() to the
\* release of the channel's lock.
Driving == {"select", "issue", "command", "wait", "input", "output", "unlock"}

\* At most one thread drives the channel: ide_init() before anyone else, then
\* the holder of the lock.
OneDriver ==
  /\ \A t \in Requesters : ipc[t] \in Driving => chan_lock = t
  /\ ipc[Boot] # "idle" => \A t \in Requesters : ipc[t] = "idle"

\* Requests are inside the disks, and ide_init() only identifies.
Requests ==
  /\ io[Boot].op = "identify"
  /\ ipc[Boot] \notin {"lock", "output", "unlock"}
  /\ \A t \in Requesters :
       ipc[t] # "idle" =>
         io[t].op \in {"read", "write"} /\ <<io[t].dev, io[t].sec>> \in Blocks

\* How far the device can be with the command of thread t.
Serves(t) ==
  /\ ipc[t] \in {"issue", "command", "wait", "input", "output"} =>
       ata.dev = io[t].dev /\ ata.sec = io[t].sec
  /\ ipc[t] \in {"issue", "command"} => ata.phase = "idle"
  /\ ipc[t] = "output" => io[t].op = "write" /\ ata.phase \in {"write", "accept", "idle"}
  /\ ipc[t] = "input" => io[t].op # "write"
  /\ ipc[t] = "wait" /\ io[t].op = "write" => ata.phase \in {"store", "idle"}
  /\ ipc[t] \in {"wait", "input"} /\ io[t].op = "identify" =>
       ata.phase \in {"identify", "ready", "idle"}
  /\ ipc[t] \in {"wait", "input"} /\ io[t].op = "read" =>
       /\ ata.phase \in {"read", "ready", "idle"}
       /\ ata.phase = "ready" => ata.data = media[<<ata.dev, ata.sec>>]

\* The device works on a sector of a disk.
OnDisk == ata.phase \in {"read", "write", "accept", "store"} => <<ata.dev, ata.sec>> \in Blocks

IdeInv ==
  /\ IdeTypeOK /\ OneDriver /\ Requests /\ OnDisk
  /\ \A t \in ideThreads : Serves(t)

\* What the invariant says of the threads.
LEMMA IdeThreads == Boot \in ideThreads /\ Boot \notin Requesters /\ Requesters \subseteq ideThreads
                    /\ \A t \in ideThreads : t = Boot \/ t \in Requesters
  BY Zenon, IdeAssumption DEF ideThreads

\* A sector that check_sector() lets through.
LEMMA InBlocks ==
  ASSUME NEW d \in Devices, NEW s \in 0 .. Size[d] - 1
  PROVE  <<d, s>> \in Blocks /\ s \in Nat
<1>1. Size[d] \in Nat
  BY Zenon, IdeAssumption
<1>2. s \in Nat
  BY <1>1
<1>3. <<d, s>> \in {d} \X (0 .. Size[d] - 1)
  BY Zenon, <1>1
<1> QED BY Zenon, <1>2, <1>3 DEF Blocks

LEMMA NoRequestType == NoRequest \in Request /\ NoRequest.op = "identify"
<1>1. (CHOOSE d \in Devices : TRUE) \in Devices
  BY Zenon, IdeAssumption
<1>2. 0 \in Nat
  BY Zenon
<1> QED BY Zenon, <1>1, <1>2 DEF NoRequest, Request

\* The states of ide_init() before the channel is reset.
LEMMA IdeInitially == IdeInit => IdeInv
<1> SUFFICES ASSUME IdeInit PROVE IdeInv
  BY Zenon
<1>1. /\ ipc = [t \in ideThreads |-> IF t = Boot THEN "reset" ELSE "idle"]
      /\ io = [t \in ideThreads |-> NoRequest] /\ ata.phase = "idle"
      /\ ata = [dev |-> NoRequest.dev, sec |-> NoRequest.sec, phase |-> "idle", data |-> Zeros]
  BY Zenon DEF IdeInit
<1>2. ipc[Boot] = "reset" /\ \A t \in Requesters : ipc[t] = "idle"
  BY Zenon, <1>1, IdeThreads
<1>3. ata \in AtaState
  BY Zenon, <1>1, NoRequestType, IdeAssumption DEF Request, AtaState, Phases
<1>4. IdeTypeOK
  <2>1. 0 \in Nat /\ spurious = 0 /\ errors = 0 /\ completion_wait = 0
    BY Zenon DEF IdeInit
  <2>2. io \in [ideThreads -> Request]
    BY <1>1, NoRequestType, Zenon
  <2>3. kind \in [Devices -> Kind]
    BY IdeAssumption, Zenon DEF IdeInit
  <2>4. buf \in [ideThreads -> Contents512] /\ media \in [Blocks -> Contents512]
    BY IdeAssumption, Zenon DEF IdeInit
  <2>5. ipc \in [ideThreads -> IdeLabels]
    BY <1>1, Zenon DEF IdeLabels
  <2>6. is_ata = {} /\ all_blocks = {} /\ chan_lock = Nobody /\ expecting_interrupt = FALSE
        /\ halted = FALSE /\ gave_up = FALSE /\ irq = "none"
    BY Zenon DEF IdeInit
  <2> QED BY <1>3, <2>1, <2>2, <2>3, <2>4, <2>5, <2>6, Zenon DEF IdeTypeOK
<1>5. OneDriver /\ Requests
  BY Zenon, <1>1, <1>2, IdeThreads, NoRequestType DEF OneDriver, Requests, Driving
<1>6. OnDisk
  BY <1>1, Zenon DEF OnDisk
<1>7. \A t \in ideThreads : Serves(t)
  BY Zenon, <1>2, IdeThreads DEF Serves
<1> QED BY <1>4, <1>5, <1>6, <1>7, Zenon DEF IdeInv

\* Two threads never drive the channel at once.
LEMMA Alone ==
  ASSUME OneDriver, NEW t \in ideThreads, NEW u \in ideThreads, t # u, ipc[t] \in Driving
  PROVE  ipc[u] \notin Driving
<1>1. "idle" \notin Driving
  BY Zenon DEF Driving
<1> QED BY <1>1, IdeThreads, Zenon DEF OneDriver

\* Control, after thread t moves to a label.
LEMMA IdeGotoFrame ==
  ASSUME IdeTypeOK, NEW t \in ideThreads, NEW label \in IdeLabels, IdeGoto(t, label)
  PROVE  /\ ipc'[t] = label /\ \A u \in ideThreads \ {t} : ipc'[u] = ipc[u]
         /\ ipc' \in [ideThreads -> IdeLabels]
  BY Zenon DEF IdeTypeOK, IdeGoto

\* The threads stay where they are: what a step of the device, or an interrupt,
\* has to keep.
LEMMA DeviceSteps ==
  ASSUME IdeInv, UNCHANGED <<kind, is_ata, all_blocks, chan_lock, expecting_interrupt, ipc, io, buf, halted, gave_up>>,
         completion_wait' \in Nat, irq' \in {"none", "raised", "seen"}, spurious' \in Nat, errors' \in Nat,
         media' \in [Blocks -> Contents512], ata' \in AtaState, OnDisk',
         \A t \in ideThreads : Serves(t)'
  PROVE  IdeInv'
<1>1. IdeTypeOK'
  BY Zenon DEF IdeInv, IdeTypeOK
<1>2. OneDriver' /\ Requests'
  BY Zenon DEF IdeInv, OneDriver, Requests
<1> QED BY <1>1, <1>2, Zenon DEF IdeInv

LEMMA DevicePreserves == IdeInv /\ Device => IdeInv'
<1> SUFFICES ASSUME IdeInv, Device PROVE IdeInv'
  BY Zenon
<1>0. /\ IdeTypeOK /\ OnDisk /\ \A t \in ideThreads : Serves(t)
      /\ ata \in AtaState /\ media \in [Blocks -> Contents512] /\ irq \in {"none", "raised", "seen"}
      /\ spurious \in Nat /\ errors \in Nat /\ completion_wait \in Nat
  BY Zenon DEF IdeInv, IdeTypeOK
<1>i. Raised \in {"none", "raised", "seen"}
  BY <1>0, Zenon DEF Raised
<1>1. CASE DeviceReads
  <2> DEFINE c == media[<<ata.dev, ata.sec>>]
  <2>1. /\ ata.phase = "read" /\ ata' = [ata EXCEPT !.phase = "ready", !.data = c] /\ irq' = Raised
        /\ UNCHANGED <<kind, is_ata, all_blocks, chan_lock, expecting_interrupt, ipc, io, buf, halted, gave_up,
                       completion_wait, media, spurious, errors>>
    BY <1>1, Zenon DEF DeviceReads, kernelVars, threadIoVars
  <2>2. c \in Contents512 /\ "ready" \in Phases
    BY Zenon, <1>0, <2>1 DEF OnDisk, Phases
  <2> HIDE DEF c
  <2>3. /\ ata'.phase = "ready" /\ ata'.dev = ata.dev /\ ata'.sec = ata.sec /\ ata'.data = c
        /\ ata' \in AtaState
    BY Zenon, <1>0, <2>1, <2>2 DEF AtaState
  <2>4. ASSUME NEW t \in ideThreads PROVE Serves(t)'
    BY Zenon, <1>0, <2>1, <2>3 DEF Serves, c
  <2>5. OnDisk'
    BY Zenon, <1>0, <2>1, <2>3 DEF OnDisk
  <2> QED BY <1>0, <1>i, <2>1, <2>3, <2>4, <2>5, DeviceSteps, Zenon
<1>2. CASE DeviceIdentifies
  <2> DEFINE p == IF kind[ata.dev] = "other" THEN "idle" ELSE "ready"
  <2>1. /\ ata.phase = "identify" /\ ata' = [ata EXCEPT !.phase = p] /\ irq' = Raised
        /\ UNCHANGED <<kind, is_ata, all_blocks, chan_lock, expecting_interrupt, ipc, io, buf, halted, gave_up,
                       completion_wait, media, spurious, errors>>
    BY <1>2, Zenon DEF DeviceIdentifies, kernelVars, threadIoVars
  <2>2. p \in {"idle", "ready"}
    BY Zenon
  <2> HIDE DEF p
  <2>3. p \in Phases
    BY Zenon, <2>2 DEF Phases
  <2>4. /\ ata'.phase = p /\ ata'.dev = ata.dev /\ ata'.sec = ata.sec /\ ata'.data = ata.data
        /\ ata' \in AtaState
    BY Zenon, <1>0, <2>1, <2>3 DEF AtaState
  <2>5. ASSUME NEW t \in ideThreads PROVE Serves(t)'
    BY Zenon, <1>0, <2>1, <2>2, <2>4 DEF Serves
  <2>6. OnDisk'
    BY Zenon, <1>0, <2>1, <2>2, <2>4 DEF OnDisk
  <2> QED BY <1>0, <1>i, <2>1, <2>4, <2>5, <2>6, DeviceSteps, Zenon
<1>3. CASE DeviceAccepts
  <2>1. /\ ata.phase = "write" /\ ata' = [ata EXCEPT !.phase = "accept"]
        /\ UNCHANGED <<kind, is_ata, all_blocks, chan_lock, expecting_interrupt, ipc, io, buf, halted, gave_up,
                       completion_wait, media, spurious, errors, irq>>
    BY <1>3, Zenon DEF DeviceAccepts, kernelVars, threadIoVars
  <2>2. "accept" \in Phases
    BY Zenon DEF Phases
  <2>3. /\ ata'.phase = "accept" /\ ata'.dev = ata.dev /\ ata'.sec = ata.sec /\ ata'.data = ata.data
        /\ ata' \in AtaState
    BY Zenon, <1>0, <2>1, <2>2 DEF AtaState
  <2>4. ASSUME NEW t \in ideThreads PROVE Serves(t)'
    BY Zenon, <1>0, <2>1, <2>3 DEF Serves
  <2>5. OnDisk'
    BY Zenon, <1>0, <2>1, <2>3 DEF OnDisk
  <2> QED BY <1>0, <2>1, <2>3, <2>4, <2>5, DeviceSteps, Zenon
<1>4. CASE DeviceStores
  <2>1. /\ ata.phase = "store" /\ ata' = [ata EXCEPT !.phase = "idle"] /\ irq' = Raised
        /\ media' = [media EXCEPT ![<<ata.dev, ata.sec>>] = ata.data]
        /\ UNCHANGED <<kind, is_ata, all_blocks, chan_lock, expecting_interrupt, ipc, io, buf, halted, gave_up,
                       completion_wait, spurious, errors>>
    BY <1>4, Zenon DEF DeviceStores, kernelVars, threadIoVars
  <2>2. "idle" \in Phases /\ ata.data \in Contents512
    BY Zenon, <1>0 DEF Phases, AtaState
  <2>3. /\ ata'.phase = "idle" /\ ata'.dev = ata.dev /\ ata'.sec = ata.sec /\ ata'.data = ata.data
        /\ ata' \in AtaState
    BY Zenon, <1>0, <2>1, <2>2 DEF AtaState
  <2>4. media' \in [Blocks -> Contents512]
    BY <1>0, <2>1, <2>2, Zenon
  <2>5. ASSUME NEW t \in ideThreads PROVE Serves(t)'
    BY Zenon, <1>0, <2>1, <2>3 DEF Serves
  <2>6. OnDisk'
    BY Zenon, <1>0, <2>1, <2>3 DEF OnDisk
  <2> QED BY <1>0, <1>i, <2>1, <2>3, <2>4, <2>5, <2>6, DeviceSteps, Zenon
<1>5. CASE DeviceFails
  <2>1. /\ ata.phase \in {"read", "write"} /\ ata' = [ata EXCEPT !.phase = "idle"] /\ irq' = Raised
        /\ errors' = errors + 1
        /\ UNCHANGED <<kind, is_ata, all_blocks, chan_lock, expecting_interrupt, ipc, io, buf, halted, gave_up,
                       completion_wait, media, spurious>>
    BY <1>5, Zenon DEF DeviceFails, kernelVars, threadIoVars
  <2>2. "idle" \in Phases /\ errors' \in Nat
    BY <1>0, <2>1 DEF Phases
  <2>3. /\ ata'.phase = "idle" /\ ata'.dev = ata.dev /\ ata'.sec = ata.sec /\ ata'.data = ata.data
        /\ ata' \in AtaState
    BY Zenon, <1>0, <2>1, <2>2 DEF AtaState
  <2>4. ASSUME NEW t \in ideThreads PROVE Serves(t)'
    BY Zenon, <1>0, <2>1, <2>3 DEF Serves
  <2>5. OnDisk'
    BY Zenon, <1>0, <2>1, <2>3 DEF OnDisk
  <2> QED BY <1>0, <1>i, <2>1, <2>2, <2>3, <2>4, <2>5, DeviceSteps, Zenon
<1>6. CASE DeviceSpurious
  <2>1. /\ irq' = Raised /\ spurious' = spurious + 1
        /\ UNCHANGED <<kind, is_ata, all_blocks, chan_lock, expecting_interrupt, ipc, io, buf, halted, gave_up,
                       completion_wait, media, errors, ata>>
    BY <1>6, Zenon DEF DeviceSpurious, kernelVars, threadIoVars
  <2>2. spurious' \in Nat
    BY <1>0, <2>1
  <2>3. OnDisk' /\ \A t \in ideThreads : Serves(t)'
    BY Zenon, <1>0, <2>1 DEF OnDisk, Serves
  <2> QED BY <1>0, <1>i, <2>1, <2>2, <2>3, DeviceSteps, Zenon
<1> QED BY Zenon, <1>1, <1>2, <1>3, <1>4, <1>5, <1>6 DEF Device

\* A driver that has not given up has found the device idle.
LEMMA Selects ==
  ASSUME NEW t, select_sector(t), ~gave_up'
  PROVE  /\ wait_until_idle /\ gave_up' \in BOOLEAN
         /\ ata' = [ata EXCEPT !.dev = io[t].dev, !.sec = io[t].sec]
<1>1. gave_up' = (gave_up \/ ~wait_until_idle)
  BY Zenon DEF select_sector
<1>2. wait_until_idle /\ gave_up' \in BOOLEAN
  BY <1>1
<1> QED BY <1>2, Zenon DEF select_sector, outb_registers

\* A device that is idle takes the command.
LEMMA Commands ==
  ASSUME NEW t, ata.phase = "idle", outb_command(t)
  PROVE  ata' = [ata EXCEPT !.phase = io[t].op]
<1>1. wait_until_idle
  BY Zenon DEF wait_until_idle, BSY, DRQ
<1> QED BY <1>1, Zenon DEF outb_command, outb_registers

\* wait_while_busy() returns whether the device is ready for the data.
LEMMA WaitsForData == wait_while_busy <=> DRQ
  BY Zenon DEF wait_while_busy, BSY, DRQ

\* The driving thread goes on: the others are elsewhere, so what remains to be
\* kept is about it and the device.
LEMMA DriverMoves ==
  ASSUME IdeInv, NEW t \in ideThreads, NEW label \in Driving, IdeGoto(t, label), ipc[t] \in Driving,
         UNCHANGED <<chan_lock, io>>, t = Boot => label \notin {"output", "unlock"},
         IdeTypeOK', Serves(t)', OnDisk'
  PROVE  IdeInv'
<1>0. IdeTypeOK /\ OneDriver /\ Requests /\ label \in IdeLabels
  BY Zenon DEF IdeInv, Driving, IdeLabels
<1>1. ipc'[t] = label /\ \A u \in ideThreads \ {t} : ipc'[u] = ipc[u]
  BY <1>0, IdeGotoFrame, Zenon
<1>2. ASSUME NEW u \in ideThreads, u # t PROVE Serves(u)'
  <2>1. ipc'[u] \notin Driving
    BY <1>0, <1>1, <1>2, Alone, Zenon
  <2> QED BY Zenon, <2>1 DEF Serves, Driving
<1>3. "idle" \notin Driving /\ "lock" \notin Driving /\ ipc[t] # "idle" /\ label # "idle" /\ label # "lock"
  BY Zenon DEF Driving
<1>4. OneDriver'
  BY <1>0, <1>1, <1>3, IdeThreads, Zenon DEF OneDriver
<1>5. Requests'
  <2>1. ipc'[Boot] \notin {"lock", "output", "unlock"}
    BY Zenon, <1>0, <1>1, <1>3, IdeThreads DEF Requests
  <2> QED BY <1>0, <1>1, <1>3, <2>1, IdeThreads, Zenon DEF Requests
<1> QED BY <1>2, <1>4, <1>5, Zenon DEF IdeInv

LEMMA DriverPreserves ==
  ASSUME IdeInv, NEW t \in ideThreads, Driver(t), ~gave_up'
  PROVE  IdeInv'
<1>0. /\ IdeTypeOK /\ OneDriver /\ Requests /\ OnDisk /\ Serves(t)
      /\ ata \in AtaState /\ media \in [Blocks -> Contents512] /\ buf \in [ideThreads -> Contents512]
      /\ io \in [ideThreads -> Request] /\ completion_wait \in Nat
  BY Zenon DEF IdeInv, IdeTypeOK
<1>a. io[t].dev \in Devices /\ io[t].sec \in Nat /\ io[t].op \in {"read", "write", "identify"}
      /\ ata.phase \in Phases
  BY Zenon, <1>0 DEF Request, AtaState
<1>b. t # Boot => t \in Requesters
  BY Zenon, IdeThreads
<1>1. CASE select_sector(t)
  <2>1. /\ ipc[t] = "select" /\ wait_until_idle /\ ata' = [ata EXCEPT !.dev = io[t].dev, !.sec = io[t].sec]
        /\ irq' = "none" /\ IdeGoto(t, "issue") /\ gave_up' \in BOOLEAN
        /\ UNCHANGED <<kind, is_ata, all_blocks, chan_lock, expecting_interrupt, io, buf, halted,
                       completion_wait, media, spurious, errors>>
    BY <1>1, Selects, Zenon DEF select_sector, IdeAt, kernelVars
  <2>2. ata.phase = "idle"
    BY Zenon, <1>a, <2>1 DEF wait_until_idle, BSY, DRQ, Phases
  <2>3. /\ ata'.phase = "idle" /\ ata'.dev = io[t].dev /\ ata'.sec = io[t].sec
        /\ ata' \in AtaState
    BY Zenon, <1>0, <1>a, <2>1, <2>2 DEF AtaState
  <2>4. "issue" \in Driving /\ "issue" \in IdeLabels /\ ipc[t] \in Driving
    BY Zenon, <2>1 DEF Driving, IdeLabels
  <2>5. ipc'[t] = "issue" /\ ipc' \in [ideThreads -> IdeLabels]
    BY <1>0, <2>1, <2>4, IdeGotoFrame, Zenon
  <2>6. IdeTypeOK'
    BY <1>0, <2>1, <2>3, <2>5, Zenon DEF IdeTypeOK
  <2>7. Serves(t)' /\ OnDisk'
    BY Zenon, <2>1, <2>3, <2>5 DEF Serves, OnDisk
  <2> QED BY Zenon, <2>1, <2>4, <2>6, <2>7, DriverMoves
<1>2. CASE issue_pio_command(t)
  <2>1. /\ ipc[t] = "issue" /\ expecting_interrupt' = TRUE /\ IdeGoto(t, "command")
        /\ UNCHANGED <<kind, is_ata, all_blocks, chan_lock, io, buf, halted, gave_up,
                       completion_wait, media, spurious, errors, ata, irq>>
    BY <1>2, Zenon DEF issue_pio_command, IdeAt, deviceVars
  <2>4. "command" \in Driving /\ "command" \in IdeLabels /\ ipc[t] \in Driving
    BY Zenon, <2>1 DEF Driving, IdeLabels
  <2>5. ipc'[t] = "command" /\ ipc' \in [ideThreads -> IdeLabels]
    BY <1>0, <2>1, <2>4, IdeGotoFrame, Zenon
  <2>6. IdeTypeOK'
    BY <1>0, <2>1, <2>5, Zenon DEF IdeTypeOK
  <2>7. Serves(t)' /\ OnDisk'
    BY Zenon, <1>0, <2>1, <2>5 DEF Serves, OnDisk
  <2> QED BY Zenon, <2>1, <2>4, <2>6, <2>7, DriverMoves
<1>3. CASE outb_command(t)
  <2> DEFINE label == IF io[t].op = "write" THEN "output" ELSE "wait"
  <2>1. /\ ipc[t] = "command" /\ ata' = [ata EXCEPT !.phase = io[t].op] /\ irq' = "none"
        /\ IdeGoto(t, label)
        /\ UNCHANGED <<kind, is_ata, all_blocks, chan_lock, expecting_interrupt, io, buf, halted, gave_up,
                       completion_wait, media, spurious, errors>>
    <3>1. ipc[t] = "command"
      BY <1>3, Zenon DEF outb_command, IdeAt
    <3>2. ata.phase = "idle"
      BY <1>0, <3>1, Zenon DEF Serves
    <3> QED BY <1>3, <3>1, <3>2, Commands, Zenon DEF outb_command, IdeAt, kernelVars
  <2>2. /\ ata'.phase = io[t].op /\ ata'.dev = ata.dev /\ ata'.sec = ata.sec
        /\ ata' \in AtaState
    BY Zenon, <1>0, <1>a, <2>1 DEF AtaState, Phases
  <2>3. (label = "output" /\ io[t].op = "write") \/ (label = "wait" /\ io[t].op # "write")
    BY Zenon
  <2> HIDE DEF label
  <2>4. label \in Driving /\ label \in IdeLabels /\ ipc[t] \in Driving
    BY Zenon, <2>1, <2>3 DEF Driving, IdeLabels
  <2>5. ipc'[t] = label /\ ipc' \in [ideThreads -> IdeLabels]
    BY <1>0, <2>1, <2>4, IdeGotoFrame, Zenon
  <2>6. IdeTypeOK'
    BY <1>0, <2>1, <2>2, <2>5, Zenon DEF IdeTypeOK
  <2>7. Serves(t)'
    BY Zenon, <1>0, <2>1, <2>2, <2>3, <2>5 DEF Serves
  <2>9. OnDisk'
    BY Zenon, <1>0, <1>a, <1>b, <2>1, <2>2 DEF OnDisk, Requests, Serves
  <2>10. t = Boot => label # "output"
    BY Zenon, <1>0, <2>3 DEF Requests
  <2>11. t = Boot => label \notin {"output", "unlock"}
    BY Zenon, <2>3, <2>10
  <2> QED BY Zenon, <2>1, <2>4, <2>6, <2>7, <2>9, <2>11, DriverMoves
<1>4. CASE CompletionWait(t)
  <2> DEFINE label == IF io[t].op = "write" THEN "unlock" ELSE "input"
  <2>1. /\ ipc[t] = "wait" /\ completion_wait > 0 /\ completion_wait' = completion_wait - 1
        /\ IdeGoto(t, label)
        /\ UNCHANGED <<kind, is_ata, all_blocks, chan_lock, expecting_interrupt, io, buf, halted, gave_up,
                       media, spurious, errors, ata, irq>>
    BY <1>4, Zenon DEF CompletionWait, IdeAt, deviceVars
  <2>2. completion_wait' \in Nat
    BY <1>0, <2>1
  <2>3. (label = "unlock" /\ io[t].op = "write") \/ (label = "input" /\ io[t].op # "write")
    BY ZenonT(60)
  <2> HIDE DEF label
  <2>4. label \in Driving /\ label \in IdeLabels /\ ipc[t] \in Driving
    BY Zenon, <2>1, <2>3 DEF Driving, IdeLabels
  <2>5. ipc'[t] = label /\ ipc' \in [ideThreads -> IdeLabels]
    BY <1>0, <2>1, <2>4, IdeGotoFrame, Zenon
  <2>6. IdeTypeOK'
    BY <1>0, <2>1, <2>2, <2>5, Zenon DEF IdeTypeOK
  <2>7. Serves(t)'
    BY Zenon, <1>0, <2>1, <2>3, <2>5 DEF Serves
  <2>9. OnDisk'
    BY <1>0, <2>1, Zenon DEF OnDisk
  <2>10. t = Boot => label \notin {"output", "unlock"}
    BY Zenon, <1>0, <2>3 DEF Requests
  <2> QED BY Zenon, <2>1, <2>4, <2>6, <2>7, <2>9, <2>10, DriverMoves
<1>5. CASE ReadSector(t)
  <2>1. /\ ipc[t] = "input" /\ t # Boot
        /\ UNCHANGED <<kind, is_ata, all_blocks, chan_lock, expecting_interrupt, completion_wait, io,
                       media, irq, spurious, errors, gave_up>>
    BY <1>5, Zenon DEF ReadSector, IdeAt, kernelVars
  <2>2. CASE DRQ
    <3>1. /\ buf' = [buf EXCEPT ![t] = ata.data] /\ ata' = [ata EXCEPT !.phase = "idle"]
          /\ IdeGoto(t, "unlock") /\ halted' = halted
      BY <1>5, <2>2, WaitsForData, Zenon DEF ReadSector, input_sector
    <3>2. ata'.phase = "idle" /\ ata' \in AtaState /\ ata.data \in Contents512
      BY Zenon, <1>0, <3>1 DEF AtaState, Phases
    <3>3. buf' \in [ideThreads -> Contents512]
      BY <1>0, <3>1, <3>2, Zenon
    <3>4. "unlock" \in Driving /\ "unlock" \in IdeLabels /\ ipc[t] \in Driving
      BY Zenon, <2>1 DEF Driving, IdeLabels
    <3>5. ipc'[t] = "unlock" /\ ipc' \in [ideThreads -> IdeLabels]
      BY <1>0, <3>1, <3>4, IdeGotoFrame, Zenon
    <3>6. IdeTypeOK'
      BY <1>0, <2>1, <3>1, <3>2, <3>3, <3>5, Zenon DEF IdeTypeOK
    <3>7. Serves(t)' /\ OnDisk'
      BY Zenon, <3>2, <3>5 DEF Serves, OnDisk
    <3> QED BY Zenon, <2>1, <3>1, <3>4, <3>6, <3>7, DriverMoves
  <2>3. CASE ~DRQ
    <3>1. halted' = TRUE /\ UNCHANGED <<buf, ata, ipc>>
      BY <1>5, <2>3, WaitsForData, Zenon DEF ReadSector
    <3> QED BY <2>1, <3>1, ZenonT(60) DEF IdeInv, IdeTypeOK, OneDriver, Requests, OnDisk, Serves
  <2> QED BY Zenon, <2>2, <2>3
<1>6. CASE WriteSector(t)
  <2>1. /\ ipc[t] = "output"
        /\ UNCHANGED <<kind, is_ata, all_blocks, chan_lock, expecting_interrupt, completion_wait, io, buf,
                       media, irq, spurious, errors, gave_up>>
    BY <1>6, Zenon DEF WriteSector, IdeAt, kernelVars
  <2>2. CASE DRQ
    <3>1. /\ ata' = [ata EXCEPT !.phase = "store", !.data = buf[t]]
          /\ IdeGoto(t, "wait") /\ halted' = halted
      BY <1>6, <2>2, WaitsForData, Zenon DEF WriteSector, output_sector
    <3>2. ata'.phase = "store" /\ ata'.dev = ata.dev /\ ata'.sec = ata.sec /\ ata' \in AtaState
      BY Zenon, <1>0, <3>1 DEF AtaState, Phases
    <3>4. "wait" \in Driving /\ "wait" \in IdeLabels /\ ipc[t] \in Driving
      BY Zenon, <2>1 DEF Driving, IdeLabels
    <3>5. ipc'[t] = "wait" /\ ipc' \in [ideThreads -> IdeLabels]
      BY <1>0, <3>1, <3>4, IdeGotoFrame, Zenon
    <3>6. IdeTypeOK'
      BY <1>0, <2>1, <3>1, <3>2, <3>5, Zenon DEF IdeTypeOK
    <3>7. Serves(t)'
      BY Zenon, <1>0, <2>1, <3>2, <3>5 DEF Serves
    <3>8. OnDisk'
      <4>1. ata.phase = "accept"
        BY Zenon, <1>0, <2>1, <2>2 DEF Serves, DRQ
      <4> QED BY Zenon, <1>0, <3>2, <4>1 DEF OnDisk
    <3> QED BY Zenon, <2>1, <3>1, <3>4, <3>6, <3>7, <3>8, DriverMoves
  <2>3. CASE ~DRQ
    <3>1. halted' = TRUE /\ UNCHANGED <<ata, ipc>>
      BY <1>6, <2>3, WaitsForData, Zenon DEF WriteSector
    <3> QED BY <2>1, <3>1, ZenonT(60) DEF IdeInv, IdeTypeOK, OneDriver, Requests, OnDisk, Serves
  <2> QED BY Zenon, <2>2, <2>3
<1> QED BY Zenon, <1>1, <1>2, <1>3, <1>4, <1>5, <1>6 DEF Driver

\* ide_init() runs before any request.
LEMMA BootPreserves ==
  ASSUME IdeInv, reset_channel \/ NextDevice \/ Identify
  PROVE  IdeInv'
<1>0. /\ IdeTypeOK /\ OneDriver /\ Requests /\ OnDisk
      /\ ata \in AtaState /\ io \in [ideThreads -> Request] /\ is_ata \subseteq Devices
  BY Zenon DEF IdeInv, IdeTypeOK
<1>a. /\ ipc[Boot] # "idle" /\ \A t \in Requesters : ipc[t] = "idle"
  BY Zenon, <1>0 DEF reset_channel, NextDevice, Identify, IdeAt, OneDriver
<1>1. ASSUME NEW label \in {"next", "idle", "select"}, IdeGoto(Boot, label), IdeTypeOK',
             chan_lock' = chan_lock, io'[Boot].op = "identify",
             \A t \in Requesters : io'[t] = io[t], OnDisk'
      PROVE  IdeInv'
  <2>0. label \in IdeLabels
    BY Zenon DEF IdeLabels
  <2>1. ipc'[Boot] = label /\ \A u \in Requesters : ipc'[u] = "idle"
    BY Zenon, <1>0, <1>1, <1>a, <2>0, IdeGotoFrame, IdeThreads
  <2>2. OneDriver' /\ Requests'
    BY Zenon, <1>1, <2>1 DEF OneDriver, Requests, Driving
  <2>3. \A u \in ideThreads : Serves(u)'
    BY Zenon, <2>1, IdeThreads DEF Serves
  <2> QED BY <1>1, <2>2, <2>3, Zenon DEF IdeInv
<1>2. CASE reset_channel
  <2>1. /\ ipc[Boot] = "reset" /\ is_ata' = {d \in Devices : kind[d] # "none"} /\ IdeGoto(Boot, "next")
        /\ irq' = "none"
        /\ UNCHANGED <<all_blocks, chan_lock, expecting_interrupt, completion_wait, io, buf,
                 kind, media, ata, spurious, errors, halted, gave_up>>
    BY <1>2, Zenon DEF reset_channel, IdeAt
  <2>2. ipc' \in [ideThreads -> IdeLabels]
    <3>1. "next" \in IdeLabels
      BY Zenon DEF IdeLabels
    <3> QED BY <1>0, <2>1, <3>1, IdeThreads, IdeGotoFrame, Zenon
  <2>3. IdeTypeOK'
    BY <1>0, <2>1, <2>2, Zenon DEF IdeTypeOK
  <2>4. OnDisk'
    BY Zenon, <1>0, <2>1 DEF OnDisk
  <2> QED BY Zenon, <1>0, <1>1, <2>1, <2>3, <2>4 DEF Requests
<1>3. CASE NextDevice
  <2>1. /\ ipc[Boot] = "next"
        /\ UNCHANGED <<is_ata, all_blocks, chan_lock, expecting_interrupt, completion_wait, buf,
                       kind, media, ata, irq, spurious, errors, halted, gave_up>>
    BY <1>3, Zenon DEF NextDevice, IdeAt, kernelVars, deviceVars
  <2>2. \E label \in {"idle", "select"} : IdeGoto(Boot, label)
    BY <1>3, Zenon DEF NextDevice
  <2>3. PICK label \in {"idle", "select"} : IdeGoto(Boot, label)
    BY Zenon, <2>2
  <2>4. io' \in [ideThreads -> Request] /\ io'[Boot].op = "identify" /\ \A t \in Requesters : io'[t] = io[t]
    <3>1. ASSUME NEW d \in is_ata, io' = [io EXCEPT ![Boot].dev = d]
          PROVE  io' \in [ideThreads -> Request] /\ io'[Boot].op = "identify"
                 /\ \A t \in Requesters : io'[t] = io[t]
      BY Zenon, <1>0, <3>1, IdeThreads DEF Request, Requests
    <3>2. io' = io \/ \E d \in is_ata : io' = [io EXCEPT ![Boot].dev = d]
      BY <1>3, Zenon DEF NextDevice
    <3> QED BY <1>0, <3>1, <3>2, Zenon DEF Requests
  <2>5. ipc' \in [ideThreads -> IdeLabels]
    <3>1. label \in IdeLabels
      BY Zenon DEF IdeLabels
    <3> QED BY <1>0, <2>3, <3>1, IdeThreads, IdeGotoFrame, Zenon
  <2>6. IdeTypeOK'
    BY <1>0, <2>1, <2>4, <2>5, Zenon DEF IdeTypeOK
  <2>7. OnDisk'
    BY Zenon, <1>0, <2>1 DEF OnDisk
  <2> QED BY Zenon, <1>1, <2>1, <2>3, <2>4, <2>6, <2>7
<1>4. CASE Identify
  <2>1. /\ ipc[Boot] = "input" /\ ata' \in {[ata EXCEPT !.phase = "idle"], ata} /\ IdeGoto(Boot, "next")
        /\ UNCHANGED <<chan_lock, expecting_interrupt, completion_wait, io, buf,
                       kind, media, irq, spurious, errors, halted, gave_up>>
    BY <1>4, Zenon DEF Identify, IdeAt
  <2>2. is_ata' \subseteq Devices /\ all_blocks' \subseteq Devices
    <3>1. io[Boot].dev \in Devices /\ all_blocks \subseteq Devices
      BY Zenon, <1>0, IdeThreads DEF Request, IdeTypeOK
    <3>2. /\ is_ata' \in {is_ata, is_ata \ {io[Boot].dev}}
          /\ all_blocks' \in {all_blocks, all_blocks \cup {io[Boot].dev}}
      BY <1>4, Zenon DEF Identify, block_register
    <3> QED BY Zenon, <1>0, <3>1, <3>2
  <2>3. ata' \in AtaState /\ (ata' = ata \/ ata'.phase = "idle")
    BY Zenon, <1>0, <2>1 DEF AtaState, Phases
  <2>4. ipc' \in [ideThreads -> IdeLabels]
    <3>1. "next" \in IdeLabels
      BY Zenon DEF IdeLabels
    <3> QED BY <1>0, <2>1, <3>1, IdeThreads, IdeGotoFrame, Zenon
  <2>5. IdeTypeOK'
    BY <1>0, <2>1, <2>2, <2>3, <2>4, Zenon DEF IdeTypeOK
  <2>6. OnDisk'
    BY Zenon, <1>0, <2>3 DEF OnDisk
  <2> QED BY Zenon, <1>0, <1>1, <2>1, <2>5, <2>6 DEF Requests
<1> QED BY Zenon, <1>2, <1>3, <1>4

\* A thread that comes to the channel's lock, gets it or gives it up, while
\* others may be inside.
LEMMA CallsPreserve ==
  ASSUME IdeInv, NEW t \in Requesters, NEW label \in {"lock", "select", "idle"}, IdeGoto(t, label),
         ipc[Boot] = "idle", IdeTypeOK', UNCHANGED <<ata, media>>,
         \A u \in ideThreads \ {t} : io'[u] = io[u],
         \A u \in Requesters \ {t} : ipc[u] \in Driving => chan_lock' = u,
         label = "select" => chan_lock' = t, ipc[t] \notin {"wait", "input", "output"},
         label # "idle" => io'[t].op \in {"read", "write"} /\ <<io'[t].dev, io'[t].sec>> \in Blocks
  PROVE  IdeInv'
<1>0. IdeTypeOK /\ OneDriver /\ Requests /\ OnDisk /\ \A u \in ideThreads : Serves(u)
  BY Zenon DEF IdeInv
<1>1. label \in IdeLabels /\ t \in ideThreads /\ t # Boot
  BY Zenon, IdeThreads DEF IdeLabels
<1>2. ipc'[t] = label /\ \A u \in ideThreads \ {t} : ipc'[u] = ipc[u]
  BY <1>0, <1>1, IdeGotoFrame, Zenon
<1>3. OneDriver'
  <2>1. ipc'[Boot] = "idle"
    BY <1>1, <1>2, IdeThreads, Zenon
  <2>2. label \in Driving => label = "select"
    BY Zenon DEF Driving
  <2> QED BY <1>1, <1>2, <2>1, <2>2, IdeThreads, Zenon DEF OneDriver
<1>4. Requests'
  BY Zenon, <1>0, <1>1, <1>2, IdeThreads DEF Requests
<1>6. OnDisk'
  BY <1>0, Zenon DEF OnDisk
<1>7. ASSUME NEW u \in ideThreads PROVE Serves(u)'
  <2>1. CASE u = t
    BY Zenon, <1>2, <2>1 DEF Serves
  <2>2. CASE u # t
    <3>1. ipc'[u] = ipc[u] /\ io'[u] = io[u] /\ Serves(u)
      BY <1>0, <1>2, <2>2, Zenon
    <3> QED BY Zenon, <3>1 DEF Serves
  <2> QED BY Zenon, <2>1, <2>2
<1> QED BY <1>3, <1>4, <1>6, <1>7, Zenon DEF IdeInv

\* Every step of the driver and of the device preserves the invariant, unless
\* the driver gives up.
LEMMA IdeStep == IdeInv /\ [IdeNext]_ideVars /\ ~gave_up' => IdeInv'
<1> SUFFICES ASSUME IdeInv, [IdeNext]_ideVars, ~gave_up' PROVE IdeInv'
  BY Zenon
<1>0. /\ IdeTypeOK /\ OneDriver /\ Requests /\ OnDisk /\ \A u \in ideThreads : Serves(u)
      /\ io \in [ideThreads -> Request] /\ buf \in [ideThreads -> Contents512] /\ completion_wait \in Nat
      /\ irq \in {"none", "raised", "seen"} /\ ata \in AtaState /\ media \in [Blocks -> Contents512]
      /\ spurious \in Nat /\ errors \in Nat
  BY Zenon DEF IdeInv, IdeTypeOK
<1>1. CASE interrupt_handler
  <2>1. /\ UNCHANGED <<kind, is_ata, all_blocks, chan_lock, expecting_interrupt, ipc, io, buf, halted, gave_up,
                       media, ata, spurious, errors>>
        /\ irq' \in {"none", "seen"} /\ completion_wait' \in {completion_wait, completion_wait + 1}
    BY <1>1, Zenon DEF interrupt_handler, threadIoVars
  <2>2. completion_wait' \in Nat /\ irq' \in {"none", "raised", "seen"}
    BY <1>0, <2>1
  <2>3. OnDisk'
    BY <1>0, <2>1, ZenonT(60) DEF OnDisk
  <2>4. ASSUME NEW u \in ideThreads PROVE Serves(u)'
    BY Zenon, <1>0, <2>1 DEF Serves
  <2> QED BY <1>0, <2>1, <2>2, <2>3, <2>4, DeviceSteps, Zenon
<1>2. CASE UNCHANGED ideVars
  <2>1. UNCHANGED <<kind, is_ata, all_blocks, chan_lock, expecting_interrupt, ipc, io, buf, halted, gave_up,
                    media, ata, spurious, errors, irq, completion_wait>>
    BY <1>2, Zenon DEF ideVars, kernelVars, threadIoVars, deviceVars
  <2>3. OnDisk'
    BY <1>0, <2>1, ZenonT(60) DEF OnDisk
  <2>4. ASSUME NEW u \in ideThreads PROVE Serves(u)'
    BY Zenon, <1>0, <2>1 DEF Serves
  <2> QED BY <1>0, <2>1, <2>3, <2>4, DeviceSteps, Zenon
<1>3. ASSUME NEW t \in Requesters, NEW o \in {"read", "write"}, NEW d \in Devices, NEW b \in Contents512,
             NEW s \in 0 .. Size[d] - 1, BlockCall(t, o, d, s, b)
      PROVE  IdeInv'
  <2> DEFINE r == [op |-> o, dev |-> d, sec |-> s]
  <2>1. /\ ipc[t] = "idle" /\ ipc[Boot] = "idle" /\ io' = [io EXCEPT ![t] = r]
        /\ buf' = [buf EXCEPT ![t] = b] /\ IdeGoto(t, "lock")
        /\ UNCHANGED <<kind, is_ata, all_blocks, chan_lock, expecting_interrupt, halted, gave_up,
                       media, ata, spurious, errors, irq, completion_wait>>
    BY <1>3, Zenon DEF BlockCall, IdeAt, kernelVars, deviceVars
  <2>2. r \in Request /\ r.op = o /\ r.dev = d /\ r.sec = s
    BY Zenon, InBlocks DEF Request
  <2> HIDE DEF r
  <2>3. t \in ideThreads /\ "lock" \in IdeLabels
    BY Zenon, IdeThreads DEF IdeLabels
  <2>4. /\ io' \in [ideThreads -> Request] /\ io'[t] = r /\ \A u \in ideThreads \ {t} : io'[u] = io[u]
        /\ buf' \in [ideThreads -> Contents512]
    BY <1>0, <2>1, <2>2, <2>3, Zenon
  <2>5. ipc' \in [ideThreads -> IdeLabels]
    BY <1>0, <2>1, <2>3, IdeGotoFrame, Zenon
  <2>6. IdeTypeOK'
    BY <1>0, <2>1, <2>4, <2>5, ZenonT(60) DEF IdeTypeOK
  <2>7. <<io'[t].dev, io'[t].sec>> \in Blocks /\ io'[t].op \in {"read", "write"}
    BY Zenon, <2>2, <2>4, InBlocks
  <2>8. \A u \in Requesters \ {t} : ipc[u] \in Driving => chan_lock' = u
    BY <1>0, <2>1, Zenon DEF OneDriver
  <2> QED BY Zenon, <2>1, <2>4, <2>6, <2>7, <2>8, CallsPreserve
<1>4. ASSUME NEW t \in Requesters, ChannelLock(t) PROVE IdeInv'
  <2>1. /\ ipc[t] = "lock" /\ chan_lock = Nobody /\ chan_lock' = t /\ IdeGoto(t, "select")
        /\ UNCHANGED <<kind, is_ata, all_blocks, expecting_interrupt, halted, gave_up, io, buf,
                       media, ata, spurious, errors, irq, completion_wait>>
    BY <1>4, Zenon DEF ChannelLock, IdeAt, deviceVars
  <2>2. t \in ideThreads /\ "select" \in IdeLabels
    BY Zenon, IdeThreads DEF IdeLabels
  <2>3. ipc' \in [ideThreads -> IdeLabels]
    BY <1>0, <2>1, <2>2, IdeGotoFrame, Zenon
  <2>4. IdeTypeOK'
    BY <1>0, <2>1, <2>3, Zenon DEF IdeTypeOK
  <2>5. \A u \in Requesters \ {t} : ipc[u] \in Driving => chan_lock' = u
    BY Zenon, <1>0, <2>1, IdeAssumption DEF OneDriver
  <2>6. ipc[Boot] = "idle"
    BY Zenon, <1>0, <2>1 DEF OneDriver
  <2> QED BY Zenon, <1>0, <2>1, <2>4, <2>5, <2>6, CallsPreserve DEF Requests
<1>5. ASSUME NEW t \in Requesters, ChannelUnlock(t) PROVE IdeInv'
  <2>1. /\ ipc[t] = "unlock" /\ chan_lock' = Nobody /\ IdeGoto(t, "idle")
        /\ io' = [io EXCEPT ![t] = NoRequest]
        /\ UNCHANGED <<kind, is_ata, all_blocks, expecting_interrupt, halted, gave_up, buf,
                       media, ata, spurious, errors, irq, completion_wait>>
    BY <1>5, Zenon DEF ChannelUnlock, IdeAt, deviceVars
  <2>2. t \in ideThreads /\ "idle" \in IdeLabels /\ ipc[t] \in Driving
    BY Zenon, <2>1, IdeThreads DEF IdeLabels, Driving
  <2>3. ipc' \in [ideThreads -> IdeLabels]
    BY <1>0, <2>1, <2>2, IdeGotoFrame, Zenon
  <2>4. io' \in [ideThreads -> Request] /\ \A u \in ideThreads \ {t} : io'[u] = io[u]
    BY <1>0, <2>1, <2>2, NoRequestType, Zenon
  <2>5. IdeTypeOK'
    BY <1>0, <2>1, <2>3, <2>4, Zenon DEF IdeTypeOK
  <2>6. \A u \in Requesters \ {t} : ipc[u] \notin Driving
    BY <1>0, <2>2, Alone, IdeThreads, Zenon
  <2>7. ipc[Boot] = "idle"
    BY Zenon, <1>0, <2>1 DEF OneDriver
  <2> QED BY Zenon, <2>1, <2>4, <2>5, <2>6, <2>7, CallsPreserve
<1> QED
  BY <1>1, <1>2, <1>3, <1>4, <1>5, DevicePreserves, DriverPreserves, BootPreserves, Zenon
  DEF IdeNext, Halt
\* An idle timeout is not forgotten.
LEMMA GaveUp == gave_up /\ [IdeNext]_ideVars => gave_up'
<1> SUFFICES ASSUME gave_up, [IdeNext]_ideVars PROVE gave_up'
  BY Zenon
<1>1. ASSUME NEW t, Driver(t) PROVE gave_up'
  BY <1>1, Zenon DEF Driver, select_sector, issue_pio_command, outb_command, CompletionWait, ReadSector, WriteSector
<1>2. Device => gave_up'
  BY Zenon DEF Device, DeviceReads, DeviceIdentifies, DeviceAccepts, DeviceStores, DeviceFails, DeviceSpurious
<1>3. interrupt_handler \/ reset_channel \/ NextDevice \/ Identify => gave_up'
  BY Zenon DEF interrupt_handler, reset_channel, NextDevice, Identify
<1>4. ASSUME NEW t, ChannelLock(t) \/ ChannelUnlock(t) \/ \E o, d, s, b : BlockCall(t, o, d, s, b)
      PROVE  gave_up'
  BY <1>4, Zenon DEF ChannelLock, ChannelUnlock, BlockCall
<1>5. UNCHANGED ideVars => gave_up'
  BY Zenon DEF ideVars
<1> QED BY <1>1, <1>2, <1>3, <1>4, <1>5, Zenon DEF IdeNext, Halt
-----------------------------------------------------------------------------
(* The refinement *)

requests == [t \in Requesters |-> CallNow(t)]
buffers == [t \in Requesters |-> buf[t]]

\* The calls do not change when one thread moves and its own call does not.
LEMMA SameCalls ==
  ASSUME IdeTypeOK, NEW t \in ideThreads, NEW label \in IdeLabels, IdeGoto(t, label),
         \A u \in Requesters \ {t} : io'[u] = io[u], t \in Requesters => CallNow(t)' = CallNow(t)
  PROVE  requests' = requests
<1>1. \A u \in ideThreads \ {t} : ipc'[u] = ipc[u]
  BY IdeGotoFrame, Zenon
<1>2. ASSUME NEW u \in Requesters PROVE CallNow(u)' = CallNow(u)
  <2>1. CASE u = t
    BY Zenon, <2>1
  <2>2. CASE u # t
    <3>1. ipc'[u] = ipc[u] /\ io'[u] = io[u]
      BY <1>1, <2>2, IdeThreads, Zenon
    <3> QED BY <3>1, Zenon DEF CallNow
  <2> QED BY Zenon, <2>1, <2>2
<1> QED BY <1>2, Zenon DEF requests

\* One thread's call begins or ends.
LEMMA OneCall ==
  ASSUME IdeTypeOK, NEW t \in Requesters, NEW label \in IdeLabels, IdeGoto(t, label),
         \A u \in Requesters \ {t} : io'[u] = io[u]
  PROVE  requests' = [requests EXCEPT ![t] = CallNow(t)']
<1>1. \A u \in ideThreads \ {t} : ipc'[u] = ipc[u]
  BY IdeThreads, IdeGotoFrame, Zenon
<1>2. ASSUME NEW u \in Requesters, u # t PROVE CallNow(u)' = CallNow(u)
  <2>1. ipc'[u] = ipc[u] /\ io'[u] = io[u]
    BY <1>1, <1>2, IdeThreads, Zenon
  <2> QED BY <2>1, Zenon DEF CallNow
<1>3. /\ requests' = [u \in Requesters |-> CallNow(u)']
      /\ [requests EXCEPT ![t] = CallNow(t)'] =
           [u \in Requesters |-> IF u = t THEN CallNow(t)' ELSE CallNow(u)]
  BY Zenon DEF requests
<1> QED BY <1>2, <1>3, Zenon

\* The device works without changing what the disks hold.
LEMMA DiskKept ==
  ASSUME IdeInv, Device
  PROVE  DiskNow' = DiskNow /\ requests' = requests /\ buffers' = buffers
<1>0. ata \in AtaState
  BY Zenon DEF IdeInv, IdeTypeOK
<1>1. UNCHANGED <<ipc, io, buf>>
  BY Zenon DEF Device, DeviceReads, DeviceIdentifies, DeviceAccepts, DeviceStores, DeviceFails,
               DeviceSpurious, threadIoVars
<1>2. requests' = requests /\ buffers' = buffers
  BY <1>1, Zenon DEF requests, buffers, CallNow
<1>3. CASE DeviceStores
  <2>1. ata.phase = "store" /\ ata' = [ata EXCEPT !.phase = "idle"]
        /\ media' = [media EXCEPT ![<<ata.dev, ata.sec>>] = ata.data]
    BY <1>3, Zenon DEF DeviceStores
  <2>2. ata'.phase # "store"
    BY Zenon, <1>0, <2>1 DEF AtaState
  <2> QED BY <1>2, <2>1, <2>2, Zenon DEF DiskNow
<1>4. CASE DeviceSpurious
  BY <1>2, <1>4, Zenon DEF DeviceSpurious, DiskNow
<1>5. CASE DeviceReads \/ DeviceIdentifies \/ DeviceAccepts \/ DeviceFails
  <2>1. ata.phase # "store" /\ media' = media
    BY Zenon, <1>5 DEF DeviceReads, DeviceIdentifies, DeviceAccepts, DeviceFails
  <2>2. ata'.phase # "store"
    BY Zenon, <1>0, <1>5 DEF DeviceReads, DeviceIdentifies, DeviceAccepts, DeviceFails, AtaState
  <2> QED BY <1>2, <2>1, <2>2, Zenon DEF DiskNow
<1> QED BY Zenon, <1>3, <1>4, <1>5 DEF Device

\* A step of the driver reads a sector, writes one, or leaves the disks and the
\* calls as they are.
LEMMA DriverRefines ==
  ASSUME IdeInv, NEW t \in ideThreads, Driver(t), ~gave_up'
  PROVE  Disk!Next \/ (DiskNow' = DiskNow /\ requests' = requests /\ buffers' = buffers)
<1>0. /\ IdeTypeOK /\ OneDriver /\ Requests /\ OnDisk /\ Serves(t)
      /\ ata \in AtaState /\ media \in [Blocks -> Contents512] /\ buf \in [ideThreads -> Contents512]
      /\ io \in [ideThreads -> Request]
  BY Zenon DEF IdeInv, IdeTypeOK
<1>a. io[t].op \in {"read", "write", "identify"} /\ ata.phase \in Phases
  BY Zenon, <1>0 DEF Request, AtaState
<1>b. t # Boot => t \in Requesters
  BY Zenon, IdeThreads
<1>c. t \in Requesters => t # Boot /\ (ipc[t] # "idle" => io[t].op # "identify")
  BY Zenon, <1>0, IdeThreads DEF Requests
<1>l. {"issue", "command", "wait", "output", "input", "unlock"} \subseteq IdeLabels
  BY Zenon DEF IdeLabels
<1>g. \A label \in IdeLabels : IdeGoto(t, label) => ipc'[t] = label
  BY <1>0, IdeGotoFrame, Zenon
\* Steps that take the call further.
<1>1. ASSUME NEW label \in IdeLabels, IdeGoto(t, label), UNCHANGED <<io, buf, media>>,
             ata'.phase # "store" <=> ata.phase # "store",
             ata' = ata \/ ata'.phase # "store",
             t \in Requesters => CallNow(t)' = CallNow(t)
      PROVE  DiskNow' = DiskNow /\ requests' = requests /\ buffers' = buffers
  <2>1. DiskNow' = DiskNow
    BY <1>1, Zenon DEF DiskNow
  <2>2. requests' = requests
    BY <1>0, <1>1, SameCalls, Zenon
  <2> QED BY <1>1, <2>1, <2>2, Zenon DEF buffers
<1>2. CASE select_sector(t)
  <2>1. /\ ipc[t] = "select" /\ wait_until_idle /\ ata' = [ata EXCEPT !.dev = io[t].dev, !.sec = io[t].sec]
        /\ IdeGoto(t, "issue") /\ UNCHANGED <<io, buf, media>>
    BY <1>2, Selects, Zenon DEF select_sector, IdeAt
  <2>2. ata.phase = "idle" /\ ata'.phase = "idle"
    BY Zenon, <1>0, <1>a, <2>1 DEF wait_until_idle, BSY, DRQ, Phases, AtaState
  <2>3. ipc'[t] = "issue"
    BY <1>g, <1>l, <2>1, Zenon
  <2>4. CallNow(t)' = CallNow(t)
    BY Zenon, <2>1, <2>3 DEF CallNow
  <2> QED BY Zenon, <1>1, <1>l, <2>1, <2>2, <2>4
<1>3. CASE issue_pio_command(t)
  <2>1. /\ ipc[t] = "issue" /\ IdeGoto(t, "command") /\ UNCHANGED <<io, buf, media, ata>>
    BY <1>3, Zenon DEF issue_pio_command, IdeAt, deviceVars
  <2>2. ipc'[t] = "command"
    BY <1>g, <1>l, <2>1, Zenon
  <2>3. CallNow(t)' = CallNow(t)
    BY Zenon, <2>1, <2>2 DEF CallNow
  <2> QED BY Zenon, <1>1, <1>l, <2>1, <2>3
<1>4. CASE outb_command(t)
  <2> DEFINE label == IF io[t].op = "write" THEN "output" ELSE "wait"
  <2>1. /\ ipc[t] = "command" /\ ata' = [ata EXCEPT !.phase = io[t].op] /\ IdeGoto(t, label)
        /\ UNCHANGED <<io, buf, media>>
    <3>1. ipc[t] = "command"
      BY <1>4, Zenon DEF outb_command, IdeAt
    <3>2. ata.phase = "idle"
      BY <1>0, <3>1, Zenon DEF Serves
    <3> QED BY <1>4, <3>1, <3>2, Commands, Zenon DEF outb_command, IdeAt
  <2>2. (label = "output" /\ io[t].op = "write") \/ (label = "wait" /\ io[t].op # "write")
    BY Zenon
  <2> HIDE DEF label
  <2>3. ata.phase # "store" /\ ata'.phase # "store"
    BY Zenon, <1>0, <1>a, <2>1 DEF Serves, AtaState
  <2>4. label \in IdeLabels
    BY Zenon, <1>l, <2>2
  <2>5. ipc'[t] = label
    BY <1>g, <2>1, <2>4, Zenon
  <2>6. t \in Requesters => CallNow(t)' = CallNow(t)
    BY Zenon, <1>a, <1>c, <2>1, <2>2, <2>5 DEF CallNow
  <2> QED BY Zenon, <1>1, <2>1, <2>3, <2>4, <2>6
<1>5. CASE CompletionWait(t)
  <2> DEFINE label == IF io[t].op = "write" THEN "unlock" ELSE "input"
  <2>1. ipc[t] = "wait" /\ IdeGoto(t, label) /\ UNCHANGED <<io, buf, media, ata>>
    BY <1>5, Zenon DEF CompletionWait, IdeAt, deviceVars
  <2>2. (label = "unlock" /\ io[t].op = "write") \/ (label = "input" /\ io[t].op # "write")
    BY Zenon
  <2> HIDE DEF label
  <2>3. label \in IdeLabels
    BY Zenon, <1>l, <2>2
  <2>4. ipc'[t] = label
    BY <1>g, <2>1, <2>3, ZenonT(60)
  <2>5. t \in Requesters => CallNow(t)' = CallNow(t)
    BY Zenon, <1>a, <1>c, <2>1, <2>2, <2>4 DEF CallNow
  <2> QED BY Zenon, <1>1, <2>1, <2>3, <2>5
<1>6. CASE ReadSector(t)
  <2>1. ipc[t] = "input" /\ t \in Requesters /\ UNCHANGED <<io, media>>
    BY <1>6, <1>b, Zenon DEF ReadSector, IdeAt
  <2>2. CASE DRQ
    <3> DEFINE b == <<io[t].dev, io[t].sec>>
    <3>1. /\ buf' = [buf EXCEPT ![t] = ata.data] /\ ata' = [ata EXCEPT !.phase = "idle"]
          /\ IdeGoto(t, "unlock")
      BY <1>6, <2>2, WaitsForData, ZenonT(60) DEF ReadSector, input_sector
    <3>2. io[t].op = "read" /\ b \in Blocks /\ ata.phase = "ready" /\ ata.data = media[b]
      BY Zenon, <1>0, <1>a, <1>c, <2>1, <2>2 DEF Serves, DRQ, Requests
    <3>3. ata'.phase = "idle"
      <4>1. ata \in AtaState
        BY <1>0, Zenon
      <4> QED BY Zenon, <3>1, <4>1 DEF AtaState
    <3>4. DiskNow' = media /\ DiskNow = media
      BY <2>1, <3>2, <3>3, Zenon DEF DiskNow
    <3>5. CallNow(t) = <<"read", b>>
      BY Zenon, <2>1, <3>2 DEF CallNow
    <3>6. CallNow(t)' = <<>>
      <4>1. ipc'[t] = "unlock"
        BY <1>g, <1>l, <3>1, Zenon
      <4> QED BY Zenon, <4>1 DEF CallNow
    <3>7. requests' = [requests EXCEPT ![t] = <<>>]
      BY <1>0, <1>l, <2>1, <3>1, <3>6, OneCall
    <3>8. buffers' = [buffers EXCEPT ![t] = DiskNow[b]]
      BY <1>0, <2>1, <3>1, <3>2, <3>4, IdeThreads, Zenon DEF buffers
    <3> HIDE DEF b
    <3>9. requests[t] = <<"read", b>>
      BY <2>1, <3>5, Zenon DEF requests
    <3>10. Disk!Read(t, b)
      BY <3>4, <3>7, <3>8, <3>9, Zenon DEF Disk!Read, requests, buffers
    <3>11. Disk!Next
      BY <2>1, <3>2, <3>10, Zenon DEF Disk!Next, Disk!Read
    <3> QED BY Zenon, <3>11
  <2>3. CASE ~DRQ
    BY <1>6, <2>1, <2>3, WaitsForData, Zenon DEF ReadSector, DiskNow, requests, buffers, CallNow
  <2> QED BY Zenon, <2>2, <2>3
<1>7. CASE WriteSector(t)
  <2>1. ipc[t] = "output" /\ t \in Requesters /\ UNCHANGED <<io, media, buf>>
    BY Zenon, <1>0, <1>7, <1>b DEF WriteSector, IdeAt, Requests
  <2>2. CASE DRQ
    <3> DEFINE b == <<io[t].dev, io[t].sec>>
    <3>1. ata' = [ata EXCEPT !.phase = "store", !.data = buf[t]] /\ IdeGoto(t, "wait")
      BY <1>7, <2>2, WaitsForData, ZenonT(60) DEF WriteSector, output_sector
    <3>2. io[t].op = "write" /\ b \in Blocks /\ ata.phase = "accept" /\ ata.dev = io[t].dev /\ ata.sec = io[t].sec
      BY Zenon, <1>0, <1>a, <1>c, <2>1, <2>2 DEF Serves, DRQ, Requests
    <3>3. ata'.phase = "store" /\ ata'.dev = io[t].dev /\ ata'.sec = io[t].sec /\ ata'.data = buf[t]
      <4>1. ata \in AtaState
        BY <1>0, Zenon
      <4> QED BY Zenon, <3>1, <3>2, <4>1 DEF AtaState
    <3>4. DiskNow' = [media EXCEPT ![b] = buf[t]] /\ DiskNow = media
      <4>1. DiskNow = media
        BY <3>2, Zenon DEF DiskNow
      <4>2. DiskNow' = [media' EXCEPT ![<<ata'.dev, ata'.sec>>] = ata'.data]
        BY <3>3, Zenon DEF DiskNow
      <4> QED BY <2>1, <3>3, <4>1, <4>2, Zenon
    <3>5. CallNow(t) = <<"write", b>>
      BY Zenon, <2>1, <3>2 DEF CallNow
    <3>6. CallNow(t)' = <<>>
      <4>1. ipc'[t] = "wait"
        BY <1>g, <1>l, <3>1, Zenon
      <4> QED BY Zenon, <2>1, <3>2, <4>1 DEF CallNow
    <3>7. requests' = [requests EXCEPT ![t] = <<>>]
      BY <1>0, <1>l, <2>1, <3>1, <3>6, OneCall
    <3>8. buffers' = buffers /\ buffers[t] = buf[t]
      BY <2>1, Zenon DEF buffers
    <3> HIDE DEF b
    <3>9. requests[t] = <<"write", b>>
      BY <2>1, <3>5, Zenon DEF requests
    <3>10. Disk!Write(t, b)
      BY <3>4, <3>7, <3>8, <3>9, Zenon DEF Disk!Write, requests, buffers
    <3> QED BY <2>1, <3>2, <3>10, Zenon DEF Disk!Next
  <2>3. CASE ~DRQ
    BY <1>7, <2>1, <2>3, WaitsForData, Zenon DEF WriteSector, DiskNow, requests, buffers, CallNow
  <2> QED BY Zenon, <2>2, <2>3
<1> QED BY Zenon, <1>2, <1>3, <1>4, <1>5, <1>6, <1>7 DEF Driver

\* Until wait_until_idle() gives up on a device, block_read() and block_write()
\* on the channel are reads and writes of whole sectors, each at one moment of the
\* call, for any number of threads, devices and sectors, and although an interrupt
\* that nothing asked for, or one of a failed command, may send the driver ahead
\* of the device.
THEOREM IdeImplementsStore == IdeSpec => IdeIsStore
<1>1. IdeInit => Disk!Init
  <2> SUFFICES ASSUME IdeInit PROVE Disk!Init
    BY Zenon
  <2>1. /\ media = [b \in Blocks |-> Zeros] /\ buf = [t \in ideThreads |-> Zeros] /\ ata.phase = "idle"
        /\ ipc = [t \in ideThreads |-> IF t = Boot THEN "reset" ELSE "idle"]
    BY Zenon DEF IdeInit
  <2>2. DiskNow = [b \in Blocks |-> Zeros]
    BY Zenon, <2>1 DEF DiskNow
  <2>3. ASSUME NEW t \in Requesters PROVE CallNow(t) = <<>> /\ buf[t] = Zeros
    <3>1. ipc[t] = "idle" /\ buf[t] = Zeros
      BY Zenon, <2>1, IdeThreads
    <3> QED BY Zenon, <3>1 DEF CallNow
  <2> QED BY <2>2, <2>3, Zenon DEF Disk!Init
<1>2. IdeInv /\ [IdeNext]_ideVars => [gave_up' \/ Disk!Next]_<<DiskNow, requests, buffers>>
  <2> SUFFICES ASSUME IdeInv, [IdeNext]_ideVars, ~gave_up'
               PROVE  Disk!Next \/ (DiskNow' = DiskNow /\ requests' = requests /\ buffers' = buffers)
    BY Zenon
  <2>0. IdeTypeOK /\ io \in [ideThreads -> Request] /\ buf \in [ideThreads -> Contents512]
    BY Zenon DEF IdeInv, IdeTypeOK
  <2>l. {"next", "idle", "lock", "select"} \subseteq IdeLabels
    BY Zenon DEF IdeLabels
  <2>1. CASE interrupt_handler \/ UNCHANGED ideVars
    BY <2>1, Zenon DEF interrupt_handler, ideVars, threadIoVars, deviceVars, DiskNow, requests, buffers, CallNow
  <2>2. CASE Device
    BY Zenon, <2>2, DiskKept
  <2>3. CASE reset_channel \/ NextDevice \/ Identify
    <3>1. UNCHANGED <<media, buf>> /\ \A u \in Requesters \ {Boot} : io'[u] = io[u]
      BY Zenon, <2>0, <2>3, IdeThreads DEF reset_channel, NextDevice, Identify, deviceVars
    <3>2. \E label \in IdeLabels : IdeGoto(Boot, label)
      BY <2>3, <2>l, Zenon DEF reset_channel, NextDevice, Identify
    <3>3. requests' = requests
      BY <2>0, <3>1, <3>2, SameCalls, IdeThreads, Zenon
    <3>4. DiskNow' = DiskNow
      <4>1. CASE Identify
        <5>1. ata \in AtaState /\ ata' = IF wait_while_busy THEN [ata EXCEPT !.phase = "idle"] ELSE ata
          BY <2>0, <4>1, Zenon DEF Identify, IdeTypeOK
        <5>2. CASE wait_while_busy
          <6>1. ata.phase # "store" /\ ata'.phase # "store"
            BY Zenon, <5>1, <5>2 DEF AtaState, wait_while_busy, BSY
          <6> QED BY <3>1, <6>1, Zenon DEF DiskNow
        <5>3. CASE ~wait_while_busy
          BY <3>1, <5>1, <5>3, Zenon DEF DiskNow
        <5> QED BY Zenon, <5>2, <5>3
      <4>2. CASE reset_channel \/ NextDevice
        BY <4>2, Zenon DEF reset_channel, NextDevice, deviceVars, DiskNow
      <4> QED BY Zenon, <2>3, <4>1, <4>2
    <3> QED BY <3>1, <3>3, <3>4, Zenon DEF buffers
  <2>4. ASSUME NEW t \in Requesters, NEW o \in {"read", "write"}, NEW d \in Devices, NEW c \in Contents512,
               NEW s \in 0 .. Size[d] - 1, BlockCall(t, o, d, s, c)
        PROVE  Disk!Next
    <3> DEFINE b == <<d, s>>
    <3>1. /\ ipc[t] = "idle" /\ io' = [io EXCEPT ![t] = [op |-> o, dev |-> d, sec |-> s]]
          /\ buf' = [buf EXCEPT ![t] = c] /\ IdeGoto(t, "lock") /\ UNCHANGED <<media, ata>>
      BY <2>4, Zenon DEF BlockCall, IdeAt, deviceVars
    <3>2. t \in ideThreads /\ b \in Blocks
      BY IdeThreads, InBlocks, Zenon
    <3>3. io'[t] = [op |-> o, dev |-> d, sec |-> s] /\ \A u \in Requesters \ {t} : io'[u] = io[u]
      BY Zenon, <2>0, <3>1, <3>2, IdeThreads
    <3>4. ipc'[t] = "lock"
      BY Zenon, <2>0, <2>l, <3>1, <3>2, IdeGotoFrame
    <3>5. CallNow(t)' = <<o, b>>
      BY SMTT(60), <3>3, <3>4 DEF CallNow
    <3> HIDE DEF b
    <3>6. CallNow(t) = <<>>
      BY Zenon, <3>1 DEF CallNow
    <3>7. requests[t] = <<>> /\ requests' = [requests EXCEPT ![t] = <<o, b>>]
      <4>1. requests' = [requests EXCEPT ![t] = CallNow(t)']
        BY Zenon, <2>0, <2>l, <3>1, <3>3, OneCall
      <4> QED BY <3>5, <3>6, <4>1, Zenon DEF requests
    <3>8. buffers' = [buffers EXCEPT ![t] = c]
      BY <2>0, <3>1, <3>2, IdeThreads, Zenon DEF buffers
    <3>9. DiskNow' = DiskNow
      BY <3>1, Zenon DEF DiskNow
    <3>10. Disk!Call(t, o, b, c)
      BY <3>7, <3>8, <3>9, Zenon DEF Disk!Call, requests, buffers
    <3> QED BY <3>2, <3>10, Zenon DEF Disk!Next
  <2>5. ASSUME NEW t \in Requesters, ChannelLock(t) \/ ChannelUnlock(t)
        PROVE  DiskNow' = DiskNow /\ requests' = requests /\ buffers' = buffers
    <3>1. UNCHANGED <<media, ata, buf>> /\ \A u \in Requesters \ {t} : io'[u] = io[u]
      BY Zenon, <2>0, <2>5, IdeThreads DEF ChannelLock, ChannelUnlock, deviceVars
    <3>2. t \in ideThreads
      BY Zenon, IdeThreads
    <3>3. PICK label \in IdeLabels :
            /\ IdeGoto(t, label)
            /\ (ipc[t] = "lock" /\ label = "select" /\ io' = io) \/ (ipc[t] = "unlock" /\ label = "idle")
      BY Zenon, <2>5, <2>l DEF ChannelLock, ChannelUnlock, IdeAt
    <3>4. ipc'[t] = label
      BY <2>0, <3>2, <3>3, IdeGotoFrame, Zenon
    <3>5. CallNow(t)' = CallNow(t)
      BY <3>3, <3>4 DEF CallNow
    <3>6. requests' = requests
      BY <2>0, <3>1, <3>2, <3>3, <3>5, SameCalls, Zenon
    <3> QED BY <3>1, <3>6, Zenon DEF DiskNow, buffers
  <2> QED BY <2>1, <2>2, <2>3, <2>4, <2>5, DriverRefines, Zenon DEF IdeNext, Halt
<1>3. <<DiskNow, requests, buffers>> =
        <<DiskNow, [t \in Requesters |-> CallNow(t)], [t \in Requesters |-> buf[t]]>>
  BY Zenon DEF requests, buffers
<1>4. gave_up /\ [IdeNext]_ideVars => [gave_up' \/ Disk!Next]_<<DiskNow, requests, buffers>>
  BY GaveUp, Zenon
<1>5. IdeInit => gave_up \/ IdeInv
  BY IdeInitially, Zenon
<1>6. (gave_up \/ IdeInv) /\ [IdeNext]_ideVars => (gave_up \/ IdeInv)'
  BY IdeStep, GaveUp, Zenon
<1>7. (gave_up \/ IdeInv) /\ [IdeNext]_ideVars => [gave_up' \/ Disk!Next]_<<DiskNow, requests, buffers>>
  BY <1>2, <1>4, Zenon
<1> QED BY <1>1, <1>3, <1>5, <1>6, <1>7, PTL DEF IdeSpec, IdeIsStore, requests, buffers

-----------------------------------------------------------------------------
\* The console lock keeps the output of threads apart, for any number of
\* threads and any depth of calls inside calls.

\* The strengthening: before console_init() nobody has touched the lock, and
\* from console_panic() on nobody uses it.
ConsoleInv ==
  /\ LinesUnmixed
  /\ ~use_console_lock /\ panicked = NoPrinter =>
       console_lock = NoPrinter /\ console_lock_depth = 0 /\ waits = {}
  /\ panicked # NoPrinter => ~use_console_lock

\* It holds before console_init().
LEMMA ConsoleInitially == ConsoleInit => ConsoleInv
<1> SUFFICES ASSUME ConsoleInit PROVE ConsoleInv
  BY Zenon
<1>1. ConsoleTypeOK
  BY Zenon DEF ConsoleInit, ConsoleTypeOK
<1>2. \A t \in Printers : console_locked_by_current_thread(t)
  BY Zenon DEF ConsoleInit, console_locked_by_current_thread
<1> QED BY <1>1, <1>2, Zenon DEF ConsoleInit, ConsoleInv, LinesUnmixed

\* Every call of console.c preserves it.
LEMMA ConsoleStep == ConsoleInv /\ [ConsoleNext]_consoleVars => ConsoleInv'
<1> SUFFICES ASSUME ConsoleInv, [ConsoleNext]_consoleVars PROVE ConsoleInv'
  BY Zenon
<1> USE ConsoleAssumption
<1> USE DEF ConsoleInv, LinesUnmixed, ConsoleTypeOK, console_locked_by_current_thread
<1>1. CASE console_init
  BY <1>1 DEF console_init
<1>2. ASSUME NEW t \in Printers, acquire_console(t) PROVE ConsoleInv'
  <2>1. CASE ~use_console_lock
    BY <1>2, <2>1 DEF acquire_console, Runs
  <2>2. CASE use_console_lock /\ console_lock = t
    BY <1>2, <2>2 DEF acquire_console, Runs
  <2>3. CASE use_console_lock /\ console_lock # t
    BY Zenon, <1>2, <2>3 DEF acquire_console, Runs
  <2> QED BY Zenon, <2>1, <2>2, <2>3
<1>3. ASSUME NEW t \in Printers, ConsoleLock(t) PROVE ConsoleInv'
  <2>1. use_console_lock /\ prints[t] = 0
    BY <1>3 DEF ConsoleLock
  <2> QED BY <1>3, <2>1 DEF ConsoleLock
<1>4. ASSUME NEW t \in Printers, release_console(t) PROVE ConsoleInv'
  <2>1. CASE ~use_console_lock
    BY <1>4, <2>1 DEF release_console, Runs
  <2>2. CASE use_console_lock /\ console_lock_depth > 0
    BY <1>4, <2>2 DEF release_console, Runs
  <2>3. CASE use_console_lock /\ ~(console_lock_depth > 0)
    <3>1. console_lock = t /\ prints[t] = 1
      BY <1>4, <2>3 DEF release_console
    <3> QED BY <1>4, <2>3, <3>1 DEF release_console, Runs
  <2> QED BY Zenon, <2>1, <2>2, <2>3
<1>5. ASSUME NEW t \in Printers, console_panic(t) PROVE ConsoleInv'
  BY Zenon, <1>5 DEF console_panic, Runs
<1>6. CASE UNCHANGED consoleVars
  BY Zenon, <1>6 DEF consoleVars
<1> QED BY Zenon, <1>1, <1>2, <1>3, <1>4, <1>5, <1>6 DEF ConsoleNext

\* console.c: a thread in the middle of its output has the console to itself,
\* the counter of acquire_console() and release_console() is exact, and a
\* panic never waits.
THEOREM ConsoleLocked == ConsoleSpec => []LinesUnmixed
<1>1. ConsoleInv => LinesUnmixed
  BY Zenon DEF ConsoleInv
<1> QED BY ConsoleInitially, ConsoleStep, <1>1, PTL DEF ConsoleSpec

-----------------------------------------------------------------------------
\* External interrupts are handled one at a time, for any number of
\* threads and vectors and any depth of nested faults and system calls.

\* A frame of an external interrupt whose handler has not returned.
Handling(f) == f.vec \in External /\ f.at = "handler"

\* The strengthening: an external handler runs with interrupts off.
InterruptsInv ==
  /\ ExternalsSerial
  /\ in_external_intr => level = "OFF"

\* The frames of the running thread, where a step changes them: all others
\* stay, and the stack of the running thread becomes q.
Stacks(q) ==
  /\ frames'[task] = q
  /\ \A t \in Tasks \ {task} : frames'[t] = frames[t]

-----------------------------------------------------------------------------
(* The stack of a thread *)

\* Replacing the last member of a sequence.
LEMMA ReplaceLast ==
  ASSUME NEW S, NEW q \in Seq(S), q # <<>>, NEW e \in S
  PROVE  LET r == [q EXCEPT ![Len(q)] = e] IN
         /\ r \in Seq(S) /\ Len(r) = Len(q)
         /\ r[Len(q)] = e
         /\ \A i \in 1 .. Len(q) - 1 : r[i] = q[i]
<1>1. Len(q) \in Nat \ {0} /\ Len(q) \in 1 .. Len(q)
  OBVIOUS
<1>2. /\ [q EXCEPT ![Len(q)] = e][Len(q)] = e
      /\ \A i \in 1 .. Len(q) - 1 : [q EXCEPT ![Len(q)] = e][i] = q[i]
  BY <1>1
<1>3. [q EXCEPT ![Len(q)] = e] \in [1 .. Len(q) -> S]
  BY <1>1
<1>4. [q EXCEPT ![Len(q)] = e] \in Seq(S) /\ Len([q EXCEPT ![Len(q)] = e]) = Len(q)
  BY <1>1, <1>3
<1> QED BY <1>2, <1>4, Zenon

\* Dropping the last member of a sequence.
LEMMA DropLast ==
  ASSUME NEW S, NEW q \in Seq(S), q # <<>>
  PROVE  LET r == SubSeq(q, 1, Len(q) - 1) IN
         /\ r \in Seq(S) /\ Len(r) = Len(q) - 1
         /\ \A i \in 1 .. Len(q) - 1 : r[i] = q[i]
<1>1. PICK n : n = Len(q)
  BY Zenon
<1>2. n \in Nat \ {0} /\ n = Len(q)
  BY <1>1
<1>3. PICK r : r = SubSeq(q, 1, n - 1)
  BY Zenon
<1>4. r \in Seq(S) /\ Len(r) = n - 1 /\ \A i \in 1 .. n - 1 : r[i] = q[i]
  BY <1>2, <1>3
<1> QED BY <1>2, <1>3, <1>4, Zenon

\* An interrupt pushes a frame.
LEMMA PushedStack ==
  ASSUME InterruptsTypeOK, NEW v \in External \cup Trap \cup Fault, frames' = Pushed(v)
  PROVE  LET f == [vec |-> v, level |-> level, at |-> "handler"] IN
         /\ f \in Frame
         /\ frames' \in [Tasks -> Seq(Frame)]
         /\ Stacks(Append(frames[task], f))
<1> DEFINE f == [vec |-> v, level |-> level, at |-> "handler"]
<1>1. f \in Frame
  BY Zenon DEF InterruptsTypeOK, Frame
<1>2. frames[task] \in Seq(Frame) /\ task \in Tasks /\ frames \in [Tasks -> Seq(Frame)]
  BY Zenon DEF InterruptsTypeOK
<1>3. frames' = [frames EXCEPT ![task] = Append(@, f)]
  BY Zenon DEF Pushed
<1> HIDE DEF f
<1>4. Append(frames[task], f) \in Seq(Frame)
  BY <1>1, <1>2
<1>5. frames' \in [Tasks -> Seq(Frame)] /\ Stacks(Append(frames[task], f))
  BY <1>2, <1>3, <1>4, Zenon DEF Stacks
<1> QED BY Zenon, <1>1, <1>5 DEF f

\* The innermost frame moves on.
LEMMA MovedStack ==
  ASSUME InterruptsTypeOK, Inside, NEW label \in {"yield", "iret"}, frames' = Moved(label)
  PROVE  /\ frames' \in [Tasks -> Seq(Frame)]
         /\ \A t \in Tasks \ {task} : frames'[t] = frames[t]
         /\ Len(frames'[task]) = Len(frames[task])
         /\ \A i \in 1 .. Len(frames[task]) - 1 : frames'[task][i] = frames[task][i]
         /\ frames'[task][Len(frames[task])].at = label
<1> DEFINE q == frames[task]  g == [q[Len(q)] EXCEPT !.at = label]
           r == [q EXCEPT ![Len(q)] = g]
<1>1. task \in Tasks /\ frames \in [Tasks -> Seq(Frame)] /\ q \in Seq(Frame) /\ q # <<>>
  BY Zenon DEF InterruptsTypeOK, Inside
<1>2. q[Len(q)] \in Frame
  BY <1>1
<1>3. g \in Frame /\ g.at = label
  BY Zenon, <1>2 DEF Frame
<1>4. frames' = [frames EXCEPT ![task] = r]
  BY Zenon DEF Moved
<1> HIDE DEF g, q
<1>5. /\ r \in Seq(Frame) /\ Len(r) = Len(q) /\ r[Len(q)] = g
      /\ \A i \in 1 .. Len(q) - 1 : r[i] = q[i]
  BY <1>1, <1>3, ReplaceLast
<1> HIDE DEF r
<1>6. /\ frames' \in [Tasks -> Seq(Frame)] /\ frames'[task] = r
      /\ \A t \in Tasks \ {task} : frames'[t] = frames[t]
  BY <1>1, <1>4, <1>5, Zenon
<1> QED BY Zenon, <1>3, <1>5, <1>6 DEF q

\* iret removes the innermost frame.
LEMMA PoppedStack ==
  ASSUME InterruptsTypeOK, Inside, frames' = Popped
  PROVE  /\ frames' \in [Tasks -> Seq(Frame)]
         /\ \A t \in Tasks \ {task} : frames'[t] = frames[t]
         /\ Len(frames'[task]) = Len(frames[task]) - 1
         /\ \A i \in 1 .. Len(frames[task]) - 1 : frames'[task][i] = frames[task][i]
<1> DEFINE q == frames[task]  r == SubSeq(q, 1, Len(q) - 1)
<1>1. task \in Tasks /\ frames \in [Tasks -> Seq(Frame)] /\ q \in Seq(Frame) /\ q # <<>>
  BY Zenon DEF InterruptsTypeOK, Inside
<1>2. frames' = [frames EXCEPT ![task] = r]
  BY Zenon DEF Popped
<1> HIDE DEF q
<1>3. r \in Seq(Frame) /\ Len(r) = Len(q) - 1 /\ \A i \in 1 .. Len(q) - 1 : r[i] = q[i]
  BY <1>1, DropLast, Zenon
<1> HIDE DEF r
<1>4. /\ frames' \in [Tasks -> Seq(Frame)] /\ frames'[task] = r
      /\ \A t \in Tasks \ {task} : frames'[t] = frames[t]
  BY <1>1, <1>2, <1>3, Zenon
<1> QED BY Zenon, <1>3, <1>4 DEF q
-----------------------------------------------------------------------------
(* The induction *)

\* Outside external handlers no frame of any thread is one of them.
NoHandling == \A t \in Tasks : \A i \in 1 .. Len(frames[t]) : ~Handling(frames[t][i])

\* No handler runs, and no line is in service, outside an external interrupt.
LEMMA OutsideHandlers ==
  ASSUME InterruptsInv, ~in_external_intr
  PROVE  NoHandling /\ in_service = {}
<1>1. ASSUME NEW t \in Tasks, NEW i \in 1 .. Len(frames[t]), Handling(frames[t][i]) PROVE FALSE
  <2>1. t = task /\ i = Len(frames[t])
    BY <1>1, Zenon DEF InterruptsInv, ExternalsSerial, Handling
  <2>2. frames[task] # <<>>
    <3>1. Len(frames[task]) # 0
      BY <2>1
    <3> QED BY <3>1
  <2>3. TopAt("handler") /\ Top.vec \in External
    BY <1>1, <2>1, <2>2, Zenon DEF TopAt, Top, Inside, Handling
  <2> QED BY <2>3, Zenon DEF InterruptsInv, ExternalsSerial
<1>2. in_service = {}
  BY Zenon DEF InterruptsInv, ExternalsSerial
<1> QED BY <1>1, <1>2, Zenon DEF NoHandling

\* When one interrupt is in service, its end leaves nothing in service at either
\* controller.
LEMMA AllAcknowledged ==
  ASSUME NEW v \in External, in_service = Inputs(v)
  PROVE  pic_end_of_interrupt(v) = {}
<1>1. v \in 32 .. 47 /\ v # Cascade
  BY InterruptsAssumption
<1>2. CASE v \in Slave
  <2>1. in_service = {Cascade, v} /\ v >= 40 /\ v \notin Master /\ Cascade \in Master /\ Cascade \notin Slave
    BY <1>1, <1>2 DEF Inputs, Slave, Master, Cascade
  <2>2. Acknowledged(Master, in_service) = {v}
    <3>1. ~(Cascade < Cascade)
      BY DEF Cascade
    <3> QED BY <2>1, <3>1, Zenon DEF Acknowledged
  <2>3. Acknowledged(Slave, {v}) = {}
    <3>1. ~(v < v)
      BY <1>1
    <3> QED BY <1>2, <3>1, Zenon DEF Acknowledged
  <2> QED BY <2>1, <2>2, <2>3, Zenon DEF pic_end_of_interrupt
<1>3. CASE v \notin Slave
  <2>1. in_service = {v} /\ ~(v >= 40) /\ v \in Master /\ ~(v < v)
    BY <1>1, <1>3 DEF Inputs, Slave, Master
  <2>2. Acknowledged(Master, in_service) = {}
    BY <2>1, Zenon DEF Acknowledged
  <2> QED BY <2>1, <2>2, Zenon DEF pic_end_of_interrupt
<1> QED BY <1>2, <1>3, Zenon

\* A state between external interrupts.
Between ==
  InterruptsTypeOK /\ ~asserted /\ in_external_intr = FALSE /\ in_service = {} /\ NoHandling

\* Between handlers the invariant holds.
LEMMA NoneHandled == Between => InterruptsInv
<1> SUFFICES ASSUME Between PROVE InterruptsInv
  BY Zenon
<1> USE DEF Between
<1>1. ~(TopAt("handler") /\ Top.vec \in External)
  <2> SUFFICES ASSUME TopAt("handler"), Top.vec \in External PROVE FALSE
    BY Zenon
  <2>1. task \in Tasks /\ frames[task] \in Seq(Frame) /\ frames[task] # <<>>
    BY Zenon DEF InterruptsTypeOK, TopAt, Inside
  <2>2. Len(frames[task]) \in 1 .. Len(frames[task])
    BY <2>1
  <2> QED BY <2>1, <2>2, Zenon DEF NoHandling, Handling, TopAt, Top
<1> QED BY <1>1, Zenon DEF InterruptsInv, ExternalsSerial, NoHandling, Handling

\* Between handlers the invariant holds, after a step.
LEMMA NoneHandledNext == Between' => InterruptsInv'
  BY NoneHandled, PTL

\* A step that leaves the stacks and the controllers alone.
LEMMA StacksAlone ==
  ASSUME InterruptsInv,
         UNCHANGED <<in_external_intr, in_service, task, frames, old_level>>,
         level' \in Levels, yield_on_return' \in BOOLEAN,
         handlers' \subseteq External \cup Trap \cup Fault,
         asserted' = FALSE, in_external_intr => level' = "OFF"
  PROVE  InterruptsInv'
<1>1. InterruptsTypeOK'
  BY Zenon DEF InterruptsInv, ExternalsSerial, InterruptsTypeOK
<1>2. (TopAt("handler")' <=> TopAt("handler")) /\ Top' = Top
  BY Zenon DEF TopAt, Inside, Top
<1> QED BY <1>1, <1>2, Zenon DEF InterruptsInv, ExternalsSerial

\* A frame that moves on is not one of a handler.
LEMMA MovedNone ==
  ASSUME InterruptsTypeOK, Inside, NoHandling, frames' = Moved("iret")
  PROVE  NoHandling' /\ frames' \in [Tasks -> Seq(Frame)]
<1>1. /\ frames' \in [Tasks -> Seq(Frame)]
      /\ \A t \in Tasks \ {task} : frames'[t] = frames[t]
      /\ Len(frames'[task]) = Len(frames[task])
      /\ \A i \in 1 .. Len(frames[task]) - 1 : frames'[task][i] = frames[task][i]
      /\ frames'[task][Len(frames[task])].at = "iret"
  <2>1. "iret" \in {"yield", "iret"}
    BY Zenon
  <2> QED BY <2>1, MovedStack, Zenon
<1>2. Len(frames[task]) \in Nat
  <2>1. frames[task] \in Seq(Frame)
    BY Zenon DEF InterruptsTypeOK
  <2> QED BY <2>1
<1>3. ASSUME NEW t \in Tasks, NEW i \in 1 .. Len(frames'[t]) PROVE ~Handling(frames'[t][i])
  <2>1. CASE t # task
    BY <1>1, <2>1, Zenon DEF NoHandling
  <2>2. CASE t = task /\ i = Len(frames[task])
    BY Zenon, <1>1, <2>2 DEF Handling
  <2>3. CASE t = task /\ i # Len(frames[task])
    <3>1. i \in 1 .. Len(frames[task]) - 1 /\ i \in 1 .. Len(frames[task])
      BY <1>1, <1>2, <2>3
    <3> QED BY <1>1, <2>3, <3>1, Zenon DEF NoHandling
  <2> QED BY Zenon, <2>1, <2>2, <2>3
<1> QED BY <1>1, <1>3, Zenon DEF NoHandling

\* interrupt.c starts with interrupts off and no frames.
LEMMA InterruptsInitially == InterruptsInit => InterruptsInv
<1> SUFFICES ASSUME InterruptsInit PROVE InterruptsInv
  BY Zenon
<1>1. InterruptsTypeOK
  <2>1. <<>> \in Seq(Frame)
    OBVIOUS
  <2>2. frames \in [Tasks -> Seq(Frame)]
    BY <2>1, Zenon DEF InterruptsInit
  <2> QED BY <2>2, Zenon DEF InterruptsInit, InterruptsTypeOK, intr_register_int, Levels
<1>2. NoHandling
  BY DEF InterruptsInit, NoHandling
<1> QED BY <1>1, <1>2, NoneHandled, Zenon DEF InterruptsInit, Between

\* Each step keeps the invariant.
LEMMA InterruptsStep == InterruptsInv /\ [InterruptsNext]_intrVars => InterruptsInv'
<1> SUFFICES ASSUME InterruptsInv, [InterruptsNext]_intrVars PROVE InterruptsInv'
  BY Zenon
<1>0. InterruptsTypeOK /\ asserted = FALSE
  BY Zenon DEF InterruptsInv, ExternalsSerial, InterruptsTypeOK
<1>a. /\ level \in Levels /\ yield_on_return \in BOOLEAN /\ in_external_intr \in BOOLEAN
      /\ handlers \subseteq External \cup Trap \cup Fault
      /\ task \in Tasks /\ old_level \in [Tasks -> Levels]
      /\ frames \in [Tasks -> Seq(Frame)] /\ frames[task] \in Seq(Frame)
      /\ Len(frames[task]) \in Nat
  <2>1. frames[task] \in Seq(Frame)
    BY <1>0, Zenon DEF InterruptsTypeOK
  <2>2. Len(frames[task]) \in Nat
    BY <2>1
  <2> QED BY <1>0, <2>1, <2>2, Zenon DEF InterruptsTypeOK
<1>b. ThreadContext \/ TopAt("yield") \/ TopAt("iret") => ~in_external_intr
  BY Zenon DEF InterruptsInv, ExternalsSerial, ThreadContext, TopAt
<1>1. ASSUME NEW v \in External, register_handler(v) PROVE InterruptsInv'
  BY <1>0, <1>a, <1>1, StacksAlone, Zenon DEF register_handler, InterruptsInv
<1>2. CASE intr_enable
  <2>1. ~in_external_intr
    BY <1>2, <1>b, Zenon DEF intr_enable
  <2> QED BY <1>0, <1>a, <1>2, <2>1, StacksAlone, Zenon DEF intr_enable, Levels
<1>3. CASE intr_disable
  BY <1>0, <1>a, <1>3, StacksAlone, Zenon DEF intr_disable, Levels
<1>4. CASE intr_yield_on_return
  <2>1. in_external_intr
    BY <1>4, Zenon DEF intr_yield_on_return, InterruptsInv, ExternalsSerial
  <2> QED BY <1>0, <1>a, <1>4, <2>1, StacksAlone, Zenon DEF intr_yield_on_return, InterruptsInv
<1>5. ASSUME NEW v \in External, ExternalInterrupt(v) PROVE InterruptsInv'
  <2> DEFINE f == [vec |-> v, level |-> level, at |-> "handler"]
  <2>1. ~in_external_intr /\ NoHandling /\ in_service = {}
    <3>1. "ON" # "OFF"
      BY Zenon
    <3>2. ~in_external_intr
      BY <1>5, <3>1, Zenon DEF ExternalInterrupt, InterruptsInv
    <3> QED BY <3>2, OutsideHandlers, Zenon
  <2>2. f \in Frame /\ frames' \in [Tasks -> Seq(Frame)] /\ Stacks(Append(frames[task], f))
    BY <1>0, <1>5, PushedStack, Zenon DEF ExternalInterrupt
  <2>3. f.vec = v /\ f.at = "handler"
    BY Zenon
  <2> HIDE DEF f
  <2>4. /\ Len(frames'[task]) = Len(frames[task]) + 1 /\ frames'[task] # <<>>
        /\ frames'[task][Len(frames[task]) + 1] = f
        /\ \A i \in 1 .. Len(frames[task]) : frames'[task][i] = frames[task][i]
    BY SMTT(60), <1>a, <2>2 DEF Stacks
  <2>5. TopAt("handler")' /\ Top' = f
    BY <1>5, <2>3, <2>4, Zenon DEF TopAt, Top, Inside, ExternalInterrupt
  <2>6. ASSUME NEW t \in Tasks, NEW i \in 1 .. Len(frames'[t]), Handling(frames'[t][i])
        PROVE  t = task /\ i = Len(frames'[t])
    <3>1. t = task
      BY <2>1, <2>2, <2>6, Zenon DEF NoHandling, Stacks
    <3>2. ~(i \in 1 .. Len(frames[task]))
      BY <1>a, <2>1, <2>4, <2>6, <3>1, Zenon DEF NoHandling
    <3> QED BY <1>a, <2>4, <3>1, <3>2
  <2>7. InterruptsTypeOK'
    <3>1. in_service' = Inputs(v)
      BY <1>5, <2>1, Zenon DEF ExternalInterrupt
    <3>2. Inputs(v) \subseteq External \cup {Cascade}
      BY DEF Inputs
    <3> QED BY <1>0, <1>5, <2>2, <3>1, <3>2, Zenon DEF ExternalInterrupt, InterruptsTypeOK, Levels
  <2>8. ExternalsSerial'
    BY <1>0, <1>5, <2>1, <2>3, <2>5, <2>6, <2>7, Zenon
    DEF ExternalInterrupt, ExternalsSerial, Handling
  <2> QED BY <1>5, <2>8, Zenon DEF ExternalInterrupt, InterruptsInv
<1>6. ASSUME NEW v \in Trap \cup Fault, InternalInterrupt(v) PROVE InterruptsInv'
  <2> DEFINE f == [vec |-> v, level |-> level, at |-> "handler"]
  <2>1. ~in_external_intr /\ NoHandling /\ in_service = {}
    BY <1>6, <1>b, OutsideHandlers, Zenon DEF InternalInterrupt
  <2>2. f \in Frame /\ frames' \in [Tasks -> Seq(Frame)] /\ Stacks(Append(frames[task], f))
    BY <1>0, <1>6, PushedStack, Zenon DEF InternalInterrupt
  <2>3. ~Handling(f)
    BY Zenon, InterruptsAssumption DEF Handling
  <2> HIDE DEF f
  <2>4. /\ Len(frames'[task]) = Len(frames[task]) + 1
        /\ frames'[task][Len(frames[task]) + 1] = f
        /\ \A i \in 1 .. Len(frames[task]) : frames'[task][i] = frames[task][i]
    BY <1>a, <2>2 DEF Stacks
  <2>5. ASSUME NEW t \in Tasks, NEW i \in 1 .. Len(frames'[t]) PROVE ~Handling(frames'[t][i])
    <3>1. CASE t # task
      BY <2>1, <2>2, <3>1, Zenon DEF NoHandling, Stacks
    <3>2. CASE t = task
      <4>1. i \in 1 .. Len(frames[task]) \/ i = Len(frames[task]) + 1
        BY <1>a, <2>4, <3>2
      <4> QED BY <1>a, <2>1, <2>3, <2>4, <3>2, <4>1, Zenon DEF NoHandling
    <3> QED BY Zenon, <3>1, <3>2
  <2>6. InterruptsTypeOK'
    BY <1>0, <1>6, <2>2, Zenon DEF InternalInterrupt, InterruptsTypeOK, Levels
  <2>7. NoHandling'
    BY <2>5, Zenon DEF NoHandling
  <2>8. /\ asserted' = asserted /\ in_external_intr' = in_external_intr
        /\ in_service' = in_service
    BY <1>6, Zenon DEF InternalInterrupt
  <2> QED BY <1>0, <1>a, <2>1, <2>6, <2>7, <2>8, NoneHandledNext, Zenon DEF Between
<1>7. CASE CompleteExternal
  <2> DEFINE label == IF yield_on_return THEN "yield" ELSE "iret"
  <2>1. in_external_intr /\ level = "OFF" /\ in_service = Inputs(Top.vec) /\ Inside
    BY <1>7, Zenon DEF CompleteExternal, InterruptsInv, ExternalsSerial, TopAt
  <2>2. label \in {"yield", "iret"} /\ frames' = Moved(label)
    BY <1>7, Zenon DEF CompleteExternal
  <2> HIDE DEF label
  <2>3. /\ frames' \in [Tasks -> Seq(Frame)]
        /\ \A t \in Tasks \ {task} : frames'[t] = frames[t]
        /\ Len(frames'[task]) = Len(frames[task])
        /\ \A i \in 1 .. Len(frames[task]) - 1 : frames'[task][i] = frames[task][i]
        /\ frames'[task][Len(frames[task])].at = label
    BY <1>0, <2>1, <2>2, MovedStack, Zenon
  <2>4. ASSUME NEW t \in Tasks, NEW i \in 1 .. Len(frames'[t]) PROVE ~Handling(frames'[t][i])
    <3>1. CASE t # task
      BY <2>3, <3>1, ZenonT(60) DEF InterruptsInv, ExternalsSerial, Handling
    <3>2. CASE t = task /\ i = Len(frames[task])
      BY Zenon, <2>2, <2>3, <3>2 DEF Handling
    <3>3. CASE t = task /\ i # Len(frames[task])
      <4>1. i \in 1 .. Len(frames[task]) - 1 /\ i \in 1 .. Len(frames[task])
        BY <1>a, <2>3, <3>3
      <4> QED BY <2>3, <3>3, <4>1, Zenon DEF InterruptsInv, ExternalsSerial, Handling
    <3> QED BY Zenon, <3>1, <3>2, <3>3
  <2>5. pic_end_of_interrupt(Top.vec) = {}
    <3>1. Top.vec \in External
      BY <1>7, Zenon DEF CompleteExternal
    <3> QED BY <2>1, <3>1, AllAcknowledged, Zenon
  <2>6. InterruptsTypeOK'
    BY <1>0, <1>7, <2>3, <2>5, Zenon DEF CompleteExternal, InterruptsTypeOK
  <2> QED BY <1>0, <1>7, <2>1, <2>4, <2>5, <2>6, NoneHandledNext, Zenon
          DEF CompleteExternal, Between, NoHandling
<1>8. CASE CompleteInternal
  <2>1. ~in_external_intr /\ NoHandling /\ in_service = {} /\ Inside
    <3>1. ~in_external_intr
      BY <1>8, Zenon DEF CompleteInternal, InterruptsInv, ExternalsSerial
    <3> QED BY <1>8, <3>1, OutsideHandlers, Zenon DEF CompleteInternal, TopAt
  <2>2. NoHandling' /\ frames' \in [Tasks -> Seq(Frame)]
    BY <1>0, <1>8, <2>1, MovedNone, Zenon DEF CompleteInternal
  <2>3. InterruptsTypeOK'
    BY <1>0, <1>8, <2>2, Zenon DEF CompleteInternal, InterruptsTypeOK
  <2> QED BY <1>0, <1>a, <1>8, <2>1, <2>2, <2>3, NoneHandledNext, Zenon DEF CompleteInternal, Between
<1>9. ASSUME NEW u \in Tasks, thread_yield_to(u) PROVE InterruptsInv'
  <2>1. ~in_external_intr /\ NoHandling /\ in_service = {}
    BY <1>9, <1>b, OutsideHandlers, Zenon DEF thread_yield_to
  <2>2. NoHandling' /\ frames' \in [Tasks -> Seq(Frame)]
    <3>1. CASE TopAt("yield")
      BY <1>0, <1>9, <2>1, <3>1, MovedNone, Zenon DEF thread_yield_to, TopAt
    <3>2. CASE ~TopAt("yield")
      BY <1>a, <1>9, <2>1, <3>2, Zenon DEF thread_yield_to, NoHandling
    <3> QED BY Zenon, <3>1, <3>2
  <2>3. old_level' \in [Tasks -> Levels] /\ level' \in Levels
    BY <1>a, <1>9, Zenon DEF thread_yield_to
  <2>4. InterruptsTypeOK'
    BY <1>0, <1>9, <2>2, <2>3, Zenon DEF thread_yield_to, InterruptsTypeOK
  <2> QED BY <1>0, <1>a, <1>9, <2>1, <2>2, <2>4, NoneHandledNext, Zenon DEF thread_yield_to, Between
<1>10. CASE iret
  <2>1. ~in_external_intr /\ NoHandling /\ in_service = {} /\ Inside
    BY <1>10, <1>b, OutsideHandlers, Zenon DEF iret, TopAt
  <2>2. NoHandling' /\ frames' \in [Tasks -> Seq(Frame)]
    <3>1. /\ frames' \in [Tasks -> Seq(Frame)]
          /\ \A t \in Tasks \ {task} : frames'[t] = frames[t]
          /\ Len(frames'[task]) = Len(frames[task]) - 1
          /\ \A i \in 1 .. Len(frames[task]) - 1 : frames'[task][i] = frames[task][i]
      BY <1>0, <1>10, <2>1, PoppedStack, Zenon DEF iret
    <3>2. ASSUME NEW t \in Tasks, NEW i \in 1 .. Len(frames'[t]) PROVE ~Handling(frames'[t][i])
      <4>1. CASE t # task
        BY <2>1, <3>1, <4>1, Zenon DEF NoHandling
      <4>2. CASE t = task
        <5>1. i \in 1 .. Len(frames[task]) - 1 /\ i \in 1 .. Len(frames[task])
          BY <1>a, <3>1, <4>2
        <5> QED BY <2>1, <3>1, <4>2, <5>1, Zenon DEF NoHandling
      <4> QED BY Zenon, <4>1, <4>2
    <3> QED BY <3>1, <3>2, Zenon DEF NoHandling
  <2>3. Top.level \in Levels
    <3>1. frames[task] # <<>>
      BY <2>1, Zenon DEF Inside
    <3>2. Top \in Frame
      BY <1>a, <3>1 DEF Top
    <3> QED BY Zenon, <3>2 DEF Frame
  <2>4. InterruptsTypeOK'
    BY <1>0, <1>10, <2>2, <2>3, Zenon DEF iret, InterruptsTypeOK
  <2> QED BY <1>0, <1>a, <1>10, <2>1, <2>2, <2>4, NoneHandledNext, Zenon DEF iret, Between
<1>11. CASE UNCHANGED intrVars
  BY <1>0, <1>a, <1>11, StacksAlone, Zenon DEF intrVars, InterruptsInv
<1> QED BY <1>1, <1>2, <1>3, <1>4, <1>5, <1>6, <1>7, <1>8, <1>9, <1>10, <1>11, Zenon
        DEF InterruptsNext

\* interrupt.c: its ASSERTs hold, in_external_intr is exact, and the interrupt
\* controllers have an interrupt in service exactly while its handler runs.
THEOREM ExternalsOneAtATime == InterruptsSpec => []ExternalsSerial
<1>1. InterruptsInv => ExternalsSerial
  BY Zenon DEF InterruptsInv
<1> QED BY InterruptsInitially, InterruptsStep, <1>1, PTL DEF InterruptsSpec

-----------------------------------------------------------------------------
\* The serial port of devices/serial.c and the queues of devices/intq.c, for
\* any size of the queues, any bytes and any number of readers and writers: who
\* sleeps is woken, and the queues are first-in first-out.

Intq == [buf : [Pos -> Bytes], head : Pos, tail : Pos]

\* The remainder of a number below the divisor, and of one below its double.
LEMMA Remainder ==
  ASSUME NEW n \in Nat \ {0}, NEW x \in 0 .. 2 * n - 1
  PROVE  x % n = IF x < n THEN x ELSE x - n
<1>1. CASE x < n
  BY <1>1, SMT
<1>2. CASE ~(x < n)
  BY <1>2, SMT
<1> QED BY <1>1, <1>2

\* What Append() is, position by position.
LEMMA AppendIs ==
  ASSUME NEW S, NEW c \in Seq(S), NEW d \in Seq(S), NEW b \in S,
         Len(d) = Len(c) + 1, \A i \in 1 .. Len(c) : d[i] = c[i], d[Len(c) + 1] = b
  PROVE  d = Append(c, b)
<1>1. Append(c, b) \in Seq(S) /\ Len(Append(c, b)) = Len(c) + 1
  BY SMT
<1>2. Append(c, b)[Len(c) + 1] = b
  BY SMT
<1>3. \A i \in 1 .. Len(c) : Append(c, b)[i] = c[i]
  BY SMT
<1>4. \A i \in 1 .. Len(d) : d[i] = Append(c, b)[i]
  BY <1>2, <1>3, SMT
<1>5. PICK e : e = Append(c, b)
  BY Zenon
<1>6. e \in Seq(S) /\ Len(e) = Len(d) /\ \A i \in 1 .. Len(d) : d[i] = e[i]
  BY <1>1, <1>4, <1>5, Zenon
<1> QED BY <1>5, <1>6, SMT

\* next() of a position is the one after it, or the first.
LEMMA NextPosition ==
  ASSUME NEW pos \in Pos
  PROVE  /\ next(pos) = IF pos = INTQ_BUFSIZE - 1 THEN 0 ELSE pos + 1
         /\ next(pos) \in Pos /\ next(pos) # pos
<1>1. INTQ_BUFSIZE \in Nat /\ INTQ_BUFSIZE > 1
  BY SerialAssumption
<1>2. CASE pos = INTQ_BUFSIZE - 1
  <2>1. (pos + 1) % INTQ_BUFSIZE = 0
    BY <1>1, <1>2
  <2> QED BY <1>1, <1>2, <2>1 DEF next, Pos
<1>3. CASE pos # INTQ_BUFSIZE - 1
  <2>1. (pos + 1) % INTQ_BUFSIZE = pos + 1
    BY <1>1, <1>3 DEF Pos
  <2> QED BY <1>1, <1>3, <2>1 DEF next, Pos
<1> QED BY <1>2, <1>3

\* How many bytes are in a queue, and where they are.
Length(q) == IF q.head >= q.tail THEN q.head - q.tail ELSE q.head + INTQ_BUFSIZE - q.tail
At(q, i) == IF q.tail + i - 1 < INTQ_BUFSIZE THEN q.tail + i - 1 ELSE q.tail + i - 1 - INTQ_BUFSIZE

\* How many bytes a queue holds, without a remainder.
LEMMA LengthOf ==
  ASSUME NEW q \in Intq
  PROVE  /\ (q.head + INTQ_BUFSIZE - q.tail) % INTQ_BUFSIZE = Length(q)
         /\ Length(q) \in 0 .. INTQ_BUFSIZE - 1
<1>1. INTQ_BUFSIZE \in Nat /\ INTQ_BUFSIZE > 1
  BY SerialAssumption
<1>2. q.head \in Pos /\ q.tail \in Pos
  BY Zenon DEF Intq
<1>3. PICK h \in Pos, t \in Pos : h = q.head /\ t = q.tail
  BY <1>2, Zenon
<1>4. (h + INTQ_BUFSIZE - t) % INTQ_BUFSIZE = (IF h >= t THEN h - t ELSE h + INTQ_BUFSIZE - t)
  <2>1. PICK x \in 0 .. 2 * INTQ_BUFSIZE - 1 : x = h + INTQ_BUFSIZE - t
    BY <1>1, SMT DEF Pos
  <2>2. x % INTQ_BUFSIZE = IF x < INTQ_BUFSIZE THEN x ELSE x - INTQ_BUFSIZE
    <3>1. INTQ_BUFSIZE \in Nat \ {0}
      BY <1>1, SMT
    <3> QED BY <3>1, Remainder, Zenon
  <2>3. (IF x < INTQ_BUFSIZE THEN x ELSE x - INTQ_BUFSIZE)
          = (IF h >= t THEN h - t ELSE h + INTQ_BUFSIZE - t)
    BY <1>1, <2>1, SMT DEF Pos
  <2> QED BY <2>1, <2>2, <2>3, Zenon
<1>5. (IF h >= t THEN h - t ELSE h + INTQ_BUFSIZE - t) \in 0 .. INTQ_BUFSIZE - 1
  BY <1>1, SMT DEF Pos
<1> QED BY <1>3, <1>4, <1>5, Zenon DEF Length

\* Where byte i of a queue is, without a remainder.
LEMMA PlaceOf ==
  ASSUME NEW q \in Intq, NEW i \in 1 .. INTQ_BUFSIZE
  PROVE  (q.tail + i - 1) % INTQ_BUFSIZE = At(q, i) /\ At(q, i) \in Pos
<1>1. INTQ_BUFSIZE \in Nat /\ INTQ_BUFSIZE > 1
  BY SerialAssumption
<1>2. q.tail \in Pos
  BY Zenon DEF Intq
<1>3. PICK t \in Pos : t = q.tail
  BY <1>2, Zenon
<1>4. (t + i - 1) % INTQ_BUFSIZE = (IF t + i - 1 < INTQ_BUFSIZE THEN t + i - 1 ELSE t + i - 1 - INTQ_BUFSIZE)
  <2>1. PICK x \in 0 .. 2 * INTQ_BUFSIZE - 1 : x = t + i - 1
    BY <1>1, SMT DEF Pos
  <2>2. x % INTQ_BUFSIZE = IF x < INTQ_BUFSIZE THEN x ELSE x - INTQ_BUFSIZE
    <3>1. INTQ_BUFSIZE \in Nat \ {0}
      BY <1>1, SMT
    <3> QED BY <3>1, Remainder, Zenon
  <2>3. (IF x < INTQ_BUFSIZE THEN x ELSE x - INTQ_BUFSIZE)
          = (IF t + i - 1 < INTQ_BUFSIZE THEN t + i - 1 ELSE t + i - 1 - INTQ_BUFSIZE)
    BY <1>1, <2>1, SMT DEF Pos
  <2> QED BY <2>1, <2>2, <2>3, Zenon
<1>5. (IF t + i - 1 < INTQ_BUFSIZE THEN t + i - 1 ELSE t + i - 1 - INTQ_BUFSIZE) \in Pos
  BY <1>1, SMT DEF Pos
<1> QED BY <1>3, <1>4, <1>5, Zenon DEF At

\* The bytes of a queue, without remainders.
LEMMA ContentsOf ==
  ASSUME NEW q \in Intq
  PROVE  /\ Contents(q) = [i \in 1 .. Length(q) |-> q.buf[At(q, i)]]
         /\ Contents(q) \in Seq(Bytes) /\ Len(Contents(q)) = Length(q)
         /\ Length(q) \in 0 .. INTQ_BUFSIZE - 1
         /\ \A i \in 1 .. Length(q) : Contents(q)[i] = q.buf[At(q, i)]
<1>1. INTQ_BUFSIZE \in Nat /\ INTQ_BUFSIZE > 1
  BY SerialAssumption
<1>2. \A i \in 1 .. Length(q) : i \in 1 .. INTQ_BUFSIZE
  BY <1>1, LengthOf, SMT
<1>3. \A i \in 1 .. Length(q) : (q.tail + i - 1) % INTQ_BUFSIZE = At(q, i) /\ At(q, i) \in Pos
  BY <1>2, PlaceOf, Zenon
<1>4. Contents(q) = [i \in 1 .. Length(q) |-> q.buf[At(q, i)]]
  BY <1>3, LengthOf, Zenon DEF Contents
<1>5. q.buf \in [Pos -> Bytes]
  BY Zenon DEF Intq
<1>6. \A i \in 1 .. Length(q) : q.buf[At(q, i)] \in Bytes
  BY <1>3, <1>5, Zenon
<1>7. [i \in 1 .. Length(q) |-> q.buf[At(q, i)]] \in [1 .. Length(q) -> Bytes]
  BY <1>6, Zenon
<1>8. PICK n \in Nat : n = Length(q)
  BY LengthOf, SMT
<1>9. PICK c : c = Contents(q)
  BY Zenon
<1>10. c \in [1 .. n -> Bytes]
  BY <1>4, <1>7, <1>8, <1>9, Zenon
<1>11. c \in Seq(Bytes) /\ Len(c) = n
  BY <1>10, SMT
<1> QED BY <1>4, <1>8, <1>9, <1>11, LengthOf, Zenon

\* A byte put into a queue that is not full comes after the others.
LEMMA ContentsPut ==
  ASSUME NEW q \in Intq, NEW b \in Bytes, ~intq_full(q)
  PROVE  /\ With(q, b) \in Intq
         /\ Contents(With(q, b)) = Append(Contents(q), b)
         /\ Len(Contents(q)) < INTQ_BUFSIZE - 1
<1>1. INTQ_BUFSIZE \in Nat /\ INTQ_BUFSIZE > 1
  BY SerialAssumption
<1>2. q.head \in Pos /\ q.tail \in Pos /\ q.buf \in [Pos -> Bytes]
  BY Zenon DEF Intq
<1>3. PICK r : r = With(q, b)
  BY Zenon
<1>4. r = [q EXCEPT !.buf[q.head] = b, !.head = next(q.head)]
  BY <1>3, Zenon DEF With
<1>5. r \in Intq /\ r.head = next(q.head) /\ r.tail = q.tail /\ r.buf = [q.buf EXCEPT ![q.head] = b]
  BY <1>2, <1>4, NextPosition, Zenon DEF Intq
<1>6. next(q.head) # q.tail
  BY Zenon DEF intq_full
<1>7. next(q.head) = IF q.head = INTQ_BUFSIZE - 1 THEN 0 ELSE q.head + 1
  BY <1>2, NextPosition, Zenon
<1>8. PICK h, t, n, m, g :
        /\ h = q.head /\ t = q.tail /\ n = Length(q) /\ m = Length(r) /\ g = r.head
        /\ h \in Pos /\ t \in Pos
  BY <1>2, Zenon
<1>9. /\ g = IF h = INTQ_BUFSIZE - 1 THEN 0 ELSE h + 1
      /\ g # t
      /\ n = IF h >= t THEN h - t ELSE h + INTQ_BUFSIZE - t
      /\ m = IF g >= t THEN g - t ELSE g + INTQ_BUFSIZE - t
  BY <1>5, <1>6, <1>7, <1>8, Zenon DEF Length
<1>10. m = n + 1 /\ n < INTQ_BUFSIZE - 1 /\ n \in Nat
  BY <1>1, <1>8, <1>9, SMT DEF Pos
<1>11. \A i \in 1 .. n : At(r, i) = At(q, i)
  BY <1>5, Zenon DEF At
<1>12. \A i \in 1 .. n : At(q, i) # h
  BY SMTT(60), <1>1, <1>8, <1>9, SMT DEF Pos, At
<1>13. At(r, m) = h
  BY <1>1, <1>5, <1>8, <1>9, SMT DEF Pos, At
<1>14. PICK c, d : c = Contents(q) /\ d = Contents(r)
  BY Zenon
<1>15. /\ c = [i \in 1 .. n |-> q.buf[At(q, i)]] /\ c \in Seq(Bytes) /\ Len(c) = n
       /\ \A i \in 1 .. n : c[i] = q.buf[At(q, i)]
  BY <1>8, <1>14, ContentsOf, Zenon
<1>16. /\ d = [i \in 1 .. m |-> r.buf[At(r, i)]] /\ d \in Seq(Bytes) /\ Len(d) = m
       /\ \A i \in 1 .. m : d[i] = r.buf[At(r, i)]
  BY <1>5, <1>8, <1>14, ContentsOf, ZenonT(60)
<1>17. \A i \in 1 .. n : At(q, i) \in Pos
  BY SMTT(60), <1>1, <1>8, <1>10, <1>2, SMT DEF Pos, At
<1>18. \A i \in 1 .. n : r.buf[At(r, i)] = c[i]
  BY <1>2, <1>5, <1>8, <1>11, <1>12, <1>15, <1>17, Zenon
<1>19. r.buf[At(r, m)] = b
  BY <1>2, <1>5, <1>8, <1>13, Zenon
<1>20. d = Append(c, b)
  <2>1. \A i \in 1 .. n : i \in 1 .. m /\ d[i] = c[i]
    BY SMTT(60), <1>10, <1>16, <1>18, SMT
  <2>2. d[n + 1] = b
    BY <1>10, <1>16, <1>19, SMT
  <2>3. Len(d) = Len(c) + 1 /\ \A i \in 1 .. Len(c) : d[i] = c[i]
    BY <1>10, <1>15, <1>16, <2>1, Zenon
  <2>4. d[Len(c) + 1] = b
    BY <1>15, <2>2, Zenon
  <2>5. c \in Seq(Bytes) /\ d \in Seq(Bytes)
    BY <1>15, <1>16, Zenon
  <2> QED BY <2>3, <2>4, <2>5, AppendIs, ZenonT(60)
<1> QED BY <1>3, <1>5, <1>8, <1>10, <1>14, <1>15, <1>20, Zenon

\* The byte taken from a queue that is not empty is the first.
LEMMA ContentsGot ==
  ASSUME NEW q \in Intq, ~intq_empty(q)
  PROVE  /\ Got(q) \in Intq /\ First(q) \in Bytes
         /\ Contents(q) # <<>>
         /\ Contents(Got(q)) = Tail(Contents(q))
         /\ First(q) = Head(Contents(q))
<1>1. INTQ_BUFSIZE \in Nat /\ INTQ_BUFSIZE > 1
  BY SerialAssumption
<1>2. q.head \in Pos /\ q.tail \in Pos /\ q.buf \in [Pos -> Bytes]
  BY Zenon DEF Intq
<1>3. PICK r : r = Got(q)
  BY Zenon
<1>4. r = [q EXCEPT !.tail = next(q.tail)]
  BY <1>3, Zenon DEF Got
<1>5. r \in Intq /\ r.head = q.head /\ r.tail = next(q.tail) /\ r.buf = q.buf
  BY <1>2, <1>4, NextPosition DEF Intq
<1>6. q.head # q.tail
  BY Zenon DEF intq_empty
<1>7. next(q.tail) = IF q.tail = INTQ_BUFSIZE - 1 THEN 0 ELSE q.tail + 1
  BY <1>2, NextPosition, Zenon
<1>8. PICK h, t, n, m, u :
        /\ h = q.head /\ t = q.tail /\ n = Length(q) /\ m = Length(r) /\ u = r.tail
        /\ h \in Pos /\ t \in Pos
  BY <1>2, Zenon
<1>9. /\ u = IF t = INTQ_BUFSIZE - 1 THEN 0 ELSE t + 1
      /\ h # t
      /\ n = IF h >= t THEN h - t ELSE h + INTQ_BUFSIZE - t
      /\ m = IF h >= u THEN h - u ELSE h + INTQ_BUFSIZE - u
  BY <1>5, <1>6, <1>7, <1>8, Zenon DEF Length
<1>10. n = m + 1 /\ m \in Nat /\ n <= INTQ_BUFSIZE - 1
  BY SMTT(60), <1>1, <1>8, <1>9, SMT DEF Pos
<1>11. \A i \in 1 .. m : At(r, i) = At(q, i + 1)
  BY SMTT(60), <1>1, <1>5, <1>8, <1>9, <1>10, SMT DEF Pos, At
<1>12. At(q, 1) = t
  BY <1>1, <1>8, SMT DEF Pos, At
<1>14. PICK c, d : c = Contents(q) /\ d = Contents(r)
  BY Zenon
<1>15. /\ c = [i \in 1 .. n |-> q.buf[At(q, i)]] /\ c \in Seq(Bytes) /\ Len(c) = n
       /\ \A i \in 1 .. n : c[i] = q.buf[At(q, i)]
  BY <1>8, <1>14, ContentsOf, Zenon
<1>16. /\ d = [i \in 1 .. m |-> r.buf[At(r, i)]] /\ d \in Seq(Bytes) /\ Len(d) = m
       /\ \A i \in 1 .. m : d[i] = r.buf[At(r, i)]
  BY <1>5, <1>8, <1>14, ContentsOf, Zenon
<1>17. c # <<>>
  BY SMTT(60), <1>10, <1>15, SMT
<1>18. First(q) = Head(c) /\ First(q) \in Bytes
  <2>1. First(q) = c[1]
    <3>1. 1 \in 1 .. n
      BY <1>10, SMT
    <3> QED BY <3>1, <1>8, <1>12, <1>15, Zenon DEF First
  <2>2. Head(c) = c[1] /\ c[1] \in Bytes
    BY <1>10, <1>15, SMT
  <2> QED BY <2>1, <2>2
<1>19. \A i \in 1 .. m : i + 1 \in 1 .. n
  BY <1>10, SMT
<1>20. \A i \in 1 .. m : d[i] = c[i + 1]
  BY <1>5, <1>11, <1>15, <1>16, <1>19, Zenon
<1>21. d = Tail(c)
  BY SMTT(60), <1>10, <1>15, <1>16, <1>20, SMT
<1> QED BY <1>3, <1>5, <1>14, <1>17, <1>18, <1>21, Zenon

\* The room that serial_putc() has made with interrupts off stays.
RoomLeft == cpu = "off_put" => mode = "QUEUE" /\ ~intq_full(txq)

\* Who sleeps, and when.
ReaderRight == (reader = "blocked" <=> not_empty) /\ (not_empty => intq_empty(buffer))
WriterRight == (writer = "blocked" <=> not_full) /\ (not_full => intq_full(txq))

\* What the port may interrupt for.
PortEnabled ==
  cpu = "run" /\ mode = "QUEUE" =>
    /\ ~intq_empty(txq) => "xmit" \in ier
    /\ ~intq_full(buffer) => "recv" \in ier

SerialSafe == TypeOK /\ ReaderRight /\ WriterRight /\ PortEnabled /\ RoomLeft

\* SerialSafe, by its parts.
LEMMA SerialSafeIs == SerialSafe <=> NoLostWakeup /\ RoomLeft
  BY Zenon DEF SerialSafe, NoLostWakeup, ReaderRight, WriterRight, PortEnabled

\* The conjuncts of TypeOK, one by one.
Types ==
  /\ mode \in {"UNINIT", "POLL", "QUEUE"}
  /\ buffer \in Intq /\ txq \in Intq
  /\ not_empty \in BOOLEAN /\ not_full \in BOOLEAN /\ thre \in BOOLEAN
  /\ reader \in {"idle", "getc", "blocked"} /\ writer \in {"idle", "putc", "blocked"}
  /\ byte \in Bytes /\ key \in Bytes /\ thr \in Bytes /\ given \in Bytes
  /\ rbr \in Bytes \cup {None}
  /\ ier \subseteq {"recv", "xmit"}
  /\ cpu \in {"run", "recv", "xmit", "off_put", "flush", "off"}
  /\ offs \in 0 .. MaxOff

\* The type invariant, by its parts.
LEMMA TypesAre == TypeOK <=> Types
  BY Zenon DEF TypeOK, Types, Intq

\* A queue that a byte was put in or taken from is a queue.
LEMMA QueueTypes ==
  ASSUME NEW q \in Intq, NEW b \in Bytes
  PROVE  /\ With(q, b) \in Intq /\ With(q, b).head = next(q.head) /\ With(q, b).tail = q.tail
         /\ Got(q) \in Intq /\ Got(q).head = q.head /\ Got(q).tail = next(q.tail)
         /\ First(q) \in Bytes
<1>1. q.head \in Pos /\ q.tail \in Pos /\ q.buf \in [Pos -> Bytes]
  BY Zenon DEF Intq
<1>2. next(q.head) \in Pos /\ next(q.tail) \in Pos
  BY <1>1, NextPosition, Zenon
<1>3. With(q, b) \in Intq /\ With(q, b).head = next(q.head) /\ With(q, b).tail = q.tail
  BY <1>1, <1>2, Zenon DEF Intq, With
<1>4. Got(q) \in Intq /\ Got(q).head = q.head /\ Got(q).tail = next(q.tail)
  BY <1>1, <1>2 DEF Intq, Got
<1>5. First(q) \in Bytes
  BY <1>1, Zenon DEF First
<1> QED BY <1>3, <1>4, <1>5, Zenon

\* A full queue is not empty, and has room once a byte is taken; a queue with
\* one byte more is not empty.
LEMMA QueueEnds ==
  ASSUME NEW q \in Intq, NEW b \in Bytes
  PROVE  /\ intq_full(q) => ~intq_empty(q) /\ ~intq_full(Got(q))
         /\ intq_empty(q) => ~intq_full(q)
<1>1. q.head \in Pos /\ q.tail \in Pos
  BY Zenon DEF Intq
<1>2. next(q.head) # q.head /\ next(q.tail) # q.tail
  BY <1>1, NextPosition, Zenon
<1>3. intq_full(q) <=> next(q.head) = q.tail
  BY Zenon DEF intq_full
<1>4. intq_empty(q) <=> q.head = q.tail
  BY Zenon DEF intq_empty
<1>5. intq_full(Got(q)) <=> next(q.head) = next(q.tail)
  BY QueueTypes, Zenon DEF intq_full
<1> QED BY <1>2, <1>3, <1>4, <1>5, Zenon

\* The port's enabled interrupts after write_ier().
LEMMA IerWritten ==
  ASSUME NEW t, NEW b, write_ier(t, b)
  PROVE  /\ ier' \subseteq {"recv", "xmit"}
         /\ ~intq_empty(t) => "xmit" \in ier'
         /\ ~intq_full(b) => "recv" \in ier'
  BY Zenon DEF write_ier

\* What serial_notify() enables.
LEMMA IerNotified ==
  ASSUME NEW b, TypeOK, serial_notify(b)
  PROVE  /\ ier' \subseteq {"recv", "xmit"}
         /\ mode = "QUEUE" =>
              (~intq_empty(txq) => "xmit" \in ier') /\ (~intq_full(b) => "recv" \in ier')
<1>1. ier \subseteq {"recv", "xmit"}
  BY Zenon DEF TypeOK
<1>2. CASE mode = "QUEUE"
  <2>1. write_ier(txq, b)
    BY <1>2, Zenon DEF serial_notify
  <2> QED BY <2>1, IerWritten, Zenon
<1>3. CASE mode # "QUEUE"
  <2>1. ier' = ier
    BY <1>3, Zenon DEF serial_notify
  <2> QED BY <1>1, <1>3, <2>1, Zenon
<1> QED BY <1>2, <1>3, Zenon

\* Every variable keeps its type.
LEMMA SerialTyped ==
  ASSUME TypeOK, [Next]_vars
  PROVE  TypeOK'
<1> USE DEF threadVars, uart
<1>0. Types
  BY TypesAre, Zenon
<1> SUFFICES Types'
  BY TypesAre, PTL
<1>1. /\ mode \in {"UNINIT", "POLL", "QUEUE"} /\ buffer \in Intq /\ txq \in Intq
      /\ not_empty \in BOOLEAN /\ not_full \in BOOLEAN /\ thre \in BOOLEAN
      /\ reader \in {"idle", "getc", "blocked"} /\ writer \in {"idle", "putc", "blocked"}
      /\ byte \in Bytes /\ key \in Bytes /\ thr \in Bytes /\ given \in Bytes
      /\ rbr \in Bytes \cup {None} /\ ier \subseteq {"recv", "xmit"}
      /\ cpu \in {"run", "recv", "xmit", "off_put", "flush", "off"} /\ offs \in 0 .. MaxOff
  BY <1>0, Zenon DEF Types
<1>2. First(txq) \in Bytes /\ Got(txq) \in Intq /\ First(buffer) \in Bytes /\ Got(buffer) \in Intq
  BY <1>1, QueueTypes, Zenon
<1>3. \A b \in Bytes : With(txq, b) \in Intq /\ With(buffer, b) \in Intq
  BY <1>1, QueueTypes, Zenon
<1>4. Transmit => /\ thr' \in Bytes /\ thre' \in BOOLEAN /\ txq' \in Intq
                  /\ writer' \in {"idle", "putc", "blocked"} /\ not_full' \in BOOLEAN
  BY <1>1, <1>2, Zenon DEF Transmit, SignalWriter
<1>5. \A b \in Bytes : input_putc(b) =>
        /\ buffer' \in Intq /\ given' \in Bytes /\ reader' \in {"idle", "getc", "blocked"}
        /\ not_empty' \in BOOLEAN /\ ier' \subseteq {"recv", "xmit"}
  <2> SUFFICES ASSUME NEW b \in Bytes, input_putc(b)
               PROVE  /\ buffer' \in Intq /\ given' \in Bytes /\ reader' \in {"idle", "getc", "blocked"}
                      /\ not_empty' \in BOOLEAN /\ ier' \subseteq {"recv", "xmit"}
    BY Zenon
  <2>1. serial_notify(With(buffer, b))
    BY Zenon DEF input_putc
  <2>2. ier' \subseteq {"recv", "xmit"}
    BY <2>1, IerNotified, Zenon
  <2> QED BY <1>1, <1>3, <2>2, Zenon DEF input_putc, SignalReader
<1>6. ASSUME NEW b \in Bytes, PutcPoll(b) PROVE Types'
  BY <1>1, <1>6, Zenon DEF PutcPoll, Types
<1>7. ASSUME NEW b \in Bytes, Putc(b) PROVE Types'
  BY <1>1, <1>7, Zenon DEF Putc, Types
<1>8. ASSUME NEW b \in Bytes, PutcOffEnd(b) PROVE Types'
  <2>1. ier' \subseteq {"recv", "xmit"}
    BY <1>8, IerWritten, Zenon DEF PutcOffEnd
  <2> QED BY <1>1, <1>3, <1>8, <2>1, Zenon DEF PutcOffEnd, Types
<1>9. ASSUME NEW b \in Bytes, Key(b) PROVE Types'
  BY <1>1, <1>5, <1>9, Zenon DEF Key, Types
<1>10. ASSUME NEW b \in Bytes, Arrive(b) PROVE Types'
  BY <1>1, <1>10, ZenonT(60) DEF Arrive, Types
<1>11. ASSUME serial_init_queue PROVE Types'
  <2>1. ier' \subseteq {"recv", "xmit"}
    BY <1>11, IerWritten, Zenon DEF serial_init_queue
  <2> QED BY <1>1, <1>11, <2>1, Zenon DEF serial_init_queue, Types
<1>12. ASSUME PutcOff PROVE Types'
  <2>1. offs' \in 0 .. MaxOff
    <3>1. MaxOff \in Nat
      BY SerialAssumption, Zenon
    <3>2. offs < MaxOff /\ offs' = offs + 1
      BY <1>12, Zenon DEF PutcOff
    <3> QED BY <1>1, <3>1, <3>2, SMT
  <2>2. /\ thr' \in Bytes /\ thre' \in BOOLEAN /\ txq' \in Intq
        /\ writer' \in {"idle", "putc", "blocked"} /\ not_full' \in BOOLEAN
    BY <1>1, <1>4, <1>12, Zenon DEF PutcOff
  <2> QED BY <1>1, <1>12, <2>1, <2>2, Zenon DEF PutcOff, Types
<1>13. ASSUME PutcStep PROVE Types'
  <2>1. CASE intq_full(txq)
    BY <1>1, <1>13, <2>1, Zenon DEF PutcStep, WaitWriter, Types
  <2>2. CASE ~intq_full(txq)
    <3>1. ier' \subseteq {"recv", "xmit"}
      BY <1>13, <2>2, IerWritten, Zenon DEF PutcStep
    <3> QED BY <1>1, <1>3, <1>13, <2>2, <3>1, Zenon DEF PutcStep, Types
  <2> QED BY <2>1, <2>2, Zenon
<1>14. ASSUME Flush PROVE Types'
  <2>1. /\ thr' \in Bytes /\ thre' \in BOOLEAN /\ txq' \in Intq
        /\ writer' \in {"idle", "putc", "blocked"} /\ not_full' \in BOOLEAN
    BY <1>1, <1>4, <1>14, Zenon DEF Flush
  <2> QED BY <1>1, <1>14, <2>1, Zenon DEF Flush, Types
<1>15. ASSUME Getc PROVE Types'
  BY <1>1, <1>15, Zenon DEF Getc, Types
<1>16. ASSUME GetcStep PROVE Types'
  <2>1. CASE intq_empty(buffer)
    BY <1>1, <1>16, <2>1, Zenon DEF GetcStep, WaitReader, Types
  <2>2. CASE ~intq_empty(buffer)
    <3>1. ier' \subseteq {"recv", "xmit"}
      BY <1>16, <2>2, IerNotified, Zenon DEF GetcStep
    <3> QED BY <1>1, <1>2, <1>16, <2>2, <3>1, Zenon DEF GetcStep, Types
  <2> QED BY <2>1, <2>2, Zenon
<1>17. ASSUME Interrupt PROVE Types'
  BY <1>1, <1>17, Zenon DEF Interrupt, Types
<1>18. ASSUME InterruptRecv PROVE Types'
  <2>1. CASE ~intq_full(buffer) /\ rbr # None
    <3>1. input_putc(rbr) /\ rbr \in Bytes
      BY <1>1, <1>18, <2>1, Zenon DEF InterruptRecv
    <3> QED BY <1>1, <1>5, <1>18, <2>1, <3>1, Zenon DEF InterruptRecv, Types
  <2>2. CASE ~(~intq_full(buffer) /\ rbr # None)
    BY <1>1, <1>18, <2>2, Zenon DEF InterruptRecv, Types
  <2> QED BY <2>1, <2>2, Zenon
<1>19. ASSUME InterruptXmit PROVE Types'
  <2>1. CASE ~intq_empty(txq) /\ thre
    BY <1>1, <1>4, <1>19, <2>1, Zenon DEF InterruptXmit, Types
  <2>2. CASE ~(~intq_empty(txq) /\ thre)
    <3>1. ier' \subseteq {"recv", "xmit"}
      BY <1>19, <2>2, IerWritten, Zenon DEF InterruptXmit
    <3> QED BY <1>1, <1>19, <2>2, <3>1, Zenon DEF InterruptXmit, Types
  <2> QED BY <2>1, <2>2, Zenon
<1>20. ASSUME Sent PROVE Types'
  BY <1>1, <1>20, ZenonT(60) DEF Sent, Types
<1>21. ASSUME UNCHANGED vars PROVE Types'
  BY <1>1, <1>21, ZenonT(60) DEF vars, Types
<1> QED BY ZenonT(60), <1>6, <1>7, <1>8, <1>9, <1>10, <1>11, <1>12, <1>13, <1>14, <1>15, <1>16, <1>17, <1>18,
           <1>19, <1>20, <1>21, ZenonT(60) DEF Next, Handler

\* The reader of keys sleeps only on an empty queue, and recorded.
LEMMA ReaderKept ==
  ASSUME SerialSafe, [Next]_vars
  PROVE  ReaderRight'
<1> USE DEF threadVars, uart
<1>1. reader = "blocked" <=> not_empty
  BY Zenon DEF SerialSafe, ReaderRight
<1>2. not_empty => intq_empty(buffer)
  BY Zenon DEF SerialSafe, ReaderRight
<1>3. not_empty \in BOOLEAN
  BY Zenon DEF SerialSafe, TypeOK
<1>4. UNCHANGED <<reader, not_empty, buffer>> => ReaderRight'
  BY <1>1, <1>2, Zenon DEF ReaderRight, intq_empty
<1>5. \A b : input_putc(b) => ReaderRight'
  BY <1>1, <1>3, Zenon DEF input_putc, SignalReader, ReaderRight
<1>6. CASE Getc
  <2>1. ~not_empty /\ reader' = "getc" /\ not_empty' = not_empty
    BY <1>1, <1>6, Zenon DEF Getc
  <2> QED BY <2>1, Zenon DEF ReaderRight
<1>7. CASE GetcStep
  <2>1. CASE intq_empty(buffer)
    <3>1. reader' = "blocked" /\ not_empty' = TRUE /\ buffer' = buffer
      BY <1>7, <2>1, Zenon DEF GetcStep, WaitReader
    <3> QED BY <2>1, <3>1, Zenon DEF ReaderRight, intq_empty
  <2>2. CASE ~intq_empty(buffer)
    <3>1. reader' = "idle" /\ not_empty' = not_empty /\ ~not_empty
      BY <1>1, <1>7, <2>2, Zenon DEF GetcStep
    <3> QED BY <3>1, Zenon DEF ReaderRight
  <2> QED BY <2>1, <2>2, Zenon
<1>8. ASSUME NEW b \in Bytes, Key(b) PROVE ReaderRight'
  BY <1>5, <1>8, Zenon DEF Key
<1>9. CASE InterruptRecv
  BY <1>4, <1>5, <1>9, Zenon DEF InterruptRecv
<1>10. ASSUME NEW b \in Bytes, PutcPoll(b) \/ Putc(b) \/ PutcOffEnd(b) \/ Arrive(b)
       PROVE  ReaderRight'
  BY <1>4, <1>10, Zenon DEF PutcPoll, Putc, PutcOffEnd, Arrive
<1>11. CASE serial_init_queue \/ PutcOff \/ PutcStep \/ Flush \/ Interrupt \/ InterruptXmit \/ Sent
  BY <1>4, <1>11, Zenon DEF serial_init_queue, PutcOff, PutcStep, Flush, Interrupt, InterruptXmit, Sent
<1>12. CASE UNCHANGED vars
  BY <1>4, <1>12, Zenon DEF vars
<1> QED BY <1>6, <1>7, <1>8, <1>9, <1>10, <1>11, <1>12, Zenon DEF Next, Handler

\* The writer sleeps only on a full queue, and recorded.
LEMMA WriterKept ==
  ASSUME SerialSafe, [Next]_vars
  PROVE  WriterRight'
<1> USE DEF threadVars, uart
<1>1. writer = "blocked" <=> not_full
  BY Zenon DEF SerialSafe, WriterRight
<1>2. not_full => intq_full(txq)
  BY Zenon DEF SerialSafe, WriterRight
<1>3. not_full \in BOOLEAN
  BY Zenon DEF SerialSafe, TypeOK
<1>4. UNCHANGED <<writer, not_full, txq>> => WriterRight'
  BY <1>1, <1>2, Zenon DEF WriterRight, intq_full
<1>5. Transmit => WriterRight'
  BY <1>1, <1>3, Zenon DEF Transmit, SignalWriter, WriterRight
<1>6. ASSUME NEW b \in Bytes, Putc(b) PROVE WriterRight'
  <2>1. ~not_full /\ writer' = "putc" /\ not_full' = not_full
    BY <1>1, <1>6, Zenon DEF Putc
  <2> QED BY <2>1, Zenon DEF WriterRight
<1>7. CASE PutcStep
  <2>1. CASE intq_full(txq)
    <3>1. writer' = "blocked" /\ not_full' = TRUE /\ txq' = txq
      BY <1>7, <2>1, Zenon DEF PutcStep, WaitWriter
    <3> QED BY <2>1, <3>1, Zenon DEF WriterRight, intq_full
  <2>2. CASE ~intq_full(txq)
    <3>1. writer' = "idle" /\ not_full' = not_full /\ ~not_full
      BY <1>1, <1>7, <2>2, Zenon DEF PutcStep
    <3> QED BY <3>1, Zenon DEF WriterRight
  <2> QED BY <2>1, <2>2, Zenon
<1>8. ASSUME NEW b \in Bytes, PutcOffEnd(b) PROVE WriterRight'
  <2>1. ~intq_full(txq)
    BY <1>8, Zenon DEF PutcOffEnd, SerialSafe, RoomLeft
  <2>2. ~not_full /\ writer' = writer /\ not_full' = not_full
    BY <1>2, <1>8, <2>1, Zenon DEF PutcOffEnd
  <2> QED BY <1>1, <2>2, Zenon DEF WriterRight
<1>9. CASE PutcOff \/ Flush \/ InterruptXmit
  BY <1>4, <1>5, <1>9, Zenon DEF PutcOff, Flush, InterruptXmit
<1>10. ASSUME NEW b \in Bytes, PutcPoll(b) \/ Key(b) \/ Arrive(b)
       PROVE  WriterRight'
  BY <1>4, <1>10, Zenon DEF PutcPoll, Key, Arrive
<1>11. CASE serial_init_queue \/ Getc \/ GetcStep \/ Interrupt \/ InterruptRecv \/ Sent
  BY <1>4, <1>11, Zenon DEF serial_init_queue, Getc, GetcStep, Interrupt, InterruptRecv, Sent
<1>12. CASE UNCHANGED vars
  BY <1>4, <1>12, Zenon DEF vars
<1> QED BY <1>6, <1>7, <1>8, <1>9, <1>10, <1>11, <1>12, Zenon DEF Next, Handler

\* While interrupts are on, the port may interrupt for what there is to do.
LEMMA PortKept ==
  ASSUME SerialSafe, [Next]_vars
  PROVE  PortEnabled'
<1> USE DEF threadVars, uart
<1>1. TypeOK
  BY Zenon DEF SerialSafe
<1>2. PortEnabled
  BY Zenon DEF SerialSafe
<1>3. UNCHANGED <<cpu, mode, txq, buffer, ier>> => PortEnabled'
  BY <1>2, Zenon DEF PortEnabled, intq_empty, intq_full
<1>4. cpu' # "run" \/ mode' # "QUEUE" => PortEnabled'
  BY Zenon DEF PortEnabled
<1>5. write_ier(txq', buffer') => PortEnabled'
  BY IerWritten, Zenon DEF PortEnabled, intq_empty, intq_full
<1>6. serial_notify(buffer') /\ txq' = txq /\ mode' = mode => PortEnabled'
  <2> SUFFICES ASSUME serial_notify(buffer'), txq' = txq, mode' = mode PROVE PortEnabled'
    BY Zenon
  <2>1. mode = "QUEUE" =>
          (~intq_empty(txq) => "xmit" \in ier') /\ (~intq_full(buffer') => "recv" \in ier')
    BY <1>1, IerNotified, Zenon
  <2> QED BY <2>1, Zenon DEF PortEnabled, intq_empty, intq_full
<1>7. ASSUME NEW b \in Bytes, PutcPoll(b) PROVE PortEnabled'
  BY <1>4, <1>7, Zenon DEF PutcPoll
<1>8. ASSUME NEW b \in Bytes, Putc(b) \/ Arrive(b) PROVE PortEnabled'
  BY <1>3, <1>8, Zenon DEF Putc, Arrive
<1>9. ASSUME NEW b \in Bytes, PutcOffEnd(b) PROVE PortEnabled'
  BY <1>5, <1>9, Zenon DEF PutcOffEnd
<1>10. ASSUME NEW b \in Bytes, Key(b) PROVE PortEnabled'
  BY <1>6, <1>10, Zenon DEF Key, input_putc
<1>11. CASE serial_init_queue
  BY <1>5, <1>11, Zenon DEF serial_init_queue
<1>12. CASE PutcOff \/ Flush \/ Interrupt
  BY <1>4, <1>12, Zenon DEF PutcOff, Flush, Interrupt
<1>13. CASE PutcStep
  BY <1>3, <1>5, <1>13, Zenon DEF PutcStep
<1>14. CASE Getc \/ Sent
  BY <1>3, <1>14, Zenon DEF Getc, Sent
<1>15. CASE GetcStep
  BY <1>3, <1>6, <1>15, Zenon DEF GetcStep
<1>16. CASE InterruptRecv
  BY <1>4, <1>16, Zenon DEF InterruptRecv
<1>17. CASE InterruptXmit
  BY <1>4, <1>5, <1>17, Zenon DEF InterruptXmit
<1>18. CASE UNCHANGED vars
  BY <1>3, <1>18, Zenon DEF vars
<1> QED BY <1>7, <1>8, <1>9, <1>10, <1>11, <1>12, <1>13, <1>14, <1>15, <1>16, <1>17, <1>18,
           ZenonT(60) DEF Next, Handler

\* With interrupts off nobody takes the room that serial_putc() has made.
LEMMA RoomKept ==
  ASSUME SerialSafe, [Next]_vars
  PROVE  RoomLeft'
<1> USE DEF threadVars, uart
<1>1. RoomLeft /\ txq \in Intq
  BY TypesAre, Zenon DEF SerialSafe, Types
<1>2. UNCHANGED <<cpu, mode, txq>> => RoomLeft'
  BY <1>1, Zenon DEF RoomLeft, intq_full
<1>3. cpu' # "off_put" => RoomLeft'
  BY Zenon DEF RoomLeft
<1>4. CASE PutcOff
  <2>1. mode' = "QUEUE"
    BY <1>4, Zenon DEF PutcOff
  <2>2. ~intq_full(txq')
    <3>1. CASE intq_full(txq)
      <4>1. txq' = Got(txq)
        BY <1>4, <3>1, Zenon DEF PutcOff, Transmit
      <4>2. \E b : b \in Bytes
        BY <1>1, TypesAre, Zenon DEF SerialSafe, Types
      <4> QED BY <1>1, <3>1, <4>1, <4>2, QueueEnds, Zenon
    <3>2. CASE ~intq_full(txq)
      BY <1>4, <3>2, Zenon DEF PutcOff
    <3> QED BY <3>1, <3>2, Zenon
  <2> QED BY <2>1, <2>2, Zenon DEF RoomLeft, intq_full
<1>5. ASSUME NEW b \in Bytes, PutcPoll(b) \/ Putc(b) \/ PutcOffEnd(b) \/ Key(b) \/ Arrive(b)
      PROVE  RoomLeft'
  BY <1>2, <1>3, <1>5, Zenon DEF PutcPoll, Putc, PutcOffEnd, Key, Arrive
<1>6. CASE serial_init_queue \/ PutcStep \/ Flush \/ Getc \/ GetcStep
  BY <1>2, <1>3, <1>6, Zenon DEF serial_init_queue, PutcStep, Flush, Getc, GetcStep
<1>7. CASE Interrupt \/ InterruptRecv \/ InterruptXmit \/ Sent
  BY <1>2, <1>3, <1>7, Zenon DEF Interrupt, InterruptRecv, InterruptXmit, Sent
<1>8. CASE UNCHANGED vars
  BY <1>2, <1>8, Zenon DEF vars
<1> QED BY <1>4, <1>5, <1>6, <1>7, <1>8, Zenon DEF Next, Handler

\* The invariant holds at first.
LEMMA SerialStarts ==
  ASSUME Init
  PROVE  SerialSafe
<1>1. PICK b \in Bytes : /\ buffer = EmptyQueue(b) /\ txq = EmptyQueue(b)
                         /\ byte = b /\ key = b /\ thr = b /\ given = b
  BY Zenon DEF Init
<1>2. 0 \in Pos /\ 0 \in 0 .. MaxOff
  BY SerialAssumption, SMT DEF Pos
<1>3. EmptyQueue(b) \in Intq
  BY <1>2, Zenon DEF EmptyQueue, Intq
<1>4. Types
  BY <1>1, <1>2, <1>3, Zenon DEF Init, Types
<1>5. ReaderRight /\ WriterRight /\ PortEnabled /\ RoomLeft
  BY Zenon DEF Init, ReaderRight, WriterRight, PortEnabled, RoomLeft
<1> QED BY <1>4, <1>5, TypesAre, Zenon DEF SerialSafe

\* SerialSafe is an invariant.
LEMMA SerialInvariant == Spec => []SerialSafe
<1>1. Init => SerialSafe
  BY SerialStarts
<1>2. SerialSafe /\ [Next]_vars => SerialSafe'
  <2> SUFFICES ASSUME SerialSafe, [Next]_vars PROVE SerialSafe'
    OBVIOUS
  <2>1. TypeOK
    BY Zenon DEF SerialSafe
  <2>2. TypeOK'
    BY <2>1, SerialTyped
  <2> QED BY <2>2, ReaderKept, WriterKept, PortKept, RoomKept, Zenon DEF SerialSafe
<1> QED BY <1>1, <1>2, PTL DEF Spec

\* A thread that intq records is one that sleeps, and it sleeps only while it has
\* to; while interrupts are on, the port may interrupt for every byte that waits
\* to be sent or that there is room to receive.  For any size of the queues.
THEOREM SleepersWoken == Spec => []NoLostWakeup
<1>1. SerialSafe => NoLostWakeup
  BY SerialSafeIs, Zenon
<1> QED BY <1>1, SerialInvariant, PTL

\* Every step puts a key into the queue of keys, takes one, or leaves it alone.
LEMMA InputStep ==
  ASSUME SerialSafe, [Next]_vars
  PROVE  [Input!Next]_<<Contents(buffer), key>>
<1> USE DEF threadVars, uart
<1>1. buffer \in Intq /\ rbr \in Bytes \cup {None}
  BY TypesAre, Zenon DEF SerialSafe, Types
<1>2. Contents(buffer)' = Contents(buffer')
  BY Zenon DEF Contents
<1>3. UNCHANGED <<buffer, key>> => UNCHANGED <<Contents(buffer), key>>
  BY <1>2, Zenon
<1>4. ASSUME NEW b \in Bytes, input_putc(b), ~intq_full(buffer), key' = key
      PROVE  Input!Put
  <2>1. buffer' = With(buffer, b) /\ given' = b
    BY <1>4, Zenon DEF input_putc
  <2>2. Contents(With(buffer, b)) = Append(Contents(buffer), b) /\ Len(Contents(buffer)) < INTQ_BUFSIZE - 1
    BY <1>1, <1>4, ContentsPut, Zenon
  <2> QED BY <1>2, <1>4, <2>1, <2>2, Zenon DEF Input!Put
<1>5. ASSUME NEW b \in Bytes, Key(b) PROVE Input!Put
  <2>1. input_putc(b) /\ ~intq_full(buffer) /\ key' = key
    BY <1>5, Zenon DEF Key
  <2> QED BY <1>4, <2>1, Zenon
<1>6. CASE InterruptRecv
  <2>1. key' = key
    BY <1>6, Zenon DEF InterruptRecv
  <2>2. CASE ~intq_full(buffer) /\ rbr # None
    <3>1. input_putc(rbr) /\ rbr \in Bytes
      BY <1>1, <1>6, <2>2, Zenon DEF InterruptRecv
    <3>2. Input!Put
      BY <1>4, <2>1, <2>2, <3>1, Zenon
    <3> QED BY <3>2, Zenon DEF Input!Next
  <2>3. CASE ~(~intq_full(buffer) /\ rbr # None)
    <3>1. UNCHANGED buffer
      BY <1>6, <2>3, Zenon DEF InterruptRecv
    <3> QED BY <1>3, <2>1, <3>1, Zenon
  <2> QED BY <2>2, <2>3, Zenon
<1>7. CASE GetcStep
  <2>1. CASE intq_empty(buffer)
    <3>1. UNCHANGED <<buffer, key>>
      BY <1>7, <2>1, Zenon DEF GetcStep
    <3> QED BY <1>3, <3>1, Zenon
  <2>2. CASE ~intq_empty(buffer)
    <3>1. key' = First(buffer) /\ buffer' = Got(buffer)
      BY <1>7, <2>2, Zenon DEF GetcStep
    <3>2. /\ Contents(buffer) # <<>> /\ Contents(Got(buffer)) = Tail(Contents(buffer))
          /\ First(buffer) = Head(Contents(buffer))
      BY <1>1, <2>2, ContentsGot, Zenon
    <3>3. Input!Take
      BY <1>2, <3>1, <3>2, Zenon DEF Input!Take
    <3> QED BY <3>3, Zenon DEF Input!Next
  <2> QED BY <2>1, <2>2, Zenon
<1>8. ASSUME NEW b \in Bytes, PutcPoll(b) \/ Putc(b) \/ PutcOffEnd(b) \/ Arrive(b)
      PROVE  UNCHANGED <<buffer, key>>
  BY <1>8, Zenon DEF PutcPoll, Putc, PutcOffEnd, Arrive
<1>9. ASSUME serial_init_queue \/ PutcOff \/ PutcStep \/ Flush \/ Getc \/ Interrupt \/ InterruptXmit \/ Sent
      PROVE  UNCHANGED <<buffer, key>>
  BY <1>9, Zenon DEF serial_init_queue, PutcOff, PutcStep, Flush, Getc, Interrupt, InterruptXmit, Sent
<1>10. CASE UNCHANGED vars
  BY <1>3, <1>10, Zenon DEF vars
<1>11. Input!Put => Input!Next
  BY Zenon DEF Input!Next
<1> QED BY <1>3, <1>5, <1>6, <1>7, <1>8, <1>9, <1>10, <1>11, Zenon DEF Next, Handler

\* Every step in QUEUE mode puts a byte into the queue of bytes to transmit,
\* takes the port's next one from it, or leaves both alone.
LEMMA OutputStep ==
  ASSUME SerialSafe, [Next]_vars
  PROVE  [mode = "QUEUE" => Output!Next]_<<Contents(txq), thr>>
<1> USE DEF threadVars, uart
<1>1. txq \in Intq /\ byte \in Bytes
  BY TypesAre, Zenon DEF SerialSafe, Types
<1>2. Contents(txq)' = Contents(txq')
  BY Zenon DEF Contents
<1>3. UNCHANGED <<txq, thr>> => UNCHANGED <<Contents(txq), thr>>
  BY <1>2, Zenon
<1>4. ASSUME NEW b \in Bytes, txq' = With(txq, b), given' = b, ~intq_full(txq), thr' = thr
      PROVE  Output!Next
  <2>1. Contents(With(txq, b)) = Append(Contents(txq), b) /\ Len(Contents(txq)) < INTQ_BUFSIZE - 1
    BY <1>1, <1>4, ContentsPut, Zenon
  <2> QED BY <1>2, <1>4, <2>1, Zenon DEF Output!Put, Output!Next
<1>5. ASSUME Transmit, ~intq_empty(txq) PROVE Output!Next
  <2>1. thr' = First(txq) /\ txq' = Got(txq)
    BY <1>5, Zenon DEF Transmit
  <2>2. /\ Contents(txq) # <<>> /\ Contents(Got(txq)) = Tail(Contents(txq))
        /\ First(txq) = Head(Contents(txq))
    BY <1>1, <1>5, ContentsGot, Zenon
  <2> QED BY <1>2, <2>1, <2>2, Zenon DEF Output!Take, Output!Next
<1>6. ASSUME NEW b \in Bytes, PutcOffEnd(b) PROVE Output!Next
  <2>1. ~intq_full(txq)
    BY <1>6, Zenon DEF PutcOffEnd, SerialSafe, RoomLeft
  <2>2. txq' = With(txq, b) /\ given' = b /\ thr' = thr
    BY <1>6, Zenon DEF PutcOffEnd
  <2> QED BY <1>4, <2>1, <2>2, Zenon
<1>7. CASE PutcStep
  <2>1. CASE intq_full(txq)
    <3>1. UNCHANGED <<txq, thr>>
      BY <1>7, <2>1, Zenon DEF PutcStep
    <3> QED BY <1>3, <3>1, Zenon
  <2>2. CASE ~intq_full(txq)
    <3>1. txq' = With(txq, byte) /\ given' = byte /\ thr' = thr
      BY <1>7, <2>2, Zenon DEF PutcStep
    <3>2. Output!Next
      BY <1>1, <1>4, <2>2, <3>1, Zenon
    <3> QED BY <3>2, Zenon
  <2> QED BY <2>1, <2>2, Zenon
<1>8. CASE PutcOff
  <2>1. CASE intq_full(txq)
    <3>1. Transmit
      BY <1>8, <2>1, Zenon DEF PutcOff
    <3>2. ~intq_empty(txq)
      BY <1>1, <2>1, QueueEnds, Zenon
    <3>3. Output!Next
      BY <1>5, <3>1, <3>2, Zenon
    <3> QED BY <3>3, Zenon
  <2>2. CASE ~intq_full(txq)
    <3>1. UNCHANGED <<txq, thr>>
      BY <1>8, <2>2, Zenon DEF PutcOff
    <3> QED BY <1>3, <3>1, Zenon
  <2> QED BY <2>1, <2>2, Zenon
<1>9. CASE Flush
  <2>1. CASE intq_empty(txq)
    <3>1. UNCHANGED <<txq, thr>>
      BY <1>9, <2>1, Zenon DEF Flush
    <3> QED BY <1>3, <3>1, Zenon
  <2>2. CASE ~intq_empty(txq)
    <3>1. Transmit
      BY <1>9, <2>2, Zenon DEF Flush
    <3>2. Output!Next
      BY <1>5, <2>2, <3>1, Zenon
    <3> QED BY <3>2, Zenon
  <2> QED BY <2>1, <2>2, Zenon
<1>10. CASE InterruptXmit
  <2>1. CASE ~intq_empty(txq) /\ thre
    <3>1. Transmit
      BY <1>10, <2>1, Zenon DEF InterruptXmit
    <3>2. Output!Next
      BY <1>5, <2>1, <3>1, Zenon
    <3> QED BY <3>2, Zenon
  <2>2. CASE ~(~intq_empty(txq) /\ thre)
    <3>1. UNCHANGED <<txq, thr>>
      BY <1>10, <2>2, Zenon DEF InterruptXmit
    <3> QED BY <1>3, <3>1, Zenon
  <2> QED BY <2>1, <2>2, Zenon
<1>11. ASSUME NEW b \in Bytes, PutcPoll(b) PROVE mode # "QUEUE"
  BY <1>11, Zenon DEF PutcPoll
<1>12. ASSUME NEW b \in Bytes, Putc(b) \/ Key(b) \/ Arrive(b)
       PROVE  UNCHANGED <<txq, thr>>
  BY <1>12, Zenon DEF Putc, Key, Arrive
<1>13. ASSUME serial_init_queue \/ Getc \/ GetcStep \/ Interrupt \/ InterruptRecv \/ Sent
       PROVE  UNCHANGED <<txq, thr>>
  BY <1>13, Zenon DEF serial_init_queue, Getc, GetcStep, Interrupt, InterruptRecv, Sent
<1>14. CASE UNCHANGED vars
  BY <1>3, <1>14, Zenon DEF vars
<1> QED BY <1>3, <1>6, <1>7, <1>8, <1>9, <1>10, <1>11, <1>12, <1>13, <1>14, Zenon DEF Next, Handler

\* The queues of keys and of bytes to transmit are first-in first-out queues of
\* INTQ_BUFSIZE - 1 bytes: what is read is what was put, in order, nothing is
\* lost, doubled or overwritten, also when some bytes are polled out because
\* interrupts are off.  For any size of the queues.
THEOREM QueuesImplementFifos == Spec => QueuesAreFifos
<1>1. Init => Input!Init
  <2> SUFFICES ASSUME Init PROVE Input!Init
    OBVIOUS
  <2>1. PICK b \in Bytes : buffer = EmptyQueue(b) /\ key = b
    BY Zenon DEF Init
  <2>2. buffer \in Intq
    BY SerialStarts, TypesAre, Zenon DEF SerialSafe, Types
  <2>3. Length(buffer) = 0
    <3>1. buffer.head = 0 /\ buffer.tail = 0
      BY <2>1, Zenon DEF EmptyQueue
    <3> QED BY <3>1, SMT DEF Length
  <2>4. Contents(buffer) \in Seq(Bytes) /\ Len(Contents(buffer)) = 0
    BY <2>2, <2>3, ContentsOf, Zenon
  <2>5. Contents(buffer) = <<>>
    <3>1. PICK c : c = Contents(buffer)
      BY Zenon
    <3>2. c \in Seq(Bytes) /\ Len(c) = 0
      BY <2>4, <3>1, Zenon
    <3> QED BY <3>1, <3>2
  <2> QED BY <2>1, <2>5, Zenon DEF Input!Init
<1>2. SerialSafe /\ [Next]_vars => [Input!Next]_<<Contents(buffer), key>>
  BY InputStep
<1>3. SerialSafe /\ [Next]_vars => [mode = "QUEUE" => Output!Next]_<<Contents(txq), thr>>
  BY OutputStep
<1> QED BY <1>1, <1>2, <1>3, SerialInvariant, PTL DEF Spec, QueuesAreFifos, Input!Spec
-----------------------------------------------------------------------------
(* The timer *)

\* Quotient and remainder.
LEMMA Division ==
  ASSUME NEW x \in Nat, NEW n \in Nat \ {0}
  PROVE  /\ x \div n \in Nat /\ x % n \in Nat /\ x % n < n
         /\ x = n * (x \div n) + (x % n)
  BY SMT

\* The constants of the timer.
LEMMA TimerNumbers ==
  /\ HALF \in Nat \ {0} /\ TIMER_FREQ \in Nat \ {0} /\ LoopsPerTick \in Nat
  /\ NoSleeper \notin Sleepers
  BY TimerAssumption, SMT

\* 1000, under a name: the provers are slow with large numerals.
Thousand == 1000

\* A sleeping thread has read ticks with interrupts off, or reads it now, and
\* has not seen more ticks than there were.
SleepRight(t) ==
  /\ tpc[t] \in {"start_lo", "check_lo"} => intr_off = t /\ half[t] = ticks.hi
  /\ tpc[t] \in {"start", "start_lo"} => called[t] <= Count(ticks)
  /\ tpc[t] \in {"check", "check_lo"} => called[t] <= start[t] /\ start[t] <= Count(ticks)

\* The calibrated loops have the highest bit of those that a tick takes.
Calibrated(n) ==
  n > 0 /\ LoopsPerTick >= 1024 => 2 * n > LoopsPerTick /\ n < 2 * LoopsPerTick

\* What the rounding of real_time_delay() costs.
Waited(n, w) ==
  LET wanted == n * TIMER_FREQ * w[2]
  IN  w[1] * w[3] <= wanted /\ wanted < (w[1] + 1) * w[3] + Thousand * TIMER_FREQ

\* The inductive invariant.
TimerInv ==
  /\ TimerTypeOK /\ ~early
  /\ \A t \in Sleepers : SleepRight(t)
  /\ Calibrated(loops_per_tick) /\ Waited(loops_per_tick, loops)
  /\ loops_per_tick = 0 => loops = <<0, 0, 1>>

\* The loops that real_time_delay() takes, for n loops per tick.
DelayOf(n, num, denom) == (((n * num) \div Thousand) * TIMER_FREQ) \div (denom \div Thousand)

\* The loops of real_time_delay() are as many as asked for, but for what its
\* divisions round off.
LEMMA DelayRounds ==
  ASSUME NEW n \in Nat, NEW num \in Nat, NEW denom \in Nat \ {0}, denom % Thousand = 0
  PROVE  Waited(n, <<DelayOf(n, num, denom), num, denom>>)
<1>0. TIMER_FREQ \in Nat \ {0}
  BY TimerNumbers, Zenon
<1>b. Thousand \in Nat \ {0}
  BY SMT DEF Thousand
<1>1. PICK m \in Nat : m = n * num
  BY SMT
<1>c. PICK a \in Nat : a = m \div Thousand
  BY <1>b, Division, Zenon
<1>2. PICK r \in Nat : r < Thousand /\ m = Thousand * a + r
  BY <1>b, <1>c, Division, ZenonT(60)
<1>3. PICK d \in Nat \ {0} : d = denom \div Thousand /\ denom = Thousand * d
  BY SMT DEF Thousand
<1>4. PICK b \in Nat : b = a * TIMER_FREQ
  BY <1>0, SMT
<1>5. PICK x \in Nat : x = b \div d
  BY Division, Zenon
<1>a. PICK s \in Nat : s < d /\ b = d * x + s
  BY <1>5, Division, ZenonT(60)
<1>6. PICK w \in Nat : w = n * TIMER_FREQ * num
  BY <1>0, SMT
<1>7. w = m * TIMER_FREQ
  BY <1>0, <1>1, <1>6, SMT
<1>8. PICK c \in Nat : c = r * TIMER_FREQ
  BY SMTT(60), <1>0, SMT
<1>9. w = Thousand * b + c
  BY SMTT(60), <1>b, <1>0, <1>2, <1>4, <1>7, <1>8, SMT
<1>10. c < Thousand * TIMER_FREQ
  BY SMTT(60), <1>b, <1>0, <1>2, <1>8, SMT
<1>11. PICK p \in Nat : p = d * x
  BY SMTT(60), SMT
<1>12. x * denom = Thousand * p /\ (x + 1) * denom = Thousand * p + Thousand * d
  BY SMTT(60), <1>b, <1>3, <1>11, SMT
<1>13. x * denom <= w /\ w < (x + 1) * denom + Thousand * TIMER_FREQ
  BY SMTT(60), <1>b, <1>0, <1>a, <1>9, <1>10, <1>11, <1>12, SMT
<1>14. x = DelayOf(n, num, denom)
  <2>1. (n * num) \div Thousand = a
    BY <1>1, <1>c, Zenon
  <2>2. ((n * num) \div Thousand) * TIMER_FREQ = b
    BY <1>4, <2>1, Zenon
  <2> QED BY <1>3, <1>5, <2>2, Zenon DEF DelayOf
<1> QED BY <1>6, <1>13, <1>14, Zenon DEF Waited
-----------------------------------------------------------------------------
(* timer_calibrate() *)

\* A set of numbers has a smallest one.  (The lemma Smallest, below.)
HasSmallest == \A S \in SUBSET Nat : S # {} => \E i \in S : \A j \in S : i <= j

\* From where on f is a solution of f[n] = G[n][f[2 * n]].
Solves(f, G, M, d) == \A n \in Nat : n = 0 \/ n + d > M => f[n] = G[n][f[2 * n]]

\* A solution of the doubling equations for one more value of the bound.
LEMMA SolvesMore ==
  ASSUME NEW M \in Nat, NEW d \in Nat, NEW G, \A n \in Nat : G[n] \in [Nat -> Nat],
         NEW f \in [Nat -> Nat], Solves(f, G, M, d)
  PROVE  \E g \in [Nat -> Nat] : Solves(g, G, M, d + 1)
<1>0. \A n \in Nat : 2 * n \in Nat
  BY SMT
<1>1. PICK g : g = [n \in Nat |-> IF n = 0 \/ n + d > M THEN f[n] ELSE G[n][f[2 * n]]]
  BY Zenon
<1>2. g \in [Nat -> Nat]
  BY <1>0, <1>1, Zenon
<1>3. \A n \in Nat : n = 0 \/ n + (d + 1) > M => 2 * n = 0 \/ 2 * n + d > M
  BY SMT
<1>4. \A n \in Nat : n = 0 \/ n + d > M => g[n] = f[n]
  BY <1>1, Zenon
<1>5. \A n \in Nat : n = 0 \/ n + (d + 1) > M => g[2 * n] = f[2 * n]
  BY <1>0, <1>3, <1>4, Zenon
<1>6. \A n \in Nat : g[n] = G[n][f[2 * n]] \/ ((n = 0 \/ n + d > M) /\ g[n] = f[n])
  BY <1>1, Zenon
<1>7. \A n \in Nat : n = 0 \/ n + (d + 1) > M => g[n] = G[n][g[2 * n]]
  BY <1>5, <1>6, Zenon DEF Solves
<1>8. Solves(g, G, M, d + 1)
  BY <1>7, Zenon DEF Solves
<1> QED BY <1>2, <1>8, Zenon

\* Equations f[n] = G[n][f[2 * n]] that are solved where 2 * n is out of bounds,
\* and all of them.
Tabled(G) == \A n \in Nat : G[n] \in [Nat -> Nat]
Starts(G, M) == \E e \in [Nat -> Nat] : Solves(e, G, M, 0)

Solvable(G) == \E f \in [Nat -> Nat] : \A n \in Nat : f[n] = G[n][f[2 * n]]

\* Equations that lead from n to 2 * n, up to a bound, have a solution.
LEMMA Doubling ==
  ASSUME HasSmallest, NEW M \in Nat, NEW G, Tabled(G), Starts(G, M)
  PROVE  Solvable(G)
<1>a. PICK e \in [Nat -> Nat] : Solves(e, G, M, 0)
  BY Zenon DEF Starts
<1>b. \A n \in Nat : G[n] \in [Nat -> Nat]
  BY Zenon DEF Tabled
<1>1. PICK bad : bad = {d \in Nat : ~\E f \in [Nat -> Nat] : Solves(f, G, M, d)}
  BY Zenon
<1>2. bad = {}
  <2> SUFFICES ASSUME bad # {} PROVE FALSE
    BY Zenon
  <2>1. PICK d \in bad : \A j \in bad : d <= j
    BY <1>1, Zenon DEF HasSmallest
  <2>2. d \in Nat /\ ~\E f \in [Nat -> Nat] : Solves(f, G, M, d)
    BY <1>1, Zenon
  <2>3. d # 0
    BY <1>a, <2>2, Zenon
  <2>a. d \in Nat
    BY <2>2, Zenon
  <2>4. PICK c \in Nat : d = c + 1 /\ ~(d <= c)
    BY <2>a, <2>3, SMT
  <2>5. c \notin bad
    BY <2>1, <2>4, Zenon
  <2>6. PICK f \in [Nat -> Nat] : Solves(f, G, M, c)
    BY <1>1, <2>5, Zenon
  <2> QED BY <1>b, <2>2, <2>4, <2>6, SolvesMore, Zenon
<1>3. PICK d \in Nat : d = M + 1
  BY SMT
<1>4. PICK f \in [Nat -> Nat] : Solves(f, G, M, d)
  BY <1>1, <1>2, Zenon
<1>5. \A n \in Nat : n + d > M
  BY <1>3, SMT
<1> QED BY <1>4, <1>5, Zenon DEF Solves, Solvable

\* The first loop of timer_calibrate() unfolds.
LEMMA HighBitIs ==
  ASSUME HasSmallest
  PROVE  \A n \in Nat : HighBit[n] = IF 2 * n > LoopsPerTick THEN n ELSE HighBit[2 * n]
<1>0. LoopsPerTick \in Nat
  BY TimerNumbers, Zenon
<1>1. PICK G : G = [n \in Nat |-> [m \in Nat |-> IF 2 * n > LoopsPerTick THEN n ELSE m]]
  BY Zenon
<1>2. \A n \in Nat : G[n] \in [Nat -> Nat]
  BY <1>1, Zenon
<1>3. \A n, m \in Nat : G[n][m] = IF 2 * n > LoopsPerTick THEN n ELSE m
  BY <1>1, Zenon
<1>4. PICK e \in [Nat -> Nat] : \A n \in Nat : e[n] = n
  <2>1. PICK e : e = [n \in Nat |-> n]
    BY Zenon
  <2>2. e \in [Nat -> Nat] /\ \A n \in Nat : e[n] = n
    BY <2>1, Zenon
  <2> QED BY <2>2, Zenon
<1>5. Solves(e, G, LoopsPerTick, 0)
  <2> SUFFICES ASSUME NEW n \in Nat, n = 0 \/ n + 0 > LoopsPerTick
               PROVE  e[n] = G[n][e[2 * n]]
    BY Zenon DEF Solves
  <2>1. 2 * n \in Nat /\ (2 * n = n \/ 2 * n > LoopsPerTick)
    BY <1>0, SMT
  <2>2. e[2 * n] = 2 * n /\ e[n] = n
    BY <1>4, <2>1, Zenon
  <2> QED BY <1>3, <2>1, <2>2, Zenon
<1>6. PICK f \in [Nat -> Nat] : \A n \in Nat : f[n] = G[n][f[2 * n]]
  <2>1. Tabled(G) /\ Starts(G, LoopsPerTick)
    BY <1>2, <1>5, Zenon DEF Tabled, Starts
  <2>2. Solvable(G)
    BY <1>0, <2>1, Doubling, Zenon
  <2> QED BY <2>2, Zenon DEF Solvable
<1>7. \A n \in Nat : 2 * n \in Nat
  BY SMT
<1>8. \A n \in Nat : f[n] = IF 2 * n > LoopsPerTick THEN n ELSE f[2 * n]
  BY <1>3, <1>6, <1>7, ZenonT(60)
<1>9. f = [n \in Nat |-> IF 2 * n > LoopsPerTick THEN n ELSE f[2 * n]]
  BY <1>8, Zenon
<1> DEFINE P(g) == g = [n \in Nat |-> IF too_many_loops(2 * n) THEN n ELSE g[2 * n]]
<1>10. P(f)
  BY <1>9, Zenon DEF too_many_loops
<1>11. HighBit = CHOOSE g : P(g)
  BY Zenon DEF HighBit
<1>12. P(HighBit)
  <2> HIDE DEF P
  <2> QED BY <1>10, <1>11, Zenon
<1>13. PICK h : h = HighBit
  BY Zenon
<1>14. h = [n \in Nat |-> IF 2 * n > LoopsPerTick THEN n ELSE h[2 * n]]
  BY <1>12, <1>13, Zenon DEF too_many_loops
<1>15. \A n \in Nat : h[n] = IF 2 * n > LoopsPerTick THEN n ELSE h[2 * n]
  BY <1>14, Zenon
<1> QED BY <1>13, <1>15, Zenon

\* The power of two that HighBit stops at from n on.
Stops(n, h) ==
  \E q \in Nat \ {0} : /\ h = 1024 * q /\ 2 * (1024 * q) > LoopsPerTick
                       /\ n <= LoopsPerTick => 1024 * q <= LoopsPerTick
StopsAll == \A m \in Nat \ {0} : Stops(1024 * m, HighBit[1024 * m])

\* n loops and d more are too many.
TooManyAt(d, n) == n + d > LoopsPerTick
Misses(d) == \E m \in Nat \ {0} : TooManyAt(d, 1024 * m) /\ ~Stops(1024 * m, HighBit[1024 * m])

\* The first loop ends at a power of two times where it began, and not beyond.
LEMMA HighBitStops ==
  ASSUME HasSmallest
  PROVE  StopsAll
<1>0. LoopsPerTick \in Nat
  BY TimerNumbers, Zenon
<1>1. PICK bad : bad = {d \in Nat : Misses(d)}
  BY Zenon
<1>2. ASSUME NEW m \in Nat \ {0}
      PROVE  /\ 1024 * m \in Nat /\ 2 * m \in Nat \ {0} /\ 2 * (1024 * m) = 1024 * (2 * m)
             /\ 2 * (1024 * m) > LoopsPerTick => Stops(1024 * m, 1024 * m)
             /\ ~(2 * (1024 * m) > LoopsPerTick) => 2 * (1024 * m) <= LoopsPerTick
             /\ \A d \in Nat : TooManyAt(d, 1024 * m) /\ ~(2 * (1024 * m) > LoopsPerTick) =>
                  d # 0 /\ TooManyAt(d - 1, 1024 * (2 * m))
  <2>1. 1024 * m \in Nat /\ 2 * m \in Nat \ {0} /\ 2 * (1024 * m) = 1024 * (2 * m)
    BY SMT
  <2>2. 2 * (1024 * m) > LoopsPerTick => Stops(1024 * m, 1024 * m)
    BY SMTT(60), <1>0, SMT DEF Stops
  <2>3. ~(2 * (1024 * m) > LoopsPerTick) => 2 * (1024 * m) <= LoopsPerTick
    BY <1>0, SMT
  <2>4. ASSUME NEW d \in Nat, TooManyAt(d, 1024 * m), ~(2 * (1024 * m) > LoopsPerTick)
        PROVE  d # 0 /\ TooManyAt(d - 1, 1024 * (2 * m))
    BY SMTT(60), <1>0, <2>4, SMT DEF TooManyAt
  <2> QED BY SMTT(60), <2>1, <2>2, <2>3, <2>4, SMT
<1>3. bad = {}
  <2> SUFFICES ASSUME bad # {} PROVE FALSE
    BY SMT
  <2>1. PICK d \in bad : \A j \in bad : d <= j
    <3>1. bad \in SUBSET Nat
      BY <1>1, Zenon
    <3> QED BY <3>1, Zenon DEF HasSmallest
  <2>2. d \in Nat /\ Misses(d)
    BY <1>1, Zenon
  <2>3. PICK m \in Nat \ {0} : TooManyAt(d, 1024 * m) /\ ~Stops(1024 * m, HighBit[1024 * m])
    BY SMTT(60), <2>2, SMT DEF Misses
  <2>4. PICK n \in Nat : n = 1024 * m
    BY <1>2, SMT
  <2>5. HighBit[n] = IF 2 * n > LoopsPerTick THEN n ELSE HighBit[2 * n]
    BY HighBitIs, Zenon
  <2>6. ~(2 * n > LoopsPerTick)
    BY SMTT(60), <1>2, <2>3, <2>4, <2>5, SMT
  <2>7. d # 0 /\ TooManyAt(d - 1, 1024 * (2 * m)) /\ 2 * n = 1024 * (2 * m)
    BY SMTT(60), <1>2, <2>2, <2>3, <2>4, <2>6, SMT
  <2>8. HighBit[2 * n] = HighBit[n]
    BY <2>5, <2>6, Zenon
  <2>9. PICK p \in Nat \ {0} : p = 2 * m
    BY SMTT(60), SMT
  <2>10. d - 1 \in Nat /\ ~(d <= d - 1)
    BY SMTT(60), <2>2, <2>7, SMT
  <2>11. PICK c \in Nat : c = d - 1
    BY <2>10, Zenon
  <2>12. c \notin bad
    BY <2>1, <2>10, <2>11, Zenon
  <2>13. Stops(1024 * p, HighBit[1024 * p])
    <3>1. ~Misses(c)
      BY <1>1, <2>12, Zenon
    <3>2. TooManyAt(c, 1024 * p)
      BY SMTT(60), <2>7, <2>9, <2>11, SMT
    <3> QED BY <3>1, <3>2, SMT DEF Misses
  <2>14. 1024 * p = 2 * n
    BY SMTT(60), <2>7, <2>9, SMT
  <2>15. Stops(2 * n, HighBit[n])
    BY SMTT(60), <2>8, <2>13, <2>14, SMT
  <2>16. n <= LoopsPerTick => 2 * n <= LoopsPerTick
    BY SMTT(60), <1>0, <2>6, SMT
  <2>17. Stops(n, HighBit[n])
    BY SMTT(60), <2>15, <2>16, SMT DEF Stops
  <2> QED BY SMTT(60), <2>3, <2>4, <2>17, SMT
<1>4. ASSUME NEW m \in Nat \ {0} PROVE Stops(1024 * m, HighBit[1024 * m])
  <2>1. PICK d \in Nat : d = LoopsPerTick + 1
    BY SMTT(60), <1>0, SMT
  <2>2. TooManyAt(d, 1024 * m)
    BY SMTT(60), <1>0, <2>1, SMT DEF TooManyAt
  <2>3. ~Misses(d)
    BY <1>1, <1>3, Zenon
  <2> QED BY SMTT(60), <2>2, <2>3, SMT DEF Misses
<1> QED BY <1>4, SMT DEF StopsAll

\* One of the next nine bits, or not.
Adds(hb, b, n) == IF hb + b > LoopsPerTick THEN n ELSE n + b

\* R is the second loop, from the highest bit hb on.
Refines(hb, R) ==
  /\ \A b \in Nat : R[b] = Adds(hb, b, IF b = hb \div 2 THEN hb ELSE R[2 * b])
  /\ Refined(hb) = R[hb \div 512]

\* The second loop of timer_calibrate() unfolds.
LEMMA RefinedIs ==
  ASSUME HasSmallest, NEW hb \in Nat, hb > 1
  PROVE  \E R : Refines(hb, R)
<1>0. LoopsPerTick \in Nat
  BY TimerNumbers, Zenon
<1>1. PICK top \in Nat : top = hb \div 2 /\ top < hb /\ top > 0
  BY SMT
<1>2. PICK G : G = [b \in Nat |-> [m \in Nat |-> Adds(hb, b, IF b = top THEN hb ELSE m)]]
  BY Zenon
<1>3. \A b, m \in Nat : Adds(hb, b, m) \in Nat
  BY <1>0, SMT DEF Adds
<1>4. Tabled(G)
  BY <1>2, <1>3, Zenon DEF Tabled
<1>5. \A b, m \in Nat : G[b][m] = Adds(hb, b, IF b = top THEN hb ELSE m)
  BY <1>2, Zenon
<1>6. PICK M \in Nat : M = LoopsPerTick + hb
  BY <1>0, SMT
<1>7. 0 \in Nat /\ \A n \in Nat : 2 * n \in Nat
  BY SMT
<1>8. PICK e : e = [n \in Nat |-> 0]
  BY Zenon
<1>9. e \in [Nat -> Nat] /\ \A n \in Nat : e[n] = 0
  BY <1>7, <1>8, Zenon
<1>10. Solves(e, G, M, 0)
  <2> SUFFICES ASSUME NEW n \in Nat, n = 0 \/ n + 0 > M
               PROVE  e[n] = G[n][e[2 * n]]
    BY Zenon DEF Solves
  <2>1. n # top
    BY SMTT(60), <1>0, <1>1, <1>6, SMT
  <2>2. Adds(hb, n, 0) = 0
    BY <1>0, <1>6, SMT DEF Adds
  <2>3. e[n] = 0 /\ e[2 * n] = 0
    BY <1>7, <1>9, Zenon
  <2> QED BY <1>5, <1>7, <2>1, <2>2, <2>3, ZenonT(60)
<1>11. Starts(G, M)
  BY <1>9, <1>10, Zenon DEF Starts
<1>12. Solvable(G)
  BY <1>4, <1>11, Doubling, Zenon
<1>13. PICK f \in [Nat -> Nat] : \A n \in Nat : f[n] = G[n][f[2 * n]]
  BY <1>12, Zenon DEF Solvable
<1>14. \A b \in Nat : f[b] = Adds(hb, b, IF b = top THEN hb ELSE f[2 * b])
  BY <1>5, <1>7, <1>13, Zenon
<1>15. f = [b \in Nat |-> Adds(hb, b, IF b = top THEN hb ELSE f[2 * b])]
  BY <1>14, Zenon
<1> DEFINE P(g) == g = [b \in Nat |->
                          LET n == IF b = hb \div 2 THEN hb ELSE g[2 * b]
                          IN  IF too_many_loops(hb + b) THEN n ELSE n + b]
<1>16. P(f)
  BY <1>1, <1>15, Zenon DEF too_many_loops, Adds
<1>17. PICK R : R = CHOOSE g : P(g)
  BY Zenon
<1>18. P(R)
  <2> HIDE DEF P
  <2> QED BY <1>16, <1>17, Zenon
<1>19. Refined(hb) = R[hb \div 512]
  BY <1>17, Zenon DEF Refined
<1>20. R = [b \in Nat |-> Adds(hb, b, IF b = hb \div 2 THEN hb ELSE R[2 * b])]
  BY <1>18, Zenon DEF too_many_loops, Adds
<1>21. \A b \in Nat : R[b] = Adds(hb, b, IF b = hb \div 2 THEN hb ELSE R[2 * b])
  BY <1>20, Zenon
<1>22. Refines(hb, R)
  BY <1>19, <1>21, ZenonT(60) DEF Refines
<1> QED BY <1>22, Zenon

\* The second loop ends between the power of two and its double.
LEMMA RefinedFits ==
  ASSUME HasSmallest, NEW q \in Nat \ {0}
  PROVE  /\ Refined(1024 * q) \in Nat /\ 1024 * q <= Refined(1024 * q)
         /\ Refined(1024 * q) < 2 * (1024 * q)
<1>0. LoopsPerTick \in Nat
  BY TimerNumbers, Zenon
<1>1. PICK hb \in Nat : hb = 1024 * q /\ hb > 1
  BY SMT
<1>b. hb > 1
  BY <1>1, SMT
<1>a. PICK R : Refines(hb, R)
  BY <1>b, RefinedIs, Zenon
<1>2. /\ \A b \in Nat : R[b] = Adds(hb, b, IF b = hb \div 2 THEN hb ELSE R[2 * b])
      /\ Refined(hb) = R[hb \div 512]
  BY <1>a, SMT DEF Refines
<1>3. hb \div 2 = 512 * q /\ hb \div 512 = 2 * q
  BY SMTT(60), <1>1, SMT
<1>4. R[512 * q] \in 1024 * q .. 1536 * q
  <2>1. R[512 * q] = Adds(hb, 512 * q, hb)
    BY SMTT(60), <1>2, <1>3, SMT
  <2> QED BY SMTT(60), <1>0, <1>1, <2>1, SMT DEF Adds
<1>5. ASSUME NEW b \in Nat, b # 512 * q, NEW n \in Nat, R[2 * b] \in 1024 * q .. n
      PROVE  R[b] \in 1024 * q .. n + b
  <2>1. R[b] = Adds(hb, b, R[2 * b])
    BY SMTT(60), <1>2, <1>3, <1>5, SMT
  <2>2. PICK x \in 1024 * q .. n : x = R[2 * b]
    BY <1>5
  <2>3. Adds(hb, b, x) \in 1024 * q .. n + b
    BY SMTT(60), <1>0, SMT DEF Adds
  <2> QED BY SMTT(60), <2>1, <2>2, <2>3
<1>6. R[256 * q] \in 1024 * q .. 1536 * q + 256 * q
  <2>1. 256 * q \in Nat /\ 256 * q # 512 * q /\ 2 * (256 * q) = 512 * q /\ 1536 * q \in Nat
    BY SMTT(60), SMT
  <2> QED BY SMTT(60), <1>4, <1>5, <2>1, SMT
<1>7. R[128 * q] \in 1024 * q .. 1792 * q + 128 * q
  <2>1. 128 * q \in Nat /\ 128 * q # 512 * q /\ 2 * (128 * q) = 256 * q /\ 1792 * q \in Nat
    BY SMTT(60), SMT
  <2>2. R[256 * q] \in 1024 * q .. 1792 * q
    BY SMTT(60), <1>6, SMT
  <2> QED BY SMTT(60), <1>5, <2>1, <2>2, SMT
<1>8. R[64 * q] \in 1024 * q .. 1920 * q + 64 * q
  <2>1. 64 * q \in Nat /\ 64 * q # 512 * q /\ 2 * (64 * q) = 128 * q /\ 1920 * q \in Nat
    BY SMT
  <2>2. R[128 * q] \in 1024 * q .. 1920 * q
    BY SMTT(60), <1>7, SMT
  <2> QED BY SMTT(60), <1>5, <2>1, <2>2, SMT
<1>9. R[32 * q] \in 1024 * q .. 1984 * q + 32 * q
  <2>1. 32 * q \in Nat /\ 32 * q # 512 * q /\ 2 * (32 * q) = 64 * q /\ 1984 * q \in Nat
    BY SMT
  <2>2. R[64 * q] \in 1024 * q .. 1984 * q
    BY SMTT(60), <1>8, SMT
  <2> QED BY SMTT(60), <1>5, <2>1, <2>2, SMT
<1>10. R[16 * q] \in 1024 * q .. 2016 * q + 16 * q
  <2>1. 16 * q \in Nat /\ 16 * q # 512 * q /\ 2 * (16 * q) = 32 * q /\ 2016 * q \in Nat
    BY SMT
  <2>2. R[32 * q] \in 1024 * q .. 2016 * q
    BY SMTT(60), <1>9, SMT
  <2> QED BY SMTT(60), <1>5, <2>1, <2>2, SMT
<1>11. R[8 * q] \in 1024 * q .. 2032 * q + 8 * q
  <2>1. 8 * q \in Nat /\ 8 * q # 512 * q /\ 2 * (8 * q) = 16 * q /\ 2032 * q \in Nat
    BY SMT
  <2>2. R[16 * q] \in 1024 * q .. 2032 * q
    BY SMTT(60), <1>10, SMT
  <2> QED BY SMTT(60), <1>5, <2>1, <2>2, SMT
<1>12. R[4 * q] \in 1024 * q .. 2040 * q + 4 * q
  <2>1. 4 * q \in Nat /\ 4 * q # 512 * q /\ 2 * (4 * q) = 8 * q /\ 2040 * q \in Nat
    BY SMTT(60), SMT
  <2>2. R[8 * q] \in 1024 * q .. 2040 * q
    BY SMTT(60), <1>11, SMT
  <2> QED BY SMTT(60), <1>5, <2>1, <2>2, SMT
<1>13. R[2 * q] \in 1024 * q .. 2044 * q + 2 * q
  <2>1. 2 * q \in Nat /\ 2 * q # 512 * q /\ 2 * (2 * q) = 4 * q /\ 2044 * q \in Nat
    BY SMTT(60), SMT
  <2>2. R[4 * q] \in 1024 * q .. 2044 * q
    BY SMTT(60), <1>12, SMT
  <2> QED BY SMTT(60), <1>5, <2>1, <2>2, SMT
<1> QED BY SMTT(60), <1>1, <1>2, <1>3, <1>13, SMT

\* What timer_calibrate() finds.
CalibratedLoops == Refined(HighBit[1024])

\* timer_calibrate() finds the highest bit of the loops that a tick takes.
LEMMA CalibrateFits ==
  ASSUME HasSmallest
  PROVE  CalibratedLoops \in Nat \ {0} /\ Calibrated(CalibratedLoops)
<1>0. LoopsPerTick \in Nat
  BY TimerNumbers, Zenon
<1>1. Stops(1024, HighBit[1024])
  <2>1. StopsAll
    BY HighBitStops, Zenon
  <2>2. 1024 * 1 = 1024 /\ 1 \in Nat \ {0}
    BY SMT
  <2>3. Stops(1024 * 1, HighBit[1024 * 1])
    BY SMTT(60), <2>1, <2>2, SMT DEF StopsAll
  <2> QED BY <2>2, <2>3, SMT
<1>2. PICK q \in Nat \ {0} : /\ HighBit[1024] = 1024 * q /\ 2 * (1024 * q) > LoopsPerTick
                             /\ 1024 <= LoopsPerTick => 1024 * q <= LoopsPerTick
  BY SMTT(60), <1>1, SMT DEF Stops
<1>3. PICK n : n = Refined(1024 * q)
  BY SMTT(60), SMT
<1>4. n \in Nat /\ 1024 * q <= n /\ n < 2 * (1024 * q)
  BY SMTT(60), <1>3, RefinedFits, SMT
<1>5. n \in Nat \ {0} /\ Calibrated(n)
  BY SMTT(60), <1>0, <1>2, <1>4, SMT DEF Calibrated
<1> QED BY SMTT(60), <1>2, <1>3, <1>5, SMT DEF CalibratedLoops
-----------------------------------------------------------------------------
(* The steps *)

\* The parts of the invariant.
LEMMA TimerParts ==
  ASSUME TimerInv
  PROVE  /\ TimerTypeOK /\ ~early
         /\ \A t \in Sleepers : SleepRight(t)
         /\ Calibrated(loops_per_tick) /\ Waited(loops_per_tick, loops)
         /\ loops_per_tick = 0 => loops = <<0, 0, 1>>
  BY Zenon DEF TimerInv

\* A count of ticks is a natural, and its halves are bounded.
LEMMA Counts ==
  ASSUME NEW n \in Instant
  PROVE  n.hi \in Nat /\ n.lo \in Nat /\ n.lo < HALF /\ n.hi < HALF /\ Count(n) \in Nat
<1>1. HALF \in Nat
  BY TimerNumbers, Zenon
<1>2. n.hi \in 0 .. HALF - 1 /\ n.lo \in 0 .. HALF - 1
  BY Zenon DEF Instant
<1> QED BY SMTT(60), <1>1, <1>2, SMT DEF Count

\* timer_calibrate() keeps the invariant.
LEMMA CalibrateKept ==
  ASSUME HasSmallest, TimerInv, timer_calibrate
  PROVE  TimerInv'
<1>1. /\ loops_per_tick = 0 /\ loops_per_tick' = CalibratedLoops
      /\ UNCHANGED <<ticks, intr_off, tpc, asked, half, start, called, early, loops>>
  BY SMT DEF timer_calibrate, CalibratedLoops
<1>2. PICK n \in Nat \ {0} : n = loops_per_tick' /\ Calibrated(n)
  BY <1>1, CalibrateFits, Zenon
<1>3. loops' = <<0, 0, 1>>
  BY <1>1, TimerParts, Zenon
<1>4. Waited(n, <<0, 0, 1>>)
  <2>1. TIMER_FREQ \in Nat \ {0}
    BY TimerNumbers, Zenon
  <2> QED BY <2>1, SMT DEF Waited, Thousand
<1>5. TimerTypeOK'
  BY <1>1, <1>2, TimerParts, Zenon DEF TimerTypeOK
<1>6. \A t \in Sleepers : SleepRight(t)'
  BY <1>1, TimerParts, Zenon DEF SleepRight, Count
<1>7. n # 0
  BY SMT
<1>8. Calibrated(loops_per_tick)' /\ Waited(loops_per_tick, loops)' /\ loops_per_tick' # 0
  BY <1>2, <1>3, <1>4, <1>7, Zenon
<1> QED BY <1>1, <1>5, <1>6, <1>8, TimerParts, ZenonT(60) DEF TimerInv

\* timer_interrupt() keeps the invariant.
LEMMA InterruptKept ==
  ASSUME TimerInv, timer_interrupt
  PROVE  TimerInv'
<1>0. TimerTypeOK
  BY TimerParts, Zenon
<1>1. /\ intr_off = NoSleeper /\ (ticks.lo < HALF - 1 \/ ticks.hi < HALF - 1)
      /\ UNCHANGED <<intr_off, tpc, asked, half, start, called, early, loops_per_tick, loops>>
  BY Zenon DEF timer_interrupt
<1>2. HALF \in Nat \ {0}
  BY TimerNumbers, Zenon
<1>3. PICK n \in Instant : n = ticks
  BY <1>0, Zenon DEF TimerTypeOK
<1>4. n.hi \in Nat /\ n.lo \in Nat /\ n.lo < HALF /\ n.hi < HALF /\ Count(n) \in Nat
  BY Counts, Zenon
<1>5. PICK n1 : n1 = ticks'
  BY Zenon
<1>6. n1 \in Instant /\ Count(n1) = Count(n) + 1
  <2>1. CASE n.lo < HALF - 1
    <3>1. PICK l \in 0 .. HALF - 1 : l = n.lo + 1
      BY SMTT(60), <1>2, <1>4, <2>1, SMT
    <3>2. n1 = [n EXCEPT !.lo = l]
      BY <1>3, <1>5, <2>1, <3>1, Zenon DEF timer_interrupt
    <3>3. n1 \in Instant /\ n1.hi = n.hi /\ n1.lo = l
      BY <3>2, Zenon DEF Instant
    <3> QED BY SMTT(60), <1>2, <1>4, <3>1, <3>3, SMT DEF Count
  <2>2. CASE ~(n.lo < HALF - 1)
    <3>1. PICK h \in 0 .. HALF - 1 : h = n.hi + 1
      BY SMTT(60), <1>1, <1>2, <1>3, <1>4, <2>2, SMT
    <3>2. n1 = [hi |-> h, lo |-> 0]
      BY <1>3, <1>5, <2>2, <3>1, Zenon DEF timer_interrupt
    <3>3. 0 \in 0 .. HALF - 1
      BY <1>2, SMT
    <3>4. n1 \in Instant /\ n1.hi = h /\ n1.lo = 0
      BY <3>2, <3>3, Zenon DEF Instant
    <3>5. n.lo = HALF - 1
      BY SMTT(60), <1>2, <1>4, <2>2, SMT
    <3> QED BY SMTT(60), <1>2, <1>4, <3>1, <3>4, <3>5, SMT DEF Count
  <2> QED BY <2>1, <2>2, Zenon
<1>7. TimerTypeOK'
  BY <1>0, <1>1, <1>5, <1>6, Zenon DEF TimerTypeOK
<1>8. ASSUME NEW t \in Sleepers PROVE SleepRight(t)'
  <2>1. SleepRight(t) /\ t # NoSleeper
    BY TimerParts, TimerNumbers, Zenon
  <2>2. tpc[t] \notin {"start_lo", "check_lo"}
    BY <1>1, <2>1, Zenon DEF SleepRight
  <2>3. called[t] \in Nat /\ start[t] \in Nat
    BY <1>0, Zenon DEF TimerTypeOK
  <2>4. \A x \in Nat : x <= Count(n) => x <= Count(n1)
    BY SMTT(60), <1>4, <1>6, SMT
  <2>5. \A x \in Nat : x <= Count(ticks) => x <= Count(ticks)'
    BY <1>3, <1>5, <2>4, Zenon DEF Count
  <2> QED BY <1>1, <2>1, <2>2, <2>3, <2>5, Zenon DEF SleepRight
<1> QED BY <1>1, <1>7, <1>8, TimerParts, Zenon DEF TimerInv

\* The loops of a busy-wait.
LEMMA DelayKept ==
  ASSUME TimerInv, NEW s \in Times, loops_per_tick > 0
  PROVE  Waited(loops_per_tick, <<real_time_delay(s[1], s[2]), s[1], s[2]>>) /\ loops_per_tick # 0
<1>1. PICK n \in Nat : n = loops_per_tick
  BY TimerParts, Zenon DEF TimerTypeOK
<1>2. s[1] \in Nat /\ s[2] \in Nat \ {0} /\ s[2] % Thousand = 0
  BY TimerAssumption, SMT DEF Thousand
<1>3. PICK num \in Nat, denom \in Nat \ {0} : num = s[1] /\ denom = s[2]
  BY <1>2, Zenon
<1>4. Waited(n, <<DelayOf(n, num, denom), num, denom>>)
  BY <1>2, <1>3, DelayRounds, Zenon
<1>5. real_time_delay(s[1], s[2]) = DelayOf(n, num, denom)
  BY SMTT(60), <1>1, <1>3, SMT DEF real_time_delay, DelayOf, Thousand
<1>6. n # 0
  BY <1>1, SMT
<1> QED BY <1>1, <1>3, <1>4, <1>5, <1>6, Zenon

\* timer_mdelay() and its like keep the invariant.
LEMMA DelayStepKept ==
  ASSUME TimerInv, NEW t \in Sleepers, NEW s \in Times, timer_delay(t, s[1], s[2])
  PROVE  TimerInv'
<1>1. /\ loops_per_tick > 0 /\ loops' = <<real_time_delay(s[1], s[2]), s[1], s[2]>>
      /\ UNCHANGED <<ticks, intr_off, tpc, asked, half, start, called, early, loops_per_tick>>
  BY Zenon DEF timer_delay
<1>2. PICK w : w = loops' /\ Waited(loops_per_tick, w) /\ loops_per_tick # 0
  BY <1>1, DelayKept, Zenon
<1>3. Waited(loops_per_tick, loops)' /\ Calibrated(loops_per_tick)'
  BY <1>1, <1>2, TimerParts, Zenon
<1>4. TimerTypeOK'
  BY <1>1, TimerParts, Zenon DEF TimerTypeOK
<1>5. \A u \in Sleepers : SleepRight(u)'
  BY <1>1, TimerParts, Zenon DEF SleepRight, Count
<1> QED BY <1>1, <1>2, <1>3, <1>4, <1>5, TimerParts, Zenon DEF TimerInv

\* A thread's step changes no other thread's state.
LEMMA SleepersKept ==
  ASSUME TimerInv, NEW t \in Sleepers, UNCHANGED ticks, SleepRight(t)',
         intr_off' = intr_off \/ intr_off \in {NoSleeper, t},
         \A u \in Sleepers : u # t =>
           /\ tpc'[u] = tpc[u] /\ half'[u] = half[u]
           /\ called'[u] = called[u] /\ start'[u] = start[u]
  PROVE  \A u \in Sleepers : SleepRight(u)'
<1> SUFFICES ASSUME NEW u \in Sleepers, u # t PROVE SleepRight(u)'
  BY Zenon
<1>1. SleepRight(u) /\ u # NoSleeper
  BY TimerParts, TimerNumbers, Zenon
<1>2. Count(ticks)' = Count(ticks) /\ (ticks.hi)' = ticks.hi
  BY Zenon DEF Count
<1>3. intr_off = u => intr_off' = u
  BY <1>1, Zenon
<1> QED BY <1>1, <1>2, <1>3, Zenon DEF SleepRight

\* timer_msleep() and its like keep the invariant.
LEMMA SleepStepKept ==
  ASSUME TimerInv, NEW t \in Sleepers, NEW s \in Times, real_time_sleep(t, s[1], s[2])
  PROVE  TimerInv'
<1>0. TimerTypeOK
  BY TimerParts, Zenon
<1>1. /\ loops_per_tick > 0 /\ tpc[t] = "awake"
      /\ UNCHANGED <<ticks, intr_off, half, start, early, loops_per_tick>>
  BY Zenon DEF real_time_sleep
<1>2. PICK n : n = (s[1] * TIMER_FREQ) \div s[2]
  BY Zenon
<1>3. n \in Nat
  <2>1. s[1] \in Nat /\ s[2] \in Nat \ {0}
    BY SMTT(60), TimerAssumption, SMT
  <2>2. PICK m \in Nat : m = s[1] * TIMER_FREQ
    BY <2>1, TimerNumbers, SMT
  <2> QED BY <1>2, <2>1, <2>2, Division, ZenonT(60)
<1>4. CASE n > 0
  <2>1. PICK now \in Nat : now = Count(ticks)
    BY <1>0, Counts, Zenon DEF TimerTypeOK
  <2>2. /\ asked' = [asked EXCEPT ![t] = n] /\ called' = [called EXCEPT ![t] = now]
        /\ tpc' = [tpc EXCEPT ![t] = "start"] /\ UNCHANGED loops
    BY <1>2, <1>4, <2>1, Zenon DEF real_time_sleep
  <2>3. TimerTypeOK'
    BY <1>0, <1>1, <1>3, <2>2, Zenon DEF TimerTypeOK
  <2>4. tpc'[t] = "start" /\ called'[t] = now /\ now <= now
    <3>1. now <= now
      BY SMT
    <3> QED BY <1>0, <2>2, <3>1, Zenon DEF TimerTypeOK
  <2>5. SleepRight(t)'
    BY <1>1, <2>1, <2>4, Zenon DEF SleepRight, Count
  <2>6. \A u \in Sleepers : SleepRight(u)'
    <3>1. \A u \in Sleepers : u # t =>
             /\ tpc'[u] = tpc[u] /\ half'[u] = half[u]
             /\ called'[u] = called[u] /\ start'[u] = start[u]
      BY <1>0, <1>1, <2>2, Zenon DEF TimerTypeOK
    <3> QED BY <1>1, <2>5, <3>1, SleepersKept, Zenon
  <2>7. Calibrated(loops_per_tick)' /\ Waited(loops_per_tick, loops)'
    BY <1>1, <2>2, TimerParts, Zenon
  <2> QED BY <1>1, <2>2, <2>3, <2>6, <2>7, TimerParts, Zenon DEF TimerInv
<1>5. CASE ~(n > 0)
  <2>1. loops' = <<real_time_delay(s[1], s[2]), s[1], s[2]>> /\ UNCHANGED <<asked, called, tpc>>
    BY <1>2, <1>5, Zenon DEF real_time_sleep
  <2>2. PICK w : w = loops' /\ Waited(loops_per_tick, w) /\ loops_per_tick # 0
    BY <1>1, <2>1, DelayKept, Zenon
  <2>3. Waited(loops_per_tick, loops)' /\ Calibrated(loops_per_tick)'
    BY <1>1, <2>2, TimerParts, Zenon
  <2>4. TimerTypeOK'
    BY <1>0, <1>1, <2>1, Zenon DEF TimerTypeOK
  <2>5. \A u \in Sleepers : SleepRight(u)'
    BY <1>1, <2>1, TimerParts, Zenon DEF SleepRight, Count
  <2> QED BY <1>1, <2>2, <2>3, <2>4, <2>5, TimerParts, Zenon DEF TimerInv
<1> QED BY <1>4, <1>5, Zenon

\* Reading the upper half of ticks keeps the invariant.
LEMMA HighKept ==
  ASSUME TimerInv, NEW t \in Sleepers, LoadHigh(t)
  PROVE  TimerInv'
<1>0. TimerTypeOK /\ SleepRight(t)
  BY TimerParts, Zenon
<1>1. PICK to \in {"start_lo", "check_lo"} : to = IF tpc[t] = "start" THEN "start_lo" ELSE "check_lo"
  BY Zenon
<1>2. PICK hi \in 0 .. HALF - 1 : hi = ticks.hi
  BY <1>0, Zenon DEF TimerTypeOK, Instant
<1>3. /\ intr_off \in {NoSleeper, t} /\ tpc[t] \in {"start", "check"} /\ intr_off' = t
      /\ half' = [half EXCEPT ![t] = hi] /\ tpc' = [tpc EXCEPT ![t] = to]
      /\ UNCHANGED <<ticks, asked, start, called, early, loops_per_tick, loops>>
  BY <1>1, <1>2, Zenon DEF LoadHigh, MayRun
<1>4. TimerTypeOK'
  BY <1>0, <1>1, <1>2, <1>3, Zenon DEF TimerTypeOK
<1>5. tpc'[t] = to /\ half'[t] = hi
  BY <1>0, <1>3, Zenon DEF TimerTypeOK
<1>6. SleepRight(t)'
  BY <1>0, <1>1, <1>2, <1>3, <1>5, Zenon DEF SleepRight, Count
<1>7. \A u \in Sleepers : SleepRight(u)'
  <2>1. \A u \in Sleepers : u # t =>
           /\ tpc'[u] = tpc[u] /\ half'[u] = half[u]
           /\ called'[u] = called[u] /\ start'[u] = start[u]
    BY <1>0, <1>3, Zenon DEF TimerTypeOK
  <2> QED BY <1>3, <1>6, <2>1, SleepersKept, Zenon
<1> QED BY <1>3, <1>4, <1>7, TimerParts, Zenon DEF TimerInv

\* The end of timer_ticks(): the halves are those of the count now.
LEMMA LowKept ==
  ASSUME TimerInv, NEW t \in Sleepers, LoadLow(t)
  PROVE  TimerInv'
<1>0. TimerTypeOK /\ SleepRight(t) /\ ~early
  BY TimerParts, Zenon
<1>1. PICK now \in Nat : now = Count(ticks)
  BY <1>0, Counts, Zenon DEF TimerTypeOK
<1>2. /\ intr_off \in {NoSleeper, t} /\ intr_off' = NoSleeper /\ half' = [half EXCEPT ![t] = 0]
      /\ UNCHANGED <<ticks, loops_per_tick, loops>> /\ tpc[t] \in {"start_lo", "check_lo"}
  BY Zenon DEF LoadLow, MayRun
<1>3. half[t] * HALF + ticks.lo = now
  BY <1>0, <1>1, <1>2, Zenon DEF SleepRight, Count
<1>4. 0 \in 0 .. HALF - 1 /\ 0 \in Nat
  BY TimerNumbers, SMT
<1>5. called[t] \in Nat /\ start[t] \in Nat /\ asked[t] \in Nat
  BY <1>0, Zenon DEF TimerTypeOK
<1>6. CASE tpc[t] = "start_lo"
  <2>1. start' = [start EXCEPT ![t] = now] /\ tpc' = [tpc EXCEPT ![t] = "check"]
        /\ UNCHANGED <<asked, called, early>>
    BY <1>3, <1>6, Zenon DEF LoadLow
  <2>2. TimerTypeOK'
    BY <1>0, <1>2, <1>4, <2>1, Zenon DEF TimerTypeOK
  <2>3. tpc'[t] = "check" /\ start'[t] = now
    BY <1>0, <2>1, Zenon DEF TimerTypeOK
  <2>4. called[t] <= now /\ now <= now
    <3>1. now <= now
      BY SMT
    <3> QED BY <1>0, <1>1, <1>6, <3>1, Zenon DEF SleepRight
  <2>5. SleepRight(t)'
    BY <1>1, <1>2, <2>1, <2>3, <2>4, Zenon DEF SleepRight, Count
  <2>6. \A u \in Sleepers : SleepRight(u)'
    <3>1. \A u \in Sleepers : u # t =>
             /\ tpc'[u] = tpc[u] /\ half'[u] = half[u]
             /\ called'[u] = called[u] /\ start'[u] = start[u]
      BY <1>0, <1>2, <2>1, Zenon DEF TimerTypeOK
    <3> QED BY <1>2, <2>5, <3>1, SleepersKept, Zenon
  <2> QED BY <1>2, <2>1, <2>2, <2>6, TimerParts, Zenon DEF TimerInv
<1>7. CASE tpc[t] = "check_lo" /\ now - start[t] < asked[t]
  <2>1. /\ tpc' = [tpc EXCEPT ![t] = "check"] /\ UNCHANGED <<asked, called, early>>
        /\ start' = start
    <3>1. ~(now - start[t] >= asked[t])
      BY SMTT(60), <1>5, <1>7, SMT
    <3> QED BY <1>3, <1>7, <3>1, ZenonT(60) DEF LoadLow
  <2>2. TimerTypeOK'
    BY <1>0, <1>2, <1>4, <2>1, Zenon DEF TimerTypeOK
  <2>3. tpc'[t] = "check"
    BY <1>0, <2>1, Zenon DEF TimerTypeOK
  <2>5. SleepRight(t)'
    BY <1>0, <1>2, <1>7, <2>1, <2>3, Zenon DEF SleepRight, Count
  <2>6. \A u \in Sleepers : SleepRight(u)'
    <3>1. \A u \in Sleepers : u # t =>
             /\ tpc'[u] = tpc[u] /\ half'[u] = half[u]
             /\ called'[u] = called[u] /\ start'[u] = start[u]
      BY <1>0, <1>2, <2>1, Zenon DEF TimerTypeOK
    <3> QED BY <1>2, <2>5, <3>1, SleepersKept, Zenon
  <2> QED BY <1>2, <2>1, <2>2, <2>6, TimerParts, Zenon DEF TimerInv
<1>8. CASE tpc[t] = "check_lo" /\ now - start[t] >= asked[t]
  <2>0. called[t] <= start[t]
    BY <1>0, <1>8, ZenonT(60) DEF SleepRight
  <2>1. ~(now - called[t] < asked[t]) /\ ~(now - start[t] < asked[t])
    BY SMTT(60), <1>5, <1>8, <2>0, SMT
  <2>2. /\ tpc' = [tpc EXCEPT ![t] = "awake"] /\ early' = (early \/ now - called[t] < asked[t])
        /\ start' = [start EXCEPT ![t] = 0] /\ asked' = [asked EXCEPT ![t] = 0]
        /\ called' = [called EXCEPT ![t] = 0]
    BY <1>1, <1>3, <1>8, <2>1, Zenon DEF LoadLow
  <2>3. early' = FALSE
    BY <1>0, <2>1, <2>2, Zenon
  <2>4. TimerTypeOK'
    BY <1>0, <1>2, <1>4, <2>2, <2>3, Zenon DEF TimerTypeOK
  <2>5. tpc'[t] = "awake"
    BY <1>0, <2>2, Zenon DEF TimerTypeOK
  <2>6. SleepRight(t)'
    BY <2>5, Zenon DEF SleepRight
  <2>7. \A u \in Sleepers : SleepRight(u)'
    <3>1. \A u \in Sleepers : u # t =>
             /\ tpc'[u] = tpc[u] /\ half'[u] = half[u]
             /\ called'[u] = called[u] /\ start'[u] = start[u]
      BY <1>0, <1>2, <2>2, ZenonT(60) DEF TimerTypeOK
    <3> QED BY <1>2, <2>6, <3>1, SleepersKept, Zenon
  <2> QED BY <1>2, <2>3, <2>4, <2>7, TimerParts, Zenon DEF TimerInv
<1>9. now - start[t] < asked[t] \/ now - start[t] >= asked[t]
  BY SMTT(60), <1>5, SMT
<1> QED BY <1>2, <1>6, <1>7, <1>8, <1>9, Zenon

\* Each step keeps the invariant.
LEMMA TimerSteps ==
  ASSUME HasSmallest, TimerInv, [TimerNext]_timerVars
  PROVE  TimerInv'
<1>1. CASE TimerNext
  BY <1>1, CalibrateKept, InterruptKept, HighKept, LowKept, SleepStepKept, DelayStepKept, ZenonT(60) DEF TimerNext
<1>2. CASE UNCHANGED timerVars
  <2>1. UNCHANGED <<ticks, intr_off, tpc, asked, half, start, called, early, loops_per_tick, loops>>
    BY <1>2, Zenon DEF timerVars
  <2>2. TimerTypeOK'
    BY <2>1, TimerParts, Zenon DEF TimerTypeOK
  <2>3. \A t \in Sleepers : SleepRight(t)'
    BY <2>1, TimerParts, Zenon DEF SleepRight, Count
  <2> QED BY <2>1, <2>2, <2>3, TimerParts, Zenon DEF TimerInv
<1> QED BY <1>1, <1>2, Zenon

\* The invariant holds at first.
LEMMA TimerStarts ==
  ASSUME TimerInit
  PROVE  TimerInv
<1>1. 0 \in Nat /\ 0 \in 0 .. HALF - 1
  BY TimerNumbers, SMT
<1>2. TimerTypeOK /\ ~early
  BY <1>1, Zenon DEF TimerInit, TimerTypeOK, Instant
<1>3. \A t \in Sleepers : SleepRight(t)
  BY Zenon DEF TimerInit, SleepRight
<1>4. loops_per_tick = 0 /\ loops = <<0, 0, 1>>
  BY Zenon DEF TimerInit
<1>5. Calibrated(0)
  BY SMTT(60), SMT DEF Calibrated
<1>6. Waited(0, <<0, 0, 1>>)
  BY SMTT(60), TimerNumbers, SMT DEF Waited, Thousand
<1> QED BY <1>2, <1>3, <1>4, <1>5, <1>6, ZenonT(60) DEF TimerInv

\* The invariant implies the property.
LEMMA SleepsEnough == TimerInv => SleepsLongEnough
<1> SUFFICES ASSUME TimerInv PROVE SleepsLongEnough
  BY Zenon
<1>1. /\ TimerTypeOK /\ ~early
      /\ \A t \in Sleepers :
           tpc[t] \in {"check", "check_lo"} => called[t] <= start[t] /\ start[t] <= Count(ticks)
  BY TimerParts, Zenon DEF SleepRight
<1>2. loops_per_tick > 0 /\ LoopsPerTick >= 1024 =>
         2 * loops_per_tick > LoopsPerTick /\ loops_per_tick < 2 * LoopsPerTick
  BY SMTT(60), TimerParts, SMT DEF Calibrated
<1>3. LET wanted == loops_per_tick * TIMER_FREQ * loops[2]
      IN  loops[1] * loops[3] <= wanted /\ wanted < (loops[1] + 1) * loops[3] + 1000 * TIMER_FREQ
  BY SMTT(60), TimerParts, SMT DEF Waited, Thousand
<1> QED BY SMTT(60), <1>1, <1>2, <1>3, SMT DEF SleepsLongEnough

LOCAL INSTANCE WellFoundedInduction

\* A set of numbers has a smallest one.
LEMMA Smallest ==
  HasSmallest
<1> SUFFICES ASSUME NEW S \in SUBSET Nat, S # {}
             PROVE  \E i \in S : \A j \in S : i <= j
  BY Zenon DEF HasSmallest
<1> DEFINE R == OpToRel(<, Nat)
<1>1. IsWellFoundedOn(R, Nat)
  BY NatLessThanWellFounded, Zenon
<1>2. \E x \in S : \A y \in S : ~(<<y, x>> \in R)
  <2> HIDE DEF R
  <2> QED BY <1>1, WFMin, Zenon
<1>3. \A x, y \in Nat : <<y, x>> \in R <=> y < x
  BY Zenon DEF OpToRel
<1> HIDE DEF R
<1>4. PICK x \in S : \A y \in S : ~(<<y, x>> \in R)
  BY <1>2, Zenon
<1>5. \A y \in S : ~(y < x)
  BY Zenon, <1>3, <1>4
<1> QED BY SMTT(60), <1>5

\* timer_sleep() never returns before as many ticks as asked for have passed,
\* for ticks of any width, any number of threads and any times; and whatever
\* the processor's speed, timer_calibrate() finds the highest bit of the loops
\* that a tick takes, and a busy-wait is shorter than asked by no more than
\* its divisions round off.
THEOREM SleepsLast == TimerSpec => []SleepsLongEnough
<1>1. TimerInit => TimerInv
  BY TimerStarts, Zenon
<1>2. TimerInv /\ [TimerNext]_timerVars => TimerInv'
  BY Smallest, TimerSteps, Zenon
<1> QED BY <1>1, <1>2, SleepsEnough, PTL DEF TimerSpec
=============================================================================
