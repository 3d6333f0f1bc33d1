------------------------------- MODULE Serial -------------------------------
(***************************************************************************)
(* Character input and output: the interrupt queues of devices/intq.c, the *)
(* serial port (serial.c), the keyboard (kbd.c) and the input buffer       *)
(* (input.c), shared by threads and interrupt handlers.                    *)
(*                                                                         *)
(* At most one thread waits on a queue: k_read() reads keys under          *)
(* file_lock, and console_lock admits one writer.  The reader and the      *)
(* writer below are those threads, and intq's own lock is always free.     *)
(* Code that prints with interrupts off is modelled apart.                 *)
(***************************************************************************)
EXTENDS Naturals, Sequences

CONSTANTS
  INTQ_BUFSIZE,  \* positions in an intq
  Bytes,
  None,          \* no byte
  MaxOff         \* bound on the bytes printed with interrupts off

ASSUME SerialAssumption == INTQ_BUFSIZE \in Nat \ {0, 1} /\ None \notin Bytes /\ MaxOff \in Nat

VARIABLES
  mode,       \* "UNINIT", "POLL" or "QUEUE"
  buffer,     \* the intq of keys: [buf, head, tail]
  txq,        \* the intq of bytes to transmit
  not_empty,  \* whether a thread is recorded as waiting in buffer
  not_full,   \* whether a thread is recorded as waiting in txq
  reader,     \* the caller of input_getc(): "idle", "getc" or "blocked"
  writer,     \* the caller of serial_putc(): "idle", "putc" or "blocked"
  byte,       \* the byte that the writer puts
  key,        \* the key input_getc() returned last
  rbr,        \* the UART's received byte
  thr,        \* the byte written last to the UART's THR
  thre,       \* whether THR is empty
  ier,        \* the UART's enabled interrupts, of "recv" and "xmit"
  cpu,        \* "run", or what it does with interrupts off
  given,      \* history: the byte passed to intq_putc() last
  offs        \* bound: bytes printed with interrupts off

threadVars == <<reader, writer, byte, key>>
uart == <<rbr, thr, thre, ier>>
vars == <<mode, buffer, txq, not_empty, not_full, threadVars, uart, cpu, given, offs>>

Pos == 0 .. INTQ_BUFSIZE - 1

TypeOK ==
  /\ mode \in {"UNINIT", "POLL", "QUEUE"}
  /\ {buffer, txq} \subseteq [buf : [Pos -> Bytes], head : Pos, tail : Pos]
  /\ {not_empty, not_full, thre} \subseteq BOOLEAN
  /\ reader \in {"idle", "getc", "blocked"} /\ writer \in {"idle", "putc", "blocked"}
  /\ {byte, key, thr, given} \subseteq Bytes
  /\ rbr \in Bytes \cup {None}
  /\ ier \subseteq {"recv", "xmit"}
  /\ cpu \in {"run", "recv", "xmit", "off_put", "flush", "off"}
  /\ offs \in 0 .. MaxOff

EmptyQueue(b) == [buf |-> [i \in Pos |-> b], head |-> 0, tail |-> 0]

Init ==
  /\ \E b \in Bytes :
       /\ buffer = EmptyQueue(b) /\ txq = EmptyQueue(b)
       /\ byte = b /\ key = b /\ thr = b /\ given = b
  /\ mode = "UNINIT"
  /\ not_empty = FALSE /\ not_full = FALSE
  /\ reader = "idle" /\ writer = "idle"
  /\ rbr = None /\ thre = TRUE /\ ier = {}
  /\ cpu = "run" /\ offs = 0
-----------------------------------------------------------------------------
(* intq.c *)

next(pos) == (pos + 1) % INTQ_BUFSIZE

intq_empty(q) == q.head = q.tail

intq_full(q) == next(q.head) = q.tail

\* The loops' bodies, once the queue is neither empty nor full.
Got(q) == [q EXCEPT !.tail = next(q.tail)]
First(q) == q.buf[q.tail]

\* Storing after advancing.
With_late(q, b) == [q EXCEPT !.buf[next(q.head)] = b, !.head = next(q.head)]

With(q, b) == [q EXCEPT !.buf[q.head] = b, !.head = next(q.head)]

\* wait(): the thread records itself and blocks.
WaitReader == not_empty' = TRUE /\ reader' = "blocked"

WaitWriter == not_full' = TRUE /\ writer' = "blocked"

\* A signal() that resets the waiter and forgets thread_unblock().
SignalReader_lost == not_empty' = FALSE /\ UNCHANGED reader

\* signal(): wake the waiting thread, which will test the queue again.
SignalReader ==
  /\ reader' = IF not_empty THEN "getc" ELSE reader
  /\ not_empty' = FALSE

SignalWriter ==
  /\ writer' = IF not_full THEN "putc" ELSE writer
  /\ not_full' = FALSE
-----------------------------------------------------------------------------
(* serial.c, in terms of the queues after the step *)

write_ier(txq1, buffer1) ==
  ier' = (IF intq_empty(txq1) THEN {} ELSE {"xmit"}) \cup
         (IF intq_full(buffer1) THEN {} ELSE {"recv"})

serial_notify(buffer1) == IF mode = "QUEUE" THEN write_ier(txq, buffer1) ELSE UNCHANGED ier

\* outb (THR_REG, intq_getc (&txq)), which waits for THRE when it polls.
Transmit ==
  /\ thre
  /\ thr' = First(txq)
  /\ thre' = FALSE
  /\ txq' = Got(txq)
  /\ SignalWriter

\* The port begins in UNINIT mode; the first byte makes it POLL.
PutcPoll(b) ==
  /\ cpu = "run" /\ mode # "QUEUE" /\ thre
  /\ mode' = "POLL"
  /\ thr' = b /\ thre' = FALSE
  /\ ier' = IF mode = "UNINIT" THEN {} ELSE ier
  /\ UNCHANGED <<buffer, txq, not_empty, not_full, threadVars, rbr, cpu, given, offs>>

serial_init_queue ==
  /\ cpu = "run" /\ mode # "QUEUE"
  /\ mode' = "QUEUE"
  /\ write_ier(txq, buffer)
  /\ UNCHANGED <<buffer, txq, not_empty, not_full, threadVars, rbr, thr, thre, cpu, given, offs>>

\* serial_putc() by a thread, with interrupts on, in QUEUE mode.
Putc(b) ==
  /\ cpu = "run" /\ mode = "QUEUE" /\ writer = "idle"
  /\ writer' = "putc"
  /\ byte' = b
  /\ UNCHANGED <<mode, buffer, txq, not_empty, not_full, reader, key, uart, cpu, given, offs>>

PutcStep ==
  /\ cpu = "run" /\ writer = "putc"
  /\ IF intq_full(txq)
     THEN WaitWriter /\ UNCHANGED <<txq, ier, given>>
     ELSE /\ txq' = With(txq, byte)
          /\ write_ier(With(txq, byte), buffer)
          /\ writer' = "idle"
          /\ given' = byte
          /\ UNCHANGED not_full
  /\ UNCHANGED <<mode, buffer, not_empty, reader, byte, key, rbr, thr, thre, cpu, offs>>

\* serial_putc() with interrupts off: a full queue first gives up its oldest
\* byte to the port.
PutcOff ==
  /\ cpu = "run" /\ mode = "QUEUE" /\ offs < MaxOff
  /\ offs' = offs + 1
  /\ IF intq_full(txq) THEN Transmit ELSE UNCHANGED <<txq, not_full, writer, thr, thre>>
  /\ cpu' = "off_put"
  /\ UNCHANGED <<mode, buffer, not_empty, reader, byte, key, rbr, ier, given>>

PutcOffEnd(b) ==
  /\ cpu = "off_put"
  /\ txq' = With(txq, b)
  /\ write_ier(With(txq, b), buffer)
  /\ given' = b
  /\ cpu' = "run"
  /\ UNCHANGED <<mode, buffer, not_empty, not_full, threadVars, rbr, thr, thre, offs>>

\* serial_flush() in debug_panic() and shutdown_power_off().
Flush ==
  /\ cpu \in {"run", "flush"}
  /\ IF intq_empty(txq)
     THEN cpu' = "off" /\ UNCHANGED <<txq, not_full, writer, thr, thre>>
     ELSE cpu' = "flush" /\ Transmit
  /\ UNCHANGED <<mode, buffer, not_empty, reader, byte, key, rbr, ier, given, offs>>
-----------------------------------------------------------------------------
(* input.c and the interrupt handlers *)

\* input_getc() by the thread that holds file_lock.
Getc ==
  /\ cpu = "run" /\ reader = "idle"
  /\ reader' = "getc"
  /\ UNCHANGED <<mode, buffer, txq, not_empty, not_full, writer, byte, key, uart, cpu, given, offs>>

GetcStep ==
  /\ cpu = "run" /\ reader = "getc"
  /\ IF intq_empty(buffer)
     THEN WaitReader /\ UNCHANGED <<buffer, key, ier>>
     ELSE /\ key' = First(buffer)
          /\ buffer' = Got(buffer)
          /\ serial_notify(Got(buffer))
          /\ reader' = "idle"
          /\ UNCHANGED not_empty
  /\ UNCHANGED <<mode, txq, not_full, writer, byte, rbr, thr, thre, cpu, given, offs>>

input_putc(b) ==
  /\ buffer' = With(buffer, b)
  /\ given' = b
  /\ SignalReader
  /\ serial_notify(With(buffer, b))

\* keyboard_interrupt() of a key that gives a character.
Key(b) ==
  /\ cpu = "run"
  /\ ~intq_full(buffer)
  /\ input_putc(b)
  /\ UNCHANGED <<mode, txq, not_full, writer, byte, key, rbr, thr, thre, cpu, offs>>

Interrupt ==
  /\ cpu = "run" /\ mode = "QUEUE"
  /\ ("recv" \in ier /\ rbr # None) \/ ("xmit" \in ier /\ thre)
  /\ cpu' = "recv"
  /\ UNCHANGED <<mode, buffer, txq, not_empty, not_full, threadVars, uart, given, offs>>

\* The two loops of serial_interrupt().  The port goes on meanwhile.
InterruptRecv ==
  /\ cpu = "recv"
  /\ IF ~intq_full(buffer) /\ rbr # None
     THEN /\ input_putc(rbr)
          /\ rbr' = None
          /\ UNCHANGED cpu
     ELSE /\ cpu' = "xmit"
          /\ UNCHANGED <<buffer, reader, not_empty, rbr, ier, given>>
  /\ UNCHANGED <<mode, txq, not_full, writer, byte, key, thr, thre, offs>>

InterruptXmit ==
  /\ cpu = "xmit"
  /\ IF ~intq_empty(txq) /\ thre
     THEN /\ Transmit
          /\ UNCHANGED <<ier, cpu>>
     ELSE /\ write_ier(txq, buffer)
          /\ cpu' = "run"
          /\ UNCHANGED <<txq, not_full, writer, thr, thre>>
  /\ UNCHANGED <<mode, buffer, not_empty, reader, byte, key, rbr, given, offs>>
-----------------------------------------------------------------------------
(* The UART *)

Arrive(b) ==
  /\ rbr' = b
  /\ UNCHANGED <<mode, buffer, txq, not_empty, not_full, threadVars, thr, thre, ier, cpu, given, offs>>

Sent ==
  /\ ~thre /\ thre' = TRUE
  /\ UNCHANGED <<mode, buffer, txq, not_empty, not_full, threadVars, rbr, thr, ier, cpu, given, offs>>

Handler == Interrupt \/ InterruptRecv \/ InterruptXmit

Next ==
  \/ \E b \in Bytes : PutcPoll(b) \/ Putc(b) \/ PutcOffEnd(b) \/ Key(b) \/ Arrive(b)
  \/ serial_init_queue \/ PutcOff \/ PutcStep \/ Flush
  \/ Getc \/ GetcStep \/ Handler \/ Sent

Spec == Init /\ [][Next]_vars
-----------------------------------------------------------------------------
\* The bytes in a queue, oldest first.
Contents(q) ==
  [i \in 1 .. (q.head + INTQ_BUFSIZE - q.tail) % INTQ_BUFSIZE |->
     q.buf[(q.tail + i - 1) % INTQ_BUFSIZE]]

Input == INSTANCE Fifo WITH
  Capacity <- INTQ_BUFSIZE - 1, queue <- Contents(buffer), taken <- key

Output == INSTANCE Fifo WITH
  Capacity <- INTQ_BUFSIZE - 1, queue <- Contents(txq),
  taken <- thr

\* input_getc() returns the keys that the two handlers put, in their order, and
\* the port gets the bytes that serial_putc() queued, in theirs, also when some
\* are polled out because interrupts are off.
QueuesAreFifos ==
  /\ Input!Spec
  /\ [][mode = "QUEUE" => Output!Next]_<<Contents(txq), thr>>

\* Every variable has its type.  The thread that intq records is the one that
\* sleeps, and it sleeps only while it has to: every putc and getc in between
\* has woken it.  While interrupts are on, the port may interrupt for every byte
\* that waits to be sent, and for every byte that there is room to receive.
NoLostWakeup ==
  /\ TypeOK
  /\ reader = "blocked" <=> not_empty
  /\ writer = "blocked" <=> not_full
  /\ not_empty => intq_empty(buffer)
  /\ not_full => intq_full(txq)
  /\ cpu = "run" /\ mode = "QUEUE" =>
       /\ ~intq_empty(txq) => "xmit" \in ier
       /\ ~intq_full(buffer) => "recv" \in ier
=============================================================================
