----------------------------- MODULE Interrupts -----------------------------
(***************************************************************************)
(* threads/interrupt.c: how faults, system calls and external interrupts   *)
(* enter the kernel, nest and leave it, on one processor with two 8259A    *)
(* interrupt controllers, among threads that the scheduler switches.       *)
(*                                                                         *)
(* A thread's kernel stack holds a frame for every interrupt it is in.     *)
(***************************************************************************)
EXTENDS Naturals, Sequences

CONSTANTS
  Tasks,       \* threads
  External,    \* external vectors, 0x20 .. 0x2f without the cascade's
  Trap,        \* internal vectors registered with INTR_ON
  Fault,       \* internal vectors registered with INTR_OFF
  MaxFrames    \* bound on the frames of two threads when one takes an internal interrupt

Cascade == 34  \* the master's input that the slave is connected to

ASSUME InterruptsAssumption ==
  /\ External \subseteq (32 .. 47) \ {Cascade}
  /\ Trap \subseteq Nat \ (32 .. 47) /\ Fault \subseteq Nat \ (32 .. 47)
  /\ Trap \cap Fault = {}
  /\ MaxFrames \in Nat

VARIABLES
  level,             \* the processor's interrupt flag, "ON" or "OFF"
  in_external_intr,
  yield_on_return,
  handlers,          \* the vectors with a handler
  in_service,        \* the controllers' inputs in service, by their vectors
  task,              \* the thread that runs
  frames,            \* frames[t]: [vec, level, at], innermost last
  old_level,         \* old_level[t], what thread_yield() of t restores
  asserted           \* whether an ASSERT has failed

intrVars == <<level, in_external_intr, yield_on_return, handlers, in_service,
              task, frames, old_level, asserted>>

Levels == {"ON", "OFF"}
Frame == [vec : External \cup Trap \cup Fault, level : Levels,
          at : {"handler", "yield", "iret"}]

InterruptsTypeOK ==
  /\ level \in Levels
  /\ {in_external_intr, yield_on_return, asserted} \subseteq BOOLEAN
  /\ handlers \subseteq External \cup Trap \cup Fault
  /\ in_service \subseteq External \cup {Cascade}
  /\ task \in Tasks
  /\ frames \in [Tasks -> Seq(Frame)]
  /\ old_level \in [Tasks -> Levels]

\* The vectors of exception_init() and syscall_init().
intr_register_int == Trap \cup Fault

\* After exception_init() and syscall_init(), with interrupts still off.  A
\* thread that has not run enables them first, in kernel_thread().
InterruptsInit ==
  /\ level = "OFF"
  /\ in_external_intr = FALSE /\ yield_on_return = FALSE
  /\ handlers = intr_register_int /\ in_service = {}
  /\ task \in Tasks
  /\ frames = [t \in Tasks |-> <<>>]
  /\ old_level = [t \in Tasks |-> "ON"]
  /\ asserted = FALSE

Top == frames[task][Len(frames[task])]
Inside == frames[task] # <<>>
TopAt(label) == Inside /\ Top.at = label
Moved(label) == [frames EXCEPT ![task][Len(frames[task])].at = label]
Popped == [frames EXCEPT ![task] = SubSeq(@, 1, Len(@) - 1)]
Pushed(v) == [frames EXCEPT ![task] = Append(@, [vec |-> v, level |-> level, at |-> "handler"])]

\* The code of a thread runs, or that of an internal handler.
ThreadContext == Inside => Top.at = "handler" /\ Top.vec \notin External
-----------------------------------------------------------------------------
(* The interrupt controllers.  At each a lower vector has priority, and an  *)
(* end of interrupt is for the input in service that has most.  The slave's *)
(* interrupts are in service at both.                                       *)

Master == 32 .. 39
Slave == 40 .. 47
Inputs(v) == IF v \in Slave THEN {Cascade, v} ELSE {v}

Admitted(v) ==
  \A i \in Inputs(v), w \in in_service : (i \in Slave <=> w \in Slave) => i < w

Acknowledged(pic, inputs) ==
  {w \in inputs : w \in pic => \E v \in inputs : v \in pic /\ v < w}

pic_end_of_interrupt(irq) ==
  LET acked == Acknowledged(Master, in_service)
  IN  IF irq >= 40 THEN Acknowledged(Slave, acked) ELSE acked
-----------------------------------------------------------------------------
\* intr_register_ext(), by a driver that starts, also after thread_start().
register_handler(v) ==
  /\ ThreadContext /\ v \notin handlers
  /\ handlers' = handlers \cup {v}
  /\ UNCHANGED <<level, in_external_intr, yield_on_return, in_service, task, frames, old_level, asserted>>

\* intr_enable(), of thread_start(), page_fault() or intr_set_level().
intr_enable ==
  /\ ThreadContext /\ level = "OFF"
  /\ level' = "ON"
  /\ asserted' = (asserted \/ in_external_intr)
  /\ UNCHANGED <<in_external_intr, yield_on_return, handlers, in_service, task, frames, old_level>>

intr_disable ==
  /\ ThreadContext /\ level = "ON"
  /\ level' = "OFF"
  /\ UNCHANGED <<in_external_intr, yield_on_return, handlers, in_service, task, frames, old_level, asserted>>

\* intr_handler() of an external interrupt, through its interrupt gate.
ExternalInterrupt(v) ==
  /\ level = "ON" /\ Admitted(v)
  /\ in_service' = in_service \cup Inputs(v)
  /\ frames' = Pushed(v)
  /\ level' = "OFF"
  /\ asserted' = (asserted \/ in_external_intr)
  /\ in_external_intr' = TRUE
  /\ yield_on_return' = FALSE
  /\ UNCHANGED <<handlers, task, old_level>>

\* intr_handler() of a fault or system call, through the gate that
\* register_handler() made: a trap gate leaves interrupts as they are.
InternalInterrupt(v) ==
  /\ ThreadContext /\ v \in handlers
  /\ \A t \in Tasks \ {task} : Len(frames[task]) + Len(frames[t]) < MaxFrames
  /\ frames' = Pushed(v)
  /\ level' = IF v \in Trap THEN level ELSE "OFF"
  /\ UNCHANGED <<in_external_intr, yield_on_return, handlers, in_service, task, old_level, asserted>>

\* An external handler wants a thread switch, as thread_tick() does.
intr_yield_on_return ==
  /\ TopAt("handler") /\ Top.vec \in External /\ Top.vec \in handlers
  /\ ~yield_on_return
  /\ yield_on_return' = TRUE
  /\ asserted' = (asserted \/ ~in_external_intr)
  /\ UNCHANGED <<level, in_external_intr, handlers, in_service, task, frames, old_level>>

\* Ending the interrupt only when no switch follows.
CompleteExternal_late ==
  /\ TopAt("handler") /\ Top.vec \in External
  /\ asserted' = (asserted \/ level # "OFF" \/ ~in_external_intr)
  /\ in_external_intr' = FALSE
  /\ in_service' = IF yield_on_return THEN in_service ELSE pic_end_of_interrupt(Top.vec)
  /\ frames' = Moved(IF yield_on_return THEN "yield" ELSE "iret")
  /\ UNCHANGED <<level, yield_on_return, handlers, task, old_level>>

\* The handler has returned, or there was none.
CompleteExternal ==
  /\ TopAt("handler") /\ Top.vec \in External
  /\ asserted' = (asserted \/ level # "OFF" \/ ~in_external_intr)
  /\ in_external_intr' = FALSE
  /\ in_service' = pic_end_of_interrupt(Top.vec)
  /\ frames' = Moved(IF yield_on_return THEN "yield" ELSE "iret")
  /\ UNCHANGED <<level, yield_on_return, handlers, task, old_level>>

CompleteInternal ==
  /\ TopAt("handler") /\ Top.vec \notin External
  /\ frames' = Moved("iret")
  /\ UNCHANGED <<level, in_external_intr, yield_on_return, handlers, in_service, task, old_level, asserted>>

\* thread_yield(), by a thread or before an external interrupt returns: the
\* thread switched to restores the level it had in its own thread_yield().
thread_yield_to(u) ==
  /\ ThreadContext \/ TopAt("yield")
  /\ u # task
  /\ asserted' = (asserted \/ in_external_intr)
  /\ old_level' = [old_level EXCEPT ![task] = level]
  /\ frames' = IF TopAt("yield") THEN Moved("iret") ELSE frames
  /\ task' = u
  /\ level' = old_level[u]
  /\ UNCHANGED <<in_external_intr, yield_on_return, handlers, in_service>>

\* intr_exit in intr-stubs.S: the flags are restored with the frame.
iret ==
  /\ TopAt("iret")
  /\ level' = Top.level
  /\ frames' = Popped
  /\ UNCHANGED <<in_external_intr, yield_on_return, handlers, in_service, task, old_level, asserted>>

InterruptsNext ==
  \/ \E v \in External : register_handler(v)
  \/ \E v \in External : ExternalInterrupt(v)
  \/ \E v \in Trap \cup Fault : InternalInterrupt(v)
  \/ intr_enable \/ intr_disable \/ intr_yield_on_return
  \/ CompleteExternal \/ CompleteInternal \/ iret
  \/ \E u \in Tasks : thread_yield_to(u)

InterruptsSpec == InterruptsInit /\ [][InterruptsNext]_intrVars
-----------------------------------------------------------------------------
\* External interrupts are handled one at a time: no ASSERT of interrupt.c
\* fails, in_external_intr tells truly whether the innermost frame of the
\* running thread is an external handler, no thread that was switched away is
\* in one, and the controllers have an interrupt in service exactly while its
\* handler runs, so that no other thread runs with the timer held back.
ExternalsSerial ==
  /\ InterruptsTypeOK
  /\ ~asserted
  /\ in_external_intr <=> TopAt("handler") /\ Top.vec \in External
  /\ in_service = IF in_external_intr THEN Inputs(Top.vec) ELSE {}
  /\ \A t \in Tasks : \A i \in 1 .. Len(frames[t]) :
       frames[t][i].vec \in External /\ frames[t][i].at = "handler" =>
         t = task /\ i = Len(frames[t])
=============================================================================
