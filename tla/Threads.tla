------------------------------ MODULE Threads ------------------------------
(***************************************************************************)
(* The scheduler of threads/thread.c: a uniprocessor, a FIFO run queue and *)
(* a time slice.  Every operation below runs with interrupts off in the    *)
(* code, up to and including thread_schedule_tail() on the stack of the    *)
(* thread switched to, so each is one atomic update of the state.          *)
(*                                                                         *)
(* The operations are actions over this module's variables only; Synch     *)
(* composes them with semaphores, locks, conditions and the threads'       *)
(* control.                                                                *)
(***************************************************************************)
EXTENDS Naturals, Sequences, Functions

CONSTANTS
  Main,       \* initial_thread, the thread that runs init.c:main()
  Idle,       \* the thread created by thread_start() to run idle()
  Pages,      \* pages palloc_get_page() may hand out for other threads
  NoThread,   \* the null pointer
  TIME_SLICE  \* timer ticks given to each thread

ASSUME ThreadsAssumption ==
  /\ Main # Idle
  /\ {Main, Idle} \cap Pages = {}
  /\ NoThread \notin {Main, Idle} \cup Pages
  /\ TIME_SLICE \in Nat \ {0}

Thread == {Main, Idle} \cup Pages

\* "FREE": the page holds no thread.  The others are enum thread_status.
Status == {"FREE", "BLOCKED", "READY", "RUNNING", "DYING"}

VARIABLES
  status,        \* status[t], struct thread's status
  ready_list,    \* threads ready to run, in FIFO order
  cur,           \* running_thread(), from the stack pointer
  idle_thread,   \* NoThread until idle() has set it
  thread_ticks   \* timer ticks since the last switch

schedVars == <<status, ready_list, cur, idle_thread, thread_ticks>>

SchedTypeOK ==
  /\ status \in [Thread -> Status]
  /\ ready_list \in Seq(Thread)
  /\ cur \in Thread
  /\ idle_thread \in {NoThread, Idle}
  /\ thread_ticks \in 0 .. TIME_SLICE - 1

\* After thread_init(): only the initial thread exists, and it is running.
SchedInit ==
  /\ status = [t \in Thread |-> IF t = Main THEN "RUNNING" ELSE "FREE"]
  /\ ready_list = <<>>
  /\ cur = Main
  /\ idle_thread = NoThread
  /\ thread_ticks = 0
-----------------------------------------------------------------------------
next_thread_to_run(queue) == IF queue = <<>> THEN idle_thread ELSE Head(queue)

\* thread_schedule_tail() frees the page of a thread that died, except the
\* initial thread's, which palloc did not hand out.
Reap(st) ==
  [t \in Thread |-> IF st[t] = "DYING" /\ t # Main THEN "FREE" ELSE st[t]]

\* schedule() and thread_schedule_tail(), entered with the run queue queue and
\* the statuses st, in which the current thread no longer runs.
schedule(queue, st) ==
  LET next == next_thread_to_run(queue)
  IN  /\ cur' = next
      /\ ready_list' = IF queue = <<>> THEN queue ELSE Tail(queue)
      /\ status' = [Reap(st) EXCEPT ![next] = "RUNNING"]
      /\ thread_ticks' = 0

thread_block == schedule(ready_list, [status EXCEPT ![cur] = "BLOCKED"])

thread_unblock(t) ==
  /\ ready_list' = Append(ready_list, t)
  /\ status' = [status EXCEPT ![t] = "READY"]

\* Yielding that pushes to the front of the run queue.
thread_yield_front ==
  schedule(IF cur # idle_thread THEN <<cur>> \o ready_list ELSE ready_list,
           [status EXCEPT ![cur] = "READY"])

thread_yield ==
  schedule(IF cur # idle_thread THEN Append(ready_list, cur) ELSE ready_list,
           [status EXCEPT ![cur] = "READY"])

\* The end of thread_exit().
thread_die == schedule(ready_list, [status EXCEPT ![cur] = "DYING"])

\* thread_tick(), and the thread_yield() that intr_handler() runs when
\* thread_tick() asked for it.
thread_tick ==
  IF thread_ticks + 1 >= TIME_SLICE
  THEN thread_yield
  ELSE /\ thread_ticks' = thread_ticks + 1
       /\ UNCHANGED <<status, ready_list, cur>>
=============================================================================
