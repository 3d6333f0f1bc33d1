------------------------------- MODULE Synch -------------------------------
(***************************************************************************)
(* threads/synch.c over the scheduler of Threads: counting semaphores,     *)
(* locks and condition variables, used by any number of threads that are   *)
(* created, preempted and destroyed while they do so.                      *)
(*                                                                         *)
(* One step is what the code does with interrupts off.  Between two steps  *)
(* an interrupt may arrive, so lock_acquire(), which sets the holder after *)
(* sema_down() has returned, takes two steps, lock_release() two,          *)
(* cond_wait() at least five.  Thread t is at label pc[t] of the primitive *)
(* it is in, on object on[t], and continues at label ret[t] after it.      *)
(* Threads outside a primitive may call any one whose ASSERTs they meet.   *)
(***************************************************************************)
EXTENDS Threads, FiniteSets

CONSTANTS
  Semas,        \* semaphores shared by threads and interrupt handlers
  Locks,        \* locks, tid_lock among them
  TidLock,      \* tid_lock
  Conds,        \* condition variables
  LockOf,       \* LockOf[c], the lock that protects condition c
  IdleStarted,  \* thread_start()'s semaphore idle_started
  MaxValue,     \* bound: no client calls sema_up() on a larger value
  MaxTid        \* bound: no thread_create() that could exceed this tid

ASSUME SynchAssumption ==
  /\ TidLock \in Locks
  /\ LockOf \in [Conds -> Locks \ {TidLock}]
  /\ Semas \cap Locks = {}
  /\ (Semas \cup Locks) \cap (Thread \cup Conds) = {}
  /\ Conds \cap Thread = {}
  /\ IdleStarted \notin Semas \cup Locks \cup Conds \cup Thread
  /\ NoThread \notin Semas \cup Locks \cup Conds \cup {IdleStarted}
  /\ MaxValue \in Nat
  /\ MaxTid \in Nat

\* Memory is finite, and so are the threads there can be at once.
ASSUME PagesFinite == IsFiniteSet(Pages)

\* A lock stands for its semaphore, a thread for the one in the
\* semaphore_elem that its cond_wait() keeps on its stack.
Sema == Semas \cup Locks \cup Thread \cup {IdleStarted}

Label == {"start", "run", "down", "acquire", "own", "release",
          "cond_up", "cond_down", "broadcast",
          "tid_read", "tid_write", "unblock",
          "idle_init", "idle_up", "idle_block", "idle_halt"}

VARIABLES
  value,         \* value[s], struct semaphore's value
  waiters,       \* waiters[s], struct semaphore's list of threads
  holder,        \* holder[l], struct lock's holder
  cond_waiters,  \* cond_waiters[c], threads whose semaphore_elem is listed
  pc, on, ret,   \* the threads' control
  new,           \* new[t], the thread that t's thread_create() is making
  tid,           \* tid[t], 0 before allocate_tid()
  next_tid       \* allocate_tid()'s static counter

objVars == <<value, waiters, holder, cond_waiters>>
ctlVars == <<pc, on, ret>>
tidVars == <<new, tid, next_tid>>
vars == <<schedVars, objVars, ctlVars, tidVars>>

Goto(t, label, obj, next) ==
  /\ pc' = [pc EXCEPT ![t] = label]
  /\ on' = [on EXCEPT ![t] = obj]
  /\ ret' = [ret EXCEPT ![t] = next]

Resume(t, label) == Goto(t, label, NoThread, "run")

\* Thread t executes at label.
At(t, label) == cur = t /\ pc[t] = label

Init ==
  /\ SchedInit
  /\ value = [s \in Sema |-> IF s \in Locks THEN 1 ELSE 0]
  /\ waiters = [s \in Sema |-> <<>>]
  /\ holder = [l \in Locks |-> NoThread]
  /\ cond_waiters = [c \in Conds |-> <<>>]
  /\ pc = [t \in Thread |-> IF t = Main THEN "start"
                            ELSE IF t = Idle THEN "idle_init" ELSE "run"]
  /\ on = [t \in Thread |-> NoThread]
  /\ ret = [t \in Thread |-> "run"]
  /\ new = [t \in Thread |-> NoThread]
  /\ tid = [t \in Thread |-> IF t = Main THEN 1 ELSE 0]
  /\ next_tid = 2
-----------------------------------------------------------------------------
(* Semaphores *)

\* sema_up() that wakes a thread only when no value is pending.
sema_up_lazy(s) ==
  /\ value' = [value EXCEPT ![s] = @ + 1]
  /\ IF waiters[s] = <<>> \/ value[s] > 0
     THEN UNCHANGED <<waiters, ready_list, status>>
     ELSE /\ waiters' = [waiters EXCEPT ![s] = Tail(@)]
          /\ thread_unblock(Head(waiters[s]))

\* sema_up() that leaves the thread it wakes on the list of waiters.
sema_up_no_pop(s) ==
  /\ value' = [value EXCEPT ![s] = @ + 1]
  /\ waiters' = waiters
  /\ IF waiters[s] = <<>>
     THEN UNCHANGED <<ready_list, status>>
     ELSE thread_unblock(Head(waiters[s]))

sema_up(s) ==
  /\ value' = [value EXCEPT ![s] = @ + 1]
  /\ IF waiters[s] = <<>>
     THEN UNCHANGED <<waiters, ready_list, status>>
     ELSE /\ waiters' = [waiters EXCEPT ![s] = Tail(@)]
          /\ thread_unblock(Head(waiters[s]))

\* One turn of sema_down()'s loop by the running thread t: it waits and will
\* take another turn when woken, or it takes the value and goes to label.
sema_down(t, s, label, obj, next) ==
  \/ /\ value[s] = 0
     /\ waiters' = [waiters EXCEPT ![s] = Append(@, t)]
     /\ thread_block
     /\ UNCHANGED <<value, ctlVars>>
  \/ /\ value[s] > 0
     /\ value' = [value EXCEPT ![s] = @ - 1]
     /\ Goto(t, label, obj, next)
     /\ UNCHANGED <<waiters, status, ready_list, cur, thread_ticks>>

\* A thread calls sema_down(s): no state changes before the loop.
SemaDown(t, s) ==
  /\ At(t, "run")
  /\ Goto(t, "down", s, "run")
  /\ UNCHANGED <<schedVars, objVars, tidVars>>

SemaDownLoop(t) ==
  /\ At(t, "down")
  /\ sema_down(t, on[t], ret[t], NoThread, "run")
  /\ UNCHANGED <<holder, cond_waiters, idle_thread, tidVars>>

\* A successful sema_try_down(); a failing one changes nothing.
SemaTryDown(t, s) ==
  /\ At(t, "run")
  /\ value[s] > 0
  /\ value' = [value EXCEPT ![s] = @ - 1]
  /\ UNCHANGED <<schedVars, waiters, holder, cond_waiters, ctlVars, tidVars>>

SemaUp(t, s) ==
  /\ At(t, "run")
  /\ value[s] < MaxValue
  /\ sema_up(s)
  /\ UNCHANGED <<cur, idle_thread, thread_ticks, holder, cond_waiters, ctlVars, tidVars>>
-----------------------------------------------------------------------------
(* Locks *)

\* lock_acquire() enters sema_down() when the caller does not hold the lock.
LockAcquire(t, l) ==
  /\ At(t, "run")
  /\ holder[l] # t
  /\ Goto(t, "acquire", l, "run")
  /\ UNCHANGED <<schedVars, objVars, tidVars>>

LockAcquireLoop(t) ==
  /\ At(t, "acquire")
  /\ sema_down(t, on[t], "own", on[t], ret[t])
  /\ UNCHANGED <<holder, cond_waiters, idle_thread, tidVars>>

\* The semaphore is down: the holder is set.
LockOwn(t) ==
  /\ At(t, "own")
  /\ holder' = [holder EXCEPT ![on[t]] = t]
  /\ Resume(t, ret[t])
  /\ UNCHANGED <<schedVars, value, waiters, cond_waiters, tidVars>>

\* lock_try_acquire() that ignores sema_try_down()'s result.
LockTryAcquire_always(t, l) ==
  /\ At(t, "run")
  /\ holder[l] # t
  /\ value' = [value EXCEPT ![l] = 0]
  /\ Goto(t, "own", l, "run")
  /\ UNCHANGED <<schedVars, waiters, holder, cond_waiters, tidVars>>

\* A successful lock_try_acquire(), up to the return of sema_try_down().
LockTryAcquire(t, l) ==
  /\ At(t, "run")
  /\ holder[l] # t
  /\ value[l] > 0
  /\ value' = [value EXCEPT ![l] = @ - 1]
  /\ Goto(t, "own", l, "run")
  /\ UNCHANGED <<schedVars, waiters, holder, cond_waiters, tidVars>>

\* lock_release() without ASSERT (lock_held_by_current_thread (lock)).
LockRelease_any(t, l) ==
  /\ At(t, "run")
  /\ holder[l] # NoThread
  /\ holder' = [holder EXCEPT ![l] = NoThread]
  /\ Goto(t, "release", l, "run")
  /\ UNCHANGED <<schedVars, value, waiters, cond_waiters, tidVars>>

\* lock_release() clears the holder, then calls sema_up().
LockRelease(t, l) ==
  /\ At(t, "run")
  /\ holder[l] = t
  /\ holder' = [holder EXCEPT ![l] = NoThread]
  /\ Goto(t, "release", l, "run")
  /\ UNCHANGED <<schedVars, value, waiters, cond_waiters, tidVars>>

LockReleaseUp(t) ==
  /\ At(t, "release")
  /\ sema_up(on[t])
  /\ Resume(t, ret[t])
  /\ UNCHANGED <<cur, idle_thread, thread_ticks, holder, cond_waiters, tidVars>>
-----------------------------------------------------------------------------
(* Condition variables *)

\* cond_wait(): the caller, who holds the lock, lists its own semaphore and
\* clears the holder.  Only a holder of the lock touches either, so the two
\* statements are one step.
CondWait(t, c) ==
  /\ At(t, "run")
  /\ holder[LockOf[c]] = t
  /\ value' = [value EXCEPT ![t] = 0]
  /\ cond_waiters' = [cond_waiters EXCEPT ![c] = Append(@, t)]
  /\ holder' = [holder EXCEPT ![LockOf[c]] = NoThread]
  /\ Goto(t, "cond_up", c, "run")
  /\ UNCHANGED <<schedVars, waiters, tidVars>>

CondWaitUp(t) ==
  /\ At(t, "cond_up")
  /\ sema_up(LockOf[on[t]])
  /\ Goto(t, "cond_down", on[t], "run")
  /\ UNCHANGED <<cur, idle_thread, thread_ticks, holder, cond_waiters, tidVars>>

\* Downs the private semaphore, then goes on to lock_acquire().
CondWaitDown(t) ==
  /\ At(t, "cond_down")
  /\ sema_down(t, t, "acquire", LockOf[on[t]], "run")
  /\ UNCHANGED <<holder, cond_waiters, idle_thread, tidVars>>

\* Signalling that pops a waiter but ups no semaphore.
signal_first_lost(c) ==
  /\ cond_waiters' = [cond_waiters EXCEPT ![c] = Tail(@)]
  /\ UNCHANGED <<value, waiters, ready_list, status>>

\* The body of cond_signal() when a thread is listed.
signal_first(c) ==
  /\ cond_waiters' = [cond_waiters EXCEPT ![c] = Tail(@)]
  /\ sema_up(Head(cond_waiters[c]))

CondSignal(t, c) ==
  /\ At(t, "run")
  /\ holder[LockOf[c]] = t
  /\ cond_waiters[c] # <<>>
  /\ signal_first(c)
  /\ UNCHANGED <<cur, idle_thread, thread_ticks, holder, ctlVars, tidVars>>

\* cond_broadcast(): cond_signal() until no thread is listed.  A thread may
\* be preempted between two signals.
CondBroadcast(t, c) ==
  /\ At(t, "run")
  /\ holder[LockOf[c]] = t
  /\ Goto(t, "broadcast", c, "run")
  /\ UNCHANGED <<schedVars, objVars, tidVars>>

CondBroadcastLoop(t) ==
  /\ At(t, "broadcast")
  /\ \/ /\ cond_waiters[on[t]] # <<>>
        /\ signal_first(on[t])
        /\ UNCHANGED <<cur, idle_thread, thread_ticks, holder, ctlVars, tidVars>>
     \/ /\ cond_waiters[on[t]] = <<>>
        /\ Resume(t, "run")
        /\ UNCHANGED <<schedVars, objVars, tidVars>>
-----------------------------------------------------------------------------
(* Threads *)

\* thread_start(), up to its sema_down(): with interrupts still off it makes
\* the idle thread, so allocate_tid() is not interrupted.
ThreadStart ==
  /\ At(Main, "start")
  /\ thread_unblock(Idle)
  /\ tid' = [tid EXCEPT ![Idle] = next_tid]
  /\ next_tid' = next_tid + 1
  /\ Goto(Main, "down", IdleStarted, "run")
  /\ UNCHANGED <<cur, idle_thread, thread_ticks, objVars, new>>

Creating == {t \in Thread : new[t] # NoThread}

\* A thread_create() whose allocate_tid() does not acquire tid_lock.
ThreadCreate_unlocked(t, page) ==
  /\ At(t, "run")
  /\ status[page] = "FREE"
  /\ next_tid + Cardinality(Creating) <= MaxTid
  /\ status' = [status EXCEPT ![page] = "BLOCKED"]
  /\ tid' = [tid EXCEPT ![page] = 0]
  /\ new' = [new EXCEPT ![t] = page]
  /\ Resume(t, "tid_read")
  /\ UNCHANGED <<ready_list, cur, idle_thread, thread_ticks, objVars, next_tid>>

\* thread_create() found a page: init_thread(), then allocate_tid().
ThreadCreate(t, page) ==
  /\ At(t, "run")
  /\ status[page] = "FREE"
  /\ next_tid + Cardinality(Creating) <= MaxTid
  /\ status' = [status EXCEPT ![page] = "BLOCKED"]
  /\ tid' = [tid EXCEPT ![page] = 0]
  /\ new' = [new EXCEPT ![t] = page]
  /\ Goto(t, "acquire", TidLock, "tid_read")
  /\ UNCHANGED <<ready_list, cur, idle_thread, thread_ticks, objVars, next_tid>>

\* allocate_tid()'s tid = next_tid++ as the load and the store it compiles to.
TidRead(t) ==
  /\ At(t, "tid_read")
  /\ tid' = [tid EXCEPT ![new[t]] = next_tid]
  /\ Resume(t, "tid_write")
  /\ UNCHANGED <<schedVars, objVars, new, next_tid>>

\* The store, and the first statement of the lock_release() after it.
TidWrite(t) ==
  /\ At(t, "tid_write")
  /\ next_tid' = tid[new[t]] + 1
  /\ holder' = [holder EXCEPT ![TidLock] = NoThread]
  /\ Goto(t, "release", TidLock, "unblock")
  /\ UNCHANGED <<schedVars, value, waiters, cond_waiters, new, tid>>

\* The end of thread_create(): the new thread may run.
ThreadCreated(t) ==
  /\ At(t, "unblock")
  /\ thread_unblock(new[t])
  /\ new' = [new EXCEPT ![t] = NoThread]
  /\ Resume(t, "run")
  /\ UNCHANGED <<cur, idle_thread, thread_ticks, objVars, tid, next_tid>>

ThreadYield(t) ==
  /\ At(t, "run")
  /\ thread_yield
  /\ UNCHANGED <<idle_thread, objVars, ctlVars, tidVars>>

\* Nothing in thread_exit() looks at the locks the thread holds.
ThreadExit(t) ==
  /\ At(t, "run")
  /\ thread_die
  /\ UNCHANGED <<idle_thread, objVars, ctlVars, tidVars>>

IdleInit ==
  /\ At(Idle, "idle_init")
  /\ idle_thread' = Idle
  /\ Resume(Idle, "idle_up")
  /\ UNCHANGED <<status, ready_list, cur, thread_ticks, objVars, tidVars>>

IdleUp ==
  /\ At(Idle, "idle_up")
  /\ sema_up(IdleStarted)
  /\ Resume(Idle, "idle_block")
  /\ UNCHANGED <<cur, idle_thread, thread_ticks, holder, cond_waiters, tidVars>>

\* thread_block() in idle()'s loop; when idle runs again it halts.
IdleBlock ==
  /\ At(Idle, "idle_block")
  /\ thread_block
  /\ Resume(Idle, "idle_halt")
  /\ UNCHANGED <<idle_thread, objVars, tidVars>>

\* Any interrupt takes the halted CPU back to the top of idle()'s loop.
WakeCPU ==
  /\ pc' = IF At(Idle, "idle_halt") THEN [pc EXCEPT ![Idle] = "idle_block"] ELSE pc
  /\ UNCHANGED <<on, ret>>

\* Interrupts are off before thread_start() enables them.
TimerInterrupt ==
  /\ pc[Main] # "start"
  /\ thread_tick
  /\ WakeCPU
  /\ UNCHANGED <<idle_thread, objVars, tidVars>>

\* A device's handler ups a semaphore, as the IDE's does.
DeviceInterrupt(s) ==
  /\ pc[Main] # "start"
  /\ value[s] < MaxValue
  /\ sema_up(s)
  /\ WakeCPU
  /\ UNCHANGED <<cur, idle_thread, thread_ticks, holder, cond_waiters, tidVars>>
-----------------------------------------------------------------------------
\* The calls a thread outside every primitive may make.
Call(t) ==
  \/ \E s \in Semas : SemaDown(t, s) \/ SemaTryDown(t, s) \/ SemaUp(t, s)
  \/ \E l \in Locks \ {TidLock} :
        LockAcquire(t, l) \/ LockTryAcquire(t, l) \/ LockRelease(t, l)
  \/ \E c \in Conds : CondWait(t, c) \/ CondSignal(t, c) \/ CondBroadcast(t, c)
  \/ \E page \in Pages : ThreadCreate(t, page)
  \/ ThreadYield(t)
  \/ ThreadExit(t)

\* The steps of a primitive the thread is in.
Continue(t) ==
  \/ SemaDownLoop(t)
  \/ LockAcquireLoop(t) \/ LockOwn(t) \/ LockReleaseUp(t)
  \/ CondWaitUp(t) \/ CondWaitDown(t) \/ CondBroadcastLoop(t)
  \/ TidRead(t) \/ TidWrite(t) \/ ThreadCreated(t)

IdleStep == IdleInit \/ IdleUp \/ IdleBlock

Next ==
  \/ ThreadStart
  \/ \E t \in Thread \ {Idle} : Call(t) \/ Continue(t)
  \/ IdleStep
  \/ TimerInterrupt
  \/ \E s \in Semas : DeviceInterrupt(s)

Spec == Init /\ [][Next]_vars

\* The timer keeps ticking, and a thread that runs again and again finishes
\* the kernel primitive it is in: the time slice is longer than one step.
\* Nothing is assumed of the calls threads make outside primitives.
Fairness ==
  /\ WF_vars(ThreadStart)
  /\ WF_vars(TimerInterrupt)
  /\ SF_vars(IdleStep)
  /\ \A t \in Thread \ {Idle} : SF_vars(Continue(t))

FairSpec == Spec /\ Fairness
-----------------------------------------------------------------------------
(* Properties *)

\* Type invariant.  cur is a thread: next_thread_to_run() never returns the
\* null idle_thread, so schedule()'s ASSERT (is_thread (next)) holds, also
\* while idle() has not yet stored idle_thread.
TypeOK ==
  /\ SchedTypeOK
  /\ value \in [Sema -> Nat]
  /\ waiters \in [Sema -> Seq(Thread)]
  /\ holder \in [Locks -> Thread \cup {NoThread}]
  /\ cond_waiters \in [Conds -> Seq(Thread)]
  /\ pc \in [Thread -> Label]
  /\ on \in [Thread -> Sema \cup Conds \cup {NoThread}]
  /\ ret \in [Thread -> Label]
  /\ new \in [Thread -> Pages \cup {NoThread}]
  /\ tid \in [Thread -> Nat]
  /\ next_tid \in Nat

\* The semaphore whose sema_down() thread t is in.
WaitsOn(t) ==
  CASE pc[t] \in {"down", "acquire"} -> on[t]
    [] pc[t] = "cond_down" -> t
    [] OTHER -> NoThread

\* Where a thread's control may be: which object each label is on, where a
\* lock primitive continues, and when a thread is inside thread_create().
ControlOK ==
  \A t \in Thread :
    /\ pc[t] = "down" => on[t] \in Semas \cup {IdleStarted}
    /\ pc[t] \in {"acquire", "own", "release"} => on[t] \in Locks
    /\ pc[t] \in {"cond_up", "cond_down", "broadcast"} => on[t] \in Conds
    /\ ret[t] # "run" <=> pc[t] \in {"acquire", "own", "release"} /\ on[t] = TidLock
    /\ pc[t] \in {"acquire", "own"} => ret[t] \in {"run", "tid_read"}
    /\ pc[t] = "release" => ret[t] \in {"run", "unblock"}
    /\ new[t] # NoThread <=>
         ret[t] # "run" \/ pc[t] \in {"tid_read", "tid_write", "unblock"}
    /\ t = Idle <=> pc[t] \in {"idle_init", "idle_up", "idle_block", "idle_halt"}
    /\ pc[t] = "start" => t = Main /\ cur = Main

\* Until idle() has stored idle_thread, the idle thread is running or on the
\* run queue, so that schedule() finds a thread.
BootOK ==
  idle_thread = NoThread =>
    /\ pc[Idle] = "idle_init"
    /\ pc[Main] # "start" => cur = Idle \/ Idle \in Range(ready_list)

Newborn(t) == \E u \in Thread : new[u] = t

Distinct(queue) ==
  \A i, j \in 1 .. Len(queue) : queue[i] = queue[j] => i = j

\* thread.h: the list element of a thread serves the run queue and the wait
\* lists because "only a thread in the ready state is on the run queue,
\* whereas only a thread in the blocked state is on a semaphore wait list".
\* A thread is on at most one list, once; a ready one (not idle) is on the
\* run queue; a blocked one is on the list of the semaphore it is downing,
\* unless it is idle or still being created; exactly cur is running.  Hence
\* thread_unblock()'s ASSERT (t->status == THREAD_BLOCKED) never fails.  And
\* every variable has its type: there always is a thread to run.
QueuesMatchStatus ==
  /\ TypeOK
  /\ Distinct(ready_list)
  /\ \A s \in Sema : Distinct(waiters[s])
  /\ \A t \in Thread :
       /\ t \in Range(ready_list) <=> status[t] = "READY" /\ t # idle_thread
       /\ \A s \in Sema :
            t \in Range(waiters[s]) => status[t] = "BLOCKED" /\ WaitsOn(t) = s
       /\ status[t] = "BLOCKED" /\ t # Idle /\ ~Newborn(t) =>
            WaitsOn(t) \in Sema /\ t \in Range(waiters[WaitsOn(t)])
       /\ status[t] = "RUNNING" <=> t = cur

\* Thread t has downed lock l's semaphore and not upped it again.  A thread
\* that exits as the holder stays the holder.
Holds(t, l) ==
  \/ holder[l] = t
  \/ pc[t] \in {"own", "release"} /\ on[t] = l
  \/ pc[t] = "cond_up" /\ LockOf[on[t]] = l

\* lock_init: "A lock can be held by at most a single thread at any given
\* time", whatever interrupts arrive inside lock_acquire(), lock_release()
\* and cond_wait(), and the lock's semaphore is 1 exactly when it is free.
MutualExclusion ==
  \A l \in Locks :
    /\ \A t, u \in Thread : Holds(t, l) /\ Holds(u, l) => t = u
    /\ value[l] = IF \E t \in Thread : Holds(t, l) THEN 0 ELSE 1

\* A thread recorded as the holder is not inside a primitive on that lock,
\* and tid_lock is held exactly inside allocate_tid().
HolderOKFor(t) ==
  /\ pc[t] \in {"acquire", "own", "release"} => holder[on[t]] # t
  /\ pc[t] \in {"cond_up", "cond_down"} => holder[LockOf[on[t]]] # t
  /\ holder[TidLock] = t <=> pc[t] \in {"tid_read", "tid_write"}

HolderOK == \A t \in Thread : HolderOKFor(t)

\* The threads that will test s's value without being woken again.
Woken(s) == {t \in Thread : WaitsOn(t) = s /\ status[t] # "BLOCKED"}

\* Each of n units can have a member of S of its own.
Enough(n, S) == \E f \in [1 .. n -> S] : \A i, j \in 1 .. n : f[i] = f[j] => i = j

\* No wakeup is lost: while threads sleep on a semaphore, each unit of its
\* value has a thread on its way to take it.  sema_up() wakes one thread and
\* adds one unit, and a third thread may take the unit before the woken one
\* runs; sema_down()'s loop sends that one back to sleep.
NoLostWakeup == \A s \in Sema : waiters[s] # <<>> => Enough(value[s], Woken(s))

\* cond_wait() "atomically releases LOCK and waits": from the moment a thread
\* gives up the lock, it is either on the condition's list, where a signal
\* finds it, or its own semaphore holds the one signal it was sent.
SignalDelivered ==
  /\ \A c \in Conds : Distinct(cond_waiters[c])
  /\ \A t \in Thread :
       /\ value[t] \in {0, 1}
       /\ value[t] = 1 => pc[t] \in {"cond_up", "cond_down"}
       /\ \A c \in Conds : t \in Range(cond_waiters[c]) <=>
            pc[t] \in {"cond_up", "cond_down"} /\ on[t] = c /\ value[t] = 0

\* allocate_tid() gives no two live threads the same tid, although it loads
\* and stores the counter in separate steps and threads die and are made.
TidsUnique ==
  \A t, u \in Thread :
    t # u /\ status[t] # "FREE" /\ status[u] # "FREE" /\ tid[t] # 0 => tid[t] # tid[u]

\* thread_start() returns, in whatever order the idle thread's up and the
\* initial thread's down of idle_started happen; round robin, no thread stays
\* on the run queue for ever; and no semaphore stays positive for ever while
\* threads sleep on it.
ThreadsProgress ==
  /\ []<>(idle_thread = Idle /\ on[Main] # IdleStarted)
  /\ \A t \in Thread \ {Idle} : []<>(status[t] # "READY")
  /\ \A s \in Semas : []<>(value[s] = 0 \/ waiters[s] = <<>>)

\* The owner of each lock, as LockSpec has it.
LockOwner ==
  [l \in Locks |-> IF \E t \in Thread : Holds(t, l)
                   THEN CHOOSE t \in Thread : Holds(t, l) ELSE NoThread]

Abstract == INSTANCE LockSpec WITH owner <- LockOwner

\* synch.c's locks implement LockSpec: each passes through free between two
\* owners, is taken only when free and given back only by its owner.
LocksImplementLockSpec == Abstract!Spec
=============================================================================
