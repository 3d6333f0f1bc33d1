----------------------------- MODULE Processes -----------------------------
(***************************************************************************)
(* userprog/process.c and the system calls exec, wait and exit: how a      *)
(* process is started, awaited and ended, and the wait_status that parent  *)
(* and child share.                                                        *)
(*                                                                         *)
(* A process p stands for its thread, its tid, its command line, and the   *)
(* wait_status its parent makes for it.  child_list_lock is modelled with  *)
(* its waiters because process_execute() initialises it every time; the    *)
(* ref_count_locks are taken and given back as in LockSpec.                *)
(***************************************************************************)
EXTENDS Integers, Sequences, Functions

CONSTANTS
  Main,      \* the kernel's initial thread, which runs run_task()
  Procs,     \* user processes, each started at most once
  NoThread,  \* the null pointer
  Codes,     \* statuses passed to exit()
  MaxWaits,  \* bound on the calls of wait by one process
  Uses       \* what the programs do, a set of records of Booleans:
             \*   exits: they call exit() with the Codes, or are only killed
             \*   orphans: a process may exit before its children
             \*   overlap: one process may exec while another's exec is under way
             \*   may_fail: malloc() and thread_create() may run out of memory

ASSUME ProcessesAssumption ==
  /\ Main \notin Procs
  /\ NoThread \notin Procs \cup {Main}
  /\ Codes \subseteq Nat /\ MaxWaits \in Nat
  /\ Uses \subseteq [exits : BOOLEAN, orphans : BOOLEAN, overlap : BOOLEAN, may_fail : BOOLEAN]

Threads == {Main} \cup Procs

VARIABLES
  use,          \* which of Uses this machine sees
  pc,           \* pc[t], "none" before t is started
  target,       \* target[t], the child that t's exec or wait is about
  children,     \* children[t], struct thread's list, first element first
  parent,       \* parent[p], whose children p's wait_status was put on
  my_wait,      \* my_wait[p], whether my_wait_status is not null
  mem,          \* mem[p], "none", "live" or "freed": p's wait_status
  ref_count,    \* its fields
  ref_lock,
  sema,
  exit_code,
  ws_tid,
  list_lock,    \* holder of child_list_lock
  list_waiters, \* the threads its semaphore will wake
  asleep,       \* the threads blocked on it
  argv,         \* the process whose command line the globals argv, argc hold
  load_file,    \* the process whose executable load()'s static file holds
  exe, args,    \* exe[p], args[p]: whose executable and arguments p runs
  loaded,       \* loaded[p], exec_stuff: "no", "ok", "failed" or "done"
  panic,        \* why the kernel panicked, or "no"
  waits,        \* bound: the calls of wait that t made
  code,         \* history: the status p ended with
  got,          \* history: what the waits for p that found it returned
  reinit,       \* history: lock_init() found child_list_lock held or awaited
  mixed         \* history: the processes whose exec overlapped another's

wsVars == <<mem, ref_count, ref_lock, sema, exit_code, ws_tid>>
lockVars == <<list_lock, list_waiters, asleep>>
loadVars == <<argv, load_file, exe, args, loaded>>
histVars == <<waits, code, got>>
faultVars == <<reinit, mixed>>
vars == <<pc, target, children, parent, my_wait, wsVars, lockVars, loadVars, panic, histVars,
          faultVars, use>>

Label == {"none", "run", "exec_init", "exec_lock", "exec_push", "exec_create", "exec_wait",
          "load", "load_stack", "load_done",
          "wait_lock", "wait_find", "wait_down", "wait_ref", "wait_lock2", "wait_free",
          "exit", "exit_lock", "exit_free", "exit_up", "exit_lock2", "exit_child", "dead"}

TypeOK ==
  /\ use \in Uses
  /\ pc \in [Threads -> Label]
  /\ target \in [Threads -> Procs \cup {NoThread}]
  /\ children \in [Threads -> Seq(Procs)]
  /\ parent \in [Procs -> Threads \cup {NoThread}]
  /\ my_wait \in [Procs -> BOOLEAN]
  /\ mem \in [Procs -> {"none", "live", "freed"}]
  /\ ref_count \in [Procs -> -2 .. 2]
  /\ ref_lock \in [Procs -> Threads \cup {NoThread}]
  /\ sema \in [Procs -> 0 .. 1]
  /\ exit_code \in [Procs -> Codes \cup {-1}]
  /\ ws_tid \in [Procs -> Procs \cup {NoThread}]
  /\ list_lock \in Threads \cup {NoThread}
  /\ list_waiters \in Seq(Threads)
  /\ asleep \subseteq Threads
  /\ argv \in Procs \cup {NoThread} /\ load_file \in Procs \cup {NoThread}
  /\ exe \in [Procs -> Procs \cup {NoThread}] /\ args \in [Procs -> Procs \cup {NoThread}]
  /\ loaded \in [Procs -> {"no", "ok", "failed", "done"}]
  /\ panic \in {"no", "use_after_free", "release_not_held"}
  /\ waits \in [Threads -> 0 .. MaxWaits]
  /\ code \in [Procs -> Codes \cup {-1}]
  /\ got \in [Procs -> Seq(Codes \cup {-1})]
  /\ reinit \in BOOLEAN /\ mixed \subseteq Procs

Init ==
  /\ use \in Uses
  /\ pc = [t \in Threads |-> IF t = Main THEN "run" ELSE "none"]
  /\ target = [t \in Threads |-> NoThread]
  /\ children = [t \in Threads |-> <<>>]
  /\ parent = [p \in Procs |-> NoThread]
  /\ my_wait = [p \in Procs |-> FALSE]
  /\ mem = [p \in Procs |-> "none"]
  /\ ref_count = [p \in Procs |-> 0]
  /\ ref_lock = [p \in Procs |-> NoThread]
  /\ sema = [p \in Procs |-> 0]
  /\ exit_code = [p \in Procs |-> -1]
  /\ ws_tid = [p \in Procs |-> NoThread]
  /\ list_lock = NoThread /\ list_waiters = <<>> /\ asleep = {}
  /\ argv = NoThread /\ load_file = NoThread
  /\ exe = [p \in Procs |-> NoThread]
  /\ args = [p \in Procs |-> NoThread]
  /\ loaded = [p \in Procs |-> "no"]
  /\ panic = "no"
  /\ waits = [t \in Threads |-> 0]
  /\ code = [p \in Procs |-> -1]
  /\ got = [p \in Procs |-> <<>>]
  /\ reinit = FALSE /\ mixed = {}

\* Thread t executes at label.
At(t, label) == pc[t] = label /\ panic = "no" /\ t \notin asleep
Goto(t, label) == pc' = [pc EXCEPT ![t] = label]
Halt(reason) ==
  /\ panic' = reason
  /\ UNCHANGED <<use, faultVars, pc, target, children, parent, my_wait, wsVars, lockVars, loadVars,
                 histVars>>

\* lock_acquire (&child_list_lock) at label: t gets it and goes on at next,
\* or joins the waiters and will try again at label.
AcquireList(t, label, next) ==
  /\ At(t, label)
  /\ \/ /\ list_lock = NoThread
        /\ list_lock' = t
        /\ Goto(t, next)
        /\ UNCHANGED <<list_waiters, asleep>>
     \/ /\ list_lock # NoThread
        /\ list_waiters' = Append(list_waiters, t)
        /\ asleep' = asleep \cup {t}
        /\ UNCHANGED <<pc, list_lock>>
  /\ UNCHANGED <<use, faultVars, target, children, parent, my_wait, wsVars, loadVars, panic,
                 histVars>>

\* lock_release (&child_list_lock), which ASSERTs that the caller holds it.
ReleaseList ==
  /\ list_lock' = NoThread
  /\ IF list_waiters = <<>>
     THEN UNCHANGED <<list_waiters, asleep>>
     ELSE /\ list_waiters' = Tail(list_waiters)
          /\ asleep' = asleep \ {Head(list_waiters)}

\* The loop of process_exit() over the children is at the end of the list.
LoopDone(p) == IF children[p] = <<>> THEN TRUE ELSE target[p] = children[p][Len(children[p])]

ReleaseAsserts(t) ==
  /\ pc[t] \in {"exec_push", "wait_find", "wait_free", "exit_free", "exit_child"} /\ At(t, pc[t])
  /\ pc[t] = "exit_child" => LoopDone(t)
  /\ list_lock # t
  /\ Halt("release_not_held")

\* list_remove (): the list without e.
ListRemove(s, e) ==
  LET n == CHOOSE i \in 1 .. Len(s) : s[i] = e
  IN  IF e \in Range(s) THEN SubSeq(s, 1, n - 1) \o SubSeq(s, n + 1, Len(s)) ELSE s

Free(p) == mem' = [mem EXCEPT ![p] = "freed"]
-----------------------------------------------------------------------------
(* exec: k_exec() and process_execute() *)

ExecLabels == {"exec_init", "exec_lock", "exec_push", "exec_create"}
LoadLabels == {"load", "load_stack", "load_done"}

\* From tokenize() to the end of the child's load().
InExec(t) == pc[t] \in ExecLabels \cup LoadLabels

\* The processes being started: their command line is not yet used up.
Starting == {target[t] : t \in {u \in Threads : pc[u] \in ExecLabels}}
              \cup {p \in Procs : pc[p] \in LoadLabels}

\* run_task() and k_exec() get process_execute()'s result.  The first passes
\* it to process_wait() at once, even TID_ERROR.
ExecReturns(t, tid) ==
  /\ target' = [target EXCEPT ![t] = IF t = Main THEN tid ELSE NoThread]
  /\ Goto(t, IF t = Main THEN "wait_lock" ELSE "run")

\* tokenize(): the new command line replaces the one in argv, whoever still
\* needs that.
Exec(t, p) ==
  /\ At(t, "run") /\ pc[p] = "none" /\ mem[p] = "none"
  /\ p \notin Starting
  /\ Starting # {} => use.overlap
  /\ argv' = p
  /\ mixed' = IF Starting = {} THEN mixed ELSE mixed \cup Starting \cup {p}
  /\ target' = [target EXCEPT ![t] = p]
  /\ Goto(t, "exec_init")
  /\ UNCHANGED <<use, reinit, children, parent, my_wait, wsVars, lockVars, load_file, exe, args,
                 loaded, panic, histVars>>

\* lock_init (&child_list_lock): free, whoever held or awaited it.
InitList ==
  /\ reinit' = (reinit \/ list_lock # NoThread \/ list_waiters # <<>>)
  /\ list_lock' = NoThread
  /\ list_waiters' = <<>>
  /\ UNCHANGED <<asleep, mixed>>

ExecInit(t) ==
  LET p == target[t]
  IN  /\ At(t, "exec_init")
      /\ InitList
      /\ mem' = [mem EXCEPT ![p] = "live"]
      /\ ref_count' = [ref_count EXCEPT ![p] = -1]
      /\ Goto(t, "exec_lock")
      /\ UNCHANGED <<use, target, children, parent, my_wait, ref_lock, sema, exit_code, ws_tid,
                     loadVars, panic, histVars>>

\* malloc() finds no memory for the wait_status.
ExecNoMemory(t) ==
  /\ use.may_fail /\ At(t, "exec_init")
  /\ InitList
  /\ ExecReturns(t, NoThread)
  /\ UNCHANGED <<use, children, parent, my_wait, wsVars, loadVars, panic, histVars>>

ExecPush(t) ==
  LET p == target[t]
  IN  /\ At(t, "exec_push") /\ list_lock = t
      /\ children' = [children EXCEPT ![t] = <<p>> \o @]
      /\ parent' = [parent EXCEPT ![p] = t]
      /\ ReleaseList
      /\ Goto(t, "exec_create")
      /\ UNCHANGED <<use, faultVars, target, my_wait, wsVars, loadVars, panic, histVars>>

\* A wait_status with one reference only.
ExecCreate_one(t) ==
  LET p == target[t]
  IN  /\ At(t, "exec_create")
      /\ my_wait' = [my_wait EXCEPT ![p] = TRUE]
      /\ ref_count' = [ref_count EXCEPT ![p] = 1]
      /\ ws_tid' = [ws_tid EXCEPT ![p] = p]
      /\ pc' = [pc EXCEPT ![p] = "load", ![t] = IF t = Main THEN "wait_lock" ELSE "exec_wait"]
      /\ UNCHANGED <<use, faultVars, target, children, parent, mem, ref_lock, sema, exit_code,
                     lockVars, loadVars, panic, histVars>>

\* thread_create(): the child takes the first of its parent's wait_statuses,
\* if that one is new.  run_task() then waits for it to exit, k_exec() for it
\* to load.
ExecCreate(t) ==
  LET p == target[t]
      w == Head(children[t])
      new == ref_count[w] = -1
  IN  /\ At(t, "exec_create")
      /\ my_wait' = [my_wait EXCEPT ![p] = new]
      /\ ref_count' = [ref_count EXCEPT ![w] = IF new THEN 2 ELSE @]
      /\ ws_tid' = [ws_tid EXCEPT ![w] = IF new THEN p ELSE @]
      /\ exit_code' = [exit_code EXCEPT ![w] = IF new THEN -1 ELSE @]
      /\ pc' = [pc EXCEPT ![p] = "load", ![t] = IF t = Main THEN "wait_lock" ELSE "exec_wait"]
      /\ UNCHANGED <<use, faultVars, target, children, parent, mem, ref_lock, sema, lockVars,
                     loadVars, panic, histVars>>

\* thread_create() finds no page.  The wait_status stays on the list with a
\* tid nobody set: malloc()ed memory is zero or 0xcc, never a thread's tid.
ExecFail(t) ==
  /\ use.may_fail /\ At(t, "exec_create")
  /\ ExecReturns(t, NoThread)
  /\ UNCHANGED <<use, faultVars, children, parent, my_wait, wsVars, lockVars, loadVars, panic,
                 histVars>>

\* A k_exec() that polls for a load that succeeded.
ExecDone_polls(t) ==
  /\ At(t, "exec_wait")
  /\ IF loaded[target[t]] = "ok"
     THEN target' = [target EXCEPT ![t] = NoThread] /\ Goto(t, "run")
     ELSE UNCHANGED <<target, pc>>
  /\ UNCHANGED <<use, faultVars, children, parent, my_wait, wsVars, lockVars, loadVars, panic,
                 histVars>>

ExecDone(t) ==
  /\ At(t, "exec_wait") /\ loaded[target[t]] \in {"ok", "failed"}
  /\ loaded' = [loaded EXCEPT ![target[t]] = "done"]
  /\ target' = [target EXCEPT ![t] = NoThread]
  /\ Goto(t, "run")
  /\ UNCHANGED <<use, faultVars, children, parent, my_wait, wsVars, lockVars, argv, load_file, exe,
                 args, panic, histVars>>
-----------------------------------------------------------------------------
(* start_process() and load() *)

\* A load() that trusts what its static variable already holds.
Load_static(p) ==
  /\ At(p, "load")
  /\ load_file' = IF load_file = NoThread THEN argv ELSE load_file
  /\ Goto(p, "load_stack")
  /\ UNCHANGED <<use, faultVars, target, children, parent, my_wait, wsVars, lockVars, argv, exe,
                 args, loaded, panic, histVars>>

\* load() opens the file that argv[0] names now, into a static variable.
Load(p) ==
  /\ At(p, "load")
  /\ load_file' = argv
  /\ Goto(p, "load_stack")
  /\ UNCHANGED <<use, faultVars, target, children, parent, my_wait, wsVars, lockVars, argv, exe,
                 args, loaded, panic, histVars>>

\* setup_stack() copies argv; then the process keeps load()'s file.
LoadStack(p) ==
  /\ At(p, "load_stack")
  /\ args' = [args EXCEPT ![p] = argv]
  /\ exe' = [exe EXCEPT ![p] = load_file]
  /\ Goto(p, "load_done")
  /\ UNCHANGED <<use, faultVars, target, children, parent, my_wait, wsVars, lockVars, argv,
                 load_file, loaded, panic, histVars>>

\* The end of start_process(): tell a waiting k_exec(), then run or exit.
LoadDone(p) ==
  /\ At(p, "load_done")
  /\ loaded' = [loaded EXCEPT ![p] = "ok"]
  /\ Goto(p, "run")
  /\ UNCHANGED <<use, faultVars, target, children, parent, my_wait, wsVars, lockVars, argv,
                 load_file, exe, args, panic, histVars>>

LoadFail(p) ==
  /\ pc[p] \in {"load", "load_stack"} /\ At(p, pc[p])
  /\ loaded' = [loaded EXCEPT ![p] = "failed"]
  /\ Goto(p, "exit")
  /\ UNCHANGED <<use, faultVars, target, children, parent, my_wait, wsVars, lockVars, argv,
                 load_file, exe, args, panic, histVars>>
-----------------------------------------------------------------------------
(* wait: process_wait() *)

Wait(t, p) ==
  /\ t # Main /\ At(t, "run")
  /\ waits[t] < MaxWaits
  /\ waits' = [waits EXCEPT ![t] = @ + 1]
  /\ target' = [target EXCEPT ![t] = p]
  /\ Goto(t, "wait_lock")
  /\ UNCHANGED <<use, faultVars, children, parent, my_wait, wsVars, lockVars, loadVars, panic, code,
                 got>>

\* The wait_statuses the search may stop at: the first with the tid.
Match(t, p) ==
  {i \in 1 .. Len(children[t]) :
     /\ p # NoThread /\ ws_tid[children[t][i]] = p
     /\ \A j \in 1 .. i - 1 : ws_tid[children[t][j]] # p}

\* From here target[t] is the wait_status found.
WaitFind(t) ==
  /\ At(t, "wait_find") /\ list_lock = t
  /\ ReleaseList
  /\ IF Match(t, target[t]) = {}
     THEN /\ target' = [target EXCEPT ![t] = NoThread]
          /\ Goto(t, "run")
     ELSE /\ \E i \in Match(t, target[t]) : target' = [target EXCEPT ![t] = children[t][i]]
          /\ Goto(t, "wait_down")
  /\ UNCHANGED <<use, faultVars, children, parent, my_wait, wsVars, loadVars, panic, histVars>>

\* Reading the exit code without waiting for it.
WaitDown_early(t) ==
  LET w == target[t]
  IN  /\ At(t, "wait_down")
      /\ got' = [got EXCEPT ![w] = Append(@, exit_code[w])]
      /\ Goto(t, "wait_ref")
      /\ UNCHANGED <<use, faultVars, target, children, parent, my_wait, wsVars, lockVars, loadVars,
                     panic, waits, code>>

WaitDown(t) ==
  LET w == target[t]
  IN  /\ At(t, "wait_down") /\ sema[w] > 0
      /\ sema' = [sema EXCEPT ![w] = @ - 1]
      /\ got' = [got EXCEPT ![w] = Append(@, exit_code[w])]
      /\ Goto(t, "wait_ref")
      /\ UNCHANGED <<use, faultVars, target, children, parent, my_wait, mem, ref_count, ref_lock,
                     exit_code, ws_tid, lockVars, loadVars, panic, waits, code>>

WaitRef(t) ==
  LET w == target[t]
  IN  /\ At(t, "wait_ref") /\ ref_lock[w] = NoThread
      /\ ref_count' = [ref_count EXCEPT ![w] = @ - 1]
      /\ IF ref_count[w] = 1
         THEN /\ ref_lock' = [ref_lock EXCEPT ![w] = t]
              /\ Goto(t, "wait_lock2")
              /\ UNCHANGED target
         ELSE /\ target' = [target EXCEPT ![t] = NoThread]
              /\ Goto(t, "run")
              /\ UNCHANGED ref_lock
      /\ UNCHANGED <<use, faultVars, children, parent, my_wait, mem, sema, exit_code, ws_tid,
                     lockVars, loadVars, panic, histVars>>

WaitFree(t) ==
  LET w == target[t]
  IN  /\ At(t, "wait_free") /\ list_lock = t
      /\ children' = [children EXCEPT ![t] = ListRemove(@, w)]
      /\ ReleaseList
      /\ Free(w)
      /\ target' = [target EXCEPT ![t] = NoThread]
      /\ Goto(t, "run")
      /\ UNCHANGED <<use, faultVars, parent, my_wait, ref_count, ref_lock, sema, exit_code, ws_tid,
                     loadVars, panic, histVars>>
-----------------------------------------------------------------------------
(* exit: k_exit(), or thread_exit() after an error, then process_exit() *)

Exit(p, c) ==
  /\ At(p, "run")
  /\ c = -1 \/ use.exits
  /\ ~use.orphans => \A w \in Range(children[p]) : pc[w] \in {"none", "dead"}
  /\ code' = [code EXCEPT ![p] = c]
  /\ exit_code' = IF my_wait[p] /\ c # -1 THEN [exit_code EXCEPT ![p] = c] ELSE exit_code
  /\ Goto(p, "exit")
  /\ UNCHANGED <<use, faultVars, target, children, parent, my_wait, mem, ref_count, ref_lock, sema,
                 ws_tid, lockVars, loadVars, panic, waits, got>>

\* The last one out frees the wait_status.
ExitRef(p) ==
  /\ At(p, "exit")
  /\ IF ~my_wait[p]
     THEN Goto(p, "exit_lock2") /\ UNCHANGED <<ref_count, ref_lock>>
     ELSE /\ ref_lock[p] = NoThread
          /\ ref_count' = [ref_count EXCEPT ![p] = @ - 1]
          /\ IF ref_count[p] = 1
             THEN ref_lock' = [ref_lock EXCEPT ![p] = p] /\ Goto(p, "exit_lock")
             ELSE Goto(p, "exit_up") /\ UNCHANGED ref_lock
  /\ UNCHANGED <<use, faultVars, target, children, parent, my_wait, mem, sema, exit_code, ws_tid,
                 lockVars, loadVars, panic, histVars>>

\* list_remove() here also writes to a list head in the dead parent's page.
ExitFree(p) ==
  /\ At(p, "exit_free") /\ list_lock = p
  /\ children' = [children EXCEPT ![parent[p]] = ListRemove(@, p)]
  /\ ReleaseList
  /\ Free(p)
  /\ Goto(p, "exit_up")
  /\ UNCHANGED <<use, faultVars, target, parent, my_wait, ref_count, ref_lock, sema, exit_code,
                 ws_tid, loadVars, panic, histVars>>

\* sema_up() of the wait_status's semaphore.  free() has filled a freed one
\* with 0xcc, so its list of waiters sends the kernel to a bad address.
ExitUp(p) ==
  /\ At(p, "exit_up")
  /\ IF mem[p] = "freed"
     THEN Halt("use_after_free")
     ELSE /\ sema' = [sema EXCEPT ![p] = @ + 1]
          /\ Goto(p, "exit_lock2")
          /\ UNCHANGED <<use, faultVars, target, children, parent, my_wait, mem, ref_count,
                         ref_lock, exit_code, ws_tid, lockVars, loadVars, panic, histVars>>

\* A loop that frees nothing.
ExitChild_leak(p, w) ==
  /\ At(p, "exit_child") /\ children[p] # <<>> /\ w = children[p][Len(children[p])] /\ target[p] # w
  /\ target' = [target EXCEPT ![p] = w]
  /\ UNCHANGED <<use, faultVars, pc, children, parent, my_wait, wsVars, lockVars, loadVars, panic,
                 histVars>>

\* One turn of the loop over the children; target[p] is the loop's position.
ExitChild(p, w) ==
  /\ At(p, "exit_child") /\ ref_lock[w] = NoThread
  /\ \E i \in 1 .. Len(children[p]) :
       /\ children[p][i] = w
       /\ IF target[p] = NoThread THEN i = 1
          ELSE \E j \in 1 .. i - 1 : children[p][j] = target[p] /\ i = j + 1
  /\ ref_count' = [ref_count EXCEPT ![w] = @ - 1]
  /\ IF ref_count[w] = 1
     THEN Free(w) /\ children' = [children EXCEPT ![p] = ListRemove(@, w)] /\ UNCHANGED target
     ELSE target' = [target EXCEPT ![p] = w] /\ UNCHANGED <<mem, children>>
  /\ UNCHANGED <<use, faultVars, pc, parent, my_wait, ref_lock, sema, exit_code, ws_tid, lockVars,
                 loadVars, panic, histVars>>

ExitEnd(p) ==
  /\ At(p, "exit_child") /\ list_lock = p
  /\ LoopDone(p)
  /\ ReleaseList
  /\ target' = [target EXCEPT ![p] = NoThread]
  /\ Goto(p, "dead")
  /\ UNCHANGED <<use, faultVars, children, parent, my_wait, wsVars, loadVars, panic, histVars>>
-----------------------------------------------------------------------------
Continue(t) ==
  \/ ExecInit(t) \/ ExecNoMemory(t) \/ AcquireList(t, "exec_lock", "exec_push") \/ ExecPush(t)
  \/ ExecCreate(t) \/ ExecFail(t) \/ ExecDone(t)
  \/ AcquireList(t, "wait_lock", "wait_find") \/ WaitFind(t) \/ WaitDown(t) \/ WaitRef(t)
  \/ AcquireList(t, "wait_lock2", "wait_free") \/ WaitFree(t)
  \/ ReleaseAsserts(t)

Leave(p) ==
  \/ Load(p) \/ LoadStack(p) \/ LoadDone(p) \/ LoadFail(p)
  \/ ExitRef(p) \/ AcquireList(p, "exit_lock", "exit_free") \/ ExitFree(p) \/ ExitUp(p)
  \/ AcquireList(p, "exit_lock2", "exit_child") \/ (\E w \in Procs : ExitChild(p, w)) \/ ExitEnd(p)

\* A kernel that panicked stays so; run_actions() may be done and the machine
\* off; and a waiter that lock_init() forgot sleeps for ever.
Stopped ==
  /\ panic # "no" \/ pc[Main] = "run" \/ asleep # Range(list_waiters)
  /\ UNCHANGED vars

Next ==
  \/ \E t \in Threads :
       \/ \E p \in Procs : Exec(t, p) \/ Wait(t, p)
       \/ Continue(t)
  \/ \E p \in Procs :
       \/ \E c \in Codes \cup {-1} : Exit(p, c)
       \/ Leave(p)
  \/ Stopped

Spec == Init /\ [][Next]_vars

\* The scheduler runs every thread that is not blocked, and a load ends.
\* Nobody has to call exec, wait or exit, or to run out of memory.
Fairness ==
  /\ \A t \in Threads : WF_vars(Continue(t))
  /\ \A p \in Procs : WF_vars(Leave(p))

FairSpec == Spec /\ Fairness
-----------------------------------------------------------------------------
ExitLabels == {"exit", "exit_lock", "exit_free", "exit_up", "exit_lock2", "exit_child", "dead"}

\* The child, and its parent, may still use p's wait_status.
ChildHolds(p) == pc[p] \notin ExitLabels \ {"exit"}
ParentHolds(p) ==
  LET t == parent[p]
      siblings == children[t]
  IN  /\ pc[t] # "dead" /\ p \in Range(siblings)
      /\ ~(pc[t] \in {"wait_lock2", "wait_free"} /\ target[t] = p)
      /\ pc[t] = "exit_child" /\ target[t] # NoThread =>
           \E i, j \in 1 .. Len(siblings) : siblings[i] = target[t] /\ siblings[j] = p /\ i < j

\* Every variable has its type.  As long as lock_init() has not found
\* child_list_lock in use, ref_count is the number of threads, of parent and
\* child, that have not yet given up the wait_status, through every interleaving
\* of process_wait() and the two process_exit()s; and when both are dead the
\* wait_status is gone.
RefCountExact ==
  /\ TypeOK
  /\ ~reinit => \A p \in Procs :
       /\ pc[p] # "none" /\ mem[p] = "live" =>
            ref_count[p] = (IF ChildHolds(p) THEN 1 ELSE 0) + (IF ParentHolds(p) THEN 1 ELSE 0)
       /\ pc[p] = "dead" /\ pc[parent[p]] = "dead" => mem[p] = "freed"

\* The kernel panics in two ways only.  A release of child_list_lock by a thread
\* that does not hold it comes after an exec that re-initialised the lock while
\* it was held or awaited.  A sema_up() of a freed wait_status is that of a child
\* whose parent is past it in its exit loop, or dead.  No interleaving of waits
\* with exits, and no failed exec, is a third.
PanicCauses ==
  /\ panic = "release_not_held" => reinit
  /\ panic = "use_after_free" =>
       \E p \in Procs : /\ pc[p] = "exit_up" /\ mem[p] = "freed"
                        /\ pc[parent[p]] \in {"exit_child", "dead"}

\* process_wait() returns the status its child ended with, -1 if it was killed,
\* and only once for each child.
WaitReturnsStatus ==
  \A p \in Procs : got[p] # <<>> => got[p] = <<code[p]>> /\ pc[p] \in ExitLabels

\* A process runs the executable and the arguments of its own command line,
\* although both pass through globals; unless its exec overlapped others', when
\* it has each from one of those that overlapped.
LoadsOwnCommand ==
  \A p \in Procs : pc[p] = "run" =>
    IF p \in mixed THEN exe[p] \in mixed /\ args[p] \in mixed ELSE exe[p] = p /\ args[p] = p

\* Unless the kernel panics or lock_init() finds child_list_lock in use: exec
\* returns, because the child's load reports back to k_exec(); the wait for a
\* child that exits returns; and a process that begins to exit gets through
\* process_exit(), although that takes child_list_lock and ref_count_locks in
\* the order opposite to process_wait()'s and to that of a child that outlives
\* its parent.
CallsEnd ==
  LET excused == panic # "no" \/ reinit
  IN  /\ \A t \in Procs : pc[t] = "exec_init" ~> (pc[t] # "exec_wait" /\ ~InExec(t)) \/ excused
      /\ \A t \in Threads, p \in Procs :
           pc[t] = "wait_down" /\ target[t] = p /\ pc[p] = "exit" ~> pc[t] = "run" \/ excused
      /\ \A p \in Procs : pc[p] = "exit" ~> pc[p] = "dead" \/ excused
=============================================================================
