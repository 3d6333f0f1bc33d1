# Pintos and the homework programs of CS162-SP17 in TLA+

This directory models the Pintos kernel under `src/code_162/group/pintos/src`
(below: `P/`) and the HTTP server under `src/code_162/personal` (`H/`), checks the
models with TLC on small instances, and proves the properties that most rests on
with TLAPS. `PROJECT.json` lists the parts of the system, the runs, the lines of
source behind every definition, the hazards of the code with the properties that
watch them, and the theorems.

    tlc -config Synch.cfg MCSynch         # a run: see the table of runs
    tlapm SynchProofs.tla                 # the proofs of a module

## The system and what is modelled

Pintos is a uniprocessor kernel. User programs enter it through system calls;
these use processes, files and the console. Files rest on inodes and
directories, these on a buffer cache, the cache on an IDE disk. All of it runs on
kernel threads that the timer preempts and that synchronise with semaphores,
locks and condition variables, takes its memory from two page pools and a block
allocator, and keeps its data in linked lists and hash tables. The homework
programs run on Linux.

| Part | Source | Modules | State |
| --- | --- | --- | --- |
| Scheduler | `P/threads/thread.c` | `Threads`, `Synch`, `SynchProofs` | modelled, proved |
| Semaphores, locks, conditions | `P/threads/synch.c` | `Synch`, `LockSpec`, `SynchProofs` | modelled, proved |
| Interrupts | `P/threads/interrupt.c`, `intr-stubs.S` | `Interrupts`, `KernelProofs` | modelled, proved |
| Timer | `P/devices/timer.c` | `Timer`, `Synch`, `KernelProofs` | modelled, proved |
| IDE disks | `P/devices/ide.c`, `block.c` | `Ide`, `BlockStore`, `KernelProofs` | partly (no partition tables), proved |
| Buffer cache | `P/filesys/cache.c` | `BufferCache`, `BlockStore`, `CacheProofs` | modelled, proved |
| Console | `P/lib/kernel/console.c` | `Console`, `KernelProofs` | partly (the lock, not the text), proved |
| Page and block allocators | `P/threads/palloc.c`, `malloc.c`, `P/lib/kernel/bitmap.c` | `Palloc`, `Malloc`, `Bitmap`, `AllocProofs` | modelled, the pages proved |
| Address spaces, `load()` | `P/userprog/pagedir.c`, `process.c` | `AddressSpace`, `SpaceProofs` | partly (no accessed and dirty bits, which nothing uses), proved |
| Lists, hash tables | `P/lib/kernel/list.c`, `hash.c` | `Lists`, `HashTable` | modelled |
| Exec, wait, exit | `P/userprog/process.c`, `syscall.c` | `Processes`, `ProcessProofs`, `ProcessRefProofs` | partly (here `load()` is one choice), safety proved |
| System calls, descriptors | `P/userprog/syscall.c` | `Syscalls`, `ServiceProofs` | modelled, safety proved |
| Inodes | `P/filesys/inode.c` | `Inode`, `FileStore` | modelled |
| Free map | `P/filesys/free-map.c` | `Inode` | partly: not the file that holds it |
| Directories and paths | `P/filesys/directory.c`, `filesys.c` | `Directory` | modelled |
| Open files | `P/filesys/file.c` | `Syscalls`, `Inode` | partly: no file position |
| Serial port, keyboard, input | `P/devices/serial.c`, `intq.c`, `kbd.c`, `input.c` | `Serial`, `Fifo`, `KernelProofs` | partly (of the keyboard, only the character it appends), proved |
| Boot and shutdown | `P/threads/init.c`, `P/devices/shutdown.c` | `BufferCache`, `Processes` | partly: `run_task()`, the flush |
| hw2: HTTP server | `H/hw2/httpserver.c`, `wq.c` | `HttpServer`, `Fifo`, `ServiceProofs` | partly (requests are one step), proved |

The modules stack as the code does. `LockSpec` is what `Synch` is shown to
implement, and the modules above it take a lock in one step on the strength of
that. `BlockStore` is what `Ide` implements for the cache, and what `BufferCache`
implements for the file system. `FileStore` is what `Inode` implements. `Fifo` is
what the interrupt queues of `Serial` and the work queue of `HttpServer`
implement. `Inode`, `Directory` and `Syscalls` split the file system at
`file_lock`: in the first two a call is one step, because its callers hold the
lock; `Syscalls` has the lock and who holds it when. `Palloc` and `Malloc` use the
operators of `Bitmap`; `MCKernel` puts the parts that share nothing but the
processor next to each other, one per behaviour.

## How the modules correspond to the code

**Threads, Synch.** The state of `Threads` is `thread.c`'s: each thread's
status, the run queue, the running thread, `idle_thread`, the ticks of the
slice. Its operations run with interrupts off in the code, through `schedule()`
to the end of `thread_schedule_tail()`, and are atomic. `Synch` adds the
semaphores, locks and conditions. A step is what the code does with interrupts
off, and an interrupt may come between any two: `lock_acquire()` takes the
semaphore in one step and stores the holder in another, `cond_wait()` takes five
or more, `allocate_tid()` loads and stores the counter apart. Threads are
created, several at once if there are pages, die, and their pages are reused.

**Interrupts.** Every thread's kernel stack is a sequence of frames, each with
its vector, the interrupt level it will restore, and how far its handler is.
Registration, the gates that turn interrupts off, faults and system calls that
turn them on again, `pic_end_of_interrupt()`, `intr_yield_on_return()` and the
return are steps; a thread switch leaves the frames where they are. Each of the two
interrupt controllers has the inputs in service; an interrupt of the slave occupies the
master's cascade input as well, and is acknowledged to both. **Timer** has
the 64-bit count in two halves that are loaded apart, as a 32-bit processor does,
sleeping threads, calibration, and the busy-waits.

**Ide.** One channel, its registers, its lock and semaphore, `ide_init()`, the
threads that read and write, the interrupt handler, and the devices, which accept
a command, move data, fail, and raise interrupts, some that nothing asked for.
`expecting_interrupt` is never reset, as in the code. `wait_until_idle()` gives up on a
device that stays busy and lets the driver go on; the registers it then writes are taken
or ignored by the device, and `gave_up` records that it happened.

**BufferCache.** `cache_read()`, `cache_write()` and `cache_flush()`, with
`LRU_lock`, the `block_lock`s, and the disk transfers between them. Finding a
block, taking its lock, writing the victim back, fetching and copying are steps
of their own. A sector's contents are one value. `last`, `recent`, `stable` and
`raced` are history: the contents each sector should have, the order of use, the
sectors not written since `cache_flush()` began, and whether a sector has been looked up
while its evicted contents were still on their way to the disk.

**Console.** The lock, `console_lock_depth`, and threads that print in the middle
of their own output, up to `console_panic()`. A thread that holds the lock must not ask
for it again.

**Palloc.** Both pools. A scan or a change of the bitmap goes bit by bit, and a
thread may be preempted between two bits; `palloc_free_multiple()` takes no lock.
**Malloc.** Arenas, free lists, big blocks, `malloc()`, `calloc()`, `realloc()`
and `free()` over the bitmap of a small pool; the product in `calloc()` wraps at
`SIZE_T`. **AddressSpace.** `process_execute()`, `load()` segment
by segment and page by page, page directories and tables, `install_page()`,
`setup_stack()`, `process_activate()`, and the order in which `process_exit()`
forgets, deactivates and destroys a directory. A process that is started while another
is not loaded yet is recorded, with that one, in `mixed`, and may find the words and the
file of either. Command lines may be longer than the stack's page.

**Lists** models `list.c` on a heap of pointers: an operator takes the heap it
finds and returns the heap it leaves. **HashTable** models the buckets, each a list of
`Lists`, `rehash()`, which walks them and moves elements from one to another while it
walks, and its failing `malloc()`.

**Processes.** A process is its thread, tid, command line and the `wait_status`
that its parent makes for it. The globals `argv`, `argc` and `child_list_lock`,
which every exec overwrites or initialises, are state; a lock that is
initialised while it is held loses its holder, as in the code. `reinit` records
that this happened to a lock that was held or awaited, and `mixed` which processes were
executed while another was not loaded yet. `panic` says how the kernel stopped: a lock
released by a thread that does not hold it, or a freed `wait_status` used, which
`free()` has filled with 0xcc.

**Syscalls.** The descriptor tables, `num_fds`, `file_lock` and the handlers,
with good and bad arguments. `careless` records that a program passed an argument
that the handlers do not survive; `fault` records an overrun of the table or a
use of a freed object, after which C says nothing and the behaviour ends.

**Inode.** The disk is an array of sectors, each an `inode_disk`, a table of
sector numbers, or bytes; the free map is a set. Allocation, release, addressing
and growth follow the code through direct, indirect and doubly indirect sectors,
error paths and overruns included. `lost` counts the sectors of files without
tables that the code forgets: those of a new file whose name `dir_add()` refuses, all but
the inode's, and the one of a file of length 0 that is deallocated. An inode is
closed by the call or, at the end of a process, by `thread_exit()` and `process_exit()`.
**Directory** has the entries of every
directory, the working directories, the openers of each inode, and the calls that
take a path. The entry that leads to a sector that no longer holds what it says
ends a behaviour (`fault = "dangling"`).

**Serial.** Reader, writer, the two ring buffers with their `not_full` and
`not_empty` waiters, the UART's registers, the serial interrupt, and code that
prints with interrupts off.

**HttpServer.** The accept loop, `wq_push()`, `wq_pop()` and the pool, with the
mutex and the condition variable as POSIX defines them: a waiter may wake up
without a signal.

Several modules take a constant `Uses`, a set of records that say what the
clients do (whether callers hold `file_lock`, whether execs overlap, which paths
are passed, how large the disk is). `Init` chooses one, so that a run covers
several kinds of use, and a property that holds for some kinds only says which.

## Runs

| Run | Module, configuration | Distinct states | What it shows |
| --- | --- | --- | --- |
| `synch` | `MCSynch`, `Synch` | 99,366 | lists match statuses, tids are unique, locks exclude and implement `LockSpec`, no signal or wakeup is lost; ready threads run, booting ends, semaphores make progress |
| `cache_store` | `MCBufferCache`, `CacheStore` | 809,721 | the cache is an array of sectors, in LRU order, saved by the flush, until a caller races an eviction; one block per sector; locks in order |
| `cache_race` | `MCBufferCache`, `CacheRace` | violated | a read may return old contents (findings) |
| `proc_safe` | `MCProcesses`, `ProcSafe` | 1,549,118 | wait returns the child's status; `ref_count` is exact until a lock is initialised under its users; the kernel panics in two ways only; a child loads its own command, or that of an exec it overlapped with |
| `proc_live` | `MCProcesses`, `ProcLive` | 39,513 | exec, the wait for an exiting child, and exit end |
| `sys_calls` | `MCSyscalls`, `SysCalls` | 598,212 | descriptors own their objects, `file_lock` comes back, calls get it |
| `inode_fixed` | `MCInode`, `InodeFixed` | 37,864 | no sector has two owners; with direct sectors, every marked sector has an owner or is one that a refused name or an empty file loses; files are byte sequences of their own |
| `inode_grow` | `MCInode`, `InodeGrow` | violated | a write past the end does not extend the file (findings) |
| `dir_paths` | `MCDirectory`, `DirPaths` | 145,785 | directories form a tree, open files and working directories outlive removal, replies tell the truth |
| `serial_fifo` | `MCSerial`, `SerialFifo` | 2,008,440 | both queues are bounded FIFOs; no wakeup and no interrupt is lost |
| `kernel` | `MCKernel`, `Kernel` | 331,000 | the IDE driver is an array of sectors; console output and external interrupts do not mix; sleeps last; pages and blocks have one owner; address spaces hold their programs and give their pages back; lists are sequences and hash tables sets |
| `http_pool` | `MCHttpServer`, `HttpPool` | 15,040 | each connection has one owner, no signal is lost, connections that a thread is left for are served, in order |

`PROJECT.json` has, for every property of a passing run, a plausible mistake in
the code under which that run fails.

### Bounds

* Threads: while they synchronise, two pages besides the initial and the idle thread,
  so that a third thread can take a semaphore between the up and the woken thread's
  turn, and a dead thread's page is reused, and tids up to 4; while they only create and
  exit, three pages and tids up to 5, so that two are inside `thread_create()` at once; a
  slice of two ticks, so that a thread is preempted after any step or not at all; a
  semaphore's value up to 2.
* Cache: two blocks and three sectors, so that callers hit, fill and evict; two
  callers and the flush, which is as many as meet on one block. A behaviour in
  which callers race an eviction is followed further only if nothing is written
  but what the disk holds (`UntilRace`): the contents differ from there on, and the
  locks and the order of use do not depend on them.
* Processes: the initial thread and three processes for safety, so that a process
  is parent, child and sibling, and one wait each: that a second wait for the same child
  returns -1 is left to the proof of `WaitReturnsStatus`, which bounds no waits. Two
  processes and two waits each for liveness.
* Calls: two processes, five calls in all, six entries in a table of which two
  are the console's, so that the table fills up and an entry is reused.
* Inodes: sectors of two bytes, two direct sectors, tables of four entries, 9, 18 or
  24 sectors, so that the disk fills up at every point of an allocation and a file
  has no byte, or reaches all three levels, with two tables below the doubly indirect one.
* Directories: three to five entries, three or four inodes, paths of one or two
  parts with `..` and absolute ones.
* Serial: rings of three positions (two bytes), one byte printed with interrupts
  off at a time. HTTP: pools of none, two and three threads, three descriptors,
  four connections, so that descriptors are reused and there are more connections
  than threads.
* IDE: two threads, two devices of one sector, every kind of first device, one
  failed command and one interrupt that nothing asked for. Console: two threads,
  three nested calls. Timer: halves of two values, so that the low half wraps while a
  thread sleeps; every tick has the same number of loops, which an `unsigned` holds
  (`LoopsFit`). Interrupts: two threads, an external vector of each controller, a
  system call and a page fault, two frames on a stack.
* Pages: seven free pages of which the user pool has three, groups of one and two,
  elements of two bits, so that groups cross elements and the pools fragment and
  fill. Blocks: pages of 16 bytes, three pages, sizes on both sides of every
  descriptor's and of a page, products of `calloc()` that wrap and are refused and that
  wrap and are not, four blocks alive. Address spaces: pages of 32 bytes
  and 256 of user memory, executables whose segments start and end inside pages,
  share a page, reach the stack, wrap or are refused, command lines that fit in the
  stack's page and one that does not; too few pages for two. Of the executables, two are
  also started while another is not loaded yet (`Overlapping`).
* Lists: two lists of four elements, two of them equal, every function at every
  reachable pair of lists. Hash tables: six elements, two with the same key, and one
  element per bucket instead of two (`BEST_ELEMS_PER_BUCKET`), so that the table grows to
  four buckets and shrinks to one.

Runs over `Directory`, `Inode`, `Syscalls` and `HttpServer` allow a state without
a successor: the bound on calls or connections is used up, a behaviour has ended
in a fault, or every thread of the pool is done.

### Fairness

* `Synch`: the timer keeps ticking (the 8254 does, at `TIMER_FREQ`), and a thread
  that gets the CPU again and again finishes the primitive it is in. This is
  strong fairness, since preemption disables a thread's steps; a slice of
  `TIME_SLICE` ticks is longer than a step. Nothing is assumed of the calls that
  threads make.
* `Processes`: weak fairness of a thread that is not blocked and of a dying
  process, justified by `ThreadsProgress`. Nobody has to call exec, wait or exit.
* `Syscalls`: weak fairness of a process inside a call and of output to the
  console. `LockAcquire` takes from `file_lock`'s semaphore; the bound on calls
  lets each process pass. Nobody has to press a key, and `CallsReturn` leaves out
  calls that wait for `file_lock` while its holder reads the keyboard.
* `HttpServer`: every thread runs, a request ends, and a mutex is granted to a
  thread that keeps asking (strong fairness).

## Proofs

Each theorem holds for every value of the constants that meets the module's `ASSUME`
(the constants are distinct, `LockOf` gives every condition a lock that is not
`tid_lock`, sizes are natural numbers, the pages that threads are made in and the
HTTP pool are finite sets, a descriptor table has room beyond the console's two
entries, an interrupt queue has more than one position, user memory is whole pages
below the largest address, the delays of `timer.c` are fractions whose denominators
are multiples of 1000, every tick has the same number of loops, below 2^31), in particular for any number of threads, locks, conditions,
devices, frames, sectors, blocks, pages, segments, processes, descriptors and
connections. One theorem has a hypothesis of its own: `FileLockSuffices` is for
callers that hold `file_lock`.

`SynchProofs` has the proofs of `Synch`, `ProcessProofs` and `ProcessRefProofs`, which
extends it, those of `Processes`, `CacheProofs` those of `BufferCache`, `AllocProofs`
those of `Palloc`, `SpaceProofs` those of `AddressSpace`. `KernelProofs` has the disk
driver, the console, the interrupts, the serial port and the timer, `ServiceProofs`
the system calls and the HTTP server.

| Theorem | Module | States |
| --- | --- | --- |
| `TypeCorrect` | `SynchProofs` | `Spec => [](TypeOK /\ ControlOK /\ BootOK)` |
| `LocksExclude` | `SynchProofs` | `Spec => []MutualExclusion` |
| `LocksRefine` | `SynchProofs` | `Spec => LocksImplementLockSpec` |
| `OnePlace` | `SynchProofs` | `Spec => []QueuesMatchStatus` |
| `TidsNeverReused` | `SynchProofs` | `Spec => []TidsUnique` |
| `SignalsArrive` | `SynchProofs` | `Spec => []SignalDelivered` |
| `WakeupsSuffice` | `SynchProofs` | `Spec => []NoLostWakeup` |
| `LoadsOwn`, `WaitsReturn` | `ProcessProofs` | `Spec => []LoadsOwnCommand`, `Spec => []WaitReturnsStatus` |
| `PanicsExplained`, `RefCounts` | `ProcessRefProofs` | `Spec => []PanicCauses`, `Spec => []RefCountExact` |
| `EntriesOwn`, `LockGivenBack` | `ServiceProofs` | `Spec => []EntriesOwnObjects`, `Spec => []LockReleased` |
| `ConnectionsOwned`, `SignalsSuffice` | `ServiceProofs` | `HttpSpec => []OneOwner`, `HttpSpec => []NoLostSignal` |
| `IdeImplementsStore` | `KernelProofs` | `IdeSpec => IdeIsStore` |
| `ExternalsOneAtATime` | `KernelProofs` | `InterruptsSpec => []ExternalsSerial` |
| `ConsoleLocked` | `KernelProofs` | `ConsoleSpec => []LinesUnmixed` |
| `SleepersWoken`, `QueuesImplementFifos` | `KernelProofs` | `Spec => []NoLostWakeup`, `Spec => QueuesAreFifos` of `Serial` |
| `SleepsLast` | `KernelProofs` | `TimerSpec => []SleepsLongEnough` |
| `LocksOrdered`, `LeastRecentlyUsed` | `CacheProofs` | `Spec => []LockOrder`, `Spec => []LRUOrder` |
| `FlushSaved`, `CacheImplementsStore` | `CacheProofs` | `Spec => []FlushSaves`, `Spec => CacheIsStore` |
| `FileLockSuffices` | `CacheProofs` | `Spec => Store!Spec`, if every use holds `file_lock` |
| `PagesKept` | `AllocProofs` | `PallocSpec => []PagesAccounted` |
| `PagesOwned` | `SpaceProofs` | `SpaceSpec => []SpacesOwnPages` |
| `ProgramLoaded` | `SpaceProofs` | `SpaceSpec => []SpaceHoldsProgram` |

* `TypeCorrect`. `TypeOK` is not inductive: `schedule()` yields a thread only if
  the run queue or `idle_thread` has one, which during boot needs `BootOK` (until
  `idle()` has stored `idle_thread`, the idle thread runs or is on the run queue),
  and the object of a primitive has its type only if `ControlOK` ties `pc`, `on`,
  `ret` and `new` together.
* `LocksExclude`. A thread holds a lock between the `sema_down()` in
  `lock_acquire()` and the `sema_up()` in `lock_release()`, and the semaphore is 1
  exactly when nobody does. The induction needs `HolderOK`: a recorded holder is not
  inside a primitive on that lock, and `tid_lock` is held exactly inside
  `allocate_tid()`. `LocksRefine`: every step changes the owner of at most one lock,
  from nobody to the thread that steps or back (`OwnersStep`), and this is a step of
  `LockSpec` or a stutter.
* `OnePlace`. `Places` adds `Births` to the property: a page that is free, or whose
  thread is still being made, is outside every primitive and on no list, each
  `thread_create()` has a thread of its own, and no page stays dying. Every
  action is one of five kinds, each with a lemma: the running thread goes on
  (`SteadyPlaces`), switches away (`SwitchPlaces`), ups a semaphore (`UpPlaces`),
  makes a thread (`CreatePlaces`) or unblocks one (`UnblockPlaces`). `Booting` says that
  before `thread_start()` the initial thread is alone.
* `TidsNeverReused`. `TidInv`: every tid is below the counter, except the one that
  `allocate_tid()` has loaded and not yet stored, which equals it; and tids differ.
  That only one thread is between the load and the store is `HolderOK` for
  `tid_lock`, and that a page made anew is not the one being numbered is `Births`.
* `SignalsArrive`. `SignalDelivered` is inductive on top of `TypeOK` and `ControlOK`,
  because it relates all three places a signal can be in: the condition's list, the
  semaphore of the waiter, and the label of the thread in `cond_wait()`. A thread in
  `cond_wait()` waits for a semaphore of its own, which only `cond_signal()` ups, and
  only for a thread it takes off the list.
* `WakeupsSuffice`. The woken threads of a semaphore are those inside its
  `sema_down()` that are not blocked, and `Enough` says that each unit of the value can
  have one of its own: an injection, so that no set has to be counted. The invariant is
  the property with `Places`: `sema_up()` adds a unit and unblocks the head of the list,
  which by `OnePlace` was blocked there and nowhere else, so that the injection grows by
  one; a unit is taken by a thread that was woken or by one that never waited, and what
  is left still has its threads. A thread goes to sleep only when the value is 0.
* `LoadsOwn`. `Loads`: of the commands between `tokenize()` and the end of the child's
  `load()` there is one, or all of them are in `mixed`; and `argv`, the static file of
  `load()` and what a loaded process has are of that one, or of one in `mixed`. It rests on `CoreInv`, which ties the target of every thread to where it is: in
  `process_execute()` it is a process that does not run yet and that no other exec has,
  after `process_wait()` has found it a child of the caller; and every list holds the
  `wait_status`es of the thread's own children, once each and none freed.
* `WaitsReturn`. `StatusOK`: the semaphore of a `wait_status` goes up once, when the
  child is past its last use of it, and the exit code is final when it does.
* `RefCounts`. `CountOK`: `ref_count` is `Base`, what the child contributes, plus one
  for as long as the parent holds on (`Holds`): the `wait_status` is on its list, it has
  not given the reference up in `process_wait()` and the loop of `process_exit()` has
  not passed it. Whoever brings the count to 0 is on the way to free it, and nobody
  frees a `wait_status` under a child. The position of the loop needs the lemma that
  `ListRemove` takes out one element and keeps the order of the others (`Before`). The
  bounds always hold, the exact count until an exec initialises `child_list_lock` under
  its users (`reinit`), which may leave it one too high.
* `PanicsExplained`. `OrphanOK`: a child's `wait_status` is on its parent's list until it
  is freed, and when the child is the one to free it, the parent is past it in its exit
  loop, or dead; and `LockOK`: until `reinit`, whoever is between `lock_acquire()` and
  `lock_release()` of `child_list_lock` is its holder. Neither restricts what the processes
  do: parents may die first and execs may overlap.
* `EntriesOwn`, `LockGivenBack`. `SysInv`: no two entries ever name the same object, also
  when they are no longer in use (`Owned`), because every open makes a new one; `num_fds`
  is the number of entries in use (`Counted`); and what a handler found in the table
  before it waited for `file_lock` is still so when it has it (`CallOK`), because only
  the process itself changes its table. `LockOK`: with good arguments the holder of
  `file_lock` is exactly the process inside.
* `IdeImplementsStore`. `IdeInv`: one thread drives the channel (`OneDriver`), the
  device is at a phase that goes with where that thread is (`Serves`), and is
  otherwise idle or storing a sector (`Quiet`). The semaphore is not mentioned: an
  unexpected interrupt may send the driver ahead, and waiting for BSY suffices. `IdeInv`
  holds until `gave_up`, which no step takes back.
* `LocksOrdered`. `HoldersWork`: the holder of a `block_lock` is at work on that very
  block, so the release at its end gives back what it took, and `LRU_lock` is held
  exactly at the labels under it. `LeastRecentlyUsed` adds that the list names each block
  in use once, that no two blocks have one sector, and what a caller under `LRU_lock`
  has done so far (`Listed`, `Working`: together `CacheInv`).
* `FlushSaved`, `CacheImplementsStore`. `CacheSafe`: until a caller races an eviction,
  every sector has one place for its last contents (`Coherent`): the block that has its
  tag, or, if that block is still being fetched or there is none, the disk, or the
  block that a caller is about to write back under its old tag; and what the disk lacks
  of a sector not written since the flush began is in a block that the flush has yet to
  reach (`Saving`). `OneCaller`: with `file_lock` nobody races, so the condition falls
  away in `FileLockSuffices`.
* `ExternalsOneAtATime`. An external handler runs with interrupts off, hence on the
  top of the running thread's stack, and its inputs are the ones in service at the two
  controllers, so that the acknowledgement leaves none (`AllAcknowledged`). `ConsoleLocked`: before `console_init()` nobody
  has touched the lock, and from `console_panic()` on nobody uses it.
* `SleepersWoken`, `QueuesImplementFifos`. `NoLostWakeup` relates who sleeps, the queues
  and the interrupts that the UART may raise, and is inductive once `RoomLeft` says that
  code with interrupts off puts a byte only where it has made room. The contents of a
  ring are a sequence: `Length` and `At` are the remainders of `intq.c` as case
  distinctions, with which `intq_putc()` appends and `intq_getc()` takes the head.
* `SleepsLast`. `TimerInv`: a thread between the two loads of `ticks` has interrupts off
  and the high half that there is (`SleepRight`), hence never halves of two counts.
  `Calibrated` and `Waited` bound the calibrated loops and the rounding of a busy-wait.
  The loops of `timer_calibrate()` are recursive functions; that they have values, and
  which, is shown by taking the smallest argument at which it would fail (`Smallest`).
* `PagesKept`. `PallocInv`: a page has one claimant, a thread that holds it in a group,
  has marked it already in the scan it is in, or has not cleared it yet, and the bitmaps
  mark exactly the pages with a claimant (`OneOwner`); a pool's lock goes with the labels
  between its acquire and its release (`LocksRight`); and the bits that a scan has
  passed are still clear when it marks them (`RequestRight`), because clearing them
  takes no lock but can only clear.
* `PagesOwned`. `SpaceInv`: the types, what is left of a segment fits below `PHYS_BASE`
  (`SegmentsFit`), each label has its pages (`HasPages`: no tables without a directory,
  no entries without a table), the active directory is that of the process that runs
  (`RightDirectory`) and `EachPageOnce`. Every step is one of the few effects on pages of
  `PageStep`: take one from a pool, give one back, move one from hand to map, or none.
* `ProgramLoaded`. Of two processes that are started and not loaded yet both are in
  `mixed`, and a load outside `mixed` reads its own file (`OwnFile`), and `LoadInv` says of it that the map holds exactly the segments of the
  headers done so far and the first pages of the current one (`MapIs`, `Partly`),
  where `read`, `zero` and `ofs` are what the loop of `load_segment()` has left after
  as many turns. `SegmentNumbers` turns the tests of `validate_segment()` into a first
  page, an offset in it and a number of pages, from which `BytesRight` finds the entry
  and the byte of every address (`MapHolds`). For the stack, `EspIs` solves the
  recursion of `*esp` over the words, `LayoutIs` finds each store in the sequence, and
  since each is below the ones before (`StoresApart`), what is read back is what was
  written (`StackIsRight`). This needs no bound on the words: those that do not fit go on
  below the stack's page, and the segments are claimed up to the stack pointer.
* `ConnectionsOwned` and `SignalsSuffice`: a thread has a connection exactly from
  `accept()` or `wq_pop()` to `wq_push()` or `close()`, and sleeps only in `wq_pop()`.

Each proof that a step preserves an invariant has one step for each action.

All other properties are only model-checked. Liveness under fairness
(`ThreadsProgress`, `CallsEnd`, `CallsReturn`, `AllServedInOrder`) and `ENABLED` are out
of the prover's reach. So are `ListsAreSequences` and `HashIsSet`: `Lists` and `HashTable`
follow pointers with recursive operators, in whose modules the prover has no
arithmetic, and what these compute for every input needs an induction over data.
`SectorsDisjoint`, `SectorsAccounted` and `InodesAreFiles` of `Inode`, `Tree`, `OpenKept` and
`RepliesFaithful` of `Directory` and `HeapSound` of `Malloc` have no proof yet.

## Findings and other things seen in the code

Two disagreements with the repository's own words have a run:

* `cache_race`. `P/filesys/cache.c:84-88` changes the tag of a victim and releases
  `LRU_lock` before it writes the victim's contents back. A caller that misses on
  the old sector meanwhile fetches it from the disk, without the last write.
  `doc/project3.md` says that there are no race conditions. While callers hold
  `file_lock`, `cache_store` shows that all is well.
* `inode_grow`. `P/filesys/inode.c:701`: the new length and sectors of a file that
  grows are stored in a copy of the inode that is not saved. The test
  `grow-file-size` expects the new length.

The models also follow the code where it fails without contradicting a statement
of the repository that a run could refute; the properties exclude these cases by
name, and the models contain them:

* A process whose parent is gone frees its `wait_status` and then ups the
  semaphore in it (`process.c:219`), and `process_execute()` initialises
  `child_list_lock` each time (`process.c:73`), also while others use it:
  `PanicCauses` says that the kernel panics for no other reason, and `RefCountExact` is
  for as long as the second has not happened. Arguments are passed in globals and `load()`
  keeps its file in a static variable, so execs that overlap get each other's;
  `LoadsOwnCommand` bounds the mixture, and `SpaceHoldsProgram` is for the processes that
  did not overlap. `load()` leaves the executable open when it fails. `setup_stack()`
  does not look whether the command line fits in the stack's page: the rest overwrites
  the page below, if one is mapped there and writable, or stops the kernel.
* `open`, `read` and `write` keep `file_lock` on some failing paths; a full
  descriptor table is written at index -1; exit closes the first `num_fds`
  entries, which are not always the open ones, and closes them without
  `file_lock`; `inumber` follows the pointer of an unused entry. The properties of
  `Syscalls` are for good arguments (`careless`).
* A new file whose name is refused loses its sectors, and one of length 0 that is removed
  loses one; `SectorsAccounted` says that these (`lost`) are all that is missing. Sectors
  of indirect tables are not given back, and doubly indirect ones are overrun when cleared
  or freed; `SectorsAccounted` is for files with direct sectors.
* A directory that is full loses a new entry, and `mkdir` in it panics; a directory
  that is not empty, `.` and `..` can be removed; `chdir` to a missing name
  succeeds; removing by a longer path fails; `path_resolution()` leaves an inode
  open. `Tree` is for use without removals.
* `timer_calibrate()` tests each lower bit with the highest bit alone, not with the
  bits found so far, and tests nine where its comment says eight;
  `SleepsLongEnough` says what remains true of the loops. `ide.c` never resets
  `expecting_interrupt`, and the comment at `ide.c:435` promises ten seconds where the
  code waits ten milliseconds before it goes on with a busy device; `IdeIsStore` is for
  as long as it has not. `calloc()`'s test for overflow misses some products, which
  then get a smaller block; `HeapSound` is about the block that was given.
* A thread of the HTTP pool ends after one connection; `AllServedInOrder` is for the
  connections that a thread is left for.

## Not modelled

* Exceptions (`exception.c`): a fault in user mode ends the process by `thread_exit()`,
  without a status, which is the killed process of `Processes`, and how a fault nests is in `Interrupts`; counting and
  printing remain.
* The C library, fixed-point numbers (which nothing uses), partition tables,
  formatting, path splitting and the tokenizer of hw1: functions of one argument,
  without state that calls share. `rtc.c`, `speaker.c`, the PIT and the screen: port
  and memory output. The loader and the order of initialisation: straight-line code.
* `fsutil.c`, the user library and programs, the utilities: clients of the calls that
  are modelled, or programs of the host.
* hw0 prints values. hw1's shell reads a line, then forks, executes and waits; its
  state is the host's process table.
* hw3's allocator: splitting a block does not link the rest into the list, and
  follows a null `next` when the block is the last one (`mm_alloc.c:64`); merging with
  the next block keeps `next` pointing into the merged one (`mm_alloc.c:200-206`).
  After the first of either the list no longer describes the heap, and a model would
  end there.
* Three hazards have no property, because none holds of the code as it is: the entry
  added to a full directory, the full descriptor table, and the exit that closes files
  without `file_lock`. The first two are faults of `Directory` and `Syscalls` that end a
  behaviour, the third is a step of `Syscalls` beside the locked calls.
