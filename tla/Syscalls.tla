------------------------------ MODULE Syscalls ------------------------------
(***************************************************************************)
(* The file system calls of userprog/syscall.c: the descriptor table of    *)
(* each process, file_lock, and the way a process ends (error(), k_exit()  *)
(* and the loop of thread_exit() that closes its files).  What a call does *)
(* to the file system itself is in Inode and Directory; here it is time    *)
(* spent inside the file system, under file_lock or without it.            *)
(***************************************************************************)
EXTENDS Integers, FiniteSets

CONSTANTS Procs, None,
          MAX_FILE_DESCRIPTORS,
          Calls,        \* the calls that processes make
          MaxObjects,   \* bound: files and directories opened in all
          MaxCalls      \* bound: calls of all processes

ASSUME SomeDescriptors == MAX_FILE_DESCRIPTORS \in Nat /\ MAX_FILE_DESCRIPTORS > 2
ASSUME NoneIsNone == None \notin Procs /\ None \notin Nat /\ MaxObjects \in Nat

VARIABLES
  holder,    \* file_lock.holder
  pc,        \* where each process is: "user", "wait" for file_lock,
             \* "locked" or "unlocked" inside the file system, in
             \* "exit" (thread_exit), "leave" (process_exit) or "dead"
  call,      \* call[p], the call that p is in and its argument
  fd_table,  \* fd_table[p][i], the entries of p
  num_fds,   \* num_fds[p]
  closing,   \* closing[p], the index i of the loop of thread_exit
  objects,   \* how many struct file and struct dir have been allocated
  freed,     \* those that have been freed
  calls,     \* how many calls have been made
  careless,  \* whether some call was given a bad argument, or a path that
             \* does not resolve
  fault      \* "panic", "overrun" (an access outside fd_table), "uaf" (a call
             \* uses a freed object) or "twice" (thread_exit closes one again);
             \* no step follows

vars == <<holder, pc, call, fd_table, num_fds, closing, objects, freed, calls, careless, fault>>
tables == <<fd_table, num_fds, objects, freed>>

Fds == 2..(MAX_FILE_DESCRIPTORS - 1)
NULL == 0
Live == (1..objects) \ freed
Unused == [in_use |-> FALSE, is_dir |-> FALSE, ptr |-> NULL]

\* An entry that a call may use as a file.
IsFile(e) == e.in_use /\ ~e.is_dir

\* check_fd() and check_fd_read_write()
check_fd(fd) == fd \in Fds
check_fd_read_write(fd) == fd < MAX_FILE_DESCRIPTORS

get_next_fd(p) ==
  LET free == {i \in Fds : ~fd_table[p][i].in_use}
  IN IF free = {} THEN None ELSE CHOOSE i \in free : \A j \in free : i <= j

-----------------------------------------------------------------------------
(* How a call goes on. *)

Goes(p, where, c) ==
  /\ pc' = [pc EXCEPT ![p] = where]
  /\ call' = [call EXCEPT ![p] = c]
  /\ UNCHANGED closing
Waits(p, c) == Goes(p, "wait", c)
Unlocked(p, c) == Goes(p, "unlocked", c)
Back(p) == Goes(p, "user", <<>>)

\* error() and k_exit(): thread_exit() begins.
error(p) ==
  /\ pc' = [pc EXCEPT ![p] = "exit"]
  /\ call' = [call EXCEPT ![p] = <<>>]
  /\ closing' = [closing EXCEPT ![p] = 2]

\* A call through a pointer that was freed, or was never set.
Uses(o) == fault' = IF o \in Live THEN fault ELSE "uaf"

-----------------------------------------------------------------------------
(* The calls up to lock_acquire(), or whole when they take no lock. *)

Begins(p, name, good) ==
  /\ pc[p] = "user"
  /\ name \in Calls
  /\ calls < MaxCalls
  /\ calls' = calls + 1
  /\ careless' = (careless \/ ~good)
  /\ UNCHANGED <<holder, tables>>

k_exit(p) == pc[p] = "user" /\ error(p) /\ UNCHANGED <<holder, tables, calls, careless, fault>>

\* open, create, remove and mkdir take a path; check_arg() refuses a bad one.
k_path(p, name, good) ==
  /\ Begins(p, name, good)
  /\ IF good \/ name = "mkdir" THEN Waits(p, <<name, good>>) ELSE error(p)
  /\ UNCHANGED fault

\* read and write; a buffer of no bytes returns at once, a write to descriptor
\* 0 is an error, and check_arg() refuses a bad buffer.
k_read_write(p, name, fd, buffer) ==
  /\ Begins(p, name, /\ buffer # "bad"
                     /\ \/ fd \in Fds /\ IsFile(fd_table[p][fd])
                        \/ <<name, fd>> \in {<<"read", 0>>, <<"write", 1>>})
  /\ IF ~check_fd_read_write(fd) THEN error(p)
     ELSE IF buffer = "empty" THEN Back(p)
     ELSE IF (name = "write" /\ fd = 0) \/ buffer = "bad" THEN error(p)
     ELSE Waits(p, <<name, fd>>)
  /\ UNCHANGED fault

\* filesize, seek, tell and close check the entry before they take the lock.
k_file(p, name, fd) ==
  LET good == check_fd(fd) /\ IsFile(fd_table[p][fd]) IN
  /\ Begins(p, name, good)
  /\ IF good THEN Waits(p, <<name, fd>>) ELSE error(p)
  /\ UNCHANGED fault

\* chdir, and readdir on an open directory, walk the file system without the
\* lock; isdir only reads the table.
k_chdir(p, good) ==
  /\ Begins(p, "chdir", good)
  /\ IF good THEN Unlocked(p, <<"chdir", 0>>) ELSE error(p)
  /\ UNCHANGED fault

k_readdir(p, fd) ==
  /\ Begins(p, "readdir", check_fd(fd))
  /\ IF ~check_fd(fd) THEN error(p)
     ELSE IF fd_table[p][fd].is_dir /\ fd_table[p][fd].in_use THEN Unlocked(p, <<"readdir", fd>>)
     ELSE Back(p)
  /\ UNCHANGED fault

k_isdir(p, fd) ==
  /\ Begins(p, "isdir", check_fd(fd))
  /\ IF check_fd(fd) THEN Back(p) ELSE error(p)
  /\ UNCHANGED fault

\* inumber follows the pointer whether or not the entry is in use.
k_inumber(p, fd) ==
  /\ Begins(p, "inumber", check_fd(fd) /\ fd_table[p][fd].in_use)
  /\ IF check_fd(fd) THEN Back(p) /\ Uses(fd_table[p][fd].ptr)
     ELSE error(p) /\ UNCHANGED fault

-----------------------------------------------------------------------------
(* Inside the file system. *)

LockAcquire(p) ==
  /\ pc[p] = "wait"
  /\ \/ /\ holder = p
        /\ fault' = "panic"
        /\ UNCHANGED <<holder, pc>>
     \/ /\ holder = None
        /\ holder' = p
        /\ pc' = [pc EXCEPT ![p] = "locked"]
        /\ UNCHANGED fault
  /\ UNCHANGED <<call, tables, closing, calls, careless>>

InCall(p, names) == pc[p] = "locked" /\ call[p][1] \in names
LockRelease(p) == holder' = None
Keeps == UNCHANGED holder

\* Mutant: a failed open keeps the lock, as OpenUnresolved does.
OpenMissing_keeps(p) ==
  /\ InCall(p, {"open"})
  /\ Keeps /\ Back(p)
  /\ UNCHANGED <<tables, calls, careless, fault>>

\* k_open() when the path leads to a file or a directory, to nothing, or when
\* path_resolution() fails: then it returns with the lock.
OpenFound(p, dir) ==
  /\ InCall(p, {"open"})
  /\ objects < MaxObjects
  /\ objects' = objects + 1
  /\ IF get_next_fd(p) = None
     THEN fault' = "overrun" /\ UNCHANGED fd_table
     ELSE /\ fd_table' = [fd_table EXCEPT ![p][get_next_fd(p)] =
                            [in_use |-> TRUE, is_dir |-> dir, ptr |-> objects']]
          /\ UNCHANGED fault
  /\ num_fds' = [num_fds EXCEPT ![p] = @ + 1]
  /\ LockRelease(p) /\ Back(p)
  /\ UNCHANGED <<freed, calls, careless>>

OpenMissing(p) ==
  /\ InCall(p, {"open"})
  /\ LockRelease(p) /\ Back(p)
  /\ UNCHANGED <<tables, calls, careless, fault>>

OpenUnresolved(p) ==
  /\ InCall(p, {"open"})
  /\ careless' = TRUE
  /\ Keeps /\ Back(p)
  /\ UNCHANGED <<tables, calls, fault>>

\* read and write of the console and of files.  Reading the keyboard waits for
\* keys with the lock held.
ReadWriteConsole(p) ==
  /\ InCall(p, {"read", "write"})
  /\ call[p][2] = IF call[p][1] = "read" THEN 0 ELSE 1
  /\ LockRelease(p) /\ Back(p)
  /\ UNCHANGED <<tables, calls, careless, fault>>

ReadWriteFile(p) ==
  LET fd == call[p][2] IN
  /\ InCall(p, {"read", "write"})
  /\ fd # IF call[p][1] = "read" THEN 0 ELSE 1
  /\ IF fd \in Fds /\ IsFile(fd_table[p][fd])
     THEN /\ Uses(fd_table[p][fd].ptr)
          /\ LockRelease(p) /\ Back(p)
     ELSE /\ error(p) /\ Keeps
          /\ UNCHANGED fault
  /\ UNCHANGED <<tables, calls, careless>>

FileCall(p) ==
  /\ InCall(p, {"filesize", "seek", "tell"})
  /\ Uses(fd_table[p][call[p][2]].ptr)
  /\ LockRelease(p) /\ Back(p)
  /\ UNCHANGED <<tables, calls, careless>>

PathCall(p) ==
  /\ InCall(p, {"create", "remove", "mkdir"})
  /\ LockRelease(p)
  /\ IF call[p][2] THEN Back(p) ELSE error(p)
  /\ UNCHANGED <<tables, calls, careless, fault>>

\* Mutant: close frees the file and leaves the entry in use.
k_close_in_use(p) ==
  /\ InCall(p, {"close"})
  /\ Uses(fd_table[p][call[p][2]].ptr)
  /\ freed' = freed \cup {fd_table[p][call[p][2]].ptr}
  /\ LockRelease(p) /\ Back(p)
  /\ UNCHANGED <<fd_table, num_fds, objects, calls, careless>>

k_close(p) ==
  LET fd == call[p][2] IN
  /\ InCall(p, {"close"})
  /\ Uses(fd_table[p][fd].ptr)
  /\ freed' = freed \cup {fd_table[p][fd].ptr}
  /\ fd_table' = [fd_table EXCEPT ![p][fd].in_use = FALSE]
  /\ num_fds' = [num_fds EXCEPT ![p] = @ - 1]
  /\ LockRelease(p) /\ Back(p)
  /\ UNCHANGED <<objects, calls, careless>>

UnlockedCall(p) ==
  /\ pc[p] = "unlocked"
  /\ IF call[p][1] = "readdir" THEN Uses(fd_table[p][call[p][2]].ptr) ELSE UNCHANGED fault
  /\ Back(p)
  /\ UNCHANGED <<holder, tables, calls, careless>>

-----------------------------------------------------------------------------
(* The end of a process. *)

\* One turn of the loop of thread_exit(): entry i is closed, in use or not.
ExitClose(p) ==
  LET o == fd_table[p][closing[p]].ptr IN
  /\ pc[p] = "exit"
  /\ closing[p] < num_fds[p]
  /\ freed' = freed \cup ({o} \ {NULL})
  /\ fault' = IF o \in freed THEN "twice" ELSE fault
  /\ closing' = [closing EXCEPT ![p] = @ + 1]
  /\ UNCHANGED <<holder, pc, call, fd_table, num_fds, objects, calls, careless>>

\* The loop is done; process_exit() closes the program's file next.
ExitLoopDone(p) ==
  /\ pc[p] = "exit"
  /\ closing[p] >= num_fds[p]
  /\ pc' = [pc EXCEPT ![p] = "leave"]
  /\ UNCHANGED <<holder, call, tables, closing, calls, careless, fault>>

ProcessExit(p) ==
  /\ pc[p] = "leave"
  /\ pc' = [pc EXCEPT ![p] = "dead"]
  /\ UNCHANGED <<holder, call, tables, closing, calls, careless, fault>>

-----------------------------------------------------------------------------
Init ==
  /\ holder = None
  /\ pc = [p \in Procs |-> "user"]
  /\ call = [p \in Procs |-> <<>>]
  /\ fd_table = [p \in Procs |-> [i \in Fds |-> Unused]]
  /\ num_fds = [p \in Procs |-> 0]
  /\ closing = [p \in Procs |-> 2]
  /\ objects = 0
  /\ freed = {}
  /\ calls = 0
  /\ careless = FALSE
  /\ fault = "none"

AnyFd == 0..MAX_FILE_DESCRIPTORS

Begin(p) ==
  \/ k_exit(p)
  \/ \E name \in {"open", "create", "remove", "mkdir"}, good \in BOOLEAN : k_path(p, name, good)
  \/ \E good \in BOOLEAN : k_chdir(p, good)
  \/ \E fd \in AnyFd :
       \/ \E name \in {"read", "write"}, buffer \in {"good", "empty", "bad"} :
            k_read_write(p, name, fd, buffer)
       \/ \E name \in {"filesize", "seek", "tell", "close"} : k_file(p, name, fd)
       \/ k_readdir(p, fd) \/ k_isdir(p, fd) \/ k_inumber(p, fd)

Work(p) ==
  \/ LockAcquire(p)
  \/ \E dir \in BOOLEAN : OpenFound(p, dir)
  \/ OpenMissing(p) \/ OpenUnresolved(p)
  \/ ReadWriteFile(p) \/ FileCall(p) \/ PathCall(p) \/ k_close(p)
  \/ UnlockedCall(p)
  \/ ExitClose(p) \/ ExitLoopDone(p) \/ ProcessExit(p)

\* No step of this module is left when every process is dead or every call is
\* used up.
Next == fault = "none" /\ \E p \in Procs : Begin(p) \/ ReadWriteConsole(p) \/ Work(p)

Spec == Init /\ [][Next]_vars

\* A process that can run does run, and the console takes what is written;
\* nobody need call anything or press a key.
FairSpec ==
  /\ Spec
  /\ \A p \in Procs : WF_vars(fault = "none" /\ Work(p))
  /\ \A p \in Procs : WF_vars(fault = "none" /\ call[p] = <<"write", 1>> /\ ReadWriteConsole(p))

-----------------------------------------------------------------------------
(* Properties. *)

\* The tables hold entries for every descriptor, the lock belongs to a process
\* or to nobody, and a process in a call has a call.
TypeOK ==
  /\ holder \in Procs \cup {None}
  /\ pc \in [Procs -> {"user", "wait", "locked", "unlocked", "exit", "leave", "dead"}]
  /\ fd_table \in [Procs -> [Fds -> [in_use : BOOLEAN, is_dir : BOOLEAN, ptr : 0..MaxObjects]]]
  /\ num_fds \in [Procs -> 0..MaxObjects]
  /\ closing \in [Procs -> Fds]
  /\ freed \subseteq 1..objects
  /\ \A p \in Procs : (pc[p] \in {"wait", "locked", "unlocked"}) = (call[p] # <<>>)

Running(p) == pc[p] \notin {"exit", "leave", "dead"}

\* Every variable has its type, num_fds counts the entries in use, and every
\* entry in use of a running process names an object that has not been freed and
\* that no other entry, of any process, names: descriptors are not inherited and
\* close() gives an object back once.  So no call that was given good arguments
\* follows the pointer of an entry that was closed or never opened.
EntriesOwnObjects ==
  /\ TypeOK
  /\ ~careless => fault # "uaf"
  /\ \A p \in Procs : fault = "none" =>
       num_fds[p] = Cardinality({i \in Fds : fd_table[p][i].in_use})
  /\ \A p, q \in Procs, i, j \in Fds :
       (fault = "none" /\ Running(p) /\ fd_table[p][i].in_use) =>
         /\ fd_table[p][i].ptr \in Live
         /\ (Running(q) /\ fd_table[q][j].in_use /\ <<p, i>> # <<q, j>>) =>
              fd_table[p][i].ptr # fd_table[q][j].ptr

\* While every call gets good arguments, file_lock belongs to a process that is
\* inside a file system call: no call returns with it, no process ends with it.
LockReleased == holder # None /\ ~careless => pc[holder] = "locked"

ReadsKeyboard(p) == pc[p] = "locked" /\ call[p] = <<"read", 0>>

\* A process that asks for file_lock gets it, or has died, while every call gets
\* good arguments, nobody reads the keyboard with the lock held and the kernel
\* has not failed: whoever holds the lock gives it back.
CallsReturn ==
  \A p \in Procs :
    pc[p] = "wait" ~> \/ pc[p] # "wait" \/ careless \/ fault # "none"
                      \/ \E q \in Procs : ReadsKeyboard(q)
=============================================================================
