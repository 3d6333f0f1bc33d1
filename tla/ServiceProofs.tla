---------------------------- MODULE ServiceProofs ----------------------------
(***************************************************************************)
(* The file system calls of the kernel and the thread pool of the web      *)
(* server: who owns what is open, and who is inside.                       *)
(***************************************************************************)
EXTENDS Syscalls, HttpServer, FiniteSetTheorems, WellFoundedInduction, TLAPS
-----------------------------------------------------------------------------
\* The descriptor tables and file_lock of the file system calls, for any
\* number of processes, descriptors, objects and calls.

Labels == {"user", "wait", "locked", "unlocked", "exit", "leave", "dead"}
InSystem == {"wait", "locked", "unlocked"}
InUse(p) == {i \in Fds : fd_table[p][i].in_use}
IsCall(c) == c # <<>>
Entry == [in_use : BOOLEAN, is_dir : BOOLEAN, ptr : 0..MaxObjects]

(* The strengthening. *)

ControlTypes ==
  /\ holder \in Procs \cup {None}
  /\ pc \in [Procs -> Labels]
  /\ call = [p \in Procs |-> call[p]]
  /\ closing \in [Procs -> Fds]
  /\ \A p \in Procs : pc[p] \in InSystem <=> call[p] # <<>>

TableTypes ==
  /\ fd_table \in [Procs -> [Fds -> Entry]]
  /\ num_fds \in [Procs -> Nat]
  /\ objects \in 0..MaxObjects
  /\ freed \subseteq 1..objects

\* No two entries ever name the same object, used or not, for every open makes
\* a new one, and an entry in use of a running process names a live one.
Owned ==
  /\ \A p, q \in Procs, i, j \in Fds :
       <<p, i>> # <<q, j>> /\ fd_table[p][i].ptr # NULL => fd_table[p][i].ptr # fd_table[q][j].ptr
  /\ \A p \in Procs, i \in Fds : fd_table[p][i].ptr <= objects
  /\ \A p \in Procs, i \in Fds :
       fault = "none" /\ Running(p) /\ fd_table[p][i].in_use => fd_table[p][i].ptr \in Live

Counted ==
  \A p \in Procs :
    /\ num_fds[p] <= objects
    /\ fault = "none" => num_fds[p] = Cardinality(InUse(p))

\* What k_file(), k_read_write() and k_readdir() found before the call waited
\* for the lock or went inside is still so.
CallOK(p) ==
  /\ pc[p] \in {"wait", "locked"} /\ call[p][1] \in {"filesize", "seek", "tell", "close"} =>
       call[p][2] \in Fds /\ IsFile(fd_table[p][call[p][2]])
  /\ pc[p] \in {"wait", "locked"} /\ call[p][1] \in {"read", "write"} /\ ~careless =>
       \/ call[p][2] \in Fds /\ IsFile(fd_table[p][call[p][2]])
       \/ call[p][2] = IF call[p][1] = "read" THEN 0 ELSE 1
  /\ pc[p] = "unlocked" /\ call[p][1] = "readdir" =>
       call[p][2] \in Fds /\ fd_table[p][call[p][2]].in_use

LockOK == ~careless => \A p \in Procs : holder = p <=> pc[p] = "locked"
NoUaf == ~careless => fault # "uaf"

SysInv ==
  /\ ControlTypes /\ TableTypes
  /\ Owned /\ Counted
  /\ \A p \in Procs : CallOK(p)
  /\ LockOK /\ NoUaf

-----------------------------------------------------------------------------
(* Steps of one process. *)

Moves(p) ==
  /\ pc' = [pc EXCEPT ![p] = pc'[p]]
  /\ call' = [call EXCEPT ![p] = call'[p]]
  /\ closing' = [closing EXCEPT ![p] = closing'[p]]
  /\ pc'[p] \in Labels /\ closing'[p] \in Fds
  /\ pc'[p] \in InSystem <=> call'[p] # <<>>
  /\ Running(p)' => Running(p)
  /\ careless => careless'
  /\ holder' \in Procs \cup {None}

LEMMA MovesAlone ==
  ASSUME ControlTypes, NEW p \in Procs, Moves(p)
  PROVE  /\ ControlTypes'
         /\ \A q \in Procs \ {p} : pc'[q] = pc[q] /\ call'[q] = call[q] /\ closing'[q] = closing[q]
<1>1. \A q \in Procs \ {p} : pc'[q] = pc[q] /\ call'[q] = call[q] /\ closing'[q] = closing[q]
  BY Zenon DEF ControlTypes, Moves
<1>2. pc' \in [Procs -> Labels] /\ closing' \in [Procs -> Fds]
  BY Zenon DEF ControlTypes, Moves
<1>3. call' = [q \in Procs |-> call'[q]]
  BY Zenon DEF ControlTypes, Moves
<1>4. ASSUME NEW q \in Procs PROVE pc'[q] \in InSystem <=> call'[q] # <<>>
  BY <1>1, Zenon DEF ControlTypes, Moves
<1> QED BY <1>1, <1>2, <1>3, <1>4, Zenon DEF ControlTypes, Moves

LEMMA TwoIsFd == 2 \in Fds
  BY SomeDescriptors DEF Fds

LEMMA ErrorMoves ==
  ASSUME ControlTypes, NEW p \in Procs, error(p), careless => careless', holder' \in Procs \cup {None}
  PROVE  Moves(p) /\ pc'[p] = "exit"
<1>1. pc'[p] = "exit" /\ call'[p] = <<>> /\ closing'[p] = 2
  BY Zenon DEF ControlTypes, error
<1>2. "exit" \in Labels /\ "exit" \notin InSystem /\ ~Running(p)'
  BY Zenon, <1>1 DEF Labels, InSystem, Running
<1> QED BY <1>1, <1>2, TwoIsFd, Zenon DEF Moves, error

LEMMA GoesMoves ==
  ASSUME ControlTypes, NEW p \in Procs, NEW where \in Labels, NEW c, Goes(p, where, c),
         where \in InSystem <=> c # <<>>, Running(p),
         careless => careless', holder' \in Procs \cup {None}
  PROVE  Moves(p) /\ pc'[p] = where /\ call'[p] = c
<1>1. pc'[p] = where /\ call'[p] = c /\ closing'[p] = closing[p] /\ closing'[p] \in Fds
      /\ closing' = [closing EXCEPT ![p] = closing'[p]]
  BY Zenon DEF ControlTypes, Goes
<1> QED BY <1>1, Zenon DEF Moves, Goes

LEMMA BackMoves ==
  ASSUME ControlTypes, NEW p \in Procs, Back(p), Running(p),
         careless => careless', holder' \in Procs \cup {None}
  PROVE  Moves(p) /\ pc'[p] = "user"
<1>1. "user" \in Labels /\ "user" \notin InSystem
  BY Zenon DEF Labels, InSystem
<1> QED BY <1>1, GoesMoves, Zenon DEF Back

LEMMA EntersMoves ==
  ASSUME ControlTypes, NEW p \in Procs, NEW c, IsCall(c), NEW where, where \in {"wait", "unlocked"},
         Goes(p, where, c), Running(p),
         careless => careless', holder' \in Procs \cup {None}
  PROVE  Moves(p) /\ pc'[p] = where /\ call'[p] = c
<1>1. where \in Labels /\ where \in InSystem
  BY Zenon DEF Labels, InSystem
<1> QED BY <1>1, GoesMoves, Zenon DEF IsCall

-----------------------------------------------------------------------------
(* What a step that leaves the tables alone has to keep. *)

LEMMA CallsOthers ==
  ASSUME SysInv, NEW p \in Procs, Moves(p), NEW q \in Procs \ {p}, fd_table'[q] = fd_table[q]
  PROVE  CallOK(q)'
<1>1. pc'[q] = pc[q] /\ call'[q] = call[q] /\ CallOK(q) /\ (~careless' => ~careless)
  BY MovesAlone, Zenon DEF SysInv, Moves
<1> QED BY <1>1, Zenon DEF CallOK, IsFile

LEMMA CallOver ==
  ASSUME NEW p, pc'[p] \notin InSystem
  PROVE  CallOK(p)'
  BY DEF CallOK, InSystem

LEMMA RunningStays ==
  ASSUME SysInv, NEW p \in Procs, Moves(p)
  PROVE  \A q \in Procs : Running(q)' => Running(q)
  BY MovesAlone, ZenonT(60) DEF SysInv, Moves, Running

LEMMA TablesKept ==
  ASSUME SysInv, fault = "none", NEW p \in Procs, Moves(p), UNCHANGED tables, CallOK(p)', LockOK', NoUaf'
  PROVE  SysInv'
<1>1. UNCHANGED <<fd_table, num_fds, objects, freed>>
  BY Zenon DEF tables
<1>2. ControlTypes'
  BY MovesAlone, Zenon DEF SysInv
<1>3. TableTypes'
  BY <1>1, Zenon DEF SysInv, TableTypes
<1>4. Owned'
  <2>1. ASSUME NEW q \in Procs, NEW i \in Fds, Running(q)', fd_table'[q][i].in_use
        PROVE  fd_table'[q][i].ptr \in Live'
    <3>1. Running(q) /\ fd_table[q][i].in_use
      BY <1>1, <2>1, RunningStays, Zenon
    <3>2. fd_table[q][i].ptr \in Live
      BY <3>1, Zenon DEF SysInv, Owned
    <3> QED BY <1>1, <3>2, Zenon DEF Live
  <2>2. \A q \in Procs, i \in Fds : fd_table'[q][i].ptr <= objects'
    BY <1>1, Zenon DEF SysInv, Owned
  <2>3. \A q, r \in Procs, i, j \in Fds :
          <<q, i>> # <<r, j>> /\ fd_table'[q][i].ptr # NULL => fd_table'[q][i].ptr # fd_table'[r][j].ptr
    BY <1>1 DEF SysInv, Owned
  <2> QED BY <2>1, <2>2, <2>3, Zenon DEF Owned
<1>5. Counted'
  BY <1>1, Zenon DEF SysInv, Counted, InUse
<1>6. \A q \in Procs : CallOK(q)'
  BY <1>1, CallsOthers, Zenon
<1> QED BY <1>2, <1>3, <1>4, <1>5, <1>6, Zenon DEF SysInv

LEMMA LockKept ==
  ASSUME SysInv, NEW p \in Procs, Moves(p), holder' = holder, pc[p] # "locked", pc'[p] # "locked"
  PROVE  LockOK'
  BY MovesAlone, ZenonT(60) DEF SysInv, Moves, LockOK

LEMMA LockBack ==
  ASSUME SysInv, NEW p \in Procs, Moves(p), holder' = None, pc[p] = "locked", pc'[p] # "locked"
  PROVE  LockOK'
<1> SUFFICES ASSUME ~careless', NEW q \in Procs PROVE holder' # q /\ pc'[q] # "locked"
  BY Zenon DEF LockOK
<1>1. ~careless /\ holder = p
  BY Zenon DEF SysInv, Moves, LockOK
<1>2. pc'[q] # "locked"
  BY <1>1, MovesAlone, Zenon DEF SysInv, LockOK
<1> QED BY <1>2, NoneIsNone, Zenon

\* A pointer that a call follows is live when its entry is in use.
LEMMA UsesLive ==
  ASSUME SysInv, fault = "none", NEW p \in Procs, Running(p), NEW i \in Fds, fd_table[p][i].in_use,
         Uses(fd_table[p][i].ptr)
  PROVE  fault' = "none" /\ NoUaf'
<1>1. fd_table[p][i].ptr \in Live
  BY Zenon DEF SysInv, Owned
<1>2. fault' = "none"
  BY <1>1, Zenon DEF Uses
<1> QED BY Zenon, <1>2 DEF NoUaf

LEMMA NoFault ==
  ASSUME fault' = "none"
  PROVE  NoUaf'
  BY Zenon DEF NoUaf

-----------------------------------------------------------------------------
(* The calls up to the lock. *)

LEMMA BeginStep ==
  ASSUME SysInv, fault = "none", NEW p \in Procs, Begin(p)
  PROVE  SysInv'
<1>0. ControlTypes /\ holder \in Procs \cup {None} /\ pc[p] = "user" /\ UNCHANGED <<holder, tables>>
      /\ (careless => careless')
  <2>1. ASSUME NEW name, NEW good, Begins(p, name, good)
        PROVE  pc[p] = "user" /\ UNCHANGED <<holder, tables>> /\ (careless => careless')
    BY <2>1, Zenon DEF Begins
  <2>2. k_exit(p) => pc[p] = "user" /\ UNCHANGED <<holder, tables>> /\ (careless => careless')
    BY DEF k_exit
  <2>3. k_exit(p) \/ \E name, good : Begins(p, name, good)
    BY Zenon DEF Begin, k_path, k_chdir, k_read_write, k_file, k_readdir, k_isdir, k_inumber
  <2>4. ControlTypes /\ holder \in Procs \cup {None}
    BY Zenon DEF SysInv, ControlTypes
  <2> QED BY <2>1, <2>2, <2>3, <2>4, Zenon
<1>1. Running(p) /\ pc[p] # "locked" /\ holder' = holder /\ holder' \in Procs \cup {None}
  BY <1>0 DEF Running
<1>2. CASE error(p) /\ fault' = "none"
  <2>1. Moves(p) /\ pc'[p] = "exit"
    BY <1>0, <1>1, <1>2, ErrorMoves, Zenon
  <2>2. pc'[p] \notin InSystem /\ pc'[p] # "locked"
    BY <2>1 DEF InSystem
  <2> QED BY <1>0, <1>1, <1>2, <2>1, <2>2, CallOver, LockKept, NoFault, TablesKept, Zenon
<1>3. CASE Back(p) /\ NoUaf'
  <2>1. Moves(p) /\ pc'[p] = "user"
    BY <1>0, <1>1, <1>3, BackMoves, Zenon
  <2>2. pc'[p] \notin InSystem /\ pc'[p] # "locked"
    BY <2>1 DEF InSystem
  <2> QED BY <1>0, <1>1, <1>3, <2>1, <2>2, CallOver, LockKept, TablesKept, Zenon
<1>w. ASSUME NEW c, IsCall(c), Waits(p, c), fault' = "none",
             pc'[p] = "wait" /\ call'[p] = c => CallOK(p)'
      PROVE  SysInv'
  <2>1. Moves(p) /\ pc'[p] = "wait" /\ call'[p] = c
    BY Zenon, <1>0, <1>1, <1>w, EntersMoves DEF Waits
  <2>2. pc'[p] # "locked"
    BY Zenon, <2>1
  <2> QED BY <1>0, <1>1, <1>w, <2>1, <2>2, LockKept, NoFault, TablesKept, Zenon
<1>u. ASSUME NEW c, IsCall(c), Unlocked(p, c), fault' = "none",
             pc'[p] = "unlocked" /\ call'[p] = c => CallOK(p)'
      PROVE  SysInv'
  <2>1. Moves(p) /\ pc'[p] = "unlocked" /\ call'[p] = c
    BY Zenon, <1>0, <1>1, <1>u, EntersMoves DEF Unlocked
  <2>2. pc'[p] # "locked"
    BY Zenon, <2>1
  <2> QED BY <1>0, <1>1, <1>u, <2>1, <2>2, LockKept, NoFault, TablesKept, Zenon
<1>5. fd_table' = fd_table
  BY <1>0, Zenon DEF tables
<1>6. CASE k_exit(p)
  BY <1>2, <1>6, Zenon DEF k_exit
<1>7. ASSUME NEW name \in {"open", "create", "remove", "mkdir"}, NEW good \in BOOLEAN, k_path(p, name, good)
      PROVE  SysInv'
  <2>c. PICK c : c = <<name, good>>
    BY Zenon
  <2>0. c = <<name, good>> /\ IsCall(c)
    BY Zenon, <2>c DEF IsCall
  <2>1. fault' = "none" /\ (Waits(p, c) \/ error(p))
    BY <2>0, <1>7, Zenon DEF k_path
  <2>2. pc'[p] = "wait" /\ call'[p] = c => CallOK(p)'
    BY <2>0, <1>7 DEF CallOK
  <2> QED BY <1>2, <1>w, <1>u, <2>0, <2>1, <2>2, Zenon
<1>8. ASSUME NEW good \in BOOLEAN, k_chdir(p, good)
      PROVE  SysInv'
  <2>c. PICK c : c = <<"chdir", 0>>
    BY Zenon
  <2>0. c = <<"chdir", 0>> /\ IsCall(c)
    BY Zenon, <2>c DEF IsCall
  <2>1. fault' = "none" /\ (Unlocked(p, c) \/ error(p))
    BY <2>0, <1>8, Zenon DEF k_chdir
  <2>2. pc'[p] = "unlocked" /\ call'[p] = c => CallOK(p)'
    BY <2>0 DEF CallOK
  <2> QED BY <1>2, <1>w, <1>u, <2>0, <2>1, <2>2, Zenon
<1>9. ASSUME NEW n \in AnyFd, NEW name \in {"read", "write"}, NEW buffer \in {"good", "empty", "bad"},
             k_read_write(p, name, n, buffer)
      PROVE  SysInv'
  <2>c. PICK c : c = <<name, n>>
    BY Zenon
  <2>0. c = <<name, n>> /\ IsCall(c)
    BY Zenon, <2>c DEF IsCall
  <2>1. fault' = "none" /\ (Waits(p, c) \/ error(p) \/ Back(p))
    BY <2>0, <1>9, Zenon DEF k_read_write
  <2>2. ~careless' => \/ n \in Fds /\ IsFile(fd_table[p][n])
                      \/ n = IF name = "read" THEN 0 ELSE 1
    BY Zenon, <1>9 DEF k_read_write, Begins
  <2>3. pc'[p] = "wait" /\ call'[p] = c => CallOK(p)'
    BY <2>0, <1>5, <1>9, <2>2 DEF CallOK, IsFile
  <2> QED BY <1>2, <1>3, <1>w, <1>u, <2>0, <2>1, <2>3, NoFault, Zenon
<1>10. ASSUME NEW n \in AnyFd, NEW name \in {"filesize", "seek", "tell", "close"}, k_file(p, name, n)
       PROVE  SysInv'
  <2>c. PICK c : c = <<name, n>>
    BY Zenon
  <2>0. c = <<name, n>> /\ IsCall(c)
    BY Zenon, <2>c DEF IsCall
  <2>1. fault' = "none" /\ ((Waits(p, c) /\ n \in Fds /\ IsFile(fd_table[p][n])) \/ error(p))
    BY <2>0, <1>10, Zenon DEF k_file, check_fd
  <2>2. n \in Fds /\ IsFile(fd_table[p][n]) /\ pc'[p] = "wait" /\ call'[p] = c
          => CallOK(p)'
    BY <2>0, <1>5, <1>10 DEF CallOK, IsFile
  <2> QED BY <1>2, <1>w, <1>u, <2>0, <2>1, <2>2, Zenon
<1>11. ASSUME NEW n \in AnyFd, k_readdir(p, n)
       PROVE  SysInv'
  <2>c. PICK c : c = <<"readdir", n>>
    BY Zenon
  <2>0. c = <<"readdir", n>> /\ IsCall(c)
    BY Zenon, <2>c DEF IsCall
  <2>1. /\ fault' = "none"
        /\ \/ Unlocked(p, c) /\ n \in Fds /\ fd_table[p][n].in_use
           \/ error(p) \/ Back(p)
    BY <2>0, <1>11, Zenon DEF k_readdir, check_fd
  <2>2. n \in Fds /\ fd_table[p][n].in_use /\ pc'[p] = "unlocked" /\ call'[p] = c
          => CallOK(p)'
    BY <2>0, <1>5, <1>11 DEF CallOK
  <2> QED BY <1>2, <1>3, <1>w, <1>u, <2>0, <2>1, <2>2, NoFault, Zenon
<1>12. ASSUME NEW n \in AnyFd, k_isdir(p, n)
       PROVE  SysInv'
  <2>1. fault' = "none" /\ (Back(p) \/ error(p))
    BY <1>12, Zenon DEF k_isdir
  <2> QED BY <1>2, <1>3, <2>1, NoFault, Zenon
<1>13. ASSUME NEW n \in AnyFd, k_inumber(p, n)
       PROVE  SysInv'
  <2>1. CASE check_fd(n) /\ fd_table[p][n].in_use
    BY <1>1, <1>3, <1>13, <2>1, UsesLive, Zenon DEF k_inumber, check_fd
  <2>2. CASE ~(check_fd(n) /\ fd_table[p][n].in_use)
    <3>1. NoUaf'
      BY <1>13, <2>2, Zenon DEF k_inumber, Begins, NoUaf
    <3> QED BY <1>2, <1>3, <1>13, <3>1, Zenon DEF k_inumber
  <2> QED BY <2>1, <2>2, Zenon
<1> QED BY <1>6, <1>7, <1>8, <1>9, <1>10, <1>11, <1>12, <1>13, Zenon DEF Begin

-----------------------------------------------------------------------------
(* Inside the file system. *)

LEMMA AcquireStep ==
  ASSUME SysInv, fault = "none", NEW p \in Procs, LockAcquire(p)
  PROVE  SysInv'
<1>1. ControlTypes /\ LockOK /\ CallOK(p) /\ pc[p] = "wait" /\ UNCHANGED <<call, tables, closing, careless>>
  BY Zenon DEF LockAcquire, SysInv
<1>2. CASE fault' = "panic" /\ UNCHANGED <<holder, pc>>
  <2>1. Moves(p)
    <3>1. /\ pc' = [pc EXCEPT ![p] = pc'[p]] /\ call' = [call EXCEPT ![p] = call'[p]]
          /\ closing' = [closing EXCEPT ![p] = closing'[p]]
      BY <1>1, <1>2, Zenon DEF ControlTypes
    <3> QED BY <1>1, <1>2, <3>1, Zenon DEF ControlTypes, Moves, Running
  <2>2. LockOK'
    BY <1>1, <1>2, Zenon DEF LockOK
  <2>3. NoUaf'
    BY <1>2 DEF NoUaf
  <2>4. CallOK(p)'
    BY <1>1, <1>2, Zenon DEF CallOK, IsFile, tables
  <2> QED BY <1>1, <2>1, <2>2, <2>3, <2>4, TablesKept, Zenon
<1>3. CASE holder = None /\ holder' = p /\ pc' = [pc EXCEPT ![p] = "locked"] /\ fault' = fault
  <2>1. pc'[p] = "locked"
    BY <1>1, <1>3, Zenon DEF ControlTypes
  <2>2. Moves(p)
    <3>1. call' = [call EXCEPT ![p] = call'[p]] /\ closing' = [closing EXCEPT ![p] = closing'[p]]
          /\ closing'[p] \in Fds
      BY <1>1, Zenon DEF ControlTypes
    <3>2. "locked" \in Labels /\ "locked" \in InSystem /\ pc[p] \in InSystem /\ Running(p)
      BY <1>1 DEF Labels, InSystem, Running
    <3> QED BY <1>1, <1>3, <2>1, <3>1, <3>2, Zenon DEF ControlTypes, Moves
  <2>3. LockOK'
    <3> SUFFICES ASSUME ~careless', NEW q \in Procs PROVE holder' = q <=> pc'[q] = "locked"
      BY Zenon DEF LockOK
    <3>1. pc[q] # "locked"
      BY <1>1, <1>3, NoneIsNone, Zenon DEF LockOK
    <3> QED BY <1>3, <2>1, <2>2, <3>1, MovesAlone, Zenon DEF SysInv
  <2>4. CallOK(p)'
    BY <1>1, <2>1, Zenon DEF CallOK, IsFile, tables
  <2> QED BY <1>1, <1>3, <2>2, <2>3, <2>4, NoFault, TablesKept, Zenon
<1> QED BY <1>2, <1>3, Zenon DEF LockAcquire

\* A call that returns, or ends the process, and leaves the tables alone.
LEMMA ReturnStep ==
  ASSUME SysInv, fault = "none", NEW p \in Procs, pc[p] = "locked", Back(p) \/ error(p),
         UNCHANGED tables, careless => careless', holder' \in Procs \cup {None},
         holder' = None \/ careless', NoUaf'
  PROVE  SysInv'
<1>1. ControlTypes /\ Running(p)
  BY Zenon DEF SysInv, Running
<1>2. Moves(p) /\ (pc'[p] = "user" \/ pc'[p] = "exit")
  BY <1>1, BackMoves, ErrorMoves, Zenon
<1>3. pc'[p] \notin InSystem /\ pc'[p] # "locked"
  BY Zenon, <1>2 DEF InSystem
<1>4. LockOK'
  BY <1>2, <1>3, LockBack, Zenon DEF LockOK
<1> QED BY <1>2, <1>3, <1>4, CallOver, TablesKept, Zenon

LEMMA InsideStep ==
  ASSUME SysInv, fault = "none", NEW p \in Procs,
         OpenMissing(p) \/ OpenUnresolved(p) \/ ReadWriteConsole(p) \/ ReadWriteFile(p)
           \/ FileCall(p) \/ PathCall(p)
  PROVE  SysInv'
<1>0. pc[p] = "locked" /\ CallOK(p) /\ holder \in Procs \cup {None} /\ None \in Procs \cup {None}
  BY Zenon DEF SysInv, ControlTypes, OpenMissing, OpenUnresolved, ReadWriteConsole, ReadWriteFile, FileCall,
     PathCall, InCall
<1>1. Running(p)
  BY <1>0 DEF Running
<1>2. CASE OpenMissing(p) \/ ReadWriteConsole(p) \/ PathCall(p)
  <2>2. Back(p) \/ error(p)
    BY <1>2, Zenon DEF OpenMissing, ReadWriteConsole, PathCall
  <2>3. holder' = None /\ UNCHANGED tables /\ careless' = careless /\ fault' = fault
    BY <1>2, Zenon DEF OpenMissing, ReadWriteConsole, PathCall, LockRelease
  <2> QED BY <1>0, <2>2, <2>3, NoFault, ReturnStep, Zenon
<1>3. CASE OpenUnresolved(p)
  <2>1. Back(p) /\ holder' = holder /\ UNCHANGED tables /\ careless' /\ fault' = fault
    BY <1>3, Zenon DEF OpenUnresolved, Keeps
  <2> QED BY <1>0, <2>1, NoFault, ReturnStep, Zenon
<1>4. CASE ReadWriteFile(p)
  <2>1. UNCHANGED tables /\ careless' = careless
    BY <1>4, Zenon DEF ReadWriteFile
  <2>2. PICK n : n = call[p][2]
    BY Zenon
  <2>3. CASE n \in Fds /\ IsFile(fd_table[p][n])
    <3>1. Uses(fd_table[p][n].ptr) /\ holder' = None /\ Back(p) /\ fd_table[p][n].in_use
      BY <1>4, <2>2, <2>3, Zenon DEF ReadWriteFile, LockRelease, IsFile
    <3> QED BY <1>0, <1>1, <2>1, <2>3, <3>1, UsesLive, ReturnStep, Zenon
  <2>4. CASE ~(n \in Fds /\ IsFile(fd_table[p][n]))
    <3>1. error(p) /\ holder' = holder /\ fault' = fault
      BY <1>4, <2>2, <2>4, Zenon DEF ReadWriteFile, Keeps
    <3>2. careless
      <4>1. call[p][1] \in {"read", "write"} /\ call[p][2] # IF call[p][1] = "read" THEN 0 ELSE 1
        BY <1>4, Zenon DEF ReadWriteFile, InCall
      <4>2. pc[p] \in {"wait", "locked"}
        BY Zenon, <1>0
      <4> QED BY <1>0, <2>2, <2>4, <4>1, <4>2, Zenon DEF CallOK
    <3> QED BY <1>0, <2>1, <3>1, <3>2, NoFault, ReturnStep, Zenon
  <2> QED BY <2>3, <2>4, Zenon
<1>5. CASE FileCall(p)
  <2>1. UNCHANGED tables /\ careless' = careless /\ holder' = None /\ Back(p)
    BY <1>5, Zenon DEF FileCall, LockRelease
  <2>2. PICK n : n = call[p][2]
    BY Zenon
  <2>3. n \in Fds /\ fd_table[p][n].in_use
    BY <1>0, <1>5, <2>2 DEF FileCall, InCall, CallOK, IsFile
  <2>4. Uses(fd_table[p][n].ptr)
    BY <1>5, <2>2, Zenon DEF FileCall
  <2> QED BY <1>0, <1>1, <2>1, <2>3, <2>4, UsesLive, ReturnStep, Zenon
<1> QED BY <1>2, <1>3, <1>4, <1>5, Zenon

LEMMA UnlockedStep ==
  ASSUME SysInv, fault = "none", NEW p \in Procs, UnlockedCall(p)
  PROVE  SysInv'
<1>0. pc[p] = "unlocked" /\ CallOK(p) /\ ControlTypes /\ holder' \in Procs \cup {None}
      /\ holder' = holder /\ UNCHANGED tables /\ careless' = careless /\ Back(p)
  BY Zenon DEF SysInv, ControlTypes, UnlockedCall
<1>1. Running(p) /\ pc[p] # "locked"
  BY <1>0 DEF Running
<1>2. Moves(p) /\ pc'[p] = "user"
  BY <1>0, <1>1, BackMoves, Zenon
<1>3. pc'[p] \notin InSystem /\ pc'[p] # "locked"
  BY Zenon, <1>2 DEF InSystem
<1>4. NoUaf'
  <2>1. CASE call[p][1] = "readdir"
    <3>1. PICK n : n = call[p][2]
      BY Zenon
    <3>2. n \in Fds /\ fd_table[p][n].in_use /\ Uses(fd_table[p][n].ptr)
      BY <1>0, <2>1, <3>1, Zenon DEF CallOK, UnlockedCall
    <3> QED BY <1>1, <3>2, UsesLive, Zenon
  <2>2. CASE call[p][1] # "readdir"
    BY <2>2, NoFault, Zenon DEF UnlockedCall
  <2> QED BY <2>1, <2>2, Zenon
<1> QED BY <1>0, <1>1, <1>2, <1>3, <1>4, CallOver, LockKept, TablesKept, Zenon

LEMMA LeaveStep ==
  ASSUME SysInv, fault = "none", NEW p \in Procs, ExitLoopDone(p) \/ ProcessExit(p)
  PROVE  SysInv'
<1>0. ControlTypes /\ UNCHANGED <<holder, call, tables, closing, careless, fault>>
  BY Zenon DEF SysInv, ExitLoopDone, ProcessExit
<1>1. /\ pc[p] \in {"exit", "leave"} /\ pc'[p] \in {"leave", "dead"}
      /\ pc' = [pc EXCEPT ![p] = pc'[p]]
  BY Zenon DEF SysInv, ControlTypes, ExitLoopDone, ProcessExit
<1>2. /\ pc[p] \notin InSystem /\ pc'[p] \notin InSystem /\ pc'[p] \in Labels /\ ~Running(p)'
      /\ pc[p] # "locked" /\ pc'[p] # "locked"
  BY Zenon, <1>1 DEF InSystem, Labels, Running
<1>3. Moves(p)
  <2>1. call' = [call EXCEPT ![p] = call'[p]] /\ closing' = [closing EXCEPT ![p] = closing'[p]]
        /\ closing'[p] \in Fds /\ holder' \in Procs \cup {None} /\ call'[p] = call[p]
    BY <1>0, Zenon DEF ControlTypes
  <2> QED BY <1>0, <1>1, <1>2, <2>1, Zenon DEF ControlTypes, Moves
<1> QED BY <1>0, <1>2, <1>3, CallOver, LockKept, NoFault, TablesKept, Zenon

-----------------------------------------------------------------------------
(* The tables. *)

\* A set of numbers has a smallest one.
LEMMA Smallest ==
  ASSUME NEW S \in SUBSET Nat, S # {}
  PROVE  \E i \in S : \A j \in S : i <= j
<1> DEFINE R == OpToRel(<, Nat)
<1>1. IsWellFoundedOn(R, Nat)
  BY NatLessThanWellFounded, Zenon
<1>2. \E x \in S : \A y \in S : ~(<<y, x>> \in R)
  <2> HIDE DEF R
  <2> QED BY <1>1, WFMin, Zenon
<1>3. \A x, y \in Nat : <<y, x>> \in R <=> y < x
  BY Zenon DEF OpToRel
<1> HIDE DEF R
<1>4. PICK x \in S : \A y \in S : ~(<<y, x>> \in R)
  BY <1>2, Zenon
<1>5. \A y \in S : ~(y < x)
  BY Zenon, <1>3, <1>4
<1> QED BY <1>5

\* get_next_fd() finds an entry that is not in use, if there is one.
LEMMA NextFd ==
  ASSUME NEW p, get_next_fd(p) # None
  PROVE  get_next_fd(p) \in Fds /\ ~fd_table[p][get_next_fd(p)].in_use
<1> DEFINE free == {i \in Fds : ~fd_table[p][i].in_use}
<1>1. free # {} /\ get_next_fd(p) = CHOOSE i \in free : \A j \in free : i <= j
  BY Zenon DEF get_next_fd
<1>2. free \in SUBSET Nat
  BY SomeDescriptors DEF Fds
<1>3. \E i \in free : \A j \in free : i <= j
  <2> HIDE DEF free
  <2> QED BY Zenon, <1>1, <1>2, Smallest
<1>4. get_next_fd(p) \in free
  BY <1>1, <1>3, Zenon
<1> QED BY <1>4, Zenon

LEMMA InUseFinite ==
  ASSUME NEW p
  PROVE  /\ IsFiniteSet(InUse(p)) /\ Cardinality(InUse(p)) \in Nat
         /\ Cardinality(InUse(p)) <= MAX_FILE_DESCRIPTORS - 2
<1>1. IsFiniteSet(Fds) /\ Cardinality(Fds) = MAX_FILE_DESCRIPTORS - 2
  <2>1. 2 \in Int /\ MAX_FILE_DESCRIPTORS - 1 \in Int /\ ~(2 > MAX_FILE_DESCRIPTORS - 1)
    BY SomeDescriptors
  <2>2. IsFiniteSet(Fds) /\ Cardinality(Fds) = (MAX_FILE_DESCRIPTORS - 1) - 2 + 1
    BY <2>1, FS_Interval, Zenon DEF Fds
  <2> QED BY <2>2, SomeDescriptors
<1>2. InUse(p) \in SUBSET Fds
  BY Zenon DEF InUse
<1>3. IsFiniteSet(InUse(p)) /\ Cardinality(InUse(p)) <= Cardinality(Fds)
  BY <1>1, <1>2, FS_Subset, Zenon
<1>4. Cardinality(InUse(p)) \in Nat
  BY <1>3, FS_CardinalityType, Zenon
<1> QED BY Zenon, <1>1, <1>3, <1>4

\* One entry changes.
LEMMA EntrySet ==
  ASSUME fd_table \in [Procs -> [Fds -> Entry]], NEW p \in Procs, NEW n \in Fds, NEW r \in Entry,
         fd_table' = [fd_table EXCEPT ![p][n] = r]
  PROVE  /\ fd_table' \in [Procs -> [Fds -> Entry]]
         /\ fd_table'[p][n] = r
         /\ \A i \in Fds \ {n} : fd_table'[p][i] = fd_table[p][i]
         /\ \A q \in Procs \ {p} : fd_table'[q] = fd_table[q]
<1>1. fd_table' = [fd_table EXCEPT ![p] = [fd_table[p] EXCEPT ![n] = r]]
  BY Zenon
<1>2. fd_table[p] \in [Fds -> Entry]
  BY Zenon
<1>3. fd_table'[p] = [fd_table[p] EXCEPT ![n] = r] /\ \A q \in Procs \ {p} : fd_table'[q] = fd_table[q]
  BY <1>1, Zenon
<1>4. fd_table'[p] \in [Fds -> Entry] /\ fd_table'[p][n] = r /\ \A i \in Fds \ {n} : fd_table'[p][i] = fd_table[p][i]
  BY <1>2, <1>3, Zenon
<1> QED BY <1>1, <1>3, <1>4, Zenon

LEMMA EntryUsed ==
  ASSUME NEW p, NEW n \in Fds, ~fd_table[p][n].in_use, fd_table'[p][n].in_use,
         \A i \in Fds \ {n} : fd_table'[p][i] = fd_table[p][i]
  PROVE  Cardinality(InUse(p)') = Cardinality(InUse(p)) + 1
<1>1. InUse(p)' = InUse(p) \cup {n} /\ n \notin InUse(p)
  BY DEF InUse
<1> QED BY <1>1, InUseFinite, FS_AddElement, Zenon

LEMMA EntryUnused ==
  ASSUME NEW p, NEW n \in Fds, fd_table[p][n].in_use, ~fd_table'[p][n].in_use,
         \A i \in Fds \ {n} : fd_table'[p][i] = fd_table[p][i]
  PROVE  Cardinality(InUse(p)') = Cardinality(InUse(p)) - 1
<1>1. InUse(p)' = InUse(p) \ {n} /\ n \in InUse(p)
  BY DEF InUse
<1> QED BY <1>1, InUseFinite, FS_RemoveElement, Zenon

\* A call that returns after it changed an entry of its process.
LEMMA TableStep ==
  ASSUME SysInv, NEW p \in Procs, pc[p] = "locked", Back(p), LockRelease(p), careless' = careless,
         \A q \in Procs \ {p} : fd_table'[q] = fd_table[q],
         TableTypes', Owned', Counted', NoUaf'
  PROVE  SysInv'
<1>1. ControlTypes /\ Running(p)
  BY Zenon DEF SysInv, Running
<1>2. Moves(p) /\ pc'[p] = "user"
  BY <1>1, BackMoves, Zenon DEF LockRelease
<1>3. pc'[p] \notin InSystem /\ pc'[p] # "locked"
  BY <1>2 DEF InSystem
<1>4. LockOK'
  BY <1>2, <1>3, LockBack, Zenon DEF LockRelease
<1>5. \A q \in Procs : CallOK(q)'
  BY <1>2, <1>3, CallOver, CallsOthers, Zenon
<1>6. ControlTypes'
  BY <1>1, <1>2, MovesAlone, Zenon
<1> QED BY <1>4, <1>5, <1>6, Zenon DEF SysInv

LEMMA OpenStep ==
  ASSUME SysInv, fault = "none", NEW p \in Procs, NEW dir \in BOOLEAN, OpenFound(p, dir)
  PROVE  SysInv'
<1>0. /\ TableTypes /\ Owned /\ Counted /\ ControlTypes
      /\ pc[p] = "locked" /\ Back(p) /\ LockRelease(p) /\ careless' = careless /\ freed' = freed
      /\ objects < MaxObjects /\ objects' = objects + 1 /\ num_fds' = [num_fds EXCEPT ![p] = @ + 1]
  BY Zenon DEF SysInv, OpenFound, InCall
<1>1. /\ objects \in Nat /\ objects' \in 1..MaxObjects /\ objects' \in 0..MaxObjects /\ freed' \subseteq 1..objects'
      /\ objects' \notin freed /\ objects' # 0 /\ \A o \in 0..MaxObjects : o <= objects => o <= objects' /\ o # objects'
      /\ Live \subseteq Live' /\ objects' \in Live'
  BY <1>0, NoneIsNone DEF TableTypes, Live
<1>2. /\ num_fds' \in [Procs -> Nat] /\ num_fds'[p] = num_fds[p] + 1
      /\ \A q \in Procs \ {p} : num_fds'[q] = num_fds[q]
  BY <1>0 DEF TableTypes
<1>3. \A q \in Procs : num_fds'[q] <= objects'
  BY <1>0, <1>1, <1>2 DEF TableTypes, Counted
<1>4. CASE get_next_fd(p) = None
  <2>1. fault' = "overrun" /\ fd_table' = fd_table
    BY <1>4, Zenon DEF OpenFound
  <2>2. fault' # "none" /\ NoUaf'
    BY Zenon, <2>1 DEF NoUaf
  <2>3. TableTypes'
    BY <1>0, <1>1, <1>2, <2>1, Zenon DEF TableTypes
  <2>4. Owned'
    <3>1. \A q \in Procs, i \in Fds : fd_table'[q][i].ptr <= objects'
      <4>1. \A q \in Procs, i \in Fds : fd_table[q][i].ptr \in 0..MaxObjects
        BY <1>0, Zenon DEF TableTypes, Entry
      <4> QED BY <1>0, <1>1, <2>1, <4>1, Zenon DEF Owned
    <3>2. \A q, r \in Procs, i, j \in Fds :
            <<q, i>> # <<r, j>> /\ fd_table'[q][i].ptr # NULL => fd_table'[q][i].ptr # fd_table'[r][j].ptr
      BY <1>0, <2>1 DEF Owned
    <3> QED BY <2>2, <3>1, <3>2, Zenon DEF Owned
  <2>5. Counted'
    BY <1>3, <2>2, Zenon DEF Counted
  <2> QED BY <1>0, <2>1, <2>2, <2>3, <2>4, <2>5, TableStep, Zenon
<1>5. CASE get_next_fd(p) # None
  <2>1. PICK n \in Fds : n = get_next_fd(p) /\ ~fd_table[p][n].in_use
    BY <1>5, NextFd, Zenon
  <2>2. PICK r : r = [in_use |-> TRUE, is_dir |-> dir, ptr |-> objects']
    BY Zenon
  <2>3. r \in Entry /\ r.in_use /\ r.ptr = objects'
    BY Zenon, <1>1, <2>2 DEF Entry
  <2>4. fault' = "none" /\ fd_table' = [fd_table EXCEPT ![p][n] = r]
    BY <1>5, <2>1, <2>2, Zenon DEF OpenFound
  <2>5. /\ fd_table' \in [Procs -> [Fds -> Entry]]
        /\ fd_table'[p][n] = r
        /\ \A i \in Fds \ {n} : fd_table'[p][i] = fd_table[p][i]
        /\ \A q \in Procs \ {p} : fd_table'[q] = fd_table[q]
    BY <1>0, <2>3, <2>4, EntrySet, Zenon DEF TableTypes
  <2>6. \A q \in Procs, i \in Fds : <<q, i>> = <<p, n>> \/ fd_table'[q][i] = fd_table[q][i]
    BY <2>5
  <2>7. \A q \in Procs, i \in Fds : fd_table[q][i].ptr \in 0..MaxObjects
    BY <1>0, Zenon DEF TableTypes, Entry
  <2>8. TableTypes'
    BY <1>1, <1>2, <2>5, Zenon DEF TableTypes
  <2>9. Owned'
    <3>1. \A q \in Procs, i \in Fds :
            \/ q = p /\ i = n /\ fd_table'[q][i].ptr = objects'
            \/ /\ fd_table'[q][i] = fd_table[q][i]
               /\ fd_table'[q][i].ptr <= objects' /\ fd_table'[q][i].ptr # objects'
      <4> SUFFICES ASSUME NEW q \in Procs, NEW i \in Fds, ~(q = p /\ i = n)
                   PROVE  /\ fd_table'[q][i] = fd_table[q][i]
                          /\ fd_table'[q][i].ptr <= objects' /\ fd_table'[q][i].ptr # objects'
        BY <2>3, <2>5, Zenon
      <4>1. fd_table'[q][i] = fd_table[q][i]
        BY <2>5, Zenon
      <4> QED BY <1>0, <1>1, <2>7, <4>1, Zenon DEF Owned
    <3>2. \A q \in Procs, i \in Fds : fd_table'[q][i].ptr <= objects'
      BY <1>1, <3>1
    <3>3. ASSUME NEW q \in Procs, NEW i \in Fds, NEW s \in Procs, NEW j \in Fds, <<q, i>> # <<s, j>>,
                 fd_table'[q][i].ptr # NULL
          PROVE  fd_table'[q][i].ptr # fd_table'[s][j].ptr
      <4>1. ~(q = s /\ i = j)
        BY Zenon, <3>3
      <4>2. CASE fd_table'[q][i] = fd_table[q][i] /\ fd_table'[s][j] = fd_table[s][j]
        <5>1. fd_table[q][i].ptr # NULL
          BY <3>3, <4>2, Zenon
        <5>2. fd_table[q][i].ptr # fd_table[s][j].ptr
          BY <1>0, <3>3, <5>1, Zenon DEF Owned
        <5> QED BY <4>2, <5>2, Zenon
      <4>3. \/ q = p /\ i = n /\ fd_table'[q][i].ptr = objects'
            \/ fd_table'[q][i] = fd_table[q][i] /\ fd_table'[q][i].ptr # objects'
        BY <3>1, Zenon
      <4>4. \/ s = p /\ j = n /\ fd_table'[s][j].ptr = objects'
            \/ fd_table'[s][j] = fd_table[s][j] /\ fd_table'[s][j].ptr # objects'
        BY <3>1, Zenon
      <4> QED BY <4>1, <4>2, <4>3, <4>4, Zenon
    <3>4. ASSUME NEW q \in Procs, NEW i \in Fds, Running(q)', fd_table'[q][i].in_use
          PROVE  fd_table'[q][i].ptr \in Live'
      <4>1. CASE fd_table'[q][i] = fd_table[q][i]
        <5>1. Running(q)
          <6>1. Running(p)
            BY <1>0 DEF Running
          <6>2. Moves(p)
            BY <1>0, <6>1, BackMoves, Zenon DEF LockRelease
          <6> QED BY <3>4, <6>2, RunningStays, Zenon
        <5> QED BY <1>0, <1>1, <3>4, <4>1, <5>1, Zenon DEF Owned
      <4> QED BY <1>1, <3>1, <4>1, Zenon
    <3> QED BY <3>2, <3>3, <3>4, Zenon DEF Owned
  <2>10. Counted'
    <3>1. Cardinality(InUse(p)') = Cardinality(InUse(p)) + 1
      BY <2>1, <2>3, <2>5, EntryUsed, Zenon
    <3>2. \A q \in Procs \ {p} : InUse(q)' = InUse(q)
      BY <2>5, Zenon DEF InUse
    <3>3. \A q \in Procs : num_fds'[q] = Cardinality(InUse(q)')
      BY <1>0, <1>2, <3>1, <3>2, Zenon DEF Counted
    <3> QED BY <1>3, <3>3, Zenon DEF Counted
  <2> QED BY <1>0, <2>4, <2>5, <2>8, <2>9, <2>10, NoFault, TableStep, Zenon
<1> QED BY <1>4, <1>5, Zenon

LEMMA CloseStep ==
  ASSUME SysInv, fault = "none", NEW p \in Procs, k_close(p)
  PROVE  SysInv'
<1>0. /\ TableTypes /\ Owned /\ Counted /\ ControlTypes /\ CallOK(p)
      /\ pc[p] = "locked" /\ call[p][1] \in {"close"} /\ Back(p) /\ LockRelease(p) /\ careless' = careless
      /\ objects' = objects /\ num_fds' = [num_fds EXCEPT ![p] = @ - 1]
  BY Zenon DEF SysInv, k_close, InCall
<1>1. PICK n : n = call[p][2]
  BY Zenon
<1>2. n \in Fds /\ fd_table[p][n].in_use /\ Running(p)
  BY <1>0, <1>1 DEF CallOK, IsFile, Running
<1>3. PICK o : o = fd_table[p][n].ptr
  BY Zenon
<1>4. Uses(o) /\ freed' = freed \cup {o} /\ fd_table' = [fd_table EXCEPT ![p][n].in_use = FALSE]
  BY <1>1, <1>3, Zenon DEF k_close
<1>5. fault' = "none" /\ NoUaf'
  BY <1>2, <1>3, <1>4, UsesLive, Zenon
<1>6. PICK r : r = [fd_table[p][n] EXCEPT !.in_use = FALSE]
  BY Zenon
<1>7. r \in Entry /\ ~r.in_use /\ r.ptr = o
  <2>1. fd_table[p][n] \in Entry
    BY <1>0, <1>2, Zenon DEF TableTypes
  <2> QED BY Zenon, <1>3, <1>6, <2>1 DEF Entry
<1>8. /\ fd_table' \in [Procs -> [Fds -> Entry]]
      /\ fd_table'[p][n] = r
      /\ \A i \in Fds \ {n} : fd_table'[p][i] = fd_table[p][i]
      /\ \A q \in Procs \ {p} : fd_table'[q] = fd_table[q]
  <2>1. fd_table' = [fd_table EXCEPT ![p][n] = r]
    BY <1>4, <1>6, Zenon
  <2> QED BY <1>0, <1>2, <1>7, <2>1, EntrySet, Zenon DEF TableTypes
<1>9. \A q \in Procs, i \in Fds :
        \/ q = p /\ i = n /\ ~fd_table'[q][i].in_use /\ fd_table'[q][i].ptr = fd_table[q][i].ptr
        \/ ~(q = p /\ i = n) /\ fd_table'[q][i] = fd_table[q][i]
  BY <1>3, <1>7, <1>8, Zenon
<1>10. o \in Live
  BY <1>0, <1>2, <1>3, Zenon DEF Owned
<1>11. Cardinality(InUse(p)') = Cardinality(InUse(p)) - 1
  BY <1>2, <1>7, <1>8, EntryUnused, Zenon
<1>12. /\ num_fds' \in [Procs -> Nat] /\ num_fds'[p] = num_fds[p] - 1 /\ num_fds'[p] <= objects'
       /\ \A q \in Procs \ {p} : num_fds'[q] = num_fds[q]
  <2>1. Cardinality(InUse(p)') \in Nat
    <3>1. InUse(p)' \in SUBSET InUse(p)
      BY <1>8, <1>7, Zenon DEF InUse
    <3> QED BY <3>1, InUseFinite, FS_Subset, FS_CardinalityType, Zenon
  <2>2. num_fds[p] = Cardinality(InUse(p)) /\ num_fds[p] \in Nat /\ num_fds[p] <= objects /\ objects \in Nat
    BY <1>0 DEF Counted, TableTypes
  <2>3. num_fds[p] - 1 \in Nat /\ num_fds[p] - 1 <= objects'
    BY <1>0, <1>11, <2>1, <2>2
  <2> QED BY <1>0, <2>3, Zenon DEF TableTypes
<1>13. TableTypes'
  <2>1. freed' \subseteq 1..objects'
    BY Zenon, <1>0, <1>4, <1>10 DEF TableTypes, Live
  <2> QED BY <1>0, <1>8, <1>12, <2>1, Zenon DEF TableTypes
<1>14. Owned'
  <2>1. \A q \in Procs, i \in Fds : fd_table'[q][i].ptr = fd_table[q][i].ptr
    BY <1>9, Zenon
  <2>2. \A q \in Procs, i \in Fds : fd_table'[q][i].ptr <= objects'
    BY <1>0, <2>1, Zenon DEF Owned
  <2>3. ASSUME NEW q \in Procs, NEW i \in Fds, NEW s \in Procs, NEW j \in Fds, <<q, i>> # <<s, j>>,
               fd_table'[q][i].ptr # NULL
        PROVE  fd_table'[q][i].ptr # fd_table'[s][j].ptr
    BY <1>0, <2>1, <2>3 DEF Owned
  <2>4. ASSUME NEW q \in Procs, NEW i \in Fds, Running(q)', fd_table'[q][i].in_use
        PROVE  fd_table'[q][i].ptr \in Live'
    <3>1. ~(q = p /\ i = n) /\ fd_table[q][i].in_use /\ fd_table'[q][i].ptr = fd_table[q][i].ptr
      BY <1>9, <2>4, Zenon
    <3>2. Running(q)
      <4>1. Moves(p)
        BY <1>0, <1>2, BackMoves, Zenon DEF LockRelease
      <4> QED BY <2>4, <4>1, RunningStays, Zenon
    <3>3. fd_table[q][i].ptr \in Live
      BY <1>0, <3>1, <3>2, Zenon DEF Owned
    <3>4. fd_table[q][i].ptr # o
      <4>1. <<q, i>> # <<p, n>> /\ o # NULL
        BY <1>10, <3>1 DEF Live, NULL
      <4>2. fd_table[p][n].ptr # fd_table[q][i].ptr
        BY <1>0, <1>2, <1>3, <3>1, <4>1 DEF Owned
      <4> QED BY <1>3, <4>2, Zenon
    <3>5. fd_table[q][i].ptr \in Live'
      <4>1. objects' = objects /\ freed' = freed \cup {o}
        BY <1>0, <1>4, Zenon
      <4> QED BY Zenon, <3>3, <3>4, <4>1 DEF Live
    <3> QED BY <3>1, <3>5, Zenon
  <2> QED BY <2>2, <2>3, <2>4, Zenon DEF Owned
<1>15. Counted'
  <2>1. \A q \in Procs \ {p} : InUse(q)' = InUse(q)
    BY <1>8, Zenon DEF InUse
  <2>2. \A q \in Procs : num_fds'[q] = Cardinality(InUse(q)') /\ num_fds'[q] <= objects'
    BY <1>0, <1>11, <1>12, <2>1, ZenonT(60) DEF Counted
  <2> QED BY <2>2, Zenon DEF Counted
<1> QED BY <1>0, <1>5, <1>8, <1>13, <1>14, <1>15, TableStep, Zenon

LEMMA ExitCloseStep ==
  ASSUME SysInv, fault = "none", NEW p \in Procs, ExitClose(p)
  PROVE  SysInv'
<1>0. /\ TableTypes /\ Owned /\ Counted /\ ControlTypes
      /\ pc[p] = "exit" /\ closing[p] < num_fds[p] /\ closing' = [closing EXCEPT ![p] = @ + 1]
      /\ UNCHANGED <<holder, pc, call, fd_table, num_fds, objects, careless>>
  BY Zenon DEF SysInv, ExitClose
<1>1. PICK n : n = closing[p]
  BY Zenon
<1>2. n \in Fds /\ n + 1 \in Fds
  <2>1. num_fds[p] <= MAX_FILE_DESCRIPTORS - 2 /\ num_fds[p] \in Nat
    BY <1>0, InUseFinite, Zenon DEF Counted, TableTypes
  <2>2. closing[p] \in Fds
    BY <1>0, Zenon DEF ControlTypes
  <2> QED BY <1>0, <1>1, <2>1, <2>2, SomeDescriptors DEF Fds
<1>3. PICK o : o = fd_table[p][n].ptr
  BY Zenon
<1>4. o \in Nat /\ o <= objects /\ objects \in Nat
  <2>1. fd_table[p][n] \in Entry
    BY <1>0, <1>2, Zenon DEF TableTypes
  <2> QED BY <1>0, <1>2, <1>3, <2>1, NoneIsNone DEF TableTypes, Owned, Entry
<1>5. freed' = freed \cup ({o} \ {NULL}) /\ fault' = IF o \in freed THEN "twice" ELSE fault
  BY <1>1, <1>3, Zenon DEF ExitClose
<1>6. Moves(p) /\ pc'[p] \notin InSystem /\ pc[p] # "locked"
  <2>1. pc'[p] \notin InSystem /\ ~Running(p)' /\ pc[p] # "locked" /\ pc[p] \notin InSystem
    BY Zenon, <1>0 DEF InSystem, Running
  <2>2. closing'[p] \in Fds /\ closing' = [closing EXCEPT ![p] = closing'[p]]
    BY <1>0, <1>1, <1>2, Zenon DEF ControlTypes
  <2>3. pc' = [pc EXCEPT ![p] = pc'[p]] /\ call' = [call EXCEPT ![p] = call'[p]] /\ call'[p] = call[p]
        /\ pc'[p] \in Labels /\ holder' \in Procs \cup {None}
    BY <1>0, Zenon DEF ControlTypes
  <2> QED BY <1>0, <2>1, <2>2, <2>3, Zenon DEF ControlTypes, Moves
<1>7. LockOK' /\ ControlTypes'
  BY <1>0, <1>6, LockKept, MovesAlone, Zenon
<1>8. NoUaf'
  BY Zenon, <1>5 DEF NoUaf
<1>9. \A q \in Procs : CallOK(q)'
  BY <1>0, <1>6, CallOver, CallsOthers, Zenon
<1>10. TableTypes'
  <2>1. freed' \subseteq 1..objects'
    BY <1>0, <1>4, <1>5 DEF TableTypes, NULL
  <2> QED BY <1>0, <2>1, Zenon DEF TableTypes
<1>11. Counted'
  BY <1>0, Zenon DEF Counted, InUse
<1>12. Owned'
  <2>1. ASSUME NEW q \in Procs, NEW i \in Fds, Running(q)', fd_table'[q][i].in_use
        PROVE  fd_table'[q][i].ptr \in Live'
    <3>1. Running(q) /\ q # p
      <4>1. ~Running(p)
        BY Zenon, <1>0 DEF Running
      <4> QED BY <1>0, <2>1, <4>1, Zenon DEF Running
    <3>2. fd_table[q][i].ptr \in Live
      BY <1>0, <2>1, <3>1, Zenon DEF Owned
    <3>3. fd_table[q][i].ptr \notin {o} \ {NULL}
      <4>1. <<p, n>> # <<q, i>>
        BY Zenon, <3>1
      <4> QED BY <1>0, <1>2, <1>3, <4>1 DEF Owned
    <3> QED BY <1>0, <1>5, <3>2, <3>3, Zenon DEF Live
  <2>2. \A q \in Procs, i \in Fds : fd_table'[q][i].ptr <= objects'
    BY <1>0, Zenon DEF Owned
  <2>3. \A q, r \in Procs, i, j \in Fds :
          <<q, i>> # <<r, j>> /\ fd_table'[q][i].ptr # NULL => fd_table'[q][i].ptr # fd_table'[r][j].ptr
    BY <1>0 DEF Owned
  <2> QED BY <2>1, <2>2, <2>3, Zenon DEF Owned
<1> QED BY <1>7, <1>8, <1>9, <1>10, <1>11, <1>12, Zenon DEF SysInv

-----------------------------------------------------------------------------
LEMMA SysInit == Init => SysInv
<1> SUFFICES ASSUME Init PROVE SysInv
  BY Zenon
<1>1. ControlTypes
  <2>1. "user" \in Labels /\ "user" \notin InSystem
    BY Zenon DEF Labels, InSystem
  <2> QED BY <2>1, TwoIsFd, Zenon DEF Init, ControlTypes
<1>2. Unused \in Entry /\ ~Unused.in_use /\ Unused.ptr = NULL
  BY NoneIsNone DEF Unused, Entry, NULL
<1>3. \A p \in Procs, i \in Fds : fd_table[p][i] = Unused
  BY Zenon DEF Init
<1>4. TableTypes
  <2>1. 0 \in Nat /\ 0 \in 0..MaxObjects
    BY NoneIsNone
  <2> QED BY <1>2, <2>1, Zenon DEF Init, TableTypes
<1>5. Owned
  <2>1. NULL <= objects
    BY DEF Init, NULL
  <2> QED BY <1>2, <1>3, <2>1, Zenon DEF Owned
<1>6. Counted
  <2>1. \A p \in Procs : InUse(p) = {}
    BY <1>2, <1>3, Zenon DEF InUse
  <2>2. Cardinality({}) = 0 /\ 0 <= objects
    <3>1. Cardinality({}) = 0
      BY FS_EmptySet, Zenon
    <3> QED BY <3>1 DEF Init
  <2> QED BY <2>1, <2>2, Zenon DEF Init, Counted
<1>7. \A p \in Procs : CallOK(p)
  BY Zenon DEF Init, CallOK
<1>8. LockOK /\ NoUaf
  BY Zenon, NoneIsNone DEF Init, LockOK, NoUaf
<1> QED BY <1>1, <1>4, <1>5, <1>6, <1>7, <1>8, Zenon DEF SysInv

LEMMA SysStep == SysInv /\ [Next]_vars => SysInv'
<1> SUFFICES ASSUME SysInv, [Next]_vars PROVE SysInv'
  BY Zenon
<1>1. CASE UNCHANGED vars
  <2>0. UNCHANGED <<holder, pc, call, fd_table, num_fds, closing, objects, freed, careless, fault>>
    BY <1>1, Zenon DEF vars
  <2>1. ControlTypes' /\ TableTypes' /\ LockOK' /\ NoUaf'
    BY <2>0, Zenon DEF SysInv, ControlTypes, TableTypes, LockOK, NoUaf
  <2>2. Owned'
    BY <2>0 DEF SysInv, Owned, Live, Running
  <2>3. Counted' /\ \A p \in Procs : CallOK(p)'
    BY <2>0, Zenon DEF SysInv, Counted, InUse, CallOK, IsFile
  <2> QED BY <2>1, <2>2, <2>3, Zenon DEF SysInv
<1>2. CASE Next
  <2>1. PICK p \in Procs : fault = "none" /\ (Begin(p) \/ ReadWriteConsole(p) \/ Work(p))
    BY <1>2, Zenon DEF Next
  <2> QED BY <2>1, BeginStep, AcquireStep, InsideStep, UnlockedStep, LeaveStep, OpenStep, CloseStep, ExitCloseStep,
             Zenon DEF Work
<1> QED BY <1>1, <1>2, Zenon

LEMMA SysAlways == Spec => []SysInv
  BY SysInit, SysStep, PTL DEF Spec

\* num_fds counts the entries in use, every entry in use of a running process
\* names an object of its own that has not been freed, and no call with good
\* arguments follows a pointer that was freed: close() and thread_exit() give
\* each object back once, whatever the other processes do meanwhile.
THEOREM EntriesOwn == Spec => []EntriesOwnObjects
<1>1. SysInv => EntriesOwnObjects
  <2> SUFFICES ASSUME SysInv PROVE EntriesOwnObjects
    BY Zenon
  <2>1. TypeOK
    <3>1. num_fds \in [Procs -> 0..MaxObjects]
      <4>1. \A p \in Procs : num_fds[p] \in 0..MaxObjects
        BY NoneIsNone DEF SysInv, Counted, TableTypes
      <4> QED BY <4>1, Zenon DEF SysInv, TableTypes
    <3>2. \A p \in Procs : (pc[p] \in {"wait", "locked", "unlocked"}) = (call[p] # <<>>)
      BY DEF SysInv, ControlTypes, InSystem
    <3> QED BY <3>1, <3>2, Zenon DEF TypeOK, SysInv, ControlTypes, TableTypes, Labels, Entry
  <2>2. ~careless => fault # "uaf"
    BY Zenon DEF SysInv, NoUaf
  <2>3. \A p \in Procs : fault = "none" => num_fds[p] = Cardinality({i \in Fds : fd_table[p][i].in_use})
    BY Zenon DEF SysInv, Counted, InUse
  <2>4. ASSUME NEW p \in Procs, NEW q \in Procs, NEW i \in Fds, NEW j \in Fds,
               fault = "none" /\ Running(p) /\ fd_table[p][i].in_use
        PROVE  /\ fd_table[p][i].ptr \in Live
               /\ (Running(q) /\ fd_table[q][j].in_use /\ <<p, i>> # <<q, j>>) =>
                    fd_table[p][i].ptr # fd_table[q][j].ptr
    <3>1. fd_table[p][i].ptr \in Live
      BY <2>4, Zenon DEF SysInv, Owned
    <3>2. fd_table[p][i].ptr # NULL
      BY <3>1 DEF Live, NULL
    <3> QED BY <3>1, <3>2, Zenon DEF SysInv, Owned
  <2> QED BY <2>1, <2>2, <2>3, <2>4, Zenon DEF EntriesOwnObjects
<1> QED BY <1>1, SysAlways, PTL

\* While every call gets good arguments, file_lock belongs to a process that is
\* inside a file system call: every way out of a call gives it back.
THEOREM LockGivenBack == Spec => []LockReleased
<1>1. SysInv => LockReleased
  BY Zenon DEF SysInv, ControlTypes, LockOK, LockReleased
<1> QED BY <1>1, SysAlways, PTL

-----------------------------------------------------------------------------
\* The work queue of hw2, for any number of threads in the pool and of
\* connections: each connection has one owner, and no signal is lost.

\* The strengthening: a thread has a connection exactly from accept() or
\* wq_pop() to wq_push() or close(), and sleeps only inside wq_pop().
HoldsFd == \A t \in Workers : fd[t] # NoFd <=> tpc[t] \in {"push", "push_locked", "serve", "close"}
SleepsInPop == \A t \in waiting : tpc[t] = "pop"

HttpInv == OneOwner /\ HoldsFd /\ SleepsInPop

\* After init_thread_pool() nothing is open.
LEMMA HttpInitially == HttpInit => HttpInv /\ NoLostSignal
<1> SUFFICES ASSUME HttpInit PROVE HttpInv /\ NoLostSignal
  BY Zenon
<1> USE HttpAssumption DEF HttpInit, wq_init
<1>1. HttpTypeOK
  BY DEF HttpTypeOK, Workers
<1>2. wq = <<>> /\ Len(wq) = 0 /\ waiting = {} /\ open = {}
  BY Zenon
<1>3. HoldsFd /\ \A t \in Workers : fd[t] = NoFd
  BY Zenon DEF HoldsFd, Workers
<1>4. SleepsInPop /\ NoLostSignal
  BY <1>2, Zenon DEF SleepsInPop, NoLostSignal
<1>5. ~\E i \in 1 .. Len(wq) : TRUE
  BY <1>2
<1>6. OneOwner
  BY <1>1, <1>2, <1>3, <1>5, Zenon DEF OneOwner
<1> QED BY Zenon, <1>3, <1>4, <1>6 DEF HttpInv

\* Control and the descriptor in hand, after thread t moves to a label.
LEMMA GotoFrame ==
  ASSUME HttpTypeOK, NEW t \in Workers,
         NEW label \in {"accept", "push", "push_locked", "pop", "pop_locked", "serve", "close", "done"},
         Goto(t, label)
  PROVE  /\ tpc'[t] = label /\ \A u \in Workers \ {t} : tpc'[u] = tpc[u]
         /\ tpc' \in [Workers -> {"accept", "push", "push_locked", "pop", "pop_locked", "serve",
                                 "close", "done"}]
  BY Zenon DEF HttpTypeOK, Goto

\* A step that leaves descriptors, queue and sleepers alone: thread t goes on
\* between labels at which it has, or has not, a connection.
LEMMA OnlyControl ==
  ASSUME HttpInv, NEW t \in Workers, NEW label, Goto(t, label),
         label \in {"accept", "push", "push_locked", "pop", "pop_locked", "serve", "close", "done"},
         fd[t] # NoFd <=> label \in {"push", "push_locked", "serve", "close"},
         t \notin waiting, mut' \in Workers \cup {Nobody},
         UNCHANGED <<pool, fd, open, wq, size, waiting, pushed, popped, accepts>>
  PROVE  HttpInv'
<1>0. HttpTypeOK
  BY DEF HttpInv, OneOwner
<1>1. /\ tpc'[t] = label /\ \A u \in Workers \ {t} : tpc'[u] = tpc[u]
      /\ tpc' \in [Workers -> {"accept", "push", "push_locked", "pop", "pop_locked", "serve",
                              "close", "done"}]
  BY <1>0, GotoFrame, Zenon
<1>2. OneOwner'
  BY <1>0, <1>1, ZenonT(60) DEF HttpInv, OneOwner, HttpTypeOK
<1>3. HoldsFd'
  BY <1>1, Zenon DEF HttpInv, HoldsFd
<1>4. SleepsInPop'
  <2>1. waiting \subseteq Workers
    BY <1>0, Zenon DEF HttpTypeOK, Workers
  <2> QED BY <1>1, <2>1, Zenon DEF HttpInv, SleepsInPop
<1> QED BY Zenon, <1>2, <1>3, <1>4 DEF HttpInv

\* Every step of the main thread and of the pool preserves the invariant.
LEMMA HttpStep == HttpInv /\ [HttpNext]_httpVars => HttpInv'
<1> SUFFICES ASSUME HttpInv, [HttpNext]_httpVars PROVE HttpInv'
  BY Zenon
<1>0. HttpTypeOK /\ OneOwner /\ HoldsFd /\ SleepsInPop
  BY Zenon DEF HttpInv, OneOwner
<1>a. /\ Main \in Workers /\ Main \notin Pool /\ Pool \subseteq Workers /\ NoFd \notin Conns
      /\ waiting \subseteq Pool /\ Main \notin waiting
      /\ fd \in [Workers -> Conns \cup {NoFd}] /\ wq \in Seq(Conns) /\ size = Len(wq)
  BY Zenon, <1>0, HttpAssumption DEF HttpTypeOK, Workers
<1>b. Len(wq) \in Nat /\ \A i \in 1 .. Len(wq) : wq[i] \in Conns
  BY <1>a
<1>1. ASSUME NEW c \in Conns, Accept(c) PROVE HttpInv'
  <2> DEFINE label == IF pool = {} THEN "serve" ELSE "push"
  <2>1. /\ tpc[Main] = "accept" /\ c \notin open /\ open' = open \cup {c}
        /\ fd' = [fd EXCEPT ![Main] = c] /\ Goto(Main, label) /\ accepts < MaxAccepts
        /\ accepts' = accepts + 1
        /\ UNCHANGED <<pool, wq, size, mut, waiting, pushed, popped>>
    BY <1>1, Zenon DEF Accept
  <2>2. label \in {"push", "serve"}
    BY Zenon
  <2> HIDE DEF label
  <2>3. /\ tpc'[Main] = label /\ \A u \in Workers \ {Main} : tpc'[u] = tpc[u]
        /\ tpc' \in [Workers -> {"accept", "push", "push_locked", "pop", "pop_locked", "serve",
                                "close", "done"}]
    <3>1. label \in {"accept", "push", "push_locked", "pop", "pop_locked", "serve", "close", "done"}
      BY Zenon, <2>2
    <3> QED BY <1>0, <1>a, <2>1, <3>1, GotoFrame, Zenon
  <2>4. accepts' \in 0 .. MaxAccepts
    BY <1>0, <2>1, HttpAssumption DEF HttpTypeOK
  <2>5. /\ fd' \in [Workers -> Conns \cup {NoFd}] /\ fd'[Main] = c
        /\ \A u \in Workers \ {Main} : fd'[u] = fd[u]
    BY <1>a, <2>1, Zenon
  <2>6. HttpTypeOK'
    BY <1>0, <2>1, <2>3, <2>4, <2>5, Zenon DEF HttpTypeOK
  <2>7. fd[Main] = NoFd /\ \A u \in Workers : fd[u] # c
    BY Zenon, <1>0, <1>a, <2>1 DEF HoldsFd, OneOwner
  <2>8. \A i \in 1 .. Len(wq) : wq[i] # c
    BY <1>0, <2>1, Zenon DEF OneOwner
  <2>9. OneOwner'
    BY SMTT(60), <1>0, <1>a, <1>b, <2>1, <2>5, <2>6, <2>7, <2>8 DEF OneOwner
  <2>10. HoldsFd' /\ SleepsInPop'
    BY <1>0, <1>a, <2>1, <2>2, <2>3, <2>5 DEF HoldsFd, SleepsInPop
  <2> QED BY Zenon, <2>9, <2>10 DEF HttpInv
<1>2. CASE PushLock
  <2>1. Goto(Main, "push_locked") /\ fd[Main] # NoFd
    BY Zenon, <1>0, <1>2, <1>a DEF PushLock, HoldsFd
  <2> QED BY <1>a, <1>2, <2>1, OnlyControl, Zenon DEF PushLock, pthread_mutex_lock
<1>3. CASE wq_push
  <2> DEFINE x == fd[Main]
  <2>1. /\ tpc[Main] = "push_locked" /\ wq' = Append(wq, x) /\ size' = size + 1 /\ pushed' = x
        /\ fd' = [fd EXCEPT ![Main] = NoFd] /\ mut' = Nobody /\ Goto(Main, "accept")
        /\ UNCHANGED <<pool, open, popped, accepts>>
    BY <1>3, Zenon DEF wq_push
  <2>2. waiting' \subseteq waiting
    BY <1>3, Zenon DEF wq_push, pthread_cond_signal
  <2>3. x \in Conns
    BY Zenon, <1>0, <1>a, <2>1 DEF HoldsFd
  <2> HIDE DEF x
  <2>4. /\ wq' \in Seq(Conns) /\ Len(wq') = Len(wq) + 1 /\ wq'[Len(wq) + 1] = x
        /\ \A i \in 1 .. Len(wq) : wq'[i] = wq[i]
    BY <1>a, <2>1, <2>3
  <2>5. /\ tpc'[Main] = "accept" /\ \A u \in Workers \ {Main} : tpc'[u] = tpc[u]
        /\ tpc' \in [Workers -> {"accept", "push", "push_locked", "pop", "pop_locked", "serve",
                                "close", "done"}]
    BY <1>0, <1>a, <2>1, GotoFrame, Zenon
  <2>6. /\ fd' \in [Workers -> Conns \cup {NoFd}] /\ fd'[Main] = NoFd
        /\ \A u \in Workers \ {Main} : fd'[u] = fd[u]
    BY <1>a, <2>1, Zenon
  <2>7. size' = Len(wq')
    BY <1>a, <2>1, <2>4
  <2>8. HttpTypeOK'
    BY <1>0, <2>1, <2>2, <2>3, <2>4, <2>5, <2>6, <2>7, Zenon DEF HttpTypeOK
  <2>9. \A i \in 1 .. Len(wq) : wq[i] # x
    BY <1>0, <1>a, Zenon DEF OneOwner, x
  <2>10. \A i \in 1 .. Len(wq') : i \in 1 .. Len(wq) \/ i = Len(wq) + 1
    BY <1>b, <2>4
  <2>11. \A i, j \in 1 .. Len(wq') : wq'[i] = wq'[j] => i = j
    BY <1>0, <2>4, <2>9, <2>10 DEF OneOwner
  <2>12. \A t \in Workers : fd'[t] # x
    BY <1>0, <1>a, <2>3, <2>6 DEF OneOwner, x
  <2>13. \A t \in Workers, i \in 1 .. Len(wq') : fd'[t] # wq'[i]
    BY <1>0, <1>a, <1>b, <2>4, <2>6, <2>10, <2>12 DEF OneOwner
  <2>14. ASSUME NEW c \in Conns
         PROVE  c \in open' <=>
                  (\E i \in 1 .. Len(wq') : wq'[i] = c) \/ (\E t \in Workers : fd'[t] = c)
    <3>1. (\E i \in 1 .. Len(wq') : wq'[i] = c) <=> (\E i \in 1 .. Len(wq) : wq[i] = c) \/ c = x
      <4>1. Len(wq) + 1 \in 1 .. Len(wq') /\ \A i \in 1 .. Len(wq) : i \in 1 .. Len(wq')
        BY <1>b, <2>4
      <4> QED BY <2>4, <2>10, <4>1, Zenon
    <3>2. (\E t \in Workers : fd[t] = c) <=> (\E t \in Workers : fd'[t] = c) \/ c = x
      BY <1>a, <2>6, Zenon DEF x
    <3> QED BY <1>0, <2>1, <3>1, <3>2, Zenon DEF OneOwner
  <2>15. OneOwner'
    <3>1. \A t, u \in Workers : fd'[t] # NoFd /\ fd'[t] = fd'[u] => t = u
      BY <1>0, <2>6, ZenonT(60) DEF OneOwner
    <3> QED BY <2>8, <2>11, <2>13, <2>14, <3>1, Zenon DEF OneOwner
  <2>16. HoldsFd' /\ SleepsInPop'
    BY <1>0, <1>a, <2>1, <2>2, <2>5, <2>6 DEF HoldsFd, SleepsInPop
  <2> QED BY Zenon, <2>15, <2>16 DEF HttpInv
<1>4. ASSUME NEW t \in Pool, PopLock(t) PROVE HttpInv'
  <2>1. Goto(t, "pop_locked") /\ fd[t] = NoFd /\ t \in Workers
    BY Zenon, <1>0, <1>4, <1>a DEF PopLock, HoldsFd
  <2> QED BY <1>a, <1>4, <2>1, OnlyControl, Zenon DEF PopLock, pthread_mutex_lock
<1>5. ASSUME NEW t \in Pool, wq_pop(t), size < 1 PROVE HttpInv'
  <2>1. /\ t \in Workers /\ tpc[t] = "pop_locked" /\ mut' = Nobody /\ waiting' = waiting \cup {t}
        /\ Goto(t, "pop") /\ UNCHANGED <<fd, wq, size, popped, pool, open, pushed, accepts>>
    BY <1>5, <1>a, Zenon DEF wq_pop
  <2>2. /\ tpc'[t] = "pop" /\ \A u \in Workers \ {t} : tpc'[u] = tpc[u]
        /\ tpc' \in [Workers -> {"accept", "push", "push_locked", "pop", "pop_locked", "serve",
                                "close", "done"}]
    BY <1>0, <2>1, GotoFrame, Zenon
  <2>3. HttpTypeOK'
    BY <1>0, <2>1, <2>2, Zenon DEF HttpTypeOK
  <2>4. OneOwner'
    BY <1>0, <2>1, <2>3, ZenonT(60) DEF OneOwner
  <2>5. HoldsFd' /\ SleepsInPop'
    BY <1>0, <1>a, <2>1, <2>2 DEF HoldsFd, SleepsInPop
  <2> QED BY Zenon, <2>4, <2>5 DEF HttpInv
<1>6. ASSUME NEW t \in Pool, wq_pop(t), ~(size < 1) PROVE HttpInv'
  <2> DEFINE x == Head(wq)
  <2>1. /\ t \in Workers /\ tpc[t] = "pop_locked" /\ mut' = Nobody /\ Goto(t, "serve")
        /\ fd' = [fd EXCEPT ![t] = x] /\ popped' = x /\ wq' = Tail(wq) /\ size' = size - 1
        /\ UNCHANGED <<waiting, pool, open, pushed, accepts>>
    BY <1>6, <1>a, Zenon DEF wq_pop
  <2>2. wq # <<>> /\ 1 \in 1 .. Len(wq) /\ x = wq[1]
    BY <1>6, <1>a
  <2>3. x \in Conns
    BY Zenon, <1>b, <2>2
  <2> HIDE DEF x
  <2>4. /\ wq' \in Seq(Conns) /\ Len(wq') = Len(wq) - 1
        /\ \A i \in 1 .. Len(wq') : i + 1 \in 1 .. Len(wq) /\ wq'[i] = wq[i + 1]
    BY <1>a, <2>1, <2>2
  <2>5. /\ tpc'[t] = "serve" /\ \A u \in Workers \ {t} : tpc'[u] = tpc[u]
        /\ tpc' \in [Workers -> {"accept", "push", "push_locked", "pop", "pop_locked", "serve",
                                "close", "done"}]
    BY <1>0, <2>1, GotoFrame, Zenon
  <2>6. /\ fd' \in [Workers -> Conns \cup {NoFd}] /\ fd'[t] = x /\ fd[t] = NoFd
        /\ \A u \in Workers \ {t} : fd'[u] = fd[u]
    <3>1. fd[t] = NoFd
      BY Zenon, <1>0, <2>1 DEF HoldsFd
    <3> QED BY <1>a, <2>1, <2>3, <3>1, Zenon
  <2>7. size' = Len(wq')
    BY <1>a, <2>1, <2>4
  <2>8. HttpTypeOK'
    BY <1>0, <2>1, <2>3, <2>4, <2>5, <2>6, <2>7, ZenonT(60) DEF HttpTypeOK
  <2>9. \A i \in 1 .. Len(wq') : wq'[i] # x
    BY <1>0, <1>b, <2>2, <2>4 DEF OneOwner
  <2>10. \A i, j \in 1 .. Len(wq') : wq'[i] = wq'[j] => i = j
    BY SMTT(60), <1>0, <2>4 DEF OneOwner
  <2>11. \A u \in Workers : fd[u] # x
    BY Zenon, <1>0, <2>2 DEF OneOwner
  <2>12. \A u \in Workers, i \in 1 .. Len(wq') : fd'[u] # wq'[i]
    BY SMTT(60), <1>0, <2>4, <2>6, <2>9 DEF OneOwner
  <2>13. \A u, v \in Workers : fd'[u] # NoFd /\ fd'[u] = fd'[v] => u = v
    BY <1>0, <2>6, <2>11 DEF OneOwner
  <2>14. ASSUME NEW c \in Conns
         PROVE  c \in open' <=>
                  (\E i \in 1 .. Len(wq') : wq'[i] = c) \/ (\E u \in Workers : fd'[u] = c)
    <3>1. (\E i \in 1 .. Len(wq) : wq[i] = c) <=> (\E i \in 1 .. Len(wq') : wq'[i] = c) \/ c = x
      <4>1. \A i \in 1 .. Len(wq) : i = 1 \/ (i - 1 \in 1 .. Len(wq') /\ wq'[i - 1] = wq[i])
        BY <1>b, <2>4
      <4> QED BY <2>2, <2>4, <4>1, ZenonT(60)
    <3>2. (\E u \in Workers : fd'[u] = c) <=> (\E u \in Workers : fd[u] = c) \/ c = x
      BY <1>a, <2>1, <2>6
    <3> QED BY <1>0, <2>1, <3>1, <3>2, Zenon DEF OneOwner
  <2>15. OneOwner'
    BY <2>8, <2>10, <2>12, <2>13, <2>14, Zenon DEF OneOwner
  <2>16. HoldsFd' /\ SleepsInPop'
    <3>1. t \notin waiting
      BY Zenon, <1>0, <2>1 DEF SleepsInPop
    <3>2. x # NoFd
      BY <1>a, <2>3, Zenon
    <3> QED BY SMTT(60), <1>0, <1>a, <2>1, <2>5, <2>6, <3>1, <3>2 DEF HoldsFd, SleepsInPop
  <2> QED BY Zenon, <2>15, <2>16 DEF HttpInv
<1>7. ASSUME NEW t \in Pool, SpuriousWakeup(t) PROVE HttpInv'
  BY <1>0, <1>7, ZenonT(60) DEF SpuriousWakeup, HttpInv, OneOwner, HoldsFd, SleepsInPop, HttpTypeOK
<1>8. ASSUME NEW t \in Workers, Handle(t) PROVE HttpInv'
  <2>1. Goto(t, "close") /\ fd[t] # NoFd /\ t \notin waiting
    BY Zenon, <1>0, <1>8 DEF Handle, HoldsFd, SleepsInPop
  <2>2. mut' \in Workers \cup {Nobody}
    BY <1>0, <1>8, Zenon DEF Handle, HttpTypeOK
  <2> QED BY <1>8, <2>1, <2>2, OnlyControl, Zenon DEF Handle
<1>9. ASSUME NEW t \in Workers, Close(t) PROVE HttpInv'
  <2> DEFINE label == IF t = Main THEN "accept" ELSE "done"
  <2>1. /\ tpc[t] = "close" /\ open' = open \ {fd[t]} /\ fd' = [fd EXCEPT ![t] = NoFd]
        /\ Goto(t, label) /\ UNCHANGED <<pool, wq, size, mut, waiting, pushed, popped, accepts>>
    BY <1>9, Zenon DEF Close
  <2>2. label \in {"accept", "done"}
    BY Zenon
  <2> HIDE DEF label
  <2>3. /\ tpc'[t] = label /\ \A u \in Workers \ {t} : tpc'[u] = tpc[u]
        /\ tpc' \in [Workers -> {"accept", "push", "push_locked", "pop", "pop_locked", "serve",
                                "close", "done"}]
    <3>1. label \in {"accept", "push", "push_locked", "pop", "pop_locked", "serve", "close", "done"}
      BY Zenon, <2>2
    <3> QED BY <1>0, <2>1, <3>1, GotoFrame, Zenon
  <2>4. /\ fd' \in [Workers -> Conns \cup {NoFd}] /\ fd'[t] = NoFd
        /\ \A u \in Workers \ {t} : fd'[u] = fd[u]
    BY <1>a, <2>1, Zenon
  <2>5. fd[t] # NoFd /\ t \notin waiting
    BY <1>0, <2>1 DEF HoldsFd, SleepsInPop
  <2>6. HttpTypeOK'
    BY <1>0, <2>1, <2>3, <2>4, Zenon DEF HttpTypeOK
  <2>7. OneOwner'
    BY <1>0, <1>a, <1>b, <2>1, <2>4, <2>5, <2>6 DEF OneOwner
  <2>8. HoldsFd' /\ SleepsInPop'
    BY <1>0, <1>a, <2>1, <2>2, <2>3, <2>4, <2>5 DEF HoldsFd, SleepsInPop
  <2> QED BY <2>7, <2>8 DEF HttpInv
<1>10. CASE UNCHANGED httpVars
  BY <1>0, <1>10, ZenonT(60) DEF httpVars, HttpInv, OneOwner, HoldsFd, SleepsInPop, HttpTypeOK
<1> QED
  BY <1>1, <1>2, <1>3, <1>4, <1>5, <1>6, <1>7, <1>8, <1>9, <1>10, <1>a, Zenon DEF HttpNext, Serve

\* Every open connection has exactly one owner, for any pool and any number of
\* connections: no two threads serve it, and nobody serves a closed one.
THEOREM ConnectionsOwned == HttpSpec => []OneOwner
<1>1. HttpInv => OneOwner
  BY DEF HttpInv
<1> QED BY HttpInitially, HttpStep, <1>1, PTL DEF HttpSpec

\* wq_push() wakes a sleeper for the connection it adds, and a thread that leaves
\* wq_pop() takes one along.
LEMMA AwakeCounts ==
  ASSUME HttpInv, HttpNext, NoLostSignal
  PROVE  NoLostSignal'
<1>0. HttpTypeOK /\ SleepsInPop /\ HoldsFd
  BY Zenon DEF HttpInv, OneOwner
<1>a. /\ Main \in Workers /\ Main \notin Pool /\ Pool \subseteq Workers /\ IsFiniteSet(Pool)
      /\ waiting \subseteq Pool /\ wq \in Seq(Conns) /\ Len(wq) \in Nat /\ size = Len(wq)
  BY <1>0, HttpAssumption DEF HttpTypeOK, Workers
<1>b. IsFiniteSet(Awake) /\ IsFiniteSet(Awake') /\ Cardinality(Awake) \in Nat
      /\ Cardinality(Awake') \in Nat
  BY <1>a, FS_Subset, FS_CardinalityType, Zenon DEF Awake
\* Steps that leave the queue and the sleepers alone.
<1>1. ASSUME UNCHANGED <<wq, waiting>>, Awake \subseteq Awake' PROVE NoLostSignal'
  <2>1. Cardinality(Awake) <= Cardinality(Awake')
    BY Zenon, <1>1, <1>b, FS_Subset
  <2> QED BY <1>1, <1>a, <1>b, <2>1 DEF NoLostSignal
<1>2. ASSUME NEW t \in Workers, NEW label, Goto(t, label), UNCHANGED <<wq, waiting>>,
             t = Main \/ tpc[t] \notin {"pop", "pop_locked"} \/ label \in {"pop", "pop_locked"}
      PROVE  NoLostSignal'
  <2>1. tpc' = [tpc EXCEPT ![t] = label] /\ tpc \in [Workers -> {"accept", "push", "push_locked",
                                             "pop", "pop_locked", "serve", "close", "done"}]
    BY <1>0, <1>2, Zenon DEF Goto, HttpTypeOK
  <2>2. Awake \subseteq Awake'
    BY <1>2, <1>a, <2>1, Zenon DEF Awake
  <2> QED BY <1>1, <1>2, <2>2, Zenon
<1>3. ASSUME NEW c \in Conns, Accept(c) PROVE NoLostSignal'
  BY <1>2, <1>3, <1>a, Zenon DEF Accept
<1>4. CASE PushLock
  BY <1>2, <1>4, <1>a, Zenon DEF PushLock
<1>5. ASSUME NEW t \in Pool, PopLock(t) PROVE NoLostSignal'
  BY <1>2, <1>5, <1>a, Zenon DEF PopLock
<1>6. ASSUME NEW t \in Workers, Handle(t) PROVE NoLostSignal'
  BY Zenon, <1>2, <1>6, <1>a DEF Handle
<1>7. ASSUME NEW t \in Workers, Close(t) PROVE NoLostSignal'
  BY <1>2, <1>7, <1>a DEF Close
<1>8. CASE wq_push
  <2>1. CASE waiting = {}
    BY <1>8, <2>1, Zenon DEF wq_push, pthread_cond_signal, NoLostSignal
  <2>2. ASSUME NEW t \in waiting, waiting' = waiting \ {t} PROVE NoLostSignal'
    <3>1. tpc' = [tpc EXCEPT ![Main] = "accept"] /\ wq' = Append(wq, fd[Main])
          /\ tpc \in [Workers -> {"accept", "push", "push_locked", "pop", "pop_locked", "serve",
                                 "close", "done"}]
      BY <1>0, <1>8, Zenon DEF wq_push, Goto, HttpTypeOK
    <3>2. Len(wq') = Len(wq) + 1
      <4>1. fd[Main] \in Conns
        BY <1>0, <1>8, <1>a DEF wq_push, HoldsFd, HttpTypeOK
      <4> QED BY <1>a, <3>1, <4>1
    <3>3. tpc[t] = "pop" /\ t \in Pool /\ t # Main
      BY <1>0, <1>a, Zenon DEF SleepsInPop
    <3>4. t \notin Awake /\ Awake \cup {t} \subseteq Awake'
      BY <1>a, <2>2, <3>1, <3>3, Zenon DEF Awake
    <3>5. Cardinality(Awake) + 1 <= Cardinality(Awake')
      <4>1. IsFiniteSet(Awake \cup {t}) /\ Cardinality(Awake \cup {t}) = Cardinality(Awake) + 1
        BY SMTT(60), <1>b, <3>4, FS_AddElement
      <4>2. Cardinality(Awake \cup {t}) <= Cardinality(Awake')
        BY <1>b, <3>4, FS_Subset, Zenon
      <4> QED BY Zenon, <4>1, <4>2
    <3> QED BY <1>a, <1>b, <3>2, <3>5 DEF NoLostSignal
  <2> QED BY <1>8, <2>1, <2>2, Zenon DEF wq_push, pthread_cond_signal
<1>9. ASSUME NEW t \in Pool, wq_pop(t), size < 1 PROVE NoLostSignal'
  <2>1. wq' = wq
    BY <1>9, Zenon DEF wq_pop
  <2> QED BY <1>9, <1>a, <1>b, <2>1 DEF NoLostSignal
<1>10. ASSUME NEW t \in Pool, wq_pop(t), ~(size < 1) PROVE NoLostSignal'
  <2>1. tpc[t] = "pop_locked" /\ tpc' = [tpc EXCEPT ![t] = "serve"] /\ wq' = Tail(wq) /\ waiting' = waiting
        /\ tpc \in [Workers -> {"accept", "push", "push_locked", "pop", "pop_locked", "serve",
                               "close", "done"}]
    BY <1>0, <1>10, Zenon DEF wq_pop, Goto, HttpTypeOK
  <2>2. Len(wq') = Len(wq) - 1
    BY <1>10, <1>a, <2>1
  <2>3. t \notin waiting
    BY Zenon, <1>0, <2>1 DEF SleepsInPop
  <2>4. t \in Awake /\ Awake \ {t} \subseteq Awake'
    BY <1>a, <2>1, <2>3, Zenon DEF Awake
  <2>5. Cardinality(Awake) - 1 <= Cardinality(Awake')
    <3>1. Cardinality(Awake \ {t}) = Cardinality(Awake) - 1
      BY Zenon, <1>b, <2>4, FS_RemoveElement
    <3>2. Cardinality(Awake \ {t}) <= Cardinality(Awake')
      BY <1>b, <2>4, FS_Subset, Zenon
    <3> QED BY <3>1, <3>2
  <2> QED BY <1>a, <1>b, <2>1, <2>2, <2>5 DEF NoLostSignal
<1>11. ASSUME NEW t \in Pool, SpuriousWakeup(t) PROVE NoLostSignal'
  <2>1. t \in waiting /\ wq' = wq /\ Awake \subseteq Awake'
    BY <1>11, Zenon DEF SpuriousWakeup, Awake
  <2>2. Cardinality(Awake) <= Cardinality(Awake')
    BY <1>b, <2>1, FS_Subset, Zenon
  <2> QED BY <1>a, <1>b, <2>1, <2>2 DEF NoLostSignal
<1> QED
  BY <1>3, <1>4, <1>5, <1>6, <1>7, <1>8, <1>9, <1>10, <1>11, <1>a, Zenon DEF HttpNext, Serve

\* pthread_cond_signal() in wq_push() is never lost: while a thread sleeps in
\* wq_pop(), as many are awake there as there are connections in the queue, for
\* any pool and any spurious wakeups.
THEOREM SignalsSuffice == HttpSpec => []NoLostSignal
<1>1. HttpInv /\ NoLostSignal /\ [HttpNext]_httpVars => NoLostSignal'
  <2>1. CASE HttpNext
    BY Zenon, <2>1, AwakeCounts
  <2>2. CASE UNCHANGED httpVars
    BY <2>2, Zenon DEF httpVars, NoLostSignal, Awake
  <2> QED BY Zenon, <2>1, <2>2
<1> QED BY HttpInitially, HttpStep, <1>1, PTL DEF HttpSpec
=============================================================================
