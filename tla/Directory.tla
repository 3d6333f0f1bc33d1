------------------------------ MODULE Directory ------------------------------
(***************************************************************************)
(* Directories and paths: filesys/directory.c, filesys/filesys.c and the   *)
(* calls of userprog/syscall.c that take a path, each one step.  A         *)
(* directory is an array of Slots entries, and stays one: inode.c loses    *)
(* the growth of a file, so an entry written at its end is never read      *)
(* back.  A path is a sequence of parts, absolute or not.                  *)
(***************************************************************************)
EXTENDS Naturals, SequencesExt

CONSTANTS Uses,      \* what the file system is used for: the processes, the
                     \* slots of a directory, the sectors that can hold an inode,
                     \* the calls that are made and the paths that are passed,
                     \* records [abs, parts]
          MaxOpen    \* bound: descriptors and openers of one inode

Root == 1
None == 0

VARIABLES
  use,     \* the one of Uses that this behaviour follows
  node,    \* node[s], the inode in sector s: what it is, its entries,
           \* and open_cnt and removed of its in-memory inode
  cwd,     \* cwd[p], the working directory of process p
  fds,     \* fds[s], how many descriptors have inode s open
  reply,   \* the last call, whether it succeeded, and whether it should have
  fault    \* "panic" after a failed ASSERT, "dangling" after an entry led to
           \* a sector that no longer holds what it says, "locked" once a
           \* call returned with file_lock held; no step follows

vars == <<use, node, cwd, fds, reply, fault>>

Procs == use.procs
Slots == use.slots
Inodes == 1..use.inodes

Empty == [name |-> ".", sector |-> None, in_use |-> FALSE, is_dir |-> FALSE]
Entry(n, s, d) == [name |-> n, sector |-> s, in_use |-> TRUE, is_dir |-> d]
FreeNode == [kind |-> "free", entries |-> <<>>, open_cnt |-> 0, removed |-> FALSE]
NewFile == [FreeNode EXCEPT !.kind = "file"]
NewDir == [FreeNode EXCEPT !.kind = "dir", !.entries = [i \in 1..Slots |-> Empty]]

-----------------------------------------------------------------------------
(* directory.c, on the inodes nd. *)

\* The slots of directory d that hold name, and those that are free.
Holding(nd, d, name) ==
  {i \in DOMAIN nd[d].entries : nd[d].entries[i].in_use /\ nd[d].entries[i].name = name}
Vacant(nd, d) == {i \in DOMAIN nd[d].entries : ~nd[d].entries[i].in_use}

\* The entry that lookup() finds, or Empty.
lookup(nd, d, name) ==
  IF Holding(nd, d, name) = {} THEN Empty ELSE nd[d].entries[Min(Holding(nd, d, name))]

\* What entry e leads to is what e says.
Leads(nd, e) == nd[e.sector].kind = IF e.is_dir THEN "dir" ELSE "file"

Open(nd, s) == [nd EXCEPT ![s].open_cnt = @ + 1]

inode_close(nd, s) ==
  [nd EXCEPT ![s] = IF @.open_cnt = 1 /\ @.removed THEN FreeNode
                    ELSE [@ EXCEPT !.open_cnt = @ - 1]]

\* Mutant: the name is not looked up first.
dir_add_again(nd, d, name, s, is_dir) ==
  IF Vacant(nd, d) = {} THEN [ok |-> TRUE, node |-> nd]
  ELSE [ok |-> TRUE, node |-> [nd EXCEPT ![d].entries[Min(Vacant(nd, d))] = Entry(name, s, is_dir)]]

\* With every slot in use the entry goes to the end of the directory, where it
\* is not read back, and the call succeeds.
dir_add(nd, d, name, s, is_dir) ==
  IF Holding(nd, d, name) # {} THEN [ok |-> FALSE, node |-> nd]
  ELSE IF Vacant(nd, d) = {} THEN [ok |-> TRUE, node |-> nd]
  ELSE [ok |-> TRUE, node |-> [nd EXCEPT ![d].entries[Min(Vacant(nd, d))] = Entry(name, s, is_dir)]]

\* Mutant: the inode is freed although it is open.
dir_remove_now(nd, d, name) ==
  LET e == lookup(nd, d, name) IN
  IF ~e.in_use THEN [ok |-> FALSE, node |-> nd]
  ELSE [ok |-> TRUE,
        node |-> [nd EXCEPT ![d].entries[Min(Holding(nd, d, name))] = Empty,
                            ![e.sector] = FreeNode]]

\* The test that the directory is empty reads the directory it is removed
\* from, which holds the entry that was just found, so it never fails; the
\* test for "." and ".." compares addresses, which never are equal.
dir_remove(nd, d, name) ==
  LET e == lookup(nd, d, name)
      erased == [Open(nd, e.sector) EXCEPT ![d].entries[Min(Holding(nd, d, name))] = Empty,
                                           ![e.sector].removed = TRUE]
  IN IF ~e.in_use THEN [ok |-> FALSE, node |-> nd]
     ELSE [ok |-> TRUE, node |-> inode_close(erased, e.sector)]

init_dir(nd, parent, child) ==
  dir_add(dir_add(nd, child, "..", parent, TRUE).node, child, ".", child, TRUE).node

\* path_resolution() from directory d, which is open: the directory and the
\* name that it leaves, or ok = FALSE.  The inode of a file on the way is
\* opened and never closed.
path_resolution(nd, d, parts) ==
  LET Walk[i \in 0..Len(parts)] ==
        IF i = 0 THEN [ok |-> TRUE, done |-> FALSE, dir |-> d, node |-> Open(nd, d), stale |-> FALSE]
        ELSE LET w == Walk[i - 1]
                 e == lookup(w.node, w.dir, parts[i])
                 last == i = Len(parts)
             IN IF w.done \/ w.stale THEN w
                ELSE IF ~e.in_use THEN [w EXCEPT !.ok = last, !.done = TRUE]
                ELSE IF ~Leads(w.node, e) THEN [w EXCEPT !.stale = TRUE]
                ELSE IF e.is_dir
                THEN [w EXCEPT !.dir = e.sector, !.node = inode_close(Open(w.node, e.sector), w.dir)]
                ELSE [w EXCEPT !.ok = last, !.done = TRUE, !.node = Open(w.node, e.sector)]
  IN Walk[Len(parts)]

\* The lowest free sector, which free_map_allocate() takes, or None.
NextSector(nd) ==
  LET free == {s \in Inodes : nd[s].kind = "free"} IN IF free = {} THEN None ELSE Min(free)

\* The inode is released again when its name is in use.
filesys_create(nd, d, name, is_dir) ==
  LET s == NextSector(nd)
      a == dir_add([nd EXCEPT ![s] = IF is_dir THEN NewDir ELSE NewFile], d, name, s, is_dir)
  IN IF s = None \/ ~a.ok THEN [ok |-> FALSE, node |-> nd] ELSE a

-----------------------------------------------------------------------------
(* What a path names, and what a call should return. *)

Start(p, path) == IF path.abs THEN Root ELSE cwd[p]

\* The inode that the parts name from d, or None.
Reaches(d, parts) ==
  LET At[i \in 0..Len(parts)] ==
        IF i = 0 THEN d
        ELSE IF At[i - 1] = None THEN None
        ELSE IF node[At[i - 1]].kind # "dir" THEN None
        ELSE lookup(node, At[i - 1], parts[i]).sector
  IN At[Len(parts)]

Target(p, path) == Reaches(Start(p, path), path.parts)
Parent(p, path) == Reaches(Start(p, path), Front(path.parts))
IsDir(s) == IF s = None THEN FALSE ELSE node[s].kind = "dir"
Creatable(p, path) == IsDir(Parent(p, path)) /\ Target(p, path) = None /\ NextSector(node) # None
Children(s) ==
  {node[s].entries[i].name : i \in {j \in 1..Slots : node[s].entries[j].in_use}} \ {".", ".."}
Removable(p, path) ==
  /\ Target(p, path) # None
  /\ IsDir(Target(p, path)) => Children(Target(p, path)) = {}

-----------------------------------------------------------------------------
(* The calls. *)

Does(name) == fault = "none" /\ name \in use.calls
Replies(name, ok, want) == reply' = [call |-> name, ok |-> ok, want |-> want]
Resolve(p, path) == path_resolution(node, Start(p, path), path.parts)
Stops(why) == fault' = why /\ UNCHANGED <<use, node, cwd, fds, reply>>
Bounded == \A s \in Inodes : node'[s].open_cnt <= MaxOpen

\* A path is looked up as one name by k_remove() and k_open(): only a single
\* relative part is the name of an entry.
WholePath(nd, d, path) ==
  IF path.abs \/ Len(path.parts) > 1 THEN Empty ELSE lookup(nd, d, path.parts[1])

\* A call that takes a path follows an entry that leads astray.
Astray(nd, e) == e.in_use /\ ~Leads(nd, e)
FollowsStale(name, p, path) ==
  LET r == Resolve(p, path) IN
  IF name = "remove" THEN Astray(node, WholePath(node, cwd[p], path))
  ELSE r.stale \/ (name = "open" /\ Astray(r.node, WholePath(r.node, r.dir, path)))
Dangles(p, path) ==
  /\ \E name \in use.calls : Does(name) /\ FollowsStale(name, p, path)
  /\ Stops("dangling")

k_create(p, path) ==
  LET r == Resolve(p, path)
      c == filesys_create(r.node, r.dir, Last(path.parts), FALSE)
  IN /\ Does("create") /\ ~FollowsStale("create", p, path)
     /\ node' = inode_close(IF r.ok THEN c.node ELSE r.node, r.dir)
     /\ Replies("create", r.ok /\ c.ok, Creatable(p, path))
     /\ Bounded
     /\ UNCHANGED <<use, cwd, fds, fault>>

\* k_mkdir() opens what it made by name to fill it in, and init_dir() asserts
\* that this succeeds.  It leaves the result unset when the path is not valid.
k_mkdir(p, path) ==
  LET r == Resolve(p, path)
      c == filesys_create(r.node, r.dir, Last(path.parts), TRUE)
      e == lookup(c.node, r.dir, Last(path.parts))
      lost == r.ok /\ c.ok /\ ~e.in_use
      made == IF ~r.ok THEN r.node
              ELSE IF c.ok THEN init_dir(c.node, r.dir, e.sector)
              ELSE c.node
  IN /\ Does("mkdir") /\ ~FollowsStale("mkdir", p, path)
     /\ \/ lost /\ Stops("panic")
        \/ /\ ~lost
           /\ node' = inode_close(made, r.dir)
           /\ \E unset \in BOOLEAN :
                Replies("mkdir", IF r.ok THEN c.ok ELSE unset, Creatable(p, path))
           /\ Bounded
           /\ UNCHANGED <<use, cwd, fds, fault>>

k_remove(p, path) ==
  LET c == IF WholePath(node, cwd[p], path).in_use THEN dir_remove(node, cwd[p], path.parts[1])
           ELSE [ok |-> FALSE, node |-> node]
  IN /\ Does("remove") /\ ~FollowsStale("remove", p, path)
     /\ node' = c.node
     /\ Replies("remove", c.ok, Removable(p, path))
     /\ UNCHANGED <<use, cwd, fds, fault>>

\* k_open() returns with file_lock held, and the directory open, when the path
\* is not valid.
k_open(p, path) ==
  LET r == Resolve(p, path)
      e == WholePath(r.node, r.dir, path)
  IN /\ Does("open") /\ ~FollowsStale("open", p, path)
     /\ \/ ~r.ok /\ Stops("locked")
        \/ /\ r.ok
           /\ node' = inode_close(IF e.in_use THEN Open(r.node, e.sector) ELSE r.node, r.dir)
           /\ fds' = IF e.in_use THEN [fds EXCEPT ![e.sector] = @ + 1] ELSE fds
           /\ Replies("open", e.in_use, Target(p, path) # None)
           /\ Bounded
           /\ UNCHANGED <<use, cwd, fault>>

\* k_close() of a file; of a directory it ends the process.
k_close(s) ==
  /\ Does("open")
  /\ fds[s] > 0 /\ node[s].kind = "file"
  /\ fds' = [fds EXCEPT ![s] = @ - 1]
  /\ node' = inode_close(node, s)
  /\ Replies("close", TRUE, TRUE)
  /\ UNCHANGED <<use, cwd, fault>>

k_chdir(p, path) ==
  LET r == Resolve(p, path) IN
  /\ Does("chdir") /\ ~FollowsStale("chdir", p, path)
  /\ node' = inode_close(IF r.ok THEN Open(inode_close(r.node, cwd[p]), r.dir) ELSE r.node, r.dir)
  /\ cwd' = IF r.ok THEN [cwd EXCEPT ![p] = r.dir] ELSE cwd
  /\ Replies("chdir", r.ok, IsDir(Target(p, path)))
  /\ Bounded
  /\ UNCHANGED <<use, fds, fault>>

\* After filesys_init(): the root directory, open by every process.
Init ==
  /\ use \in Uses
  /\ node = [s \in Inodes |->
       IF s = Root
       THEN init_dir([x \in {Root} |-> [NewDir EXCEPT !.open_cnt = Cardinality(Procs)]],
                     Root, Root)[Root]
       ELSE FreeNode]
  /\ cwd = [p \in Procs |-> Root]
  /\ fds = [s \in Inodes |-> 0]
  /\ reply = [call |-> "none", ok |-> TRUE, want |-> TRUE]
  /\ fault = "none"

Next ==
  \/ \E p \in Procs, path \in use.paths :
       \/ k_create(p, path) \/ k_mkdir(p, path) \/ k_remove(p, path)
       \/ k_open(p, path) \/ k_chdir(p, path) \/ Dangles(p, path)
  \/ \E s \in Inodes : k_close(s)

Spec == Init /\ [][Next]_vars

-----------------------------------------------------------------------------
(* Properties. *)

\* Inodes are files or directories of Slots entries, and working directories
\* and descriptors name sectors.
TypeOK ==
  /\ \A s \in Inodes :
       /\ node[s].kind \in {"free", "file", "dir"}
       /\ node[s].open_cnt \in 0..MaxOpen
       /\ node[s].kind = "dir" => DOMAIN node[s].entries = 1..Slots
  /\ cwd \in [Procs -> Inodes]
  /\ fds \in [Inodes -> 0..MaxOpen]

Used(s) == {i \in DOMAIN node[s].entries : node[s].entries[i].in_use}

\* Directory s as a node of the tree: "." leads back to it, and ".." to a
\* directory that names it.
Dotted(s) ==
  /\ lookup(node, s, ".").sector = s
  /\ s # Root => \E i \in Used(lookup(node, s, "..").sector) :
       LET e == node[lookup(node, s, "..").sector].entries[i]
       IN e.sector = s /\ e.name \notin {".", ".."}

\* The entries, other than dots, that lead to s.
Naming(s) ==
  {x \in Inodes \X (1..Slots) :
     /\ x[2] \in Used(x[1])
     /\ node[x[1]].entries[x[2]].name \notin {".", ".."}
     /\ node[x[1]].entries[x[2]].sector = s}

\* As long as nothing is removed and no directory was full, the directories are
\* a tree: every entry leads to an inode of the kind the entry says, "." leads
\* back to the directory, ".." to the one that names it, and every inode but the
\* root is named once.
Tree ==
  "remove" \notin use.calls =>
    \A s \in Inodes : node[s].kind # "free" =>
      /\ \A i \in Used(s) : Leads(node, node[s].entries[i])
      /\ node[s].kind = "dir" => Dotted(s)
      /\ s # Root => Cardinality(Naming(s)) = 1

\* Every variable has its type, no directory holds a name twice, and a working
\* directory and an open file outlive their removal.
OpenKept ==
  /\ TypeOK
  /\ \A s \in Inodes : \A i, j \in Used(s) :
       node[s].entries[i].name = node[s].entries[j].name => i = j
  /\ \A p \in Procs : node[cwd[p]].kind = "dir"
  /\ \A s \in Inodes : fds[s] > 0 => node[s].kind # "free"

\* In one directory, with room for every name, create, open and remove of a name
\* succeed when, and only when, the names in the directory say they should.
RepliesFaithful ==
  use.calls \cap {"mkdir", "chdir"} = {} => reply.ok = reply.want
=============================================================================
