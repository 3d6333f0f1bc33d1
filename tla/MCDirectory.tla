----------------------------- MODULE MCDirectory -----------------------------
(* Paths of one and two parts for TLC. *)
EXTENDS Directory

Rel(s) == [abs |-> FALSE, parts |-> s]
Abs(s) == [abs |-> TRUE, parts |-> s]

\* Files in one directory that has room for all of them; a tree of files and
\* directories from which nothing is removed; two processes that make, enter
\* and remove directories; directories made in a full one.
FileUse == [procs |-> {1}, slots |-> 5, inodes |-> 4, calls |-> {"create", "remove", "open"},
            paths |-> {Rel(<<"a">>), Rel(<<"b">>), Rel(<<"c">>)}]
TreeUse == [procs |-> {1}, slots |-> 4, inodes |-> 4, calls |-> {"create", "mkdir", "chdir", "open"},
            paths |-> {Rel(<<"a">>), Rel(<<"a", "b">>), Rel(<<"..">>), Abs(<<"b">>)}]
RemoveUse == [procs |-> {1, 2}, slots |-> 3, inodes |-> 3, calls |-> {"mkdir", "chdir", "remove"},
              paths |-> {Rel(<<"a">>), Rel(<<"..">>)}]
FullUse == [procs |-> {1}, slots |-> 3, inodes |-> 3, calls |-> {"mkdir"},
            paths |-> {Rel(<<"a">>), Rel(<<"b">>)}]
MCUses == {FileUse, TreeUse, RemoveUse, FullUse}
=============================================================================
