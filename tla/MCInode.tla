------------------------------- MODULE MCInode -------------------------------
(* Small disks for TLC: sectors of 2 bytes, 2 direct sectors, tables of 4. *)
EXTENDS Inode

\* Files that fit in their direct sectors, with two openers each; files that
\* need an indirect table, and a doubly indirect one; files that need two
\* tables under the doubly indirect one.
DirectUse == [sectors |-> 9, lengths |-> {0, 3}, offsets |-> {0, 1}, sizes |-> {3},
              max_open |-> 2, grow |-> FALSE]
TableUse == [sectors |-> 18, lengths |-> {8, 14}, offsets |-> {3, 11}, sizes |-> {4},
             max_open |-> 1, grow |-> FALSE]
TablesUse == [sectors |-> 24, lengths |-> {28}, offsets |-> {10, 19}, sizes |-> {4},
              max_open |-> 1, grow |-> FALSE]
FixedUses == {DirectUse, TableUse, TablesUse}

GrowUses == {[sectors |-> 16, lengths |-> {0, 2, 3}, offsets |-> {0, 2}, sizes |-> {1},
              max_open |-> 1, grow |-> TRUE]}
MCPayloads == {<<1, 2>>}
=============================================================================
