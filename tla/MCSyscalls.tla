----------------------------- MODULE MCSyscalls -----------------------------
(* The file system calls, for TLC. *)
EXTENDS Syscalls

AllCalls == {"open", "create", "remove", "mkdir", "read", "write", "filesize",
             "seek", "tell", "close", "chdir", "readdir", "isdir", "inumber"}
=============================================================================
