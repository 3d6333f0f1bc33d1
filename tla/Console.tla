------------------------------ MODULE Console ------------------------------
(***************************************************************************)
(* lib/kernel/console.c: the console lock, made recursive with a counter,  *)
(* among threads that print, interrupt handlers that print, and a panic.   *)
(*                                                                         *)
(* A call of printf(), puts(), putbuf() or putchar() prints some           *)
(* characters one at a time.  A thread may print again in the middle of a  *)
(* call, as when a thread switch frees a page and palloc_free() prints.    *)
(* A handler of external interrupts prints without touching what is below. *)
(***************************************************************************)
EXTENDS Naturals

CONSTANTS
  Printers,  \* threads
  NoPrinter, \* no thread
  MaxPrints   \* bound on the calls a thread is in at once

ASSUME ConsoleAssumption == NoPrinter \notin Printers /\ MaxPrints \in Nat

VARIABLES
  console_lock,        \* the holder, or NoPrinter
  console_lock_depth,
  use_console_lock,
  prints,               \* prints[t], the calls that t is in and has the console for
  waits,               \* the threads in lock_acquire (&console_lock)
  panicked             \* the thread in debug_panic(), or NoPrinter

consoleVars == <<console_lock, console_lock_depth, use_console_lock, prints, waits, panicked>>

ConsoleTypeOK ==
  /\ console_lock \in Printers \cup {NoPrinter}
  /\ console_lock_depth \in Nat
  /\ use_console_lock \in BOOLEAN
  /\ prints \in [Printers -> Nat]
  /\ waits \subseteq Printers
  /\ panicked \in Printers \cup {NoPrinter}

\* Before console_init().
ConsoleInit ==
  /\ console_lock = NoPrinter /\ console_lock_depth = 0
  /\ use_console_lock = FALSE
  /\ prints = [t \in Printers |-> 0]
  /\ waits = {}
  /\ panicked = NoPrinter

\* Thread t may run: after a panic only the thread that panics does.
Runs(t) == t \notin waits /\ panicked \in {NoPrinter, t}

\* One thread exists until console_init(), and it calls that between lines.
console_init ==
  /\ ~use_console_lock /\ panicked = NoPrinter
  /\ \A t \in Printers : prints[t] = 0
  /\ use_console_lock' = TRUE
  /\ UNCHANGED <<console_lock, console_lock_depth, prints, waits, panicked>>

acquire_console(t) ==
  /\ Runs(t) /\ prints[t] < MaxPrints
  /\ IF ~use_console_lock
     THEN /\ prints' = [prints EXCEPT ![t] = @ + 1]
          /\ UNCHANGED <<console_lock, console_lock_depth, waits>>
     ELSE IF console_lock = t
     THEN /\ prints' = [prints EXCEPT ![t] = @ + 1]
          /\ console_lock_depth' = console_lock_depth + 1
          /\ UNCHANGED <<console_lock, waits>>
     ELSE /\ waits' = waits \cup {t}
          /\ UNCHANGED <<console_lock, console_lock_depth, prints>>
  /\ UNCHANGED <<use_console_lock, panicked>>

\* lock_acquire() returns.
ConsoleLock(t) ==
  /\ t \in waits /\ console_lock = NoPrinter /\ panicked = NoPrinter
  /\ waits' = waits \ {t}
  /\ console_lock' = t
  /\ prints' = [prints EXCEPT ![t] = @ + 1]
  /\ UNCHANGED <<console_lock_depth, use_console_lock, panicked>>

\* Releasing before counting down.
release_console_early(t) ==
  /\ Runs(t) /\ prints[t] > 0
  /\ prints' = [prints EXCEPT ![t] = @ - 1]
  /\ IF use_console_lock
     THEN /\ console_lock' = NoPrinter
          /\ console_lock_depth' = IF console_lock_depth > 0 THEN console_lock_depth - 1 ELSE 0
     ELSE UNCHANGED <<console_lock_depth, console_lock>>
  /\ UNCHANGED <<use_console_lock, waits, panicked>>

release_console(t) ==
  /\ Runs(t) /\ prints[t] > 0
  /\ prints' = [prints EXCEPT ![t] = @ - 1]
  /\ IF ~use_console_lock
     THEN UNCHANGED <<console_lock_depth, console_lock>>
     ELSE IF console_lock_depth > 0
     THEN console_lock_depth' = console_lock_depth - 1 /\ UNCHANGED console_lock
     ELSE console_lock' = NoPrinter /\ UNCHANGED console_lock_depth
  /\ UNCHANGED <<use_console_lock, waits, panicked>>

\* debug_panic(): interrupts go off, and console_panic() is called.
console_panic(t) ==
  /\ Runs(t) /\ panicked = NoPrinter
  /\ panicked' = t
  /\ use_console_lock' = FALSE
  /\ UNCHANGED <<console_lock, console_lock_depth, prints, waits>>

ConsoleNext ==
  \/ console_init
  \/ \E t \in Printers :
       acquire_console(t) \/ ConsoleLock(t) \/ release_console(t) \/ console_panic(t)

ConsoleSpec == ConsoleInit /\ [][ConsoleNext]_consoleVars
-----------------------------------------------------------------------------
console_locked_by_current_thread(t) == ~use_console_lock \/ console_lock = t

\* While the lock is in use, a thread in the middle of its output is the only
\* one, the lock is its own, and the counter is the number of calls that it
\* made inside another: putchar_have_lock()'s ASSERT holds, the lock is given
\* back exactly when the outermost call returns, and lines of two threads do
\* not mix.  Neither the thread with the lock nor one that panics waits for it.
LinesUnmixed ==
  /\ ConsoleTypeOK
  /\ \A t \in Printers : prints[t] > 0 => console_locked_by_current_thread(t)
  /\ use_console_lock =>
       /\ \A t \in Printers : console_lock = t => prints[t] > 0
       /\ console_lock # NoPrinter => console_lock_depth = prints[console_lock] - 1
       /\ console_lock = NoPrinter => console_lock_depth = 0
  /\ console_lock \notin waits /\ panicked \notin waits
=============================================================================
