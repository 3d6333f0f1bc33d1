------------------------------ MODULE MCKernel ------------------------------
(***************************************************************************)
(* The parts of the kernel that share nothing but the processor, for TLC:  *)
(* the drivers and the interrupt code, the page and block allocators, the  *)
(* address spaces, and the lists and hash tables everything else uses.     *)
(* Each module has its own interrupts and thread switches, so that a       *)
(* behaviour is one of one part.                                           *)
(***************************************************************************)
EXTENDS Ide, Console, Timer, Interrupts, Palloc, Malloc, AddressSpace, Lists, HashTable, TLC

CONSTANTS T1, T2, K1, K2, D, S1, S2, e1, e2, e3, e4, h1, h2, h3, h4, h5, h6

VARIABLE part

MCKinds == {0 :> k @@ 1 :> "disk" : k \in Kind}
MCSize == 0 :> 1 @@ 1 :> 1
MCTimes == {<<10, 1000>>, <<20, 1000>>, <<900, 1000000>>}

\* Executables of 80 bytes, with pages of 32: segments that start and end inside
\* a page, with and without bytes from the file, that share a page, are longer
\* than the file, reach the stack or the end of memory, or are refused.
Header(type, offset, vaddr, filesz, memsz, writable) ==
  [type |-> type, offset |-> offset, vaddr |-> vaddr, filesz |-> filesz, memsz |-> memsz,
   writable |-> writable]
Loaded(offset, vaddr, filesz, memsz, writable) ==
  Header("PT_LOAD", offset, vaddr, filesz, memsz, writable)
MCExecutables ==
  {[length |-> 80, phdrs |-> phdrs] : phdrs \in
     {<<Loaded(4, 36, 40, 50, FALSE), Header("ignored", 0, 0, 0, 0, FALSE), Loaded(48, 144, 3, 3, TRUE)>>,
      <<Loaded(40, 40, 10, 20, TRUE), Loaded(33, 65, 0, 40, FALSE)>>,
      <<Loaded(32, 32, 10, 20, TRUE), Loaded(60, 60, 4, 6, FALSE)>>,
      <<Loaded(64, 160, 32, 32, TRUE)>>,
      <<Loaded(10, 234, 6, 22, TRUE)>>,
      <<Loaded(10, 234, 6, 300, TRUE)>>,
      <<Header("PT_INTERP", 10, 42, 6, 6, TRUE)>>,
      <<Loaded(0, 192, 20, 70, TRUE)>>,
      <<Loaded(0, 192, 20, 28, TRUE)>>}}
MCShort == [length |-> 40, phdrs |-> <<Loaded(0, 64, 20, 30, FALSE)>>]
MCPrograms == (S1 :> MCExecutables) @@ (S2 :> {MCShort})
MCOverlapping == {MCShort, [length |-> 80, phdrs |-> <<Loaded(64, 160, 32, 32, TRUE)>>]}
\* Two lines that fit in the stack's page, and one that does not.
MCWords == {<<3>>, <<2, 1>>, <<20>>}

\* No bytes, a small and a larger block; and two products that wrap at SIZE_T =
\* 64: 65, which leaves 1 and is refused, and 221, which leaves 29 and is not.
MCFactors == {<<0, 2>>, <<1, 5>>, <<2, 7>>, <<13, 5>>, <<13, 17>>}

MCValue == (e1 :> 1) @@ (e2 :> 2) @@ (e3 :> 2) @@ (e4 :> 3)
MCKey == (h1 :> 1) @@ (h2 :> 2) @@ (h3 :> 3) @@ (h4 :> 4) @@ (h5 :> 5) @@ (h6 :> 1)
MCHash == (1 :> 0) @@ (2 :> 1) @@ (3 :> 2) @@ (4 :> 3) @@ (5 :> 1)

Parts == {"ide", "console", "timer", "interrupts", "pages", "heap", "spaces", "lists", "hash"}

KernelInit ==
  /\ part \in Parts
  /\ IdeInit /\ ConsoleInit /\ TimerInit /\ InterruptsInit
  /\ PallocInit /\ HeapInit /\ SpaceInit /\ ListsInit /\ HashInit
  /\ part # "ide" => kind[0] = "disk"
  /\ part # "interrupts" => task = K1
  /\ part # "spaces" => runs = S1 /\ program[S1].phdrs = <<Loaded(64, 160, 32, 32, TRUE)>>

driverVars == <<ideVars, consoleVars, timerVars, intrVars>>
memoryVars == <<pallocVars, heapVars, spaceVars>>

KernelNext ==
  \/ /\ part = "ide" /\ IdeNext
     /\ UNCHANGED <<part, consoleVars, timerVars, intrVars, memoryVars, links, table>>
  \/ /\ part = "console" /\ ConsoleNext
     /\ UNCHANGED <<part, ideVars, timerVars, intrVars, memoryVars, links, table>>
  \/ /\ part = "timer" /\ TimerNext
     /\ UNCHANGED <<part, ideVars, consoleVars, intrVars, memoryVars, links, table>>
  \/ /\ part = "interrupts" /\ InterruptsNext
     /\ UNCHANGED <<part, ideVars, consoleVars, timerVars, memoryVars, links, table>>
  \/ /\ part = "pages" /\ PallocNext
     /\ UNCHANGED <<part, driverVars, heapVars, spaceVars, links, table>>
  \/ /\ part = "heap" /\ HeapNext
     /\ UNCHANGED <<part, driverVars, pallocVars, spaceVars, links, table>>
  \/ /\ part = "spaces" /\ SpaceNext
     /\ UNCHANGED <<part, driverVars, pallocVars, heapVars, links, table>>
  \/ /\ part = "lists" /\ ListsNext
     /\ UNCHANGED <<part, driverVars, memoryVars, table>>
  \/ /\ part = "hash" /\ HashNext
     /\ UNCHANGED <<part, driverVars, memoryVars, links>>

KernelSpec == KernelInit /\ [][KernelNext]_<<part, driverVars, memoryVars, links, table>>
=============================================================================
