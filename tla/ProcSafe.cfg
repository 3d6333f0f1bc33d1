SPECIFICATION Spec
CONSTANTS
  Main = Main
  A = A
  B = B
  C = C
  Procs = {A, B, C}
  NoThread = NoThread
  Codes = {0}
  MaxWaits = 1
  Uses <- SafeUses
SYMMETRY ProcSymmetry
INVARIANTS  WaitReturnsStatus  RefCountExact
