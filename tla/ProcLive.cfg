SPECIFICATION FairSpec
CONSTANTS
  Main = Main
  A = A
  B = B
  C = C
  Procs = {A, B}
  NoThread = NoThread
  Codes = {0}
  MaxWaits = 2
  Uses <- LiveUses
PROPERTY CallsEnd
