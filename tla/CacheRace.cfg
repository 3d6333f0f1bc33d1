SPECIFICATION Spec
CONSTANTS
  A = A
  B = B
  Other = Other
  Threads = {A, B}
  Flusher = Flusher
  NoThread = NoThread
  CACHE_SIZE = 2
  SectorCount = 3
  Blank = Blank
  Data = {Blank, Other}
  Uses <- RacyUses
SYMMETRY ThreadSymmetry
INVARIANT ReadsLatest
