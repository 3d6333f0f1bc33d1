SPECIFICATION Spec
CONSTANTS
  A = A
  B = B
  Other = Other
  Threads = {A, B}
  Flusher = Flusher
  NoThread = NoThread
  CACHE_SIZE = 2
  SectorCount = 3
  Blank = Blank
  Data = {Blank, Other}
  Uses <- AllUses
CONSTRAINT UntilRace
SYMMETRY ThreadSymmetry
INVARIANTS FlushSaves LRUOrder LockOrder
PROPERTY CacheIsStore
