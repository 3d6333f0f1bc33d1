SPECIFICATION KernelSpec
CONSTANTS
  T1 = T1
  T2 = T2
  K1 = K1
  K2 = K2
  D = D
  Requesters = {T1, T2}
  Boot = Boot
  Nobody = Nobody
  Devices = {0, 1}
  Kinds <- MCKinds
  Size <- MCSize
  Contents512 = {Zeros, D}
  Zeros = Zeros
  MaxSpurious = 1
  MaxErrors = 1
  Printers = {T1, T2}
  NoPrinter = NoPrinter
  MaxPrints = 3
  HALF = 2
  TIMER_FREQ = 100
  Sleepers = {T1, T2}
  NoSleeper = NoSleeper
  Times <- MCTimes
  LoopsPerTick = 5000
  Tasks = {K1, K2}
  External = {32, 46}
  Trap = {48}
  Fault = {14}
  MaxFrames = 2
  PageThreads = {T1, T2}
  FREE_PAGES = 7
  user_page_limit = 3
  BITMAP_PAGES = 1
  MaxCount = 2
  MaxGroups = 2
  ELEM_BITS = 2
  NoOne = NoOne
  PGSIZE = 16
  ARENA = 3
  MIN_BLOCK = 3
  PoolPages = 3
  SIZE_T = 64
  Factors <- MCFactors
  Sizes = {0, 2, 5, 7, 13, 14, 29}
  MaxLive = 4
  S1 = S1
  S2 = S2
  Spaces = {S1, S2}
  Programs <- MCPrograms
  Words <- MCWords
  Overlapping <- MCOverlapping
  PageSize = 32
  PHYS_BASE = 256
  TablePages = 4
  KernelPages = {1, 2, 3}
  UserPages = {4, 5, 6, 7}
  WORD_MAX = 512
  NoPage = NoPage
  e1 = e1
  e2 = e2
  e3 = e3
  e4 = e4
  Lists = {1, 2}
  Elems = {e1, e2, e3, e4}
  Value <- MCValue
  NULL = NULL
  h1 = h1
  h2 = h2
  h3 = h3
  h4 = h4
  h5 = h5
  h6 = h6
  HashElems = {h1, h2, h3, h4, h5, h6}
  Key <- MCKey
  Hash <- MCHash
  MinBuckets = 1
  BEST_ELEMS_PER_BUCKET = 1
  NoElem = NoElem
INVARIANTS
  LinesUnmixed
  SleepsLongEnough
  ExternalsSerial
  PagesAccounted
  HeapSound
  SpaceHoldsProgram
  SpacesOwnPages
  ListsAreSequences
  HashIsSet
PROPERTIES
  IdeIsStore
