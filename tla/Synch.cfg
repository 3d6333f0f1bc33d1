SPECIFICATION MCSpec
CONSTANTS
  Main = Main
  Idle = Idle
  A = A
  B = B
  D = D
  L = L
  S = S
  C = C
  Pages = {A, B, D}
  NoThread = NoThread
  TIME_SLICE = 2
  Semas = {S}
  Locks = {TidLock, L}
  TidLock = TidLock
  Conds = {C}
  LockOf <- MCLockOf
  IdleStarted = IdleStarted
  MaxValue = 2
  MaxTid = 5
  SyncTid = 4
INVARIANTS
  QueuesMatchStatus
  MutualExclusion
  SignalDelivered
  NoLostWakeup
  TidsUnique
PROPERTIES
  LocksImplementLockSpec
  ThreadsProgress
