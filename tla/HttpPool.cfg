SPECIFICATION HttpFairSpec
CONSTANTS
  T1 = T1
  T2 = T2
  T3 = T3
  C1 = C1
  C2 = C2
  C3 = C3
  Main = Main
  Nobody = Nobody
  NoFd = NoFd
  Pool = {T1, T2, T3}
  Sizes = {0, 2, 3}
  Conns = {C1, C2, C3}
  MaxAccepts = 4
CHECK_DEADLOCK FALSE
INVARIANTS OneOwner NoLostSignal
PROPERTY AllServedInOrder
