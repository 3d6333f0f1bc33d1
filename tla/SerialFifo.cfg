SPECIFICATION Spec
CONSTANTS
  INTQ_BUFSIZE = 3
  X = X
  Y = Y
  Bytes = {X, Y}
  None = None
  MaxOff = 1
SYMMETRY ByteSymmetry
INVARIANT NoLostWakeup
PROPERTY QueuesAreFifos
