SPECIFICATION FairSpec
CONSTANTS
  Procs = {p, q}
  None = None
  MAX_FILE_DESCRIPTORS = 6
  Calls <- AllCalls
  MaxObjects = 5
  MaxCalls = 5
INVARIANTS
  EntriesOwnObjects
  LockReleased
PROPERTY
  CallsReturn
CHECK_DEADLOCK FALSE
