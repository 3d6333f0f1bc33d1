SPECIFICATION Spec
CONSTANTS
  NoFile = NoFile
  SectorSize = 2
  Direct = 2
  Ptrs = 4
  Uses <- GrowUses
  Payloads <- MCPayloads
INVARIANT
  WriteExtends
CHECK_DEADLOCK FALSE
