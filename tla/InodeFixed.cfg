SPECIFICATION Spec
CONSTANTS
  NoFile = NoFile
  SectorSize = 2
  Direct = 2
  Ptrs = 4
  Uses <- FixedUses
  Payloads <- MCPayloads
INVARIANTS
  SectorsDisjoint
  SectorsAccounted
PROPERTY
  InodesAreFiles
CHECK_DEADLOCK FALSE
