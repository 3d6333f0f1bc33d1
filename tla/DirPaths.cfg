SPECIFICATION Spec
CONSTANTS
  Uses <- MCUses
  MaxOpen = 2
INVARIANTS
  Tree
  OpenKept
  RepliesFaithful
CHECK_DEADLOCK FALSE
