SPECIFICATION FilterSpec
CONSTANTS
  Times <- MCTimes
  Changes <- MCChanges
  MaxFound = 3
INVARIANTS KeepsUndominated DroppedForKept
CHECK_DEADLOCK FALSE
