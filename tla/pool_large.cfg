SPECIFICATION Spec
CONSTANTS
  PageSize = 4096
  PageHeader = 24
  Pointer = 8
  MinSize = 32
  NextCount = 32
  MaxPages = 32
  MaxSize = 5000
INVARIANTS
  FirstBlockFits
CHECK_DEADLOCK FALSE
