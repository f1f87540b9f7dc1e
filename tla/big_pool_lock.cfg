SPECIFICATION Spec
CONSTANTS
  Header = 2
  FreeSize = 3
  SmallSize = 8
  Page = 30
  PageCount = 2
  Sizes = {4, 9, 15, 24}
  Budgets = {1}
INVARIANTS
  NeverHangs
CHECK_DEADLOCK FALSE
