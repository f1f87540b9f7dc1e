SPECIFICATION Spec
CONSTANTS
  Nodes <- MCNodes
  KeyOf <- MCKeyOf
  Together <- MCTogether
INVARIANTS
  Consistent
  RedBlack
  SearchesRight
PROPERTIES
  ImplementsOrderedBag
  TurnsEnd
VIEW MCView
