SPECIFICATION FairSpec
CONSTANTS
  a = a
  b = b
  bad = bad
  Messages <- AllMessages
  Size <- Sizes
  Malformed = {bad}
  ReadsOn = FALSE
  CanBreak = TRUE
  MaxSent = 4
INVARIANTS
  OneWriteInFlight
  Framing
  WrittenInOrder
  FailedNotReceived
PROPERTIES
  ImplementsChannel
  DeliversAll
CHECK_DEADLOCK FALSE
