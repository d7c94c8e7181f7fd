SPECIFICATION SessionSpec
CONSTANTS
  MaxAttempts = 1
  MaxDials = 3
  MaxPayloads = 2
  UnreachableAfter = 1
INVARIANTS SessionTypeOK  WireOrder RetryWanted RetryBudget
PROPERTIES RoutedWhileUp HandshakesFinish
CHECK_DEADLOCK FALSE
