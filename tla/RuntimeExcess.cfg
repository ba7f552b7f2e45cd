SPECIFICATION Spec
CHECK_DEADLOCK FALSE
CONSTANTS
  Capacity = 1
  MaxResult = 2
  MaxWritten = 3
INVARIANT ExcessIsRefused
