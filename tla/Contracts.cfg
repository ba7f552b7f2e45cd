SPECIFICATION Spec
CHECK_DEADLOCK FALSE
CONSTANTS
  Heads = {h1, h2}
  Bases = {b1}
  Paths = {f1, f2, f3, f4, f5}
  OtherReasons = {other}
  PageSize = 2
  MaxListed = 4
  MaxPages = 2
  h1 = h1
  h2 = h2
  b1 = b1
  f1 = f1
  f2 = f2
  f3 = f3
  f4 = f4
  f5 = f5
  other = other
  Wires <- AllWires
  Records <- SomeRecords
INVARIANTS
  PassIsEarned
  FailuresSurvive
  HonestResultsAreRead
