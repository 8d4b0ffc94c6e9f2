CONSTANTS
  Process = {p1, p2}
  Registered <- Longer
  Refers <- LongerKeys
  Commands <- All
  Disciplined = TRUE
  MaxCommands = 4
  MayFail = TRUE
SYMMETRY Symmetry
SPECIFICATION Spec
CHECK_DEADLOCK FALSE
INVARIANTS InStep Grounded BatchOwned
PROPERTY SuccessMeansBuilt
