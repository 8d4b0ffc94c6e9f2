CONSTANTS
  Client = {c1}
  Request = {r1, r2}
  Limit <- GlobalAndLogin
  MaxKeys = 2
  PruneInterval = 2
  MaxClock = 7
  MaxLag = 0
SYMMETRY Symmetry
SPECIFICATION Spec
PROPERTY ImplementsIdeal
