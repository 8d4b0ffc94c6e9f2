CONSTANTS
  Caller = {r1, r2}
  Operations = {"Find", "Update", "Delete"}
  MaxOpenConns = 2
SPECIFICATION PoolSpec
CHECK_DEADLOCK FALSE
INVARIANT DoneMeansAccepted
