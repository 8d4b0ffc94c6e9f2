CONSTANTS
  Client = {c1, c2, c3}
  Request = {r1, r2}
  Limit <- LoginOnly
  MaxKeys = 2
  PruneInterval = 2
  MaxClock = 4
  MaxLag = 1
  TicksPerSecond = 2
SYMMETRY Symmetry
SPECIFICATION HeaderSpec
INVARIANTS SweepLosesAtMostLag Bounded
PROPERTIES OnlyAdmissionsSpend ForgetsOnlyTheStalest RetryAfterHonoured
