CONSTANTS
  Request = {r1, r2}
  MaxSignals = 2
SPECIFICATION FairSpec
CHECK_DEADLOCK FALSE
INVARIANTS ExitsClean OrderlyMeansDrained FailureReturned
PROPERTIES SecondSignalKills Ends
