CONSTANTS
  k1 = k1
  k2 = k2
  Package <- Packages
  Test <- Tests
  TestsOf <- InPackage
  Above <- Parents
  PipeSize = 1
  MaxBytes = 5
  MaxChunk = 2
SPECIFICATION FairSpec
CHECK_DEADLOCK FALSE
INVARIANTS Grouped NothingSwallowed VerdictTrue FailuresNamed FilteredByLine
PROPERTY CommandReturns
