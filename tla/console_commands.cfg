CONSTANTS
  Process = {p1, p2}
  MaxRuns = 3
  MaxEdits = 1
  SeedEventCount = 3
SYMMETRY Symmetry
SPECIFICATION Spec
INVARIANT EnvWhole
PROPERTIES OutcomeTold LiveSecretKept OnlyOverlapLoses OneAccount SeededMeansThere AskedInProduction
