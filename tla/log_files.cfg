CONSTANTS
  Process = {p1, p2}
  DayLength = 2
  RetentionDays = 2
  MaxStall = 2
  MaxClock = 8
SPECIFICATION Spec
INVARIANTS RecentKept FiledByDay
PROPERTY SweptClean
