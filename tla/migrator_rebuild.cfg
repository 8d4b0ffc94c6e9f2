CONSTANTS
  Process = {p1}
  Registered <- Longer
  Refers <- LongerKeys
  Commands = {"migrate:fresh"}
  Disciplined = TRUE
  MaxCommands = 1
  MayFail = FALSE
SPECIFICATION BrokenSpec
CHECK_DEADLOCK FALSE
PROPERTY FreshRebuilds
