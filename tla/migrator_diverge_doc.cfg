CONSTANTS
  Process = {p1, p2}
  Registered <- Kernel
  Refers <- KernelKeys
  Commands = {"migrate", "migrate:refresh"}
  Disciplined = FALSE
  MaxCommands = 4
  MayFail = FALSE
SPECIFICATION Spec
CHECK_DEADLOCK FALSE
INVARIANT InStep
