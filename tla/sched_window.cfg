SPECIFICATION Spec
CONSTANTS
  N = 1
  Workers = 2
  MaxPending = 1
  MaxAttempts = 2
  RetryOn = {"timeout"}
  Backoff = 0
  Exponential = FALSE
  Jitter = FALSE
  TaskTimeout = 1
  OverallTimeouts = {0}
  Slice = 1
  Errors = {"error"}
  UsesToken = FALSE
  InputMayRaise = FALSE
  Interruptible = FALSE
INVARIANTS
  WindowBound
