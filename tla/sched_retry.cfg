SPECIFICATION Spec
CONSTANTS
  N = 3
  Workers = 2
  MaxPending = 2
  MaxAttempts = 3
  RetryOn = {"error", "timeout", "Cancelled"}
  Backoff = 1
  Exponential = TRUE
  Jitter = TRUE
  TaskTimeout = 0
  OverallTimeouts = {0}
  Slice = 1
  Errors = {"error", "Cancelled"}
  UsesToken = TRUE
  InputMayRaise = TRUE
  Interruptible = TRUE
INVARIANTS
  NothingLost
  YieldedAreFinal
  AttemptsHonest
  CancelledNeverRuns
  WindowBound
PROPERTIES
  LegalTransitions
  KeepsPromise
