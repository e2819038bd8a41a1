SPECIFICATION FairSpec
CONSTANTS
  N = 2
  Workers = 2
  MaxPending = 1
  MaxAttempts = 2
  RetryOn = {"timeout"}
  Backoff = 1
  Exponential = TRUE
  Jitter = TRUE
  TaskTimeout = 1
  OverallTimeouts = {0, 2}
  Slice = 1
  Errors = {}
  UsesToken = TRUE
  InputMayRaise = FALSE
  Interruptible = FALSE
INVARIANTS
  LiveBound
  FuturesBound
  AttemptsHonest
PROPERTIES
  BatchEnds
  CancellationEnds
  DeadlineEnds
