SPECIFICATION Spec
CONSTANTS
  N = 2
  Workers = 2
  MaxPending = 2
  MaxAttempts = 2
  RetryOn = {"timeout"}
  Backoff = 1
  Exponential = FALSE
  Jitter = FALSE
  TaskTimeout = 1
  OverallTimeouts = {0}
  Slice = 1
  Errors = {"error"}
  UsesToken = TRUE
  InputMayRaise = FALSE
  Interruptible = FALSE
INVARIANTS
  TypeOK
  NothingLost
  TeardownComplete
  AbandonedHoldsSlot
PROPERTIES
  LegalTransitions
  OutcomeFixed
  NothingEarly
