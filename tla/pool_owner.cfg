SPECIFICATION Spec
CONSTANTS
  Client = {c1, c2}
  Worker = {w1, w2}
  Run = {r1, r2}
  Future <- TwoEach
  MaxPending = 2
  TasksReenter = TRUE
  CallbacksClose = FALSE
  FinalizesElsewhere = TRUE
  Nothing = Nothing
SYMMETRY Symmetry
INVARIANTS
  OneCoordinator
  NoSelfDrain
  LeaksKnown
  AwaitedCanFinish
  CloseAccounts
PROPERTIES
  OnlyLateTasksCoordinate
