SPECIFICATION Spec
CONSTANTS
  Client = {c1}
  Worker = {w1}
  Run = {r1}
  Future <- TwoEach
  MaxPending = 2
  TasksReenter = FALSE
  CallbacksClose = FALSE
  FinalizesElsewhere = FALSE
  Nothing = Nothing
SYMMETRY Symmetry
INVARIANTS
  CloseHonest
