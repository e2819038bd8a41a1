SPECIFICATION Spec
CONSTANTS
  Client = {c1}
  Worker = {w1}
  Run = {r1, r2}
  Future <- TwoEach
  MaxPending = 2
  TasksReenter = FALSE
  CallbacksClose = FALSE
  FinalizesElsewhere = FALSE
  Nothing = Nothing
SYMMETRY Symmetry
INVARIANTS
  OneWindow
