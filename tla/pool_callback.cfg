SPECIFICATION Spec
CONSTANTS
  Client = {c1}
  Worker = {w1}
  Run = {r1}
  Future <- TwoEach
  MaxPending = 2
  TasksReenter = FALSE
  CallbacksClose = TRUE
  FinalizesElsewhere = FALSE
  Nothing = Nothing
SYMMETRY Symmetry
INVARIANTS
  NoSelfDrain
