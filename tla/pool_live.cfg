SPECIFICATION FairSpec
CONSTANTS
  Client = {c1}
  Worker = {w1}
  Run = {r1, r2}
  Future <- ThreeAndOne
  MaxPending = 2
  TasksReenter = FALSE
  CallbacksClose = FALSE
  FinalizesElsewhere = FALSE
  Nothing = Nothing
INVARIANTS
  NoDrainedWait
  CloseNeverFails
  NestedWindow
PROPERTIES
  RunsEnd
