CONSTANTS
    N = 3
    MaxPending = 3
    Nothing = Nothing
SPECIFICATION Spec
INVARIANTS TypeOK NoInternalError FirstFailureRaises CollectHonest CleanExit FinalTally ToldOnce OneBar
PROPERTIES KeepsOrder NothingAfterClose
CHECK_DEADLOCK FALSE
