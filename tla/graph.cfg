SPECIFICATION Spec

CONSTANTS
    t1 = t1
    t2 = t2
    t3 = t3
    None = None
    Tasks = {t1, t2, t3}
    Graphs <- MCGraphs
    MaxStream = 3
    MaxPush = 1
    Retention = 2
    CancelStops = FALSE

INVARIANTS
    TypeOK
    CancelOnlyTheHopeless
    NoSessionIsStuck
    InputsAreQueued
    TasksAreQueued
    TaskOutputIsLast
    CollectIsComplete
    JoinMissesNothing
    CollectBeforeCancel

CHECK_DEADLOCK FALSE
