SPECIFICATION Spec

CONSTANTS
    r1 = r1
    r2 = r2
    r3 = r3
    r4 = r4
    plain = plain
    fifo = fifo
    preempt = preempt
    ensure = ensure
    s1 = s1
    s2 = s2
    A = A
    B = B
    trim = trim
    scope1 = scope1
    scope2 = scope2
    None = None
    SerialLane = SerialLane
    Requests = {r1, r2, r3}
    Nodes = {fifo, preempt, ensure}
    Sessions = {s1, s2}
    Labels = {A, B}
    Serial = FALSE
    Instructions <- MCInstructions
    Cleanups = {scope1}
    CleanupSession <- MCCleanupSession
    CleanupNodes <- AllNodes
    ScopeCleanups = {scope1}
    ServiceMayDespawn = FALSE

SYMMETRY RequestSymmetry

INVARIANTS
    TypeOK
    IdleLaneIsEmpty
    UnpreemptedLanesAreExclusive
    TakenLaneIsFreed
    SupplantedOnlyByPreemption
    NothingIsLost
    CleanedMeansDropped
    UnpreemptedCleanupIsUnderWay

PROPERTIES
    OutcomeIsFinal
    FirstComeFirstServed
