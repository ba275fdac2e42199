SPECIFICATION Spec

CONSTANTS
    r1 = r1
    r2 = r2
    r3 = r3
    r4 = r4
    plain = plain
    fifo = fifo
    preempt = preempt
    ensure = ensure
    s1 = s1
    s2 = s2
    A = A
    B = B
    trim = trim
    scope1 = scope1
    scope2 = scope2
    None = None
    SerialLane = SerialLane
    Requests = {r1, r2, r3}
    Nodes = {preempt}
    Sessions = {s1}
    Labels = {A, B}
    Serial = FALSE
    Instructions <- MCInstructions
    Cleanups = {}
    CleanupSession <- MCCleanupSession
    CleanupNodes <- AllNodes
    ScopeCleanups = {}
    ServiceMayDespawn = FALSE

SYMMETRY RequestSymmetry

INVARIANTS
    LanesAreExclusive
