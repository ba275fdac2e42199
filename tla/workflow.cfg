SPECIFICATION Spec

CONSTANTS
    r1 = r1
    r2 = r2
    r3 = r3
    plain = plain
    preempt = preempt
    ensure = ensure
    p1 = p1
    p2 = p2
    A = A
    None = None
    SerialLane = SerialLane
    Requests = {r1, r2, r3}
    Nodes = {plain, preempt, ensure}
    Sessions = {p1, p2}
    Labels = {A}
    Serial = FALSE
    Instructions <- MCInstructions

SYMMETRY ParentSymmetry

INVARIANTS
    TypeOK
    LaneIsItsSession
    NothingIsLost
    NoParentIsStuck


CHECK_DEADLOCK FALSE
