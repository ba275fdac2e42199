--------------------------- MODULE MCOperateScope ---------------------------
(* Instances of OperateScope for TLC *)
EXTENDS OperateScope, TLC

CONSTANTS
    s1, s2, s3,     \* scoped sessions
    p1, p2,         \* parent sessions
    n1, n2,         \* nodes
    w1,             \* a cleanup workflow
    c1, c2          \* cleanups

\* Two sessions of the same parent session, and one of another.
MCParentOf == [s \in Sessions |-> IF s = s3 THEN p2 ELSE p1]

\* Each session has a parent session of its own.
MCOwnParent == [s \in Sessions |-> IF s = s1 THEN p1 ELSE p2]

MCCleanupOf == [c \in Cleanups |-> IF c = c2 THEN p2 ELSE p1]
=============================================================================
