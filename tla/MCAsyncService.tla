--------------------------- MODULE MCAsyncService ---------------------------
(* Instances of AsyncService for TLC *)
EXTENDS AsyncService, TLC

CONSTANTS
    r1, r2, r3, r4,                 \* requests
    plain, fifo, preempt, ensure,   \* nodes, named for their instructions
    s1, s2,                         \* sessions
    A, B,                           \* labels
    trim, scope1, scope2            \* cleanups

Instruct(l, p, e) == [label |-> l, preempt |-> p, ensure |-> e]

\* Label A is used by a preempting node and by one whose requests preempt and
\* are ensured, label B by a node that does neither.
MCInstructions ==
    [n \in Nodes |-> CASE n = plain -> None
                       [] n = fifo -> Instruct(B, FALSE, FALSE)
                       [] n = preempt -> Instruct(A, TRUE, FALSE)
                       [] n = ensure -> Instruct(A, TRUE, TRUE)]

\* Session s1 may be trimmed or cleaned by its scope, s2 cleaned by its scope.
MCCleanupSession == [c \in Cleanups |-> IF c = scope2 THEN s2 ELSE s1]

AllNodes == [c \in Cleanups |-> Nodes]

RequestSymmetry == Permutations(Requests)
=============================================================================
