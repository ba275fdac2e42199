------------------------- MODULE MCWorkflowService -------------------------
(* Instances of WorkflowService for TLC *)
EXTENDS WorkflowService, TLC

CONSTANTS
    r1, r2, r3,              \* requests
    plain, preempt, ensure,  \* service nodes, named for their instructions
    p1, p2,                  \* sessions of the requesting workflows
    A                        \* a label

MCInstructions ==
    [n \in Nodes |-> IF n = plain THEN None
                     ELSE [label |-> A, preempt |-> n = preempt, ensure |-> n = ensure]]

ParentSymmetry == Permutations(Requests) \cup Permutations(Sessions)
=============================================================================
