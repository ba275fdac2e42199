------------------------------ MODULE Delivery ------------------------------
(***************************************************************************)
(* The delivery policy of a service (service/delivery.rs): which requests  *)
(* share a queue, which of them a preempting request discards, and which   *)
(* one is popped next.  The policy is a set of operators over the orders   *)
(* of one provider; the modules that EXTEND this one hold the state.       *)
(*                                                                         *)
(* A request enters the policy with a stamp, its position in the           *)
(* push_back order, so that a VecDeque is the set of its orders: retain    *)
(* keeps a subset and pop_front takes the member with the least stamp.     *)
(***************************************************************************)
EXTENDS Integers, FiniteSets

CONSTANTS
    Requests,      \* the requests made of the provider, one task_id each
    Nodes,         \* the OperateService nodes that send them
    Sessions,      \* the sessions in which the nodes run
    Labels,        \* the delivery labels
    Instructions,  \* the DeliveryInstructions component of each node, or None
    Serial,        \* TRUE for Delivery::Serial, FALSE for Delivery::Parallel
    SerialLane,    \* the one queue of a Delivery::Serial
    None           \* Option::None

InstructionSet == [label : Labels, preempt : BOOLEAN, ensure : BOOLEAN]

ASSUME DeliveryAssumption ==
    /\ Instructions \in [Nodes -> InstructionSet \cup {None}]
    /\ Serial \in BOOLEAN
    /\ None \notin Requests \cup Nodes \cup Labels \cup InstructionSet
    /\ SerialLane # None
    /\ Requests \cap Nodes = {}

(***************************************************************************)
(* A lane is one SerialDelivery: the only one of a serial service, or the  *)
(* one of a label of a parallel service.  Requests without instructions    *)
(* have no lane in a parallel service and are never queued.                *)
(***************************************************************************)
Lanes == IF Serial THEN {SerialLane} ELSE Labels

HasInstructions(n) == Instructions[n] # None

LaneOf(n) ==
    IF Serial THEN SerialLane
    ELSE IF HasInstructions(n) THEN Instructions[n].label ELSE None

Preempts(n) == HasInstructions(n) /\ Instructions[n].preempt

\* Mutant: the ensure instruction is ignored.
ShouldDiscardEnsured(m, n) ==
    /\ HasInstructions(n)
    /\ Instructions[n].label = Instructions[m].label

\* should_discard: may an order of node n be discarded for one of node m?
ShouldDiscard(m, n) ==
    /\ HasInstructions(n)
    /\ Instructions[n].label = Instructions[m].label
    /\ ~Instructions[n].ensure

\* The orders of the queue that an incoming order of node m cancels.
Cancelled(m, queue, node) ==
    {r \in queue : Preempts(m) /\ ShouldDiscard(m, node[r])}

\* Whether an incoming order of node m stops the order being delivered.
StopsDelivery(m, active, node) ==
    /\ active # None
    /\ Preempts(m)
    /\ ShouldDiscard(m, node[active])

\* Some node of lane l sends preempting requests.
Preemptible(l) == \E n \in Nodes : LaneOf(n) = l /\ Preempts(n)

\* Mutant: pop_back.
IsBack(r, queue, stamp) ==
    /\ r \in queue
    /\ \A q \in queue : stamp[r] >= stamp[q]

\* pop_front: r is the next order of the queue.
IsFront(r, queue, stamp) ==
    /\ r \in queue
    /\ \A q \in queue : stamp[r] <= stamp[q]
=============================================================================
