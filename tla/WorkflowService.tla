-------------------------- MODULE WorkflowService --------------------------
(***************************************************************************)
(* A workflow used as a service (service/workflow.rs): the requests that   *)
(* the service nodes of other workflows make of it, the delivery policy    *)
(* that queues them, and the scope that runs one session for each.         *)
(*                                                                         *)
(* Unlike an async task, a workflow that is stopped keeps its lane until   *)
(* its scope has cleaned it: the blocker of the order travels in the       *)
(* ExitTarget of the scoped session, and the order after it begins when    *)
(* the session is finalized.                                               *)
(*                                                                         *)
(* A request stands for its order and for the scoped session spawned for   *)
(* it.  The inside of the workflow is open: a session may terminate or be  *)
(* cancelled at any time, and its cleanup takes any time (OperateScope is  *)
(* the detail of that).  A parent is a session of a requesting workflow:   *)
(* its only way to its own end is the output of its requests.              *)
(***************************************************************************)
EXTENDS Delivery

VARIABLES
    node,       \* the service node that makes each request
    parent,     \* the session in which it is made
    phase,      \* where the order is, or ScopedSession::status
    finish,     \* CleanupInfo::status of the sessions that are being cleaned
    stopping,   \* sessions with an input in the CancelScope operation
    delivering, \* SerialDelivery::delivering of each lane
    stamp,      \* when an order was queued, or its session stored
    clock,      \* the stamps that were used
    outcome,    \* what the parent was told of each request
    status,     \* SessionStatus of each parent
    doubts,     \* the parents in roster.reachable
    hopeless    \* the parents that were cancelled as unreachable

request == <<node, parent>>
order == <<phase, finish, stopping, delivering, stamp, clock>>
parents == <<outcome, status, doubts, hopeless>>
vars == <<request, order, parents>>

\* The statuses of the sessions in ScopedSessionStorage.
Stored == {"ongoing", "terminated", "cancelled", "cleanup"}

TypeOK ==
    /\ node \in [Requests -> Nodes]
    /\ parent \in [Requests -> Sessions]
    /\ phase \in [Requests -> Stored \cup {"new", "queued", "gone"}]
    /\ finish \in [Requests -> {"none", "terminated", "cancelled", "early"}]
    /\ stopping \in SUBSET {r \in Requests : phase[r] = "ongoing"}
    /\ delivering \in [Lanes -> Requests \cup {None}]
    /\ stamp \in [Requests -> Nat]
    /\ clock \in Nat
    /\ outcome \in [Requests -> {"none", "output", "disposed"}]
    /\ status \in [Sessions -> {"active", "cleaning", "gone"}]
    /\ doubts \in SUBSET Sessions
    /\ hopeless \in SUBSET Sessions

Init ==
    /\ node \in [Requests -> Nodes]
    /\ parent \in [Requests -> Sessions]
    /\ phase = [r \in Requests |-> "new"]
    /\ finish = [r \in Requests |-> "none"]
    /\ stopping = {}
    /\ delivering = [l \in Lanes |-> None]
    /\ stamp = [r \in Requests |-> 0]
    /\ clock = 0
    /\ outcome = [r \in Requests |-> "none"]
    /\ status = [p \in Sessions |-> "active"]
    /\ doubts = {}
    /\ hopeless = {}

-----------------------------------------------------------------------------
Assign(f, S, v) == [x \in DOMAIN f |-> IF x \in S THEN v ELSE f[x]]

Lane(r) == LaneOf(node[r])
Queue(l) == {r \in Requests : phase[r] = "queued" /\ Lane(r) = l}
StoredFor(p) == {r \in Requests : parent[r] = p /\ phase[r] \in Stored}

\* Mutant: a disposal is not followed by a validation.
AskNot(S) == UNCHANGED doubts

\* A disposal that parents are sent, whose listener asks for a validation.
Ask(S) == doubts' = doubts \cup S

Stamped(r) == [stamp EXCEPT ![r] = clock + 1]

-----------------------------------------------------------------------------
(* Requests *)

\* The message is filtered out before it reaches the service node.
Filter(r) ==
    /\ phase[r] = "new" /\ status[parent[r]] = "active"
    /\ phase' = [phase EXCEPT ![r] = "gone"]
    /\ outcome' = [outcome EXCEPT ![r] = "disposed"]
    /\ Ask({parent[r]})
    /\ UNCHANGED <<request, finish, stopping, delivering, stamp, clock, status, hopeless>>

\* Mutant: an order is delivered immediately although its lane is taken.
AlwaysFree(l) == TRUE

LaneIsFree(l) == l # None => delivering[l] = None

\* begin_workflow: the session is stored and the start of the scope is given
\* the request; a blocker goes with it if the order has a lane.
ServeImmediately(r) ==
    /\ phase[r] = "new" /\ status[parent[r]] = "active"
    /\ LaneIsFree(Lane(r))
    /\ phase' = [phase EXCEPT ![r] = "ongoing"]
    /\ delivering' = IF Lane(r) = None THEN delivering
                     ELSE [delivering EXCEPT ![Lane(r)] = r]
    /\ stamp' = Stamped(r) /\ clock' = clock + 1
    /\ UNCHANGED <<request, finish, stopping, parents>>

Discarded(r) == Cancelled(node[r], Queue(Lane(r)), node)

\* Mutant: an order of the parent that supplants it is not disposed of.
SupplantedOfOthers(r) == {q \in Discarded(r) : parent[q] # parent[r]}

\* The loop over the cancelled orders.
Supplanted(r) == Discarded(r)

\* give_input drops the cancellation of a session that is not active.
Stopped(r) ==
    {q \in Requests : /\ q = delivering[Lane(r)] /\ finish[q] = "none"
                      /\ StopsDelivery(node[r], q, node)}

\* The order is queued.  Orders it supplants are disposed, though the scoped
\* sessions spawned for them stay until their parents are despawned, and a
\* cancellation is given to the session that is being delivered.
ServeQueued(r) ==
    /\ phase[r] = "new" /\ status[parent[r]] = "active"
    /\ ~LaneIsFree(Lane(r))
    /\ phase' = Assign([phase EXCEPT ![r] = "queued"], Discarded(r), "gone")
    /\ outcome' = Assign(outcome, Supplanted(r), "disposed")
    /\ Ask({parent[q] : q \in Supplanted(r)})
    /\ stopping' = stopping \cup Stopped(r)
    /\ stamp' = Stamped(r) /\ clock' = clock + 1
    /\ UNCHANGED <<request, finish, delivering, status, hopeless>>

-----------------------------------------------------------------------------
(* The end of a scoped session *)

\* Mutant: the inputs of a session are not cleaned with it.
CleanButInputs(S, how) == finish' = Assign(finish, S, how) /\ UNCHANGED stopping

\* cleanup_entire_scope takes the inputs out of the nodes of the scope.
Clean(S, how) ==
    /\ finish' = Assign(finish, S, how)
    /\ stopping' = stopping \ S

\* Terminate::execute
Terminate(r) ==
    /\ phase[r] = "ongoing"
    /\ phase' = [phase EXCEPT ![r] = "terminated"]
    /\ Clean({r}, "terminated")
    /\ UNCHANGED <<request, delivering, stamp, clock, parents>>

CancelOne(r) ==
    /\ phase[r] = "ongoing"
    /\ phase' = [phase EXCEPT ![r] = "cancelled"]
    /\ Clean({r}, "cancelled")
    /\ UNCHANGED <<request, delivering, stamp, clock, parents>>

\* The workflow cancels itself, or it cannot reach its end any more.
CancelInside(r) == CancelOne(r)

\* CancelScope::execute for an order that was supplanted.
Stop(r) == r \in stopping /\ CancelOne(r)

\* Mutant: the lane is kept by a session that did not terminate.
FreesOnlyAfterOutput(r) == finish[r] = "terminated"

\* The exit target of the session holds a blocker.
Frees(r) == Lane(r) # None

\* The rest of finalize_scoped_session: the output or the disposal goes to the
\* parent, and an early cleanup is notified with its last session.
Conclude(r) ==
    LET p == parent[r]
    IN  /\ phase[r] \in Stored /\ finish[r] # "none"
        /\ outcome' = IF status[p] # "active" THEN outcome
                      ELSE [outcome EXCEPT ![r] = IF finish[r] = "terminated" THEN "output"
                                                  ELSE "disposed"]
        /\ status' = IF finish[r] = "early" /\ StoredFor(p) = {r}
                     THEN [status EXCEPT ![p] = "gone"] ELSE status
        /\ Ask({p})
        /\ UNCHANGED <<request, finish, stopping, hopeless>>

\* finalize_scoped_session when no order waits for the lane.
Finalize(r) ==
    /\ Conclude(r)
    /\ Frees(r) => Queue(Lane(r)) = {}
    /\ phase' = [phase EXCEPT ![r] = "gone"]
    /\ delivering' = IF Frees(r) THEN [delivering EXCEPT ![Lane(r)] = None] ELSE delivering
    /\ UNCHANGED <<stamp, clock>>

\* The same with serve_next_workflow_request, which begins the next order q.
FinalizeAndServe(r, q) ==
    /\ Conclude(r)
    /\ Frees(r) /\ IsFront(q, Queue(Lane(r)), stamp)
    /\ phase' = [phase EXCEPT ![r] = "gone", ![q] = "ongoing"]
    /\ delivering' = [delivering EXCEPT ![Lane(r)] = q]
    /\ stamp' = Stamped(q) /\ clock' = clock + 1

-----------------------------------------------------------------------------
(* The parents *)

\* The parent scope cleans its nodes.  Orders in the queues are removed.  The
\* first service node that is cleaned has the sessions of the parent cleaned,
\* those that are not yet, and is notified when none is left; the others find
\* nothing to clean.
CleanParent(p) ==
    LET relevant == {r \in StoredFor(p) : phase[r] # "cleanup"}
    IN  /\ status[p] = "active"
        /\ status' = [status EXCEPT ![p] = IF relevant = {} THEN "gone" ELSE "cleaning"]
        /\ phase' = [r \in Requests |->
               IF parent[r] = p /\ phase[r] \in {"new", "queued"} THEN "gone"
               ELSE IF r \in relevant THEN "cleanup" ELSE phase[r]]
        /\ Clean({r \in relevant : finish[r] = "none"}, "early")
        /\ UNCHANGED <<request, delivering, stamp, clock, outcome>>

\* The parent ends for a reason of its own.
EndParent(p) == CleanParent(p) /\ UNCHANGED <<doubts, hopeless>>

\* dyn_is_reachable asks the first session that is stored for the parent.
First(p) == {r \in StoredFor(p) : \A q \in StoredFor(p) : stamp[r] <= stamp[q]}

\* What can still give the parent an output: a message on its way to a service
\* node or beyond, an order in a queue, or the session that is asked, which
\* answers yes while it goes on, when it is staged, and, if it is being
\* cleaned, perhaps while a task is not dropped yet (lingers).
ParentIsReachable(p, lingers) ==
    \/ \E r \in Requests : /\ parent[r] = p
                           /\ phase[r] \in {"new", "queued"} \/ outcome[r] = "output"
    \/ \E r \in First(p) : finish[r] \in {"none", "terminated"} \/ lingers

\* validate_scope_reachability, for a parent
Validate(p) ==
    /\ p \in doubts
    /\ doubts' = doubts \ {p}
    /\ \/ /\ status[p] = "active" /\ \E lingers \in BOOLEAN : ~ParentIsReachable(p, lingers)
          /\ CleanParent(p)
          /\ hopeless' = hopeless \cup {p}
       \/ /\ status[p] # "active" \/ \E lingers \in BOOLEAN : ParentIsReachable(p, lingers)
          /\ UNCHANGED <<request, order, outcome, status, hopeless>>

Next ==
    \/ \E r \in Requests :
         \/ Filter(r) \/ ServeImmediately(r) \/ ServeQueued(r)
         \/ Terminate(r) \/ CancelInside(r) \/ Stop(r) \/ Finalize(r)
         \/ \E q \in Requests : FinalizeAndServe(r, q)
    \/ \E p \in Sessions : EndParent(p) \/ Validate(p)

Spec == Init /\ [][Next]_vars

-----------------------------------------------------------------------------
\* A lane is taken for exactly as long as the scope holds the session of the
\* order it delivers, from begin_workflow to the end of the cleanup, and the
\* orders in its queue have that session to release them: two workflows of one
\* lane never overlap, not even when the first is stopped, and no queue is
\* left that nothing will pop (INVARIANT of delivery.rs 279).
LaneIsItsSession ==
    \A l \in Lanes :
        /\ {r \in Requests : phase[r] \in Stored /\ Lane(r) = l} =
               {r \in Requests : delivering[l] = r}
        /\ delivering[l] = None => Queue(l) = {}

\* A request that a live parent made is always accounted for: waiting, in the
\* scope, or ended with an output or a disposal that the parent was sent.
NothingIsLost ==
    \A r \in Requests :
        phase[r] = "gone" /\ status[parent[r]] = "active" => outcome[r] # "none"

\* A parent that cannot get an output any more knows: after the last of its
\* requests ended there is a validation to come (Disposal::scope,
\* Disposal::supplanted).
NoParentIsStuck ==
    \A p \in Sessions :
        /\ status[p] = "active"
        /\ \E r \in Requests : parent[r] = p
        /\ \A r \in Requests : parent[r] = p => phase[r] = "gone" /\ outcome[r] # "output"
        => p \in doubts

\* A parent is cancelled as unreachable only if none of the sessions that run
\* for it may yet have an output (is_reachable of a scope, scope.rs 536, which
\* may be "running multiple times simultaneously for the same parent session",
\* scope.rs 2275).
OnlyTheHopelessAreCancelled ==
    [][\A p \in Sessions : p \in hopeless' \ hopeless =>
           \A r \in StoredFor(p) : finish[r] \in {"cancelled", "early"}]_vars
=============================================================================
