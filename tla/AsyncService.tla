---------------------------- MODULE AsyncService ----------------------------
(***************************************************************************)
(* One async service (service/async_srv.rs), the tasks it spawns           *)
(* (operation/operate_task.rs), the nodes that send it requests            *)
(* (operation/operate_service.rs) and the part of the execution flush that *)
(* drives them (flush.rs).                                                 *)
(*                                                                         *)
(* The flush has the World to itself: it drains roster.unblock, then       *)
(* roster.queue, then roster.awake, then the channel, and starts over.     *)
(* `stage' says which of the four it is draining.  The executor that runs  *)
(* the futures is concurrent with the flush: a future completes, and a     *)
(* cancellation lands, at any time, and each reaches the flush through a   *)
(* channel.  The other operations of the workflows are the environment:    *)
(* they give inputs, begin cleanups and despawn the service while the      *)
(* flush drains the queue or the channel.                                  *)
(*                                                                         *)
(* A request r names its order, its input message and the entity of its    *)
(* task.  FlushParameters has its default, no limits.                      *)
(***************************************************************************)
EXTENDS Delivery, Sequences

CONSTANTS
    Cleanups,           \* the cleanup ids that may be issued
    CleanupSession,     \* the session each of them cleans
    CleanupNodes,       \* the nodes it asks, among the nodes of this service
    ScopeCleanups,      \* those issued by the scope; trims issue the others
    ServiceMayDespawn   \* whether the service entity may be despawned

ASSUME CleanupAssumption ==
    /\ CleanupSession \in [Cleanups -> Sessions]
    /\ CleanupNodes \in [Cleanups -> SUBSET Nodes]
    /\ ScopeCleanups \subseteq Cleanups
    /\ ServiceMayDespawn \in BOOLEAN
    /\ None \notin Cleanups \cup Sessions

VARIABLES
    stage,       \* what flush_execution_impl is draining
    roster,      \* roster.queue: nodes and task entities
    unblock,     \* roster.unblock: how many blockers of each lane
    awake,       \* roster.awake
    wakeQueue,   \* the channel of WakeQueue
    phase,       \* where each request is
    node,        \* RequestId::source
    session,     \* RequestId::session
    stamp,       \* position of the request in the queue it entered last
    clock,       \* the last stamp given
    job,         \* the future of the task
    cancel,      \* the cancellation sent through CancelSender
    cancelFor,   \* the cleanup captured by that cancellation, or None
    marked,      \* ActiveTask::being_cleaned
    outcome,     \* what became of the request
    delivering,  \* SerialDelivery::delivering of each lane
    begun,       \* the cleanups issued
    cleaned,     \* the cleanups each node has notified
    closed,      \* the sessions whose SessionStatus is Cleaning
    provider     \* the service entity

taskVars == <<job, cancel, cancelFor, marked>>
cleanupVars == <<begun, cleaned, closed>>
requestVars == <<phase, node, session, stamp, clock, outcome>>
rosterVars == <<roster, unblock, awake, wakeQueue>>
vars == <<stage, rosterVars, requestVars, taskVars, delivering, cleanupVars,
          provider>>

Phases == {"new", "input", "queued", "running", "stopping", "cleaning", "done"}
Outcomes == {"none", "output", "supplanted", "unavailable", "cleaned"}

TypeOK ==
    /\ stage \in {"unblock", "queue", "awake", "channel"}
    /\ roster \in Seq(Nodes \cup Requests)
    /\ unblock \in [Lanes -> Nat]
    /\ awake \in SUBSET Requests
    /\ wakeQueue \in SUBSET Requests
    /\ phase \in [Requests -> Phases]
    /\ node \in [Requests -> Nodes \cup {None}]
    /\ session \in [Requests -> Sessions \cup {None}]
    /\ stamp \in [Requests -> Nat]
    /\ clock \in Nat
    /\ job \in [Requests -> {"fresh", "pending", "ready"}]
    /\ cancel \in [Requests -> {"none", "inflight", "landed"}]
    /\ cancelFor \in [Requests -> Cleanups \cup {None}]
    /\ marked \in [Requests -> Cleanups \cup {None}]
    /\ outcome \in [Requests -> Outcomes]
    /\ delivering \in [Lanes -> Requests \cup {None}]
    /\ begun \in SUBSET Cleanups
    /\ cleaned \in SUBSET (Cleanups \X Nodes)
    /\ closed \in SUBSET Sessions
    /\ provider \in {"alive", "dropped", "gone"}

Init ==
    /\ stage = "channel"
    /\ roster = <<>>
    /\ unblock = [l \in Lanes |-> 0]
    /\ awake = {}
    /\ wakeQueue = {}
    /\ phase = [r \in Requests |-> "new"]
    /\ node = [r \in Requests |-> None]
    /\ session = [r \in Requests |-> None]
    /\ stamp = [r \in Requests |-> 0]
    /\ clock = 0
    /\ job = [r \in Requests |-> "fresh"]
    /\ cancel = [r \in Requests |-> "none"]
    /\ cancelFor = [r \in Requests |-> None]
    /\ marked = [r \in Requests |-> None]
    /\ outcome = [r \in Requests |-> "none"]
    /\ delivering = [l \in Lanes |-> None]
    /\ begun = {}
    /\ cleaned = {}
    /\ closed = {}
    /\ provider = "alive"

-----------------------------------------------------------------------------
(* Derived state *)

\* f with the value v on every member of S.
Assign(f, S, v) == [x \in DOMAIN f |-> IF x \in S THEN v ELSE f[x]]

\* InputStorage of node n.
Inputs(n) == {r \in Requests : phase[r] = "input" /\ node[r] = n}

\* SerialDelivery::queue of lane l.
Queue(l) == {r \in Requests : phase[r] = "queued" /\ LaneOf(node[r]) = l}

\* ActiveTasksStorage of node n.
ActiveTasks(n) ==
    {r \in Requests : /\ phase[r] \in {"running", "stopping", "cleaning"}
                      /\ node[r] = n}

\* The future of r is still held by the executor.
Executing(r) == phase[r] = "running" \/ cancel[r] = "inflight"

\* Mutant: the blocker is dropped instead of being put in the roster.
UnblockedNever(l) == unblock

\* roster.unblock(blocker) of a task on lane l; no blocker when l is None.
Unblocked(l) == IF l = None THEN unblock ELSE [unblock EXCEPT ![l] = @ + 1]

-----------------------------------------------------------------------------
(* The environment: the rest of the workflows *)

\* Another operation gives r as an input to node n; give_input drops the
\* messages of a session that is not active.
GiveInput(r, n, s) ==
    /\ stage \in {"queue", "channel"}
    /\ phase[r] = "new"
    /\ s \notin closed
    /\ phase' = [phase EXCEPT ![r] = "input"]
    /\ node' = [node EXCEPT ![r] = n]
    /\ session' = [session EXCEPT ![r] = s]
    /\ stamp' = [stamp EXCEPT ![r] = clock + 1]
    /\ clock' = clock + 1
    /\ roster' = Append(roster, n)
    /\ UNCHANGED <<stage, unblock, awake, wakeQueue, outcome, taskVars,
                   delivering, cleanupVars, provider>>

\* The service entity is despawned, and its Delivery component with it.
DespawnService ==
    /\ ServiceMayDespawn
    /\ stage \in {"queue", "channel"}
    /\ provider = "alive"
    /\ provider' = "dropped"
    /\ phase' = [r \in Requests |-> IF phase[r] = "queued" THEN "done"
                                                           ELSE phase[r]]
    /\ delivering' = [l \in Lanes |-> None]
    /\ UNCHANGED <<stage, rosterVars, node, session, stamp, clock, outcome,
                   taskVars, cleanupVars>>

-----------------------------------------------------------------------------
(* The executor of the futures *)

\* The future resolves; its waker has been registered if it was polled.
CompleteJob(r) ==
    /\ phase[r] = "running"
    /\ job[r] # "ready"
    /\ job' = [job EXCEPT ![r] = "ready"]
    /\ wakeQueue' = IF job[r] = "pending" THEN wakeQueue \cup {r}
                                          ELSE wakeQueue
    /\ UNCHANGED <<stage, roster, unblock, awake, requestVars, cancel,
                   cancelFor, marked, delivering, cleanupVars, provider>>

\* task.cancel().await returns and the cleanup closure is sent to the channel.
CancelLands(r) ==
    /\ cancel[r] = "inflight"
    /\ cancel' = [cancel EXCEPT ![r] = "landed"]
    /\ UNCHANGED <<stage, rosterVars, requestVars, job, cancelFor, marked,
                   delivering, cleanupVars, provider>>

-----------------------------------------------------------------------------
(* Stage "unblock": serve_next_async_request of each blocker *)

\* pop_next_delivery finds no Delivery component.
ServeNextUnavailable(l) ==
    /\ stage = "unblock"
    /\ unblock[l] > 0
    /\ provider # "alive"
    /\ unblock' = [unblock EXCEPT ![l] = @ - 1]
    /\ UNCHANGED <<stage, roster, awake, wakeQueue, requestVars, taskVars,
                   delivering, cleanupVars, provider>>

\* Mutant: the lane is marked as free whatever its queue holds.
ServeNextForgets(l) ==
    /\ stage = "unblock"
    /\ unblock[l] > 0
    /\ provider = "alive"
    /\ unblock' = [unblock EXCEPT ![l] = @ - 1]
    /\ delivering' = [delivering EXCEPT ![l] = None]
    /\ UNCHANGED <<stage, roster, awake, wakeQueue, requestVars, taskVars,
                   cleanupVars, provider>>

\* Mutant: served for a blocker that is not in the roster.
ServeNextSpurious(l) ==
    /\ stage = "unblock"
    /\ provider = "alive"
    /\ Queue(l) = {}
    /\ unblock' = [unblock EXCEPT ![l] = @ - 1]
    /\ delivering' = [delivering EXCEPT ![l] = None]
    /\ UNCHANGED <<stage, roster, awake, wakeQueue, requestVars, taskVars,
                   cleanupVars, provider>>

\* The queue of the lane is empty.
ServeNextIdle(l) ==
    /\ stage = "unblock"
    /\ unblock[l] > 0
    /\ provider = "alive"
    /\ Queue(l) = {}
    /\ unblock' = [unblock EXCEPT ![l] = @ - 1]
    /\ delivering' = [delivering EXCEPT ![l] = None]
    /\ UNCHANGED <<stage, roster, awake, wakeQueue, requestVars, taskVars,
                   cleanupVars, provider>>

\* The next order of the lane is popped and its task is launched.
ServeNextOrder(l, r) ==
    /\ stage = "unblock"
    /\ unblock[l] > 0
    /\ provider = "alive"
    /\ IsFront(r, Queue(l), stamp)
    /\ unblock' = [unblock EXCEPT ![l] = @ - 1]
    /\ delivering' = [delivering EXCEPT ![l] = r]
    /\ phase' = [phase EXCEPT ![r] = "running"]
    /\ roster' = Append(roster, r)
    /\ UNCHANGED <<stage, awake, wakeQueue, node, session, stamp, clock,
                   outcome, taskVars, cleanupVars, provider>>

EndUnblock ==
    /\ stage = "unblock"
    /\ \A l \in Lanes : unblock[l] = 0
    /\ stage' = "queue"
    /\ UNCHANGED <<rosterVars, requestVars, taskVars, delivering, cleanupVars,
                   provider>>

-----------------------------------------------------------------------------
(* Stage "queue": the operations of roster.queue *)

Executes(source) == stage = "queue" /\ roster # <<>> /\ Head(roster) = source

\* The node finds no input: a cleanup has removed it.
ExecuteEmptyNode(n) ==
    /\ Executes(n)
    /\ provider = "alive"
    /\ Inputs(n) = {}
    /\ roster' = Tail(roster)
    /\ UNCHANGED <<stage, unblock, awake, wakeQueue, requestVars, taskVars,
                   delivering, cleanupVars, provider>>

\* dispose_for_despawned_service: every node of the service disposes its inputs.
DisposeInputs ==
    LET inputs == {r \in Requests : phase[r] = "input"}
    IN  /\ phase' = Assign(phase, inputs, "done")
        /\ outcome' = Assign(outcome, inputs, "unavailable")

\* dispatch_service finds no ServiceHook.
DispatchUnavailable(n) ==
    /\ Executes(n)
    /\ provider # "alive"
    /\ DisposeInputs
    /\ roster' = Tail(roster)
    /\ UNCHANGED <<stage, unblock, awake, wakeQueue, node, session, stamp,
                   clock, taskVars, delivering, cleanupVars, provider>>

\* Mutant: an order is delivered immediately although its lane is taken.
NoLaneIsTaken(l) == TRUE

\* insert_new_order delivers immediately.
LaneIsFree(l) == l # None => delivering[l] = None

\* serve, DeliveryUpdate::Immediate: the lane is free, or there is no lane.
\* The task entity is queued after the operations that are already waiting.
ServeImmediately(n, r) ==
    LET l == LaneOf(n)
    IN  /\ Executes(n)
        /\ provider = "alive"
        /\ IsFront(r, Inputs(n), stamp)
        /\ LaneIsFree(l)
        /\ delivering' = IF l = None THEN delivering
                                     ELSE [delivering EXCEPT ![l] = r]
        /\ phase' = [phase EXCEPT ![r] = "running"]
        /\ stamp' = [stamp EXCEPT ![r] = clock + 1]
        /\ clock' = clock + 1
        /\ roster' = Append(Tail(roster), r)
        /\ UNCHANGED <<stage, unblock, awake, wakeQueue, node, session,
                       outcome, taskVars, cleanupVars, provider>>

\* The order being delivered on the lane of node n, if an order of n stops it.
Stopped(n) ==
    {q \in Requests : /\ q = delivering[LaneOf(n)]
                      /\ StopsDelivery(n, q, node)}

\* The orders in the queue of that lane which an order of n cancels.
Supplanted(n) == Cancelled(n, Queue(LaneOf(n)), node)

\* serve, DeliveryUpdate::Queued: the orders it supplants are disposed, and the
\* task it stops is told to.  stop_task takes the OperateTask component, whose
\* Drop sends the cancellation unless a cleanup already has; if the task
\* entity is despawned the stop is Broken and the lane is unblocked at once.
ServeQueued(n, r) ==
    LET l == LaneOf(n)
        running == {q \in Stopped(n) : phase[q] = "running"}
        cleaning == {q \in Stopped(n) : phase[q] = "cleaning"}
    IN  /\ Executes(n)
        /\ provider = "alive"
        /\ ~LaneIsFree(l)
        /\ IsFront(r, Inputs(n), stamp)
        /\ phase' = Assign(Assign([phase EXCEPT ![r] = "queued"],
                                  Supplanted(n), "done"),
                           running \cup cleaning, "stopping")
        /\ outcome' = Assign(outcome, Supplanted(n), "supplanted")
        /\ cancel' = Assign(cancel, running, "inflight")
        /\ unblock' = IF \E q \in Stopped(n) : phase[q] = "done"
                      THEN Unblocked(l) ELSE unblock
        /\ stamp' = [stamp EXCEPT ![r] = clock + 1]
        /\ clock' = clock + 1
        /\ roster' = Tail(roster)
        /\ UNCHANGED <<stage, awake, wakeQueue, node, session, job, cancelFor,
                       marked, delivering, cleanupVars, provider>>

\* OperateTask::execute, Poll::Ready: the output is emitted and cleanup_task
\* runs with no cleanup, despawning the task entity.
FinishTask(r) ==
    /\ phase' = [phase EXCEPT ![r] = "done"]
    /\ outcome' = [outcome EXCEPT ![r] = "output"]
    /\ unblock' = Unblocked(LaneOf(node[r]))
    /\ UNCHANGED job

\* OperateTask::execute, Poll::Pending: the waker is kept by the future.
KeepPending(r) ==
    /\ job' = [job EXCEPT ![r] = "pending"]
    /\ UNCHANGED <<phase, outcome, unblock>>

\* Mutant: a task is polled although a cleanup has taken it.
HasFutureOrHad(r) == phase[r] \in {"running", "cleaning"}

\* There is a future to poll: the task is not stopped, cleaned or despawned.
HasFuture(r) == phase[r] = "running"

\* OperateTask::execute
PollTask(r) ==
    \/ /\ HasFuture(r) /\ job[r] = "ready"
       /\ FinishTask(r)
    \/ /\ HasFuture(r) /\ job[r] # "ready"
       /\ KeepPending(r)
    \/ /\ ~HasFuture(r)
       /\ UNCHANGED <<phase, outcome, unblock, job>>

ExecuteTask(r) ==
    /\ Executes(r)
    /\ PollTask(r)
    /\ roster' = Tail(roster)
    /\ UNCHANGED <<stage, awake, wakeQueue, node, session, stamp, clock,
                   cancel, cancelFor, marked, delivering, cleanupVars, provider>>

EndQueue ==
    /\ stage = "queue"
    /\ roster = <<>>
    /\ stage' = "awake"
    /\ UNCHANGED <<rosterVars, requestVars, taskVars, delivering, cleanupVars,
                   provider>>

-----------------------------------------------------------------------------
(* Stage "awake" *)

AwakenTask(r) ==
    /\ stage = "awake"
    /\ r \in awake
    /\ PollTask(r)
    /\ awake' = awake \ {r}
    /\ UNCHANGED <<stage, roster, wakeQueue, node, session, stamp, clock,
                   cancel, cancelFor, marked, delivering, cleanupVars, provider>>

EndAwake ==
    /\ stage = "awake"
    /\ awake = {}
    /\ stage' = "channel"
    /\ UNCHANGED <<rosterVars, requestVars, taskVars, delivering, cleanupVars,
                   provider>>

-----------------------------------------------------------------------------
(* Stage "channel" *)

\* Mutant: the task that is being removed is counted among the others.
OtherTasksAndSelf(r, c) == {q \in ActiveTasks(node[r]) : marked[q] = c}

\* The other tasks of the node that are marked for cleanup c.
OtherTasks(r, c) == {q \in ActiveTasks(node[r]) \ {r} : marked[q] = c}

\* cleanup_task as run by a cancellation: the blocker of the task is released,
\* the task leaves the ActiveTasksStorage, and the node notifies the captured
\* cleanup unless another of its tasks is marked for it.  The Drop of a
\* stopped task also emits the disposal.
RunCancelled(r) ==
    LET c == cancelFor[r]
        n == node[r]
    IN  /\ stage = "channel"
        /\ cancel[r] = "landed"
        /\ cancel' = [cancel EXCEPT ![r] = "none"]
        /\ unblock' = Unblocked(LaneOf(n))
        /\ phase' = [phase EXCEPT ![r] = "done"]
        /\ cleaned' = IF c # None /\ OtherTasks(r, c) = {}
                      THEN cleaned \cup {<<c, n>>} ELSE cleaned
        /\ outcome' = IF c = None THEN [outcome EXCEPT ![r] = "supplanted"]
                                  ELSE outcome
        /\ UNCHANGED <<stage, roster, awake, wakeQueue, node, session, stamp,
                       clock, job, cancelFor, marked, delivering, begun, closed,
                       provider>>

\* collect_from_channels once the channel is empty: the lifecycle of a
\* despawned service disposes the inputs of its nodes, and the wakes are
\* collected.
EndChannel ==
    /\ stage = "channel"
    /\ \A r \in Requests : cancel[r] # "landed"
    /\ IF provider = "dropped" THEN DisposeInputs
                               ELSE UNCHANGED <<phase, outcome>>
    /\ provider' = IF provider = "dropped" THEN "gone" ELSE provider
    /\ awake' = awake \cup wakeQueue
    /\ wakeQueue' = {}
    /\ stage' = "unblock"
    /\ UNCHANGED <<roster, unblock, node, session, stamp, clock, taskVars,
                   delivering, cleanupVars>>

-----------------------------------------------------------------------------
(* OperateService::cleanup, on every node that cleanup c asks *)

\* The tasks of node n that cleanup c is delegated to.
Delegated(c, n) == {r \in ActiveTasks(n) : session[r] = CleanupSession[c]}

\* Mutant: the orders of every session.
OrdersOfAnyone(s) == {r \in Requests : phase[r] = "queued"}

\* Delivery::cleanup: the orders of the session in every lane of the provider.
OrdersOf(s) == {r \in Requests : phase[r] = "queued" /\ session[r] = s}

\* Mutant: the node notifies without waiting for its tasks.
NotifiesAnyway(c, n) == TRUE

\* Mutant: the node leaves the notification to its tasks, and may have none.
NotifiesNever(c, n) == FALSE

\* Every task that cleanup c is delegated to was already being cleaned, so that
\* node n has nothing to wait for.
NotifiesAtOnce(c, n) == \A r \in Delegated(c, n) : phase[r] = "cleaning"

\* A running task has its future taken and cancelled; one whose future was
\* taken by an earlier cleanup is cleaned at once; one that was stopped has no
\* OperateTask left and the delegated cleanup fails.  A node notifies at once
\* when no task is left that was delegated to.
BeginCleanup(c) ==
    LET s == CleanupSession[c]
        nodes == CleanupNodes[c]
        tasks == UNION {Delegated(c, n) : n \in nodes}
        inputs == {r \in Requests : /\ phase[r] = "input" /\ session[r] = s
                                    /\ node[r] \in nodes}
        orders == IF nodes = {} THEN {} ELSE OrdersOf(s)
        running == {r \in tasks : phase[r] = "running"}
        recleaned == {r \in tasks : phase[r] = "cleaning"}
    IN  /\ stage \in {"queue", "channel"}
        /\ c \notin begun
        /\ s \notin closed
        /\ begun' = begun \cup {c}
        /\ closed' = IF c \in ScopeCleanups THEN closed \cup {s} ELSE closed
        /\ marked' = Assign(marked, tasks, c)
        /\ phase' = Assign(Assign(phase, inputs \cup orders \cup recleaned, "done"),
                           running, "cleaning")
        /\ outcome' = Assign(outcome,
                             {r \in inputs \cup orders \cup tasks :
                                 /\ node[r] \in nodes /\ session[r] = s
                                 /\ phase[r] # "stopping"},
                             "cleaned")
        /\ cancel' = Assign(cancel, running, "inflight")
        /\ cancelFor' = Assign(cancelFor, running, c)
        /\ cleaned' = cleaned \cup
               {<<c, n>> : n \in {m \in nodes : NotifiesAtOnce(c, m)}}
        /\ UNCHANGED <<stage, rosterVars, node, session, stamp, clock, job,
                       delivering, provider>>

-----------------------------------------------------------------------------
(* Everything the flush does by itself, with no choice of the environment *)
Flush ==
    \/ \E l \in Lanes : ServeNextUnavailable(l) \/ ServeNextIdle(l)
    \/ \E l \in Lanes, r \in Requests : ServeNextOrder(l, r)
    \/ EndUnblock
    \/ \E n \in Nodes : ExecuteEmptyNode(n) \/ DispatchUnavailable(n)
    \/ \E n \in Nodes, r \in Requests : ServeImmediately(n, r) \/ ServeQueued(n, r)
    \/ \E r \in Requests : ExecuteTask(r)
    \/ EndQueue
    \/ \E r \in Requests : AwakenTask(r)
    \/ EndAwake
    \/ \E r \in Requests : RunCancelled(r)
    \/ EndChannel

Environment ==
    \/ \E r \in Requests, n \in Nodes, s \in Sessions : GiveInput(r, n, s)
    \/ DespawnService
    \/ \E c \in Cleanups : BeginCleanup(c)

Executor == \E r \in Requests : CompleteJob(r) \/ CancelLands(r)

Next == Flush \/ Environment \/ Executor

Spec == Init /\ [][Next]_vars

\* The application keeps flushing, and the executor keeps running: every
\* future resolves if it is not cancelled, and every cancellation lands.
Fairness ==
    /\ WF_vars(Flush)
    /\ \A r \in Requests : WF_vars(CompleteJob(r)) /\ WF_vars(CancelLands(r))

FairSpec == Spec /\ Fairness

-----------------------------------------------------------------------------
(* Properties *)

\* When no order of a lane is being delivered its queue is empty: the INVARIANT
\* that insert_serial_order asserts before it delivers an order immediately.
IdleLaneIsEmpty == \A l \in Lanes : delivering[l] = None => Queue(l) = {}

\* The service is executed for two requests of lane l at a time.
Overlap(l) ==
    \E q, r \in Requests :
        /\ q # r
        /\ Executing(q) /\ LaneOf(node[q]) = l
        /\ Executing(r) /\ LaneOf(node[r]) = l

\* The service is never executed for two requests of one lane at a time, be it
\* the queue of a serial service or that of a label: the mutual exclusion that
\* DeliveryInstructions promises whatever modifiers are chosen.
LanesAreExclusive == \A l \in Lanes : ~Overlap(l)

\* The same for the lanes no node of which preempts: they are exclusive through
\* cleanups and trims, a despawned service and preemption on other lanes.
UnpreemptedLanesAreExclusive ==
    \A l \in Lanes : ~Preemptible(l) => ~Overlap(l)

\* A lane that is taken will be freed: the request being delivered is still
\* executing, or its cancellation is in the channel, or an unblock is queued.
\* Otherwise every later order of the lane would wait forever.
TakenLaneIsFreed ==
    \A l \in Lanes :
        delivering[l] # None
        => \/ Executing(delivering[l])
           \/ cancel[delivering[l]] = "landed"
           \/ unblock[l] > 0

\* A request is supplanted only if its node did not ask to ensure it, and only
\* by a request with the same label and a preempt instruction that was given
\* to the service after it.
SupplantedOnlyByPreemption ==
    \A r \in Requests : outcome[r] = "supplanted" =>
        /\ ~Instructions[node[r]].ensure
        /\ \E q \in Requests :
              /\ phase[q] \notin {"new", "input"}
              /\ Preempts(node[q])
              /\ Instructions[node[q]].label = Instructions[node[r]].label
              /\ stamp[q] > stamp[r]

\* No request disappears: once it is neither waiting nor running it has had its
\* output sent, or a disposal emitted, or its own node was asked to clean it.
NothingIsLost ==
    \A r \in Requests : phase[r] = "done" => outcome[r] # "none"

\* When a node has told the scope that it is clean, no task of that session is
\* executing there any more.
CleanedMeansDropped ==
    \A c \in ScopeCleanups, n \in Nodes, r \in Requests :
        /\ <<c, n>> \in cleaned
        /\ node[r] = n
        /\ session[r] = CleanupSession[c]
        => ~Executing(r)

\* Node n has notified cleanup c, or a cancellation is under way that will: if
\* neither is the case nothing ever will, and the cleaner waits forever.
UnderWay(c, n) ==
    \/ <<c, n>> \in cleaned
    \/ \E r \in Requests : /\ node[r] = n
                            /\ cancel[r] # "none"
                            /\ cancelFor[r] = c

\* Every node that was asked to clean a session has notified it or will.
CleanupIsUnderWay == \A c \in begun : \A n \in CleanupNodes[c] : UnderWay(c, n)

\* The same for the nodes whose tasks no other request can stop.
UnpreemptedCleanupIsUnderWay ==
    \A c \in begun : \A n \in CleanupNodes[c] :
        ~Preemptible(LaneOf(n)) => UnderWay(c, n)

\* An outcome is never revised: a request that was answered is not disposed
\* afterwards, and one that was disposed is not answered.
OutcomeIsFinal ==
    [][\A r \in Requests : outcome[r] # "none" => outcome'[r] = outcome[r]]_vars

\* Orders of one lane are launched in the order they were given: when a task is
\* launched, no order of its lane that was given earlier is left in the queue.
FirstComeFirstServed ==
    [][\A q, r \in Requests :
          /\ phase[r] \in {"input", "queued"} /\ phase'[r] = "running"
          /\ phase'[q] = "queued"
          /\ LaneOf(node'[q]) = LaneOf(node'[r])
          => stamp'[r] < stamp'[q]]_vars

\* Every cleanup that is begun is notified by every node it was sent to.
CleanupsFinish ==
    \A c \in Cleanups : c \in begun ~> \A n \in CleanupNodes[c] : <<c, n>> \in cleaned

-----------------------------------------------------------------------------
(* The service as its nodes see it *)

Contract == INSTANCE ExclusiveService WITH
    waiting  <- {r \in Requests : phase[r] \in {"input", "queued"}},
    running  <- {r \in Requests : Executing(r)},
    resolved <- {r \in Requests : phase[r] \notin {"new", "input", "queued"}
                                  /\ ~Executing(r)},
    lane     <- [r \in Requests |-> IF phase[r] = "new" THEN None
                                                       ELSE LaneOf(node[r])]

\* The service implements ExclusiveService, with every request resolved in the
\* end, where a request that is lost with its service counts as resolved.
ImplementsFairContract == Contract!FairSpec
=============================================================================
