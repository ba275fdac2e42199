# A TLA+ development of crossflow

crossflow executes reactive workflows inside a Bevy `World`. A workflow is a
graph of *operations* (nodes) inside a *scope*; each run of it is a *session*.
Nodes exchange inputs through `InputStorage`, and one exclusive system, the
*execution flush*, runs them one at a time. Concurrency comes from the outside:
futures run on an executor, and their wake-ups, cancellations, streams, buffer
keys and commands reach the flush through channels. A workflow can be written in
Rust or as a JSON *diagram*, whose message types are inferred before it is built.

This directory specifies the parts of it where the order of things matters, and
checks them with TLC and with TLAPS. The sources are under `src/src/`.

## Inventory

| Component | Source | State it keeps | Operations | Model |
|---|---|---|---|---|
| Execution flush | `flush.rs`, `operation.rs` | `OperationRoster`, `DeferredRoster`, channels | drain unblock, queue, awake, channels; disposals and validations; limits | `AsyncService`, `ScopeGraph` |
| Sessions, routing | `session.rs`, `input.rs` | `SessionStatus`, `ParentSession`, `InputStorage` | give, take, defer and clean inputs | all |
| Delivery policy | `service/delivery.rs` | `SerialDelivery` (queue, delivering) per lane | insert_new_order, pop_next_delivery, cleanup | `Delivery` |
| Async services | `service/async_srv.rs` | blockers in the roster | serve, serve_next | `AsyncService` |
| Service nodes | `operation/operate_service.rs`, `service/internal.rs` | inputs, hooks, lifecycles | execute, cleanup, dispose | `AsyncService` |
| Tasks | `operation/operate_task.rs` | `OperateTask`, `ActiveTasksStorage`, wakers | poll, wake, finish, stop, cleanup, Drop | `AsyncService` |
| Scopes | `operation/scope.rs` | `ScopedSessionStorage`, `Staging`, `AwaitingCleanupStorage` | begin, terminate, cancel, early cleanup, finalize | `OperateScope` |
| Cleanup bookkeeping | `operation/cleanup.rs` | `CleanupContents` | add_cleanup, notify_cleaned, trigger | `OperateScope`, `AsyncService` |
| Workflow services | `service/workflow.rs` | `WorkflowHooks`, exit targets | serve, stop, serve_next | `WorkflowService` |
| Buffers, keys, join, gate, listen | `operation/operate_buffer*.rs`, `join.rs`, `operate_gate.rs`, `buffer/` | `BufferStorage`, key lifecycles, gates | push, pull, join, notify listeners | `ScopeGraph` |
| Collect, reachability, disposals | `operation/collect.rs`, `operation.rs`, `disposal.rs` | `CollectionStorage`, `DisposalStorage` | collect, release, is_reachable, validate | `ScopeGraph` |
| Diagrams | `diagram/` | constraints, worklist, `DiagramConstruction` | infer types, build operations, connect outputs | `Inference`, `DiagramBuild` |
| Trim | `operation/operate_trim.rs` | `HoldingStorage` | clean some nodes, then forward | an input of `AsyncService`, `OperateScope` |
| Series, promises | `series.rs`, `promise.rs` | series targets, promise state | run once outside a workflow | none |
| Continuous, blocking services; bindings, editor | | | | none, see the end |

Components interact by calls inside a flush step (an operation gives an input to
the next), by the roster (work that is to follow in this flush), by the channels
(work from outside), and by cleanup notifications from a node to its cleaner.

What is hard in this code: a task is owned by the executor, the flush and its
node at once, and ends by finishing, by a cleanup, by being stopped and by the
`Drop` of its component; a session ends by terminating, by a cancellation, by
the cleanup of its parent and by a verdict that nothing can reach its end any
more, which is passed while messages, keys and tasks are on their way; both must
be notified exactly once, after the last future has been dropped. A diagram is
inferred and built in the order of hash maps. The line of each hazard is in
`PROJECT.json`. What each component should satisfy:

* delivery: one execution per lane, orders in turn, discards only as instructed;
* tasks: one outcome per request, a released lane, a notified cleanup;
* scopes: the first ending decides, buffers are cleaned after all tasks, and a
  parent is told that a scope is clean when it is, and always is told in the end;
* workflow services: a lane belongs to a session until it has been cleaned;
* reachability: a session is cancelled when nothing can end it, and only then;
* join, gate, collect: a set is taken whole and is not missed, a collection is
  released once, when nothing upstream can reach it any more;
* diagrams: the types, the wiring and whether there is an error do not depend on
  the order in which the ports and operations come.

## Modules

| Module | Content |
|---|---|
| `Delivery` | the policy of `service/delivery.rs` as operators |
| `AsyncService` | state machine of one async service, EXTENDS `Delivery` |
| `ExclusiveService` | what a service promises its nodes, refined by `AsyncService` |
| `OperateScope` | the endings of the sessions of one embedded scope |
| `WorkflowService` | the scope that a workflow service runs, with its lanes, EXTENDS `Delivery` |
| `ScopeGraph` | one session of a workflow: messages, flush, buffers, reachability |
| `Inference` | the inference of the message types of a diagram |
| `DiagramBuild` | the building of the workflow of a diagram |
| `AsyncServiceProofs` | theorems about `AsyncService`: delivery and outcomes, then lanes and cleanups |
| `AsyncServiceRefinement` | `AsyncService` without preemption implements `ExclusiveService` |
| `OperateScopeProofs`, `WorkflowServiceProofs`, `ScopeGraphProofs`, `InferenceProofs`, `DiagramBuildProofs` | theorems about the module of that name |
| `ScopeGraphOrderProofs` | the output of a task is the last of what the task sends, EXTENDS `ScopeGraphProofs` |
| `MC...` | instances for TLC |

Each component module holds, right before the definition it replaces, the mutant
of that definition which shows that a property can fail; no specification uses it.

### Delivery

A *lane* is one `SerialDelivery`: the only one of a serial service or that of a
label of a parallel one. A `VecDeque` whose members are only pushed at the back,
popped at the front and retained by a predicate is the set of its members with
the stamp of their arrival: `IsFront` is `pop_front`. `ShouldDiscard`,
`Cancelled` and `StopsDelivery` are the three effects of a preempting order.

### AsyncService

`stage` says what `flush_execution_impl` is draining; the actions are guarded by
it and the `End...` actions are the moments a `while let` ends. One variable
stands for one field: `roster` for `roster.queue`, `unblock` for the number of
blockers of each lane in `roster.unblock` (all blockers of a lane are served the
same way), `awake`, `wakeQueue`, `delivering`, `marked` for
`ActiveTask::being_cleaned`. A request has one `phase`: an input of its node, an
order in a queue, a running task, a task whose `OperateTask` was taken
(`stopping`), one whose future was taken (`cleaning`), or `done`. The executor is
two actions, `CompleteJob` and `CancelLands`, enabled at every stage.

The environment gives inputs, begins cleanups and despawns the service, at the
stages where operations or channel items run. It begins a cleanup with all its
nodes at once, as `cleanup_entire_scope` and `Trim::execute` do, and the scope's
own cleanup closes the session, after which `give_input` drops what is sent to
it and no trim of that session runs. Each cleanup id is used once.

Left out: streams (they are in `ScopeGraph`); outputs and disposals once they
have been emitted; deferred inputs; `roster.purge` of a despawned task, since a
task that is not `running` is a no-op when it is executed; unwinding and panics;
the limits of `FlushParameters` (also in `ScopeGraph`).

### OperateScope

A session moves through `ScopedSessionStatus`, with `new`, `waiting` (its input
is in the scope) and `purged` around it, and through `SessionStatus`.
`CleanupEntireScope`, `Finalize`, `MayBeCancelled`, `ToCleanup` and `LastOfParent`
are the functions and tests of the same name or purpose; `contents` is
`CleanupContents`, `awaiting`, `cleanupId`, `finish` and `pending` are
`AwaitingCleanupStorage`. A flush is reduced to two stages, since the rest of
its order is that of operations: tasks are dropped while the channel is drained,
and `Ready` keeps any operation behind `garbage_cleanup`.

The inner workflow is open: tasks start, finish, reach the terminal node or
cancel in any active session. Nodes that run no task for a session notify within
the step that cleans them, so only nodes with tasks are kept in `contents`. The
order in which `cleanup_entire_scope` takes sessions is that of their inputs,
hence any: the model chooses which of them is last. Cleanup workflows end at any
time, by terminating or by being cancelled, which is the same to the scope. The
parent despawns its session once every cleanup of its own is notified.

Left out: the `ExitTarget` and the blocker of a scope that a workflow service
runs (in `WorkflowService`); a cancellation named by the parent session (only
cleanup sessions use it); reachability (in `ScopeGraph`), which cancels a session
like any other cause; the contents of buffers.

### WorkflowService

A request stands for its order and for the scoped session that is spawned for
it: `phase` is `new`, `queued`, a `ScopedSessionStatus` while the scope holds the
session, or `gone`. The difference from `AsyncService` is who holds the lane: the
blocker travels in the `ExitTarget` of the session, so that an order that is
stopped keeps its lane until its scope is clean, and `Finalize` or
`FinalizeAndServe` (with `serve_next_workflow_request`) release it. `stopping` are
the cancellations on their way to `CancelScope`; `Terminate`, `Stop`,
`CancelInside` and `CleanParent` compete for the session, and `finish` is what
`CleanupInfo` remembers of the first. The parents are the sessions that made the
requests: `doubts` are those with a validation in the roster, and `Validate` asks
the first stored session, as `dyn_is_reachable` does.

Left out: the despawn of the service, trims, the scoped session of an order that
never began (it stays until its parent is despawned when the order was
supplanted, removed by `Delivery::cleanup` or skipped for a missing target), and
the inside of a session, which `OperateScope` and `ScopeGraph` describe.

### ScopeGraph

The workflow is a record of nodes, chosen in `Init`; every kind of operation has a
disjunct (`Fork`, `Access`, `Listen`, `Branch`, `Filter`, `Serve`, `Join`, `Gate`,
`Collect`, `Finish`) of `Execute`. `roster` and `later` are the
`OperationRoster` of the flush and the deferred one, `stage` what the flush is
doing, `channel` and `wake` the queues that tasks write to at any moment: a task
may stream, push with its key, drop the key, or finish, between any two steps of
the flush. `loops` and `received` count against the two limits of
`FlushParameters`. `ScopeIsReachable` is the recursion of `Operation::is_reachable`
through the upstream of a node (`CheckUpstream`, `AnyUpstream`, `AllJoinable`,
`BufferReachable`), with the table of nodes it has visited and what each
kind of operation adds to it (a gate, a key in use, a collection that is not
empty). A message is only what its receiver can tell of it: its task, and the
accessor of the key it carries.

`CancelStops = FALSE` lets a session that was judged unreachable go on, so that
`CancelOnlyTheHopeless` can be stated by what happens afterwards: a session that
was judged never reaches its end. The recursion over the graph is the function
`Search`, and what a node adds to it are operators that take the function.
What a step does to the inputs and the rosters is computed on a record
(`World`), so that `Give`, `Dispose`, `Defer` and `Notify` can be chained as the
calls are, and proved about one at a time. `WellFormed` is what the builder API
guarantees of a workflow; the theorems hold for every one that satisfies it.

Left out: several sessions at once; buffers shared between scopes; the contents
of messages; wakes without progress; the disposals' texts.

### Inference

A diagram is a function from operations (those of scopes and templates included)
to schemas, and its references are resolved. `Says` is what
`apply_message_type_constraints` records for one operation: fixed types,
constraints, connections, redirections and buffer hints. `Evaluate` is the
evaluation of a constraint and `Dependencies` what it registers with, each by the
kind of constraint. `Visit` takes the ports of the initial queue in any order,
which is that of the hash map; `Process` takes the notified ones in turn.

Left out: the wording of errors; metadata that is inconsistent with itself;
`default_trace` and the like. The order in which the dependents of one change are
queued is taken to be any, which is more than the code can do.

### DiagramBuild

`Build` is `build_diagram_operation` of each of the fourteen operations: the input
slots, redirections and built-in targets it registers (`targets`), the outputs it
adds, the buffers it makes, the children it generates. `connectors`, `buffers` and
`outputs` are the fields of the `DiagramConstruction`, `fresh` the outputs in
`connector_construction`, `waiting` is `deferred_connections`. One action builds or
defers an operation; `ConnectOutputs` takes the outputs of one target, which is a
step of the inner loop; `EndRound` is what follows the inner loop.

What a diagram says (`Targets`, `Outs`, `Impossible`, ...) is defined of the diagram
alone, with no reference to the construction. Both follow redirections and the
references of buffers to buffers: `Reached` is the least set that is closed under a
function, and `Ends` is where it stops, which is empty for a circle. `WellFormed` is
what a parsed diagram guarantees: the operations are a finite tree, each inside at
most one other, the names are those of resolved references, and the outputs of an
operation have a port each. A template that exposes one name as an input and as a
buffer is an error of its section (`DuplicateInputsCreated` in the code).

Left out: the entities that are spawned, tracing, the parsing of references
(names stand for resolved ones), the limit `MAX_ITERATIONS` (so `Terminates` says
that it is not needed), errors that only a registry can cause. Conversions are
what `standard_input_connection` makes of two types, by the sets `Into` (cannot
fail) and `Fallible` (with an error output). The scopes in which connections are
made are left out, see the further disagreements.

## Runs

| Run | Question | Bound |
|---|---|---|
| `async_service` | ten properties of delivery, tasks and cleanup | 3 requests, a queued, a preempting and an ensured node, 2 labels, 2 sessions, 1 scope cleanup; requests are symmetric |
| `async_live` | are cleanups notified, does the service refine `ExclusiveService` fairly | 3 requests, one node of a serial service, 1 session, a trim and a scope cleanup, the service may be despawned |
| `scope` | five properties of the end of sessions | 3 sessions, 2 of one parent and 1 of another, 2 nodes, 2 cleanups, a cleanup workflow for interrupted sessions only |
| `scope_live` | do cleanings end, are interruptions notified | 2 sessions with their own parents, 2 nodes, a trim and a scope cleanup |
| `workflow` | four properties of lanes, outcomes and validations | 3 requests, a queued, a preempting and an ensured node of one label, 2 parents; requests and parents are symmetric |
| `graph` | nine properties of one session | 12 workflows of up to 8 operations, 3 task entities, 3 stream items and 1 push per task, 2 messages per buffer |
| `inference` | do the types settle, in any order the same | 14 diagrams of at most 6 operations, 9 types |
| `build` | are diagrams wired as drawn, and refused if impossible | 15 diagrams of at most 5 operations, 8 types |
| `async_exclusion`, `workflow_hopeless`, `inference_redirect`, `build_overwrites` | what the repository says and the code does not do | the smallest instance that shows it |

Three requests are enough for a running order, one that preempts it and one that
waits, which is what every rule of the policy relates; a fourth only lengthens a
queue. Every request is used once and every cleanup id is issued once, so the
state space is finite without further bounds. Two sessions of one parent and two
nodes are the least for which a cleanup id is shared and for which a session
awaits more than one notification. In `graph`, three stream items and a retention
of two let a buffer evict and a stream outlast a channel drain; the workflows are
chosen so that every operation has a task, a filter or a key before it and a
join, a collect or a listener behind it, and seven of them have a limit on the
loops or items of a flush. The initial orders of `inference` and `build` are all
permutations, which bounds the operations of a diagram but no step.

The cfgs of `graph`, `workflow`, `workflow_hopeless`, `inference`,
`inference_redirect`, `build` and `build_overwrites` turn the deadlock check off, since these systems stop: a session ends, every request
is done, the worklist is empty, the diagram is built. In `AsyncService` and
`OperateScope` the flush loops even when it has nothing to do, and deadlock is
checked.

### Properties that are conditional, and why

`LanesAreExclusive`, `CleanupIsUnderWay` (both modules), `CleaningProgresses` and,
for a despawned service, `NothingIsLost` do not hold. The passing runs check what
remains true: `UnpreemptedLanesAreExclusive` and `UnpreemptedCleanupIsUnderWay`
restrict to lanes no node preempts, `OwnCleaningProgresses` to sessions that do
not share their cleanup id, and `async_service` has a service that lives.
`NotifiedMeansClean` is checked for interruptible scopes. `TaskOutputIsLast` restricts
`OutputIsLast` to flushes without an item limit and to nodes that are fed by
nothing but the outputs of tasks, when what was streamed before goes to nodes that
are not fed by the outputs of tasks, which queue it at once (`QueuedAtOnce`; see the
further disagreements for the rest).
The workflows of `graph` and the diagrams of `inference` and `build` leave out those listed below.

Two more conditions are set by constants. `CleanedMeansDropped` is checked with
one cleanup per session: when a trim is followed by the scope's cleanup before
the first cancellation has landed, `OperateTask::cleanup`
(`operate_task.rs:356-365`) finds the future taken and cleans the task at once,
and the node notifies the scope early. `NothingIsLost` is checked with cleanups
of all nodes: `Delivery::cleanup` also drops orders that nodes outside a trim
have in the same provider's queue for that session. Both appear by changing
`Cleanups` and `CleanupNodes`. The same holds of a scope that is trimmed and then
cleaned: `NotifiedMeansClean` needs the two cleanups not to overlap, which is why
`scope` has none of the same parent.

The theorems name these conditions: `NoTrims` (a session that a scope cleans is
cleaned by nothing else), `CleansAllOrNone`, `~ServiceMayDespawn`,
`~Uninterruptible`, `Unpreempted`. Each is met by the constants of a run above and
by programs without trims, with services that stay, with interruptible scopes or
without preemption.

### Fairness

`AsyncService!FairSpec` assumes that the application keeps running its schedule
(`WF(Flush)`: the flush is a system of every update), that an uncancelled future
resolves and that a cancellation lands (one weak fairness condition per request,
as each is a task of its own). Nothing is assumed of the environment.

`OperateScope!FairSpec` assumes that the two stages alternate, that a finished
cleanup is triggered (`garbage_cleanup` empties it), that each cancelled task is
dropped and that each cleanup workflow ends. The last two are strong, as they are
possible only at one stage: every pass of the flush drains the channel and the
roster completely, so that what is possible in pass after pass is done.

`Inference` and `DiagramBuild` are loops of one function: `WF(Next)` says that the
function is not interrupted. That a validation follows (`NoSessionIsStuck`,
`NoParentIsStuck`) is a safety property of `ScopeGraph` and `WorkflowService`: when
the flush has come to rest, or the requests have ended, there is something to come.

## Findings

Each has a run whose counterexample shows it.

1. `async_exclusion` (`service/async_srv.rs:212`): stopping a task that has just
   finished unblocks its lane a second time, and two requests of one label are
   executed at a time.
2. `workflow_hopeless` (`operation/scope.rs:547`): the parent is judged by the
   first of its sessions alone, and cancelled while another one goes on.
3. `inference_redirect` (`diagram/inference.rs:1502`): a port that is evaluated
   from what comes through a redirection does not depend on it; whether the
   diagram is rejected depends on the order of a hash map.
4. `build_overwrites` (`diagram/workflow_builder.rs:784`): the outputs that wait
   for an operation replace those that were redirected to it, or made by
   conversions, in the same round. The diagram is built with an output that is
   connected to nothing.

### Further disagreements, reached by changing constants

These have no run of their own; each was seen with TLC as described.

* `ServiceMayDespawn = TRUE` in `async_service` breaks `NothingIsLost`: the orders
  queued in a despawned service get no disposal (`operate_service.rs:194`).
* `CleanupIsUnderWay` instead of `UnpreemptedCleanupIsUnderWay`: the session of a
  stopped task is cleaned before its cancellation lands, and its node never
  notifies the scope (`operate_task.rs:133`).
* `CleaningProgresses` instead of `OwnCleaningProgresses` in `scope`: sessions that
  are cleaned under one cleanup id replace each other's entry in
  `CleanupContents` (`cleanup.rs:156`), and one is never finalized.
* `CleanupIsUnderWay` in `scope`: the cleanup of a session that is already ending
  is neither refused nor remembered.
* `Uninterruptible = TRUE` in `scope` breaks `NotifiedMeansClean`: a deferred cleanup
  is notified as finished at once (`scope.rs:514`).
* `Graphs <- MCTwoKeys` breaks `CancelOnlyTheHopeless` (`flush.rs:190`): the disposal of one
  key is handled after the channel was found empty, while the holder of another
  pushes and drops its key; the verdict sees neither the key nor the push.
* `MCCollectedAtOnce` breaks `CollectIsComplete` (`collect.rs:122`): a collect that is
  executed in the queue asks for active nodes upstream when a task that has
  finished already still has streamed items in the channel.
* `MCListened` breaks `CancelOnlyTheHopeless` (`operation.rs:429`): a node that is still
  being visited answers a provisional `no`, which is cached for another branch.
* `MCGatedListener` breaks `CancelOnlyTheHopeless` (`operate_buffer.rs:112-135`): a buffer
  behind a closed gate counts as unreachable though its listener has its input.
* `MCKeyedCollect` breaks `CollectBeforeCancel` (`operation.rs:835`: `is_downstream_of` does
  not follow an accessor to its buffer) and `NoSessionIsStuck`
  (`buffer_access_lifecycle.rs:77-105`: the drop of a key sends its disposal before
  the key stops being counted; if the flush comes in between and the task does
  not stream, no validation follows).
* `Graphs <- MCOvertaken` with `OutputIsLast` instead of `TaskOutputIsLast`
  (`operate_task.rs:253`, `input.rs:329`): `defer_input` puts the output of a task
  into the storage of its target at once and defers only the entry in the queue.
  When another chain has an entry for that node in the queue, this entry takes the
  first input of the storage, and the output may be processed while what the task
  streamed is still in the channel, though `operation.rs:230-232` defers it so
  that streams are flushed first.
* `Graphs <- MCSameTarget` with `OutputIsLast`: a task whose stream and output go to one
  node has its output processed before its stream, by the order of the storage.
* `Graphs <- MCStreamedAndGiven` with `OutputIsLast`: a node that is the target of one
  task's stream and of another task's output. `defer_input` has left the entry of an
  output in the deferred roster, the streamed item takes the next one in the
  queue, and the output of the streaming task is processed before what it streamed.
* An item limit breaks `OutputIsLast` as well: when `collect_from_channels` stops at the
  limit it queues the deferred outputs with items still in the channel.
* `MCLimited` breaks `CollectIsComplete` (`flush.rs:263-283`): at the item limit the end of a
  task overtakes the stream items that stay in the channel.
* `Diagrams <- MCDisposed` breaks `OrderDoesNotMatter` of `Inference`
  (`inference.rs:1049`, `984`): a `fork_result` with `"err": {"builtin": "dispose"}` behind
  a clone asks for the type of the built-in target, which has no port; the
  documented idiom fails with UnknownPort if the fork is evaluated before its
  source is known.
* An `unzip` into two equal types whose clones share a buffer: a hint that is
  revised later makes the buffer ambiguous in some orders.

Read in the code, without a property of their own: `channel_received_limit` is compared
before the count is raised, so one item more is taken; `OperateDynamicGate`
looks for inputs of the wrong type (`operate_gate.rs:125`); `Join` ignores gates
(`join.rs:98-126`); `push_as_oldest` with `KeepFirst(0)` keeps a message
(`buffer_manager.rs:286`); the branch of `inference.rs:945-965` that falls back to
JSON is undone when the clone is evaluated again; an operation of a scope with
its own `on_implicit_error` has its implicit conversions reported to that of the
root (`workflow_builder.rs:749-754`), from whatever scope; a section registers no
target for `cancel`; the reasons of BuildHalted include those of earlier
iterations (`workflow_builder.rs:670`).

## Proofs

`AsyncServiceProofs` proves, for all constants that satisfy `DeliveryAssumption`
and `CleanupAssumption`, the ten safety properties that `async_service` checks.

* `TypeCorrect`, by one step per action; `unblock` stays a natural number because
  every action that decrements it is guarded.
* `Exclusion`. `UnpreemptedLanesAreExclusive` is not inductive: the step that
  launches an order from a blocker needs to know that the blocker is the only
  one and that nobody executes on the lane. The strengthening says that a lane
  that is not preempted has at most one blocker in the roster, none while a task
  of it is executing or has a cancellation in the channel, and that such a task is
  the one being delivered: the blocker is a token that is either held by the
  lane's only task or queued, never both. `async_exclusion` shows the token being
  duplicated on a preempted lane.
* `IdleLane`, inductive with the types.
* `OutcomesAreFinal`: every outcome other than `none` belongs to a request that is
  done, stopped or being cleaned, and no action answers one of these again.
* `OrdersAreFirstComeFirstServed`: stamps are bounded by `clock`, and an order is
  launched at once only on a free lane, whose queue `IdleLane` shows empty.
* `Preemption`: `supplanted` traces back to the order that caused it, whose stamp
  is later and does not change; it holds of tasks that are stopping as well.

Its last part is about how requests end. It rests on the types and on two facts about
the requests (`DeliveredOnLane`, `Uncancelled`).

* `LanesAreFreed`, for every service: `FreedInv` says that the order being delivered
  on a lane is busy or has left a blocker for it in the roster. No condition on
  preemption is needed, as a blocker too many (`async_exclusion`) frees a lane
  all the same.
* `NoRequestIsLost`, for a service that lives and cleanups that ask all its nodes
  or none: `AnsweredInv` adds that a cancellation that was sent for a cleanup is of a
  request whose outcome was settled with it. The two conditions are the ones whose
  failure TLC shows.
* `CleanupsAreUnderWay`, for lanes that no node preempts, and with trims:
  `CleaningTasks` says that a task being cleaned has its cancellation on the way
  and that this has captured the last cleanup it was marked for.
* `NotificationsAreTrue`, under `NoTrims`. The notification comes when the list of
  active tasks has no marked one left, so the argument has to exclude every way
  in which a task could be unmarked or come later: `ScopeTasks` (before its cleanup
  no task of the session is being cleaned, and what is done has no cancellation),
  `BegunCleanups` (from then on no request of the session waits, and each task of
  it is marked for this cleanup), `Captured` (a cancellation has captured a cleanup
  that asked the node of its task) and `Notified`. `DroppedInv` is their conjunction.

`AsyncServiceRefinement` proves that a service with no preempted lane implements
`ExclusiveService` (its `Spec`, without fairness). The mapping is that of
`async_live`. The steps fall into four groups: a request is submitted, one is
started, a group of them is resolved, or nothing changes; `StartsOne`,
`ResolvesGroup` and `Stutters` are proved once, and the start needs `ExclusionInv`.
Here no condition is put on trims, cleanups and the despawn of the service.

`OperateScopeProofs` proves, for all constants that satisfy `ScopeAssumption`, the
five properties that `scope` checks.

* `TypeCorrect` needs one fact besides the types: an early cleanup has the
  cleanup id of a cleanup the parent has begun, so `notified` stays within `begun`.
* `CleaningInv` is the inductive invariant of the rest, one `SessionInv` per
  session. None of the properties is inductive: that a cleanup workflow finds no
  task executing follows from the roster, the roster from the last notification,
  and the notifications from the nodes registered when the cleanup began. The
  invariant ties these together: from the beginning of a cleanup a session has a
  cleanup id (`NotCleaned`, `CleanedBy`) and all its tasks are being dropped
  (`Dropped`); `CleanupContents` awaits exactly the nodes that run them
  (`AwaitsItsTasks`); when the workflows have begun it awaits none and the session
  is not in the roster, so that neither can happen twice (`CleanedOnce`); and the
  entry always has something to wait for (`Progresses`). `Purged` says what the
  parent has been told and that nothing is left to run.
* `AwaitsItsTasks` is conditional on `~SharesCleanup(s)`, since a second session
  cleaned under the id replaces the nodes of the first. The argument
  therefore rests on ids being new: an early cleanup has one that was not begun
  before, any other the session itself, and a session gets an id only while it is
  `active`. `SessionInvCleans` is this step.
* `BuffersLast`, `OwnProgress` and `FirstEnding` follow from it.
* `NotifiedClean`, for interruptible scopes and under `NoTrims`. Here the sessions that
  share a cleanup id cannot be left out, as it is for all of a parent's sessions
  that its notification speaks. `SharedCleanups` says what remains of
  them: either none of them had a task left, or the entry of the id in
  `CleanupContents` is used up by the first that is clean (`UsedUp`) and another is
  never released, so that the parent is not told. `SessionsInterrupted` says that
  a session is cleaned early by a cleanup of its own parent only, and that none begins
  or stays active for a parent that is closed; `ClosedOnce` that a scope cleans a
  session once.

`WorkflowServiceProofs` proves all four properties of `workflow`. `LaneIsItsSession`
is inductive only with the types and with `Ending`, which ties the status of a
session to what `CleanupInfo` remembers; `Inv` is their conjunction and
`TypeCorrect` and `LanesAreExclusive` follow from it. `RequestsAreAccountedFor` and
`ParentsAreValidated` are inductive relative to `Inv`, by one step per action. In
contrast to `AsyncService` nothing about preemption has to be excluded, because the
blocker is released in one place only.

`InferenceProofs` proves `TypeCorrect` and `PortsAreSettled`. The second is the
argument for a worklist: `Quiet` says that a port that is not waiting agrees with
its constraint, evaluated on the types as they are. A change of one port disturbs
only ports whose evaluation reads it, and these are notified, provided that a
constraint reads nothing but its dependencies. This is the lemma `Reads`,
proved for each kind of constraint; for those that follow redirections it needs
the hypothesis `AllHeard`, which says that no such operation is behind one. That
is exactly what `inference_redirect` violates.

`ScopeGraphProofs` proves four of the nine properties of `graph`, for every set of
graphs that satisfies `GraphsAssumption`, for any number of tasks and any bounds.

* What a step gives is a concatenation (`Give` selects targets with `FlattenSeq`),
  and the properties count. `FlattenSeq` is a recursive function of the community
  modules, about which the library has no theorem. The first part of the module proves
  what is needed of it by induction over a *set* of numbers (`Induction`, from the
  finiteness of the intervals), which needs no operator as a parameter: that it
  has a value, its type, and how often each element occurs in it.
* `Sound` says of a `World` that it has its types and that each input has its entry in
  a queue. `Grows` is what all effects of a step have in common: the world stays
  sound, no entry of a task comes or goes, no input is taken. One lemma per effect
  (`Give`, `Dispose`, `Defer`, `Notify`, ...) says that it grows, and
  they chain as the effects do; one lemma per operation follows.
* `TypeCorrect`, `InputsQueued` and `TasksQueued` rest on one inductive invariant, `IInv`:
  the other types, `Sound(World)` and `TasksCounted`, the two counts of a task. That a
  task is never polled after it was despawned needs the counts of the first poll
  and of the wakes at once, over the three queues that `Settle` and `Check` move.
* `JoinsMissNothing`: a step can make a join miss a set only by adding to one of its
  buffers or opening a gate; `Heeded` says that it then gave the join an input. The
  steps that do are those that notify all listeners, of which a join is one by
  `WellFormed`; the join itself leaves no set.

`ScopeGraphOrderProofs` proves a fifth, `OutputLast`: `TaskOutputIsLast`, for the same
graphs and any limit of the loop. Counting is not enough here. A node takes its k-th
input with its k-th entry, so what has to be compared is where two entries are in one line,
the queue of the flush followed by the deferred one (`Line`; `Rank` counts the entries
among the first of it). The inductive invariant, which TLC also confirms on the graphs of
`graph`, has three parts, and holds while no limit on the items cuts in:

* `Staged` says what may wait in which queue at each stage of the flush: outputs of tasks
  are deferred only from the first poll to the end of the channel, and once the flush has
  taken over the deferred roster, that gets nothing for a node that only tasks feed or that
  queues what it is given at once. So `Settle`, the one step that moves deferred outputs
  into the queue, puts none of them before an item.
* `Traced` says where what a task streamed can be: on its way to, or waiting at, one of
  the targets of its streams, none of which tasks feed; and that an output waits only
  when its task has ended.
* `Orderly` says of each output that has its place in the line that nothing of its task
  is in the channel any more, and that the entries of all its items that wait come
  before it (`Before`).

What the operations give is appended to the queues and is neither an output nor, but
for `Receive`, streamed (`Feeds`, with one lemma per operation), so that `Orderly` is kept by what
is put behind or between the entries (`BeforeInserted`), by the head leaving with its input
(`BeforeTail`), and by `Settle` (`BeforeSettled`).

`DiagramBuildProofs` proves `TypeCorrect` and what can be said of the order of the
hash maps, for every set of diagrams that satisfies `DiagramsAssumption` and every
set of types and conversions.

* `RefusedOnlyIfImpossible` and `OnlyWhatIsDrawn` hold without a condition. Their
  invariant is `SoundOrImpossible`: whatever the construction holds (a target, a
  buffer, an output that waits for any target on its way, a conversion, a connection)
  is something that the diagram says, as a partial construction of it. The closure
  of an operator that only grows, `Ends` of the redirections so far, is compared with that
  of all of them; an operation that is refused is then refused in every order.
* `Wiring` and `BuildsPossible` are the other halves, that nothing is missing, and with
  the first two they are the properties of `build`. `CompleteOrRefused` follows each
  output from the operation that makes it through the three maps to its end. They
  assume `[]NothingOverwritten`, and need to: that waiting outputs replace new ones
  (`build_overwrites`) is the only way to lose an output. TLC finds
  `NothingOverwritten` to hold of all the diagrams of `build`.
* `AtOnce` discharges the assumption for the diagrams that are built in one
  iteration, those without scopes, sections and uses of buffers: nothing waits in
  them, and they are wired as drawn and built if possible without a condition.

Only model-checked:

* `CancelOnlyTheHopeless`, `NoSessionIsStuck`, `CollectIsComplete` and `CollectBeforeCancel`
  of `ScopeGraph`: all four compare the verdict of `Search`, a recursion over the graph
  with a table, with what can happen later. What it computes for every graph is an
  induction over data.
* `OrderDoesNotMatter`, which compares with the fixpoint that a recursion computes.
* All liveness, the end of the two loops of the diagrams included, and with it the fairness part of the refinement
  (`ImplementsFairContract`), which is beyond this prover.

## Not modelled, and the plan

Done: the modules above, their runs and proofs. Left, in order:

1. `Trim` as a second client of the cleanup bookkeeping, composed with
   `OperateScope` to replace the trims that are inputs now.
2. Two sessions at a time in `ScopeGraph`, and buffers of an outer scope.
3. `Promise` and `Series`: the terminal states of a promise under drop, cancel
   and late answers.
4. Continuous services, as a variant of `AsyncService` with the same policy.
5. Theorems: `OrderDoesNotMatter` for the diagrams of `AllHeard`.

Not planned: the Python and scripting bindings, the Zenoh and gRPC adapters, the
diagram editor, macros, tracing and the examples are I/O or have no state of
their own; the typed wrappers around buffers (`any_buffer.rs`, `json_buffer.rs`,
`accessor.rs`), the registration of message types and the builder API are
conversions and metadata, whose effect at run time is in `ScopeGraph` and whose
effect on types is in `Inference`.
