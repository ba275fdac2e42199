----------------------------- MODULE ScopeGraph -----------------------------
(***************************************************************************)
(* One session of a workflow: the messages between the nodes of the scope, *)
(* the execution flush that moves them (flush.rs), and the decision that   *)
(* the session can no longer reach its end (Operation::is_reachable).      *)
(*                                                                         *)
(* The flush is one thread.  It drains the queue of operations, wakes the  *)
(* tasks that are ready, receives what tasks sent through the channel,     *)
(* and then, if the channel is empty, handles the disposals and validates  *)
(* the reachability of the scope.  Between any two of its steps a running  *)
(* task may stream, push to a buffer with its key, drop the key or finish. *)
(*                                                                         *)
(* The nodes and their connections are a record, chosen in Init from the   *)
(* constant Graphs.  A message is what its receiver can tell of it: the    *)
(* task it came from and the accessor of the buffer key it carries.  What  *)
(* follows the end of a session is the subject of OperateScope.            *)
(***************************************************************************)
EXTENDS Naturals, SequencesExt, FiniteSetsExt

CONSTANTS
    Graphs,        \* the workflows
    Tasks,         \* entities for the async tasks: a bound on how many are running
    MaxStream,     \* bound on what one task streams
    MaxPush,       \* bound on what one task pushes with its key
    Retention,     \* RetentionPolicy::KeepLast of every buffer
    CancelStops,   \* FALSE to follow what a cancelled session would have done
    None           \* Option::None

(***************************************************************************)
(* A graph has the fields                                                  *)
(*   node    what each node is: its op, the targets of its output (out)    *)
(*           and of its stream, the buffers it uses, the limits of a       *)
(*           collection and the action of a gate                           *)
(*   order   the nodes in the order in which they were connected           *)
(*   start   the target of the scope's input                               *)
(*   end     the terminate operation                                       *)
(*   cancel  the operation that cancels the scope                          *)
(*   loops   FlushParameters::flush_loop_limit, or None                    *)
(*   items   FlushParameters::channel_received_limit, or None              *)
(***************************************************************************)
Ops == {"fork", "branch", "filter", "task", "buffer", "join", "listen",
        "access", "gate", "collect", "cancel", "terminate", "sink"}

\* What the builder sees to: the targets are nodes and the buffers are buffers,
\* only a task streams, a join has buffers and is a listener of each.
WellFormed(g) ==
    LET nodes == DOMAIN g.node
        buffers == {n \in nodes : g.node[n].op = "buffer"}
    IN  /\ nodes \cap Tasks = {} /\ None \notin nodes
        /\ {g.start, g.end, g.cancel} \subseteq nodes
        /\ g.order \in Seq(nodes)
        /\ g.loops \in Nat \cup {None} /\ g.items \in Nat \cup {None}
        /\ \A n \in nodes :
             /\ g.node[n].op \in Ops
             /\ g.node[n].out \in Seq(nodes) /\ g.node[n].stream \in Seq(nodes)
             /\ g.node[n].buffers \in Seq(buffers)
             /\ g.node[n].stream # <<>> => g.node[n].op = "task"
             /\ g.node[n].op = "gate" => g.node[n].action \in {"open", "closed"}
             /\ g.node[n].op = "collect" => g.node[n].min \in Nat
             /\ g.node[n].op = "join" =>
                  /\ g.node[n].buffers # <<>>
                  /\ \A i \in DOMAIN g.node[n].buffers :
                        Contains(g.node[g.node[n].buffers[i]].out, n)

ASSUME GraphsAssumption == \A g \in Graphs : WellFormed(g)
ASSUME BoundsAssumption == Retention \in Nat \ {0} /\ MaxStream \in Nat /\ MaxPush \in Nat

\* An ActiveTask: its service, the key that it was given, and what it has done.
ActiveTask(nodes, keyers) ==
    [node : nodes, key : keyers \cup {None}, streamed : Nat, pushed : Nat,
     polled : BOOLEAN, done : BOOLEAN, dropping : BOOLEAN]

ASSUME TasksAssumption ==
    /\ None \notin Tasks
    /\ \A g \in Graphs : None \notin ActiveTask(DOMAIN g.node, DOMAIN g.node)

VARIABLES
    graph,     \* the workflow that runs
    input,     \* InputStorage of each node
    roster,    \* the OperationRoster of the flush
    later,     \* DeferredRoster
    stage,     \* what the flush is doing
    loops,     \* its loop_count
    received,  \* received_count of collect_from_channels
    channel,   \* ChannelQueue
    wake,      \* WakeQueue
    tasks,     \* ActiveTask of each task, or None
    stored,    \* how many messages each buffer holds
    gate,      \* GateState of each buffer
    pile,      \* how many messages each collect holds, None if it has no entry
    status,    \* SessionStatus
    judged,    \* whether the scope was found to be unreachable
    heard,     \* how many collects have heard of the disposal at the head
    released   \* the collects that ended because nothing could reach them

flush == <<roster, later, stage, loops, received, heard>>
vars == <<graph, input, flush, channel, wake, tasks, stored, gate, pile, status,
          judged, released>>

Nodes == DOMAIN graph.node
Op(n) == graph.node[n].op
Out(n) == graph.node[n].out
Stream(n) == graph.node[n].stream
Buffers(n) == graph.node[n].buffers
Has(op) == {n \in Nodes : Op(n) = op}

\* The members of s that are in S, in their order, and how often x is one.
Only(s, S) == FlattenSeq([i \in DOMAIN s |-> IF s[i] \in S THEN <<s[i]>> ELSE <<>>])
Occurrences(s, x) == Cardinality({i \in DOMAIN s : s[i] = x})

\* SingleInputStorage: the nodes that feed a node, in the order of connection.
Inputs(n) == Only(graph.order, {m \in Nodes : Contains(Out(m) \o Stream(m), n)})

\* BufferAccessors and RelatedGateNodes of a buffer.
Accessors(b) ==
    Only(graph.order, {m \in Nodes : Op(m) \in {"access", "listen"} /\ Contains(Buffers(m), b)})
Openers(b) ==
    Only(graph.order, {m \in Has("gate") : Contains(Buffers(m), b) /\ graph.node[m].action = "open"})

Message(t, isFinal, a) == [task |-> t, final |-> isFinal, key |-> a]
Plain == Message(None, FALSE, None)

NoRoster == [queue |-> <<>>, deferred |-> <<>>, awake |-> <<>>,
             disposals |-> <<>>, reachable |-> 0]
RosterIsEmpty == roster = NoRoster

\* Mutant: the queue is not among the fields that append moves.
AppendedButQueue(r, s) ==
    [r EXCEPT !.deferred = @ \o s.deferred, !.awake = @ \o s.awake,
              !.disposals = @ \o s.disposals, !.reachable = @ + s.reachable]

\* OperationRoster::append, without the emptying of the other.
Appended(r, s) ==
    [queue |-> r.queue \o s.queue, deferred |-> r.deferred \o s.deferred,
     awake |-> r.awake \o s.awake, disposals |-> r.disposals \o s.disposals,
     reachable |-> r.reachable + s.reachable]

Active == status = "active"

-----------------------------------------------------------------------------
(* What a step does to the inputs and to the rosters, as a record, so that *)
(* the effects of one step can be chained.                                 *)

World == [input |-> input, roster |-> roster, later |-> later]

Become(w) == input' = w.input /\ roster' = w.roster /\ later' = w.later

Taken(n) == [World EXCEPT !.input[n] = Tail(@), !.roster.queue = Tail(@)]

\* give_input to each of the targets; an unused target ignores it.
Give(w, targets, m) ==
    LET to == Only(targets, Nodes \ Has("sink"))
    IN  [w EXCEPT !.input = [n \in Nodes |-> @[n] \o [i \in 1 .. Occurrences(to, n) |-> m]],
                  !.roster.queue = @ \o to]

Dispose(w, n) == [w EXCEPT !.roster.disposals = Append(@, n)]

\* The first poll of a task is queued.
Queued(w, t) == [w EXCEPT !.roster.queue = Append(@, t)]

\* notify_listeners: every listener but the one whose key was used, through
\* the roster of the flush or through the deferred one.
Listeners(b, accessor) == Only(Out(b), Nodes \ {accessor})

Notify(w, b, accessor) == Give(w, Listeners(b, accessor), Plain)

NotifyLater(w, b, accessor) ==
    LET given == Notify([w EXCEPT !.roster = w.later], b, accessor)
    IN  [w EXCEPT !.input = given.input, !.later = given.roster]

\* Mutant: a push that does not heed the retention policy.
PushedBeyond(b) == [stored EXCEPT ![b] = @ + 1]

\* A push to a buffer, and the update that follows unless the gate is closed.
Pushed(b) == [stored EXCEPT ![b] = IF @ < Retention THEN @ + 1 ELSE @]

Updated(w, b, accessor) == IF gate[b] = "closed" THEN w ELSE NotifyLater(w, b, accessor)

-----------------------------------------------------------------------------
(* Reachability.  A query carries the table of the nodes visited so far.   *)

HasInput(n) == input[n] # <<>>

\* Mutant: a task whose future is ready does not count any more.
RunningUntilReady(n) == \E t \in Tasks : tasks[t] # None /\ tasks[t].node = n /\ ~tasks[t].done

\* ActiveTasksStorage::contains_session
Running(n) == \E t \in Tasks : tasks[t] # None /\ tasks[t].node = n

\* Mutant: only the tasks are thought to hold keys.
KeyInUseByTask(a) == \E t \in Tasks : tasks[t] # None /\ tasks[t].key = a

\* A key that an accessor sent out is in use until its tracker is dropped.
KeyInUse(a) ==
    \/ \E t \in Tasks : tasks[t] # None /\ tasks[t].key = a
    \/ \E n \in Nodes : \E i \in DOMAIN input[n] : input[n][i].key = a

Count(n) == IF pile[n] = None THEN 0 ELSE pile[n]

\* is_downstream_of: along outputs and anonymous streams.
Downstream(n) ==
    LET within[k \in Nat] ==
            IF k = 0 THEN {n}
            ELSE LET S == within[k - 1]
                 IN  S \cup {l \in Nodes : \E m \in S : Contains(Out(m) \o Stream(m), l)}
    IN  within[Cardinality(Nodes)]

\* Mutant: only the direct targets.
IsFedBy(n, m) == n # m /\ Contains(Out(n) \o Stream(n), m)

IsDownstreamOf(n, m) == n # m /\ m \in Downstream(n)

\* The operations that are active by themselves, whatever feeds them.
IsBusy(n, disposed) ==
    \/ HasInput(n)
    \/ Op(n) = "task" /\ Running(n)
    \/ Op(n) = "buffer" /\ \E i \in DOMAIN Accessors(n) : KeyInUse(Accessors(n)[i])
    \/ /\ Op(n) = "collect" /\ pile[n] # None /\ pile[n] >= graph.node[n].min
       /\ disposed # None /\ IsDownstreamOf(disposed, n)

Unvisited == [n \in Nodes |-> "new"]
Verdict(yes, visited) == [yes |-> yes, visited |-> visited]

\* The first of the nodes that is reachable decides; the rest are not visited.
AnyUpstream(search, s, visited) == search[s, visited, FALSE]

\* Join::is_reachable: each of its buffers is reachable or holds a message.
AllJoinable(search, s, visited) == search[s, visited, TRUE]

\* OperateBuffer::is_reachable.  Behind a gate that cannot open any more only
\* an accessor makes a buffer reachable.
BufferReachable(search, b, visited) ==
    LET opening == IF gate[b] = "open" THEN Verdict(TRUE, visited)
                   ELSE AnyUpstream(search, Openers(b), visited)
        keyed == \E i \in DOMAIN Accessors(b) : KeyInUse(Accessors(b)[i])
    IN  IF keyed \/ (opening.yes /\ HasInput(b)) THEN Verdict(TRUE, opening.visited)
        ELSE AnyUpstream(search, IF opening.yes THEN Accessors(b) \o Inputs(b) ELSE Accessors(b),
                         opening.visited)

\* check_upstream.  A node that is being visited, or that was found to be
\* unreachable earlier in the query, answers with what the table says.
CheckUpstream(search, n, visited, disposed) ==
    IF visited[n] # "new" THEN Verdict(visited[n] = "yes", visited)
    ELSE LET v == [visited EXCEPT ![n] = "no"]
             r == CASE Op(n) = "join" -> AllJoinable(search, Buffers(n), v)
                    [] Op(n) = "buffer" -> BufferReachable(search, n, v)
                    [] OTHER -> IF IsBusy(n, disposed) THEN Verdict(TRUE, v)
                                ELSE AnyUpstream(search, Inputs(n), v)
         IN  IF r.yes THEN Verdict(TRUE, [r.visited EXCEPT ![n] = "yes"]) ELSE r

\* The nodes of s one after the other: until one is reachable, or, if all have to
\* be, until one is not and is no buffer that holds a message.
Search(disposed) ==
    LET search[s \in Seq(Nodes), visited \in [Nodes -> {"new", "no", "yes"}], all \in BOOLEAN] ==
            IF s = <<>> THEN Verdict(all, visited)
            ELSE LET r == CheckUpstream(search, Head(s), visited, disposed)
                     good == r.yes \/ (all /\ stored[Head(s)] > 0)
                 IN  IF good = all THEN search[Tail(s), r.visited, all]
                     ELSE Verdict(good, r.visited)
    IN  search

\* validate_scope_reachability: each endpoint is a query of its own.
ScopeIsReachable ==
    \/ CheckUpstream(Search(None), graph.cancel, Unvisited, None).yes
    \/ CheckUpstream(Search(None), graph.end, Unvisited, None).yes

\* is_upstream_active, asked by a collect that begins as not reachable.
IsUpstreamActive(n, disposed) ==
    \/ HasInput(n)
    \/ AnyUpstream(Search(disposed), Inputs(n), [Unvisited EXCEPT ![n] = "no"]).yes

-----------------------------------------------------------------------------
(* The operations.  Each executes for the input at the head of its storage. *)

IsNext(n) == roster.queue # <<>> /\ Head(roster.queue) = n

Quiet == UNCHANGED <<status, judged, graph>>
NoTask == UNCHANGED <<channel, wake, tasks>>

\* One more operation was executed: leave the queue at the loop limit.
Counted ==
    /\ loops' = IF graph.loops = None THEN loops ELSE loops + 1
    /\ stage' = IF graph.loops # None /\ loops + 1 >= graph.loops THEN "awake" ELSE "queue"
    /\ UNCHANGED <<received, heard>>

OnlyMessages == NoTask /\ UNCHANGED <<stored, gate, pile, released>> /\ Quiet

\* A clone of the message for every branch.  The end of a chain that cancels the
\* scope is one of these too, with the endpoint as its output.
Fork(n) ==
    /\ Op(n) = "fork"
    /\ Become(Give(Taken(n), Out(n), Plain))
    /\ OnlyMessages

Keyed(n) == Message(None, FALSE, n)

\* OperateBufferAccess::execute adds a key to the message.
Access(n) ==
    /\ Op(n) = "access"
    /\ Become(Give(Taken(n), Out(n), Keyed(n)))
    /\ OnlyMessages

\* Listen::execute sends a key for every update of its buffers.
Listen(n) ==
    /\ Op(n) = "listen"
    /\ Become(Give(Taken(n), Out(n), Keyed(n)))
    /\ OnlyMessages

\* A branch gives the message to one of its targets and disposes the other.
Branch(n) ==
    /\ Op(n) = "branch"
    /\ \E i \in DOMAIN Out(n) : Become(Dispose(Give(Taken(n), <<Out(n)[i]>>, Plain), n))
    /\ OnlyMessages

\* A filter lets the message pass or disposes of it.
Filter(n) ==
    /\ Op(n) = "filter"
    /\ Become(Give(Taken(n), Out(n), Plain)) \/ Become(Dispose(Taken(n), n))
    /\ OnlyMessages

\* A service node starts a task, whose key is that of the message, and queues
\* its first poll.  Its entity is one that nothing in flight came from.
InFlight(t) ==
    \/ \E i \in DOMAIN channel : channel[i].from = t
    \/ \E n \in Nodes : \E i \in DOMAIN input[n] : input[n][i].task = t

Serve(n) ==
    /\ Op(n) = "task"
    /\ LET free == {t \in Tasks : tasks[t] = None /\ ~InFlight(t)}
           t == CHOOSE t \in free : TRUE
       IN  /\ free # {}
           /\ tasks' = [tasks EXCEPT ![t] =
                  [node |-> n, key |-> Head(input[n]).key, streamed |-> 0, pushed |-> 0,
                   polled |-> FALSE, done |-> FALSE, dropping |-> FALSE]]
           /\ Become(Queued(Taken(n), t))
    /\ UNCHANGED <<channel, wake, stored, gate, pile, released>> /\ Quiet

\* OperateBuffer::execute
Store(b) ==
    /\ Op(b) = "buffer"
    /\ stored' = Pushed(b)
    /\ Become(Updated(Taken(b), b, b))
    /\ NoTask /\ UNCHANGED <<gate, pile, released>> /\ Quiet

\* Join::execute: one output for each complete set, until a buffer is empty.
Sets(n) == Min({stored[Buffers(n)[i]] : i \in DOMAIN Buffers(n)})

Join(n) ==
    /\ Op(n) = "join"
    /\ stored' = [b \in DOMAIN stored |->
                    IF Contains(Buffers(n), b) THEN stored[b] - Sets(n) ELSE stored[b]]
    /\ Become(Give(Taken(n), FlattenSeq([i \in 1 .. Sets(n) |-> Out(n)]), Plain))
    /\ NoTask /\ UNCHANGED <<gate, pile, released>> /\ Quiet

\* Mutant: a gate wakes nobody.
OpensUnnoticed(n, b) == FALSE

\* GateState::apply wakes the listeners only when a gate that was closed opens.
Opens(n, b) == graph.node[n].action = "open" /\ gate[b] = "closed"

Woken(n) ==
    FlattenSeq([i \in DOMAIN Buffers(n) |->
                   IF Opens(n, Buffers(n)[i]) THEN Listeners(Buffers(n)[i], None) ELSE <<>>])

\* OperateStaticGate::execute
Gate(n) ==
    /\ Op(n) = "gate"
    /\ LET action == graph.node[n].action
           given == Give(Give(Taken(n), Woken(n), Plain), Out(n), Plain)
       IN  /\ gate' = [b \in DOMAIN gate |-> IF Contains(Buffers(n), b) THEN action ELSE gate[b]]
           /\ Become(IF action = "closed" THEN Dispose(given, n) ELSE given)
    /\ NoTask /\ UNCHANGED <<stored, pile, released>> /\ Quiet

\* on_unreachable_collection, for a collect that holds what held tells.
Conclude(w, n, held) ==
    LET len == IF held[n] = None THEN 0 ELSE held[n]
    IN  /\ IF len < graph.node[n].min
           THEN Become(Dispose(w, n)) /\ pile' = held
           ELSE Become(Give(w, Out(n), Plain)) /\ pile' = [held EXCEPT ![n] = 0]
        /\ released' = released \cup {n}

\* Collect::execute: full, waiting for more, or out of reach of any more.
Collect(n) ==
    /\ Op(n) = "collect"
    /\ LET held == [pile EXCEPT ![n] = Count(n) + 1]
           full == graph.node[n].max # None /\ held[n] >= graph.node[n].max
           more == \/ Len(input[n]) > 1
                   \/ AnyUpstream(Search(None), Inputs(n), [Unvisited EXCEPT ![n] = "no"]).yes
       IN  \/ /\ full
              /\ Become(Give(Taken(n), Out(n), Plain))
              /\ pile' = [pile EXCEPT ![n] = 0] /\ UNCHANGED released
           \/ ~full /\ more /\ Become(Taken(n)) /\ pile' = held /\ UNCHANGED released
           \/ ~full /\ ~more /\ Conclude(Taken(n), n, held)
    /\ NoTask /\ UNCHANGED <<stored, gate>> /\ Quiet

\* Terminate::execute and CancelScope::execute end the session.
Finish(n) ==
    /\ Op(n) \in {"terminate", "cancel"}
    /\ status' = IF Op(n) = "terminate" THEN "terminated" ELSE "cancelled"
    /\ Become(Taken(n))
    /\ NoTask /\ UNCHANGED <<graph, stored, gate, pile, released, judged>>

\* defer_input: the message is in the storage of the target at once, and the
\* target is queued only when the channel has been received.
Defer(w, targets, m) ==
    LET given == Give([w EXCEPT !.roster.queue = <<>>], targets, m)
    IN  [given EXCEPT !.roster.queue = w.roster.queue,
                      !.roster.deferred = @ \o given.roster.queue]

\* Mutant: the end of the streams of a task goes unnoticed.
NoEndOfStreams(w, n) == w

\* A task that streams always ends with a disposal.
EndOfStreams(w, n) == IF Stream(n) = <<>> THEN w ELSE Dispose(w, n)

\* OperateTask::execute: the task is finished, or its waker is registered.
Poll(t, w) ==
    /\ \/ /\ tasks[t].done
          /\ LET n == tasks[t].node
             IN  Become(EndOfStreams(Defer(w, Out(n), Message(t, TRUE, None)), n))
          /\ tasks' = [tasks EXCEPT ![t] = None]
       \/ /\ ~tasks[t].done
          /\ Become(w) /\ tasks' = [tasks EXCEPT ![t].polled = TRUE]
    /\ UNCHANGED <<channel, wake>>

FirstPoll(t) ==
    /\ Active /\ stage = "queue" /\ IsNext(t)
    /\ Poll(t, [World EXCEPT !.roster.queue = Tail(@)])
    /\ UNCHANGED <<stored, gate, pile, released>> /\ Quiet
    /\ Counted

Execute(n) ==
    /\ Active /\ stage = "queue" /\ IsNext(n)
    /\ \/ Fork(n) \/ Access(n) \/ Listen(n) \/ Branch(n) \/ Filter(n) \/ Serve(n)
       \/ Store(n) \/ Join(n) \/ Gate(n) \/ Collect(n) \/ Finish(n)
    /\ Counted

-----------------------------------------------------------------------------
(* The tasks, which run between any two steps of the flush.                *)

\* from is the task that streams, or the accessor of the key.
Sent(kind, from, n) == [kind |-> kind, from |-> from, at |-> n]
Unflushed == UNCHANGED <<graph, input, flush, stored, gate, pile, status, judged, released>>

IsAwake(t) == Active /\ tasks[t] # None /\ ~tasks[t].done
HoldsKey(t) == tasks[t].key # None /\ ~tasks[t].dropping

\* StreamChannel::send
Send(t) ==
    /\ IsAwake(t) /\ tasks[t].streamed < MaxStream
    /\ \E i \in DOMAIN Stream(tasks[t].node) :
          channel' = Append(channel, Sent("stream", t, Stream(tasks[t].node)[i]))
    /\ tasks' = [tasks EXCEPT ![t].streamed = @ + 1]
    /\ Unflushed /\ UNCHANGED wake

\* A push with the key, as a command through the channel.
PushWithKey(t) ==
    /\ IsAwake(t) /\ HoldsKey(t) /\ tasks[t].pushed < MaxPush
    /\ \E i \in DOMAIN Buffers(tasks[t].key) :
          channel' = Append(channel, Sent("push", tasks[t].key, Buffers(tasks[t].key)[i]))
    /\ tasks' = [tasks EXCEPT ![t].pushed = @ + 1]
    /\ Unflushed /\ UNCHANGED wake

\* BufferAccessLifecycle::drop sends the disposal; its tracker is dropped when
\* the fields are, after it.
DropKey(t) ==
    /\ IsAwake(t) /\ HoldsKey(t)
    /\ channel' = Append(channel, Sent("drop", tasks[t].key, None))
    /\ tasks' = [tasks EXCEPT ![t].dropping = TRUE]
    /\ Unflushed /\ UNCHANGED wake

DropTracker(t) ==
    /\ IsAwake(t) /\ tasks[t].dropping
    /\ tasks' = [tasks EXCEPT ![t].key = None, ![t].dropping = FALSE]
    /\ Unflushed /\ UNCHANGED <<channel, wake>>

\* Mutant: a task is woken that was never polled.
WokenAnyway(t) == Append(wake, t)

\* JobWaker wakes the task if it was polled before.
WokenOnce(t) == IF tasks[t].polled THEN Append(wake, t) ELSE wake

\* The future is ready, and what it held is dropped.
Complete(t) ==
    /\ IsAwake(t) /\ tasks[t].key = None
    /\ tasks' = [tasks EXCEPT ![t].done = TRUE]
    /\ wake' = WokenOnce(t)
    /\ Unflushed /\ UNCHANGED channel

-----------------------------------------------------------------------------
(* The flush: flush_execution_impl and collect_from_channels.              *)

Nodal == UNCHANGED <<stored, gate, pile, released>>

StartFlush ==
    /\ Active /\ stage = "idle"
    /\ channel # <<>> \/ wake # <<>> \/ later # NoRoster
    /\ stage' = "first" /\ loops' = 0 /\ received' = 0
    /\ UNCHANGED <<input, roster, later, heard>> /\ NoTask /\ Nodal /\ Quiet

\* One item of the channel; the limit is compared before the count goes up.
Receive ==
    /\ Active /\ stage \in {"first", "channel"} /\ channel # <<>>
    /\ LET item == Head(channel)
       IN  CASE item.kind = "stream" ->
                   /\ Become(Give(World, <<item.at>>, Message(item.from, FALSE, None)))
                   /\ UNCHANGED stored
             [] item.kind = "push" ->
                   Become(Updated(World, item.at, item.from)) /\ stored' = Pushed(item.at)
             [] item.kind = "drop" -> Become(Dispose(World, item.from)) /\ UNCHANGED stored
    /\ channel' = Tail(channel)
    /\ IF graph.items # None /\ graph.items <= received
       THEN stage' = "full" /\ UNCHANGED received
       ELSE received' = received + 1 /\ UNCHANGED stage
    /\ UNCHANGED <<loops, heard, wake, tasks, gate, pile, released>> /\ Quiet

\* The end of collect_from_channels: the final outputs of the tasks that were
\* polled, what was deferred from outside the flush, and the tasks to wake.
\* The disposals come next if the channel was emptied within the flush.
Settle ==
    /\ Active
    /\ stage = "full" \/ (stage \in {"first", "channel"} /\ channel = <<>>)
    /\ LET processed == [roster EXCEPT !.queue = @ \o roster.deferred, !.deferred = <<>>]
       IN  roster' = [Appended(processed, later) EXCEPT !.awake = @ \o wake]
    /\ later' = NoRoster /\ wake' = <<>>
    /\ stage' = IF stage = "channel" THEN "dispose" ELSE "check"
    /\ UNCHANGED <<input, loops, received, heard, channel, tasks>> /\ Nodal /\ Quiet

\* The head of the loop: done, at the limit, or once more.
Check ==
    /\ Active /\ stage = "check"
    /\ \/ RosterIsEmpty /\ stage' = "idle" /\ UNCHANGED <<roster, later, loops>>
       \/ /\ ~RosterIsEmpty /\ graph.loops # None /\ graph.loops <= loops
          /\ later' = Appended(later, roster) /\ roster' = NoRoster
          /\ stage' = "idle" /\ UNCHANGED loops
       \/ /\ ~RosterIsEmpty /\ ~(graph.loops # None /\ graph.loops <= loops)
          /\ loops' = IF graph.loops = None THEN loops ELSE loops + 1
          /\ stage' = "queue" /\ UNCHANGED <<roster, later>>
    /\ UNCHANGED <<input, received, heard>> /\ NoTask /\ Nodal /\ Quiet

EndQueue ==
    /\ Active /\ stage = "queue" /\ roster.queue = <<>>
    /\ stage' = "awake"
    /\ UNCHANGED <<input, roster, later, loops, received, heard>> /\ NoTask /\ Nodal /\ Quiet

\* awaken_task
Awaken(t) ==
    /\ Active /\ stage = "awake" /\ roster.awake # <<>> /\ Head(roster.awake) = t
    /\ Poll(t, [World EXCEPT !.roster.awake = Tail(@)])
    /\ UNCHANGED <<stage, loops, received, heard>> /\ Nodal /\ Quiet

EndAwake ==
    /\ Active /\ stage = "awake" /\ roster.awake = <<>>
    /\ stage' = "channel" /\ received' = 0
    /\ UNCHANGED <<input, roster, later, loops, heard>> /\ NoTask /\ Nodal /\ Quiet

\* collection_disposal_listener, for one of the collects of the scope after
\* the other.
Collects == Only(graph.order, Has("collect"))

Hear ==
    /\ Active /\ stage = "dispose" /\ roster.disposals # <<>> /\ heard < Len(Collects)
    /\ LET n == Collects[heard + 1]
           disposed == Head(roster.disposals)
       IN  IF IsDownstreamOf(disposed, n) /\ ~IsUpstreamActive(n, disposed)
           THEN Conclude(World, n, pile)
           ELSE Become(World) /\ UNCHANGED <<pile, released>>
    /\ heard' = heard + 1
    /\ UNCHANGED <<stage, loops, received, stored, gate>> /\ NoTask /\ Quiet

\* scoped_disposal_listener has told every node and asks for a validation.
EndHear ==
    /\ Active /\ stage = "dispose" /\ roster.disposals # <<>> /\ heard = Len(Collects)
    /\ roster' = [roster EXCEPT !.disposals = Tail(@), !.reachable = @ + 1]
    /\ heard' = 0
    /\ UNCHANGED <<input, later, stage, loops, received>> /\ NoTask /\ Nodal /\ Quiet

\* validate_scope_reachability
Judge ==
    /\ judged' = (judged \/ ~ScopeIsReachable)
    /\ status' = IF CancelStops /\ ~ScopeIsReachable THEN "cancelled" ELSE status

Validate ==
    /\ Active /\ stage = "dispose" /\ roster.disposals = <<>> /\ roster.reachable > 0
    /\ Judge
    /\ roster' = [roster EXCEPT !.reachable = @ - 1]
    /\ UNCHANGED <<graph, input, later, stage, loops, received, heard>> /\ NoTask /\ Nodal

EndDispose ==
    /\ Active /\ stage = "dispose" /\ roster.disposals = <<>> /\ roster.reachable = 0
    /\ stage' = "check"
    /\ UNCHANGED <<input, roster, later, loops, received, heard>> /\ NoTask /\ Nodal /\ Quiet

\* begin_scope: the scope was given its input, and its first run asks whether
\* the end can be reached at all.  The flush is draining its queue.
Begin ==
    /\ Active /\ stage = "begin"
    /\ Judge
    /\ stage' = "queue"
    /\ UNCHANGED <<graph, input, roster, later, loops, received, heard>> /\ NoTask /\ Nodal

Init ==
    /\ graph \in Graphs
    /\ input = [n \in Nodes |-> IF n = graph.start THEN <<Plain>> ELSE <<>>]
    /\ roster = [NoRoster EXCEPT !.queue = <<graph.start>>]
    /\ later = NoRoster
    /\ stage = "begin" /\ loops = 0 /\ received = 0 /\ heard = 0
    /\ channel = <<>> /\ wake = <<>>
    /\ tasks = [t \in Tasks |-> None]
    /\ stored = [b \in Has("buffer") |-> 0]
    /\ gate = [b \in Has("buffer") |-> "open"]
    /\ pile = [n \in Has("collect") |-> None]
    /\ status = "active" /\ judged = FALSE /\ released = {}

Next ==
    \/ Begin \/ StartFlush \/ Receive \/ Settle \/ Check \/ EndQueue
    \/ EndAwake \/ Hear \/ EndHear \/ Validate \/ EndDispose
    \/ \E n \in Nodes : Execute(n)
    \/ \E t \in Tasks : FirstPoll(t) \/ Awaken(t)
    \/ \E t \in Tasks : Send(t) \/ PushWithKey(t) \/ DropKey(t) \/ DropTracker(t) \/ Complete(t)

Spec == Init /\ [][Next]_vars

-----------------------------------------------------------------------------
Keyers == Has("access") \cup Has("listen")
Messages == [task : Tasks \cup {None}, final : BOOLEAN, key : Keyers \cup {None}]
Rosters == [queue : Seq(Nodes \cup Tasks), deferred : Seq(Nodes), awake : Seq(Tasks),
            disposals : Seq(Nodes), reachable : Nat]
Items == [kind : {"stream"}, from : Tasks, at : Nodes]
         \cup [kind : {"push"}, from : Keyers, at : Has("buffer")]
         \cup [kind : {"drop"}, from : Keyers, at : {None}]
ActiveTasks == ActiveTask(Has("task"), Keyers)

TypeOK ==
    /\ graph \in Graphs
    /\ input \in [Nodes -> Seq(Messages)]
    /\ roster \in Rosters /\ later \in Rosters
    /\ stage \in {"begin", "idle", "first", "full", "channel", "check", "queue", "awake", "dispose"}
    /\ loops \in Nat /\ received \in Nat /\ heard \in 0 .. Len(Collects)
    /\ channel \in Seq(Items) /\ wake \in Seq(Tasks)
    /\ tasks \in [Tasks -> ActiveTasks \cup {None}]
    /\ stored \in [Has("buffer") -> 0 .. Retention]
    /\ gate \in [Has("buffer") -> {"open", "closed"}]
    /\ pile \in [Has("collect") -> Nat \cup {None}]
    /\ status \in {"active", "terminated", "cancelled"}
    /\ judged \in BOOLEAN /\ released \subseteq Has("collect")

\* A session is found unreachable only if nothing it does from then on would
\* have ended it (validate_scope_reachability, scope.rs 1210): in whatever order
\* tasks finish, keys are dropped and messages arrive, it is not too early.
CancelOnlyTheHopeless == ~(judged /\ status = "terminated")

\* When everything has come to rest the session has ended: the last thing that
\* could have reached the terminate operation is always followed by a
\* validation that says so (disposal.rs 500, flush.rs 193, operate_task.rs 287).
Quiescent ==
    /\ stage = "idle" /\ roster = NoRoster /\ later = NoRoster
    /\ channel = <<>> /\ wake = <<>>
    /\ \A t \in Tasks : tasks[t] = None

NoSessionIsStuck == Quiescent => ~Active \/ judged

\* Every input that waits in the storage of a node has its own entry in a queue
\* of the roster or of the deferred roster: one that had none would never be
\* processed and one too many would find nothing (sneak_input, input.rs 266).
InputsAreQueued ==
    \A n \in Nodes : Len(input[n]) =
        Occurrences(roster.queue \o roster.deferred \o later.queue \o later.deferred, n)

\* A task has one entry in a queue until its first poll, and one in those of the
\* wakes from the time its future is ready until it is polled again: none that is
\* ready is forgotten, and none is polled after it was despawned (OperateTask, 206).
TasksAreQueued ==
    \A t \in Tasks :
        LET is == tasks[t] # None
        IN  /\ Occurrences(roster.queue \o later.queue, t) = IF is /\ ~tasks[t].polled THEN 1 ELSE 0
            /\ Occurrences(wake \o roster.awake \o later.awake, t) =
                   IF is /\ tasks[t].polled /\ tasks[t].done THEN 1 ELSE 0

\* Nothing that the task of m streamed waits in the channel or at a node.
StreamsAreDone(m) ==
    /\ \A i \in DOMAIN channel : ~(channel[i].kind = "stream" /\ channel[i].from = m.task)
    /\ \A n \in Nodes : \A i \in DOMAIN input[n] :
          input[n][i].task = m.task => input[n][i].final

\* The output of a task is processed after everything the task streamed
\* (OperationRoster::deferred_queue, operation.rs 232).
OutputIsLast ==
    stage = "queue" /\ roster.queue # <<>> /\ Head(roster.queue) \in Nodes =>
        LET m == Head(input[Head(roster.queue)]) IN m.final => StreamsAreDone(m)

\* The nodes that are fed by nothing but the outputs of tasks.
FedByTasks ==
    {n \in Nodes \ {graph.start} :
        \A m \in Nodes : Contains(Out(m) \o Stream(m), n) => Op(m) = "task" /\ ~Contains(Stream(m), n)}

\* The nodes that take all their inputs through the queue of the flush as they
\* come: no task has its output deferred to them, no buffer notifies them later.
QueuedAtOnce ==
    {x \in Nodes : \A m \in Nodes : Contains(Out(m), x) => Op(m) \notin {"task", "buffer"}}

\* Where the tasks stream whose outputs feed a node
StreamedFirst(n) ==
    {x \in Nodes : \E m \in Nodes : Contains(Out(m), n) /\ Contains(Stream(m), x)}

\* The same for the nodes that have no other inputs: one that has may be in the
\* queue already and takes the output early, and so may a node that is streamed to
\* take its items late.  Several tasks may feed the node, and the limit of the loop
\* may cut in, but not one on the items of the channel.
TaskOutputIsLast ==
    (/\ graph.items = None
     /\ roster.queue # <<>> /\ Head(roster.queue) \in FedByTasks
     /\ StreamedFirst(Head(roster.queue)) \subseteq QueuedAtOnce)
    => OutputIsLast

\* When a collect has been concluded because nothing upstream could reach it
\* any more, nothing is on its way to it, neither in its storage nor in the
\* channel, and nothing comes later (is_upstream_active, collect.rs 248).
CollectIsComplete ==
    \A n \in released :
        /\ ~HasInput(n)
        /\ \A i \in DOMAIN channel : ~(channel[i].kind = "stream" /\ channel[i].at = n)

\* No complete set is left in the buffers of a join, in whatever order they are
\* filled and their gates opened: the last push or opening has woken it
\* (Join::execute and notify_listeners).
JoinMissesNothing ==
    \A n \in Has("join") :
        Sets(n) > 0 /\ (\A i \in DOMAIN Buffers(n) : gate[Buffers(n)[i]] = "open") => HasInput(n)

\* The session is not cancelled as unreachable while a collect that nothing
\* upstream can reach still holds enough to be sent (collect, builder.rs 409).
CollectBeforeCancel ==
    judged => \A n \in Has("collect") :
        Count(n) > 0 /\ Count(n) >= graph.node[n].min => IsUpstreamActive(n, None)
=============================================================================
