---------------------------- MODULE MCScopeGraph ----------------------------
(* Workflows for ScopeGraph, and its instances for TLC *)
EXTENDS ScopeGraph, TLC

CONSTANTS t1, t2, t3

N(op, out, stream, buffers, min, max, action) ==
    [op |-> op, out |-> out, stream |-> stream, buffers |-> buffers,
     min |-> min, max |-> max, action |-> action]

To(op, out) == N(op, out, <<>>, <<>>, 0, None, None)
Streaming(out, stream) == N("task", out, stream, <<>>, 0, None, None)
With(op, buffers, out) == N(op, out, <<>>, buffers, 0, None, None)
Collecting(min, max, out) == N("collect", out, <<>>, <<>>, min, max, None)
Gating(action, buffers, out) == N("gate", out, <<>>, buffers, 0, None, action)

G(nodes, order, loopLimit, itemLimit) ==
    [node |-> nodes @@ ("start" :> To("fork", <<"A">>)) @@ ("sink" :> To("sink", <<>>))
                @@ ("end" :> To("terminate", <<>>)) @@ ("quit" :> To("cancel", <<>>)),
     order |-> <<"start">> \o order, start |-> "start", end |-> "end", cancel |-> "quit",
     loops |-> loopLimit, items |-> itemLimit]

\* A fork whose branches are joined; one of them may be filtered out.
Joined(limit) ==
    G("A" :> To("fork", <<"B", "C">>) @@ "B" :> To("task", <<"b">>) @@ "C" :> To("filter", <<"D">>)
      @@ "D" :> To("task", <<"c">>) @@ "b" :> To("buffer", <<"J">>) @@ "c" :> To("buffer", <<"J">>)
      @@ "J" :> With("join", <<"b", "c">>, <<"end">>),
      <<"A", "B", "C", "D", "b", "c", "J">>, limit, None)

\* The stream of a task and the output of another, collected; the output of the
\* first goes nowhere, that of the other may be filtered out.
Collected(min, max, limit, items) ==
    G("A" :> To("fork", <<"B", "C">>) @@ "B" :> Streaming(<<"sink">>, <<"D">>)
      @@ "C" :> To("task", <<"F">>) @@ "F" :> To("filter", <<"D">>)
      @@ "D" :> Collecting(min, max, <<"end">>),
      <<"A", "B", "C", "F", "D">>, limit, items)

\* The same, but what is collected with the stream takes a shorter way.
CollectedAtOnce ==
    G("A" :> To("fork", <<"B", "C">>) @@ "B" :> Streaming(<<"sink">>, <<"D">>)
      @@ "C" :> To("fork", <<"D">>) @@ "D" :> Collecting(1, None, <<"end">>),
      <<"A", "B", "C", "D">>, None, None)

\* The stream of a task and its output, joined; both may be filtered out.
StreamJoined ==
    G("A" :> Streaming(<<"C">>, <<"b">>) @@ "C" :> To("filter", <<"D">>) @@ "D" :> To("task", <<"c">>)
      @@ "b" :> To("buffer", <<"J">>) @@ "c" :> To("buffer", <<"J">>)
      @@ "J" :> With("join", <<"b", "c">>, <<"end">>),
      <<"A", "C", "D", "b", "c", "J">>, None, None)

\* Two tasks with keys of their own to one buffer.
TwoKeys ==
    G("A" :> To("fork", <<"K", "B">>) @@ "B" :> With("access", <<"b">>, <<"C">>)
      @@ "K" :> With("access", <<"b">>, <<"D">>) @@ "C" :> To("task", <<"sink">>)
      @@ "D" :> To("task", <<"sink">>) @@ "b" :> To("buffer", <<"L">>)
      @@ "L" :> With("listen", <<"b">>, <<"T">>) @@ "T" :> To("task", <<"end">>),
      <<"A", "B", "K", "C", "D", "b", "L", "T">>, None, None)

\* A stream that is filtered on its way to a collect.
Filtered ==
    G("A" :> Streaming(<<"sink">>, <<"P">>) @@ "P" :> To("filter", <<"D">>)
      @@ "D" :> Collecting(1, None, <<"end">>),
      <<"A", "P", "D">>, 2, None)

\* A collect of a collect.
Chained ==
    G("A" :> To("fork", <<"B", "C">>) @@ "B" :> Streaming(<<"E">>, <<"D">>)
      @@ "C" :> To("filter", <<"E">>) @@ "D" :> Collecting(1, None, <<"E">>)
      @@ "E" :> Collecting(1, None, <<"end">>),
      <<"A", "B", "C", "D", "E">>, None, None)

\* A task that may push to a buffer with its key; a listener ends the session.
\* The end of the streams of the task is a disposal of its own.  One flush
\* receives no more than two items.
KeyedTask == "K" :> With("access", <<"b">>, <<"B">>) @@ "B" :> Streaming(<<"sink">>, <<"sink">>)
    @@ "b" :> To("buffer", <<"L">>) @@ "L" :> With("listen", <<"b">>, <<"T">>)
    @@ "T" :> To("task", <<"end">>)

KeyedOnce == G("A" :> To("fork", <<"K">>) @@ KeyedTask, <<"A", "K", "B", "b", "L", "T">>, None, 1)

\* A disposal that is handled while the key waits for its task.
KeyedLimited ==
    G("A" :> To("fork", <<"K", "C">>) @@ "C" :> To("filter", <<"sink">>) @@ KeyedTask,
      <<"A", "K", "B", "C", "b", "L", "T">>, 4, None)

\* A task that is tried again until it succeeds, or that cancels the scope.
Retried ==
    G("A" :> To("task", <<"B">>) @@ "B" :> To("branch", <<"end", "A", "C">>)
      @@ "C" :> To("filter", <<"X">>) @@ "X" :> To("fork", <<"quit">>),
      <<"A", "B", "C", "X">>, 3, None)

\* A gate that is closed before a buffer is filled, which happens in one task
\* and the opening after another.
Gated ==
    G("A" :> To("fork", <<"c", "B", "C", "X">>) @@ "B" :> Gating("closed", <<"b">>, <<"sink">>)
      @@ "C" :> To("task", <<"b">>) @@ "X" :> To("task", <<"E">>)
      @@ "E" :> Gating("open", <<"b">>, <<"sink">>)
      @@ "b" :> To("buffer", <<"J">>) @@ "c" :> To("buffer", <<"J">>)
      @@ "J" :> With("join", <<"b", "c">>, <<"end">>),
      <<"A", "B", "C", "X", "E", "b", "c", "J">>, None, None)

\* A gate that is closed before a buffer is filled that is only listened to.
GatedListener ==
    G("A" :> To("fork", <<"B", "C">>) @@ "B" :> Gating("closed", <<"b">>, <<"b">>)
      @@ "C" :> To("task", <<"D">>) @@ "D" :> To("filter", <<"E">>)
      @@ "E" :> Gating("open", <<"b">>, <<"sink">>) @@ "b" :> To("buffer", <<"L">>)
      @@ "L" :> With("listen", <<"b">>, <<"end">>),
      <<"A", "B", "C", "D", "E", "b", "L">>, None, None)

\* A buffer that is both joined and listened to.
JoinedAndHeard ==
    G("A" :> To("fork", <<"B", "C">>) @@ "B" :> To("task", <<"b">>) @@ "C" :> To("filter", <<"c">>)
      @@ "b" :> To("buffer", <<"J", "L">>) @@ "c" :> To("buffer", <<"J">>)
      @@ "J" :> With("join", <<"b", "c">>, <<"end">>)
      @@ "L" :> With("listen", <<"b">>, <<"T">>) @@ "T" :> To("task", <<"end">>),
      <<"A", "B", "C", "b", "c", "J", "L", "T">>, None, None)

\* A collect that is fed by a listener of a buffer to which a task pushes.
KeyedCollect ==
    G("A" :> With("access", <<"b">>, <<"B">>) @@ "B" :> To("task", <<"sink">>)
      @@ "b" :> To("buffer", <<"L">>) @@ "L" :> With("listen", <<"b">>, <<"T">>)
      @@ "T" :> To("task", <<"D">>) @@ "D" :> Collecting(1, None, <<"end">>),
      <<"A", "B", "b", "L", "T", "D">>, None, None)

\* Two tasks with streams whose outputs go to one node.
Outputs(limit) ==
    G("A" :> To("fork", <<"B", "C">>) @@ "B" :> Streaming(<<"D">>, <<"E">>)
      @@ "C" :> Streaming(<<"D">>, <<"E">>) @@ "D" :> To("filter", <<"end">>)
      @@ "E" :> To("fork", <<"sink">>),
      <<"A", "B", "C", "D", "E">>, limit, None)

\* The output of a task goes to a node that the input of another chain reaches in
\* the queue after the task was polled, or to one that its stream goes to.
Overtaken ==
    G("A" :> To("fork", <<"B", "C">>) @@ "B" :> Streaming(<<"E">>, <<"sink">>)
      @@ "C" :> To("fork", <<"D">>) @@ "D" :> To("fork", <<"E">>) @@ "E" :> To("fork", <<"end">>),
      <<"A", "B", "C", "D", "E">>, None, None)

SameTarget ==
    G("A" :> To("fork", <<"B">>) @@ "B" :> Streaming(<<"E">>, <<"E">>)
      @@ "E" :> To("fork", <<"end">>),
      <<"A", "B", "E">>, None, None)

\* What a task streams goes to a node to which another task gives its output.
StreamedAndGiven ==
    G("A" :> To("fork", <<"B", "C">>) @@ "B" :> Streaming(<<"E">>, <<"D">>)
      @@ "C" :> To("task", <<"D">>) @@ "D" :> To("filter", <<"end">>) @@ "E" :> To("fork", <<"sink">>),
      <<"A", "B", "C", "D", "E">>, None, None)

MCGraphs == {Joined(None), Joined(2), Collected(0, None, None, None), Collected(2, 2, 4, None),
             Chained, StreamJoined, Filtered,
             KeyedOnce, KeyedLimited, Retried, Gated, Outputs(3)}
MCOvertaken == {Overtaken}
MCSameTarget == {SameTarget}
MCStreamedAndGiven == {StreamedAndGiven}
MCTwoKeys == {TwoKeys}
MCListened == {JoinedAndHeard}
MCGatedListener == {GatedListener}
MCKeyedCollect == {KeyedCollect}
MCCollectedAtOnce == {CollectedAtOnce}
MCLimited == {Collected(1, None, None, 1)}
=============================================================================
