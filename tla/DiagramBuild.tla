----------------------------- MODULE DiagramBuild -----------------------------
(***************************************************************************)
(* Building the workflow of a diagram (diagram/workflow_builder.rs).       *)
(*                                                                         *)
(* The operations of a diagram are built in the order of a hash map.  One  *)
(* that uses a buffer which does not exist yet is deferred to the next     *)
(* iteration, and so are the operations inside scopes and sections.        *)
(* Between two iterations the outputs that were made are connected to      *)
(* their targets; the connection may redirect them, or convert them, which *)
(* makes further outputs.                                                  *)
(*                                                                         *)
(* A diagram is given as in Inference, with the types that were inferred.  *)
(***************************************************************************)
EXTENDS Naturals, Sequences, FiniteSets

CONSTANTS
    Diagrams,   \* the diagrams, each under a name
    Types,      \* the message types
    Json, Script, Text,  \* JsonMessage, ScriptMessage, String
    Into,       \* pairs of types with a conversion that cannot fail
    Fallible,   \* pairs of types with a conversion that may fail
    Stringifiable \* the types that can be cancelled with as texts

ASSUME ConversionsAreOfTypes ==
    /\ {Json, Script, Text} \subseteq Types
    /\ Into \subseteq Types \X Types
    /\ Fallible \subseteq Types \X Types
    /\ Stringifiable \subseteq Types

VARIABLES
    diagram,      \* the diagram that is built
    stage,        \* "building" or "connecting"
    result,       \* "running", "built" or why the building failed
    unfinished,   \* the operations to build, a sequence
    deferred,     \* those that are left to the next iteration
    connectors,   \* connect_into_target: for each target, what is done with its outputs
    buffers,      \* the buffers: Own, or the name of another
    outputs,      \* outputs_into_target: for each target, a set of outputs
    fresh,        \* the outputs_into_target of connector_construction
    waiting,      \* deferred_connections
    progress,     \* made_progress
    redirected,   \* the outputs that each redirection has seen
    converted,    \* the types that each target has a conversion from
    wired         \* which output was connected to which target

vars == <<diagram, stage, result, unfinished, deferred, connectors, buffers, outputs, fresh, waiting,
          progress, redirected, converted, wired>>

operations == <<unfinished, deferred, connectors, buffers>>
connections == <<outputs, fresh, waiting, redirected, converted, wired>>

-----------------------------------------------------------------------------
(* What building an operation makes *)

Keys(pairs) == {pair[1] : pair \in pairs}
Elements(f) == {f[i] : i \in DOMAIN f}

Own == "own"

Slot(type) == [kind |-> "slot", type |-> type]
RedirectTo(target) == [kind |-> "redirect", to |-> target]
Drop == [kind |-> "dispose"]
Cancel == [kind |-> "cancel"]

\* An output goes to its target as <<target, output>>.  The names are those of
\* the resolved references, so that all that an operation makes are distinct.
Out(o, port, type, target) == <<target, [from |-> <<o, port>>, type |-> type]>>

Made(targets, outs) == [error |-> FALSE, targets |-> targets, outs |-> outs, buffers |-> {}, children |-> {}]

Streams(o, s) == {Out(o, k, s.streams[k], s.stream_out[k]) : k \in DOMAIN s.stream_out \intersect DOMAIN s.streams}

\* A stream that the node does not have is an error.
Node(o, s) ==
    [Made({<<o, Slot(s.request)>>}, {Out(o, "next", s.response, s.next)} \union Streams(o, s))
        EXCEPT !.error = ~(DOMAIN s.stream_out \subseteq DOMAIN s.streams)]

ForkClone(o, s) ==
    Made({<<o, Slot(s.type)>>}, {Out(o, i, s.type, s.next[i]) : i \in DOMAIN s.next})

ForkResult(o, s) ==
    Made({<<o, Slot(s.type)>>}, {Out(o, "ok", s.types[1], s.ok), Out(o, "err", s.types[2], s.err)})

Unzip(o, s) ==
    [Made({<<o, Slot(s.type)>>}, {Out(o, i, s.types[i], s.next[i]) : i \in DOMAIN s.next \intersect DOMAIN s.types})
        EXCEPT !.error = Len(s.types) # Len(s.next)]

Split(o, s) ==
    Made({<<o, Slot(s.type)>>}, {Out(o, k, s.item, s.next[k]) : k \in DOMAIN s.next})

\* s.on_error is the implicit error target of the scope if none is given,
\* s.failure the type of the errors (TransformError).
Transform(o, s) ==
    Made({<<o, Slot(Json)>>}, {Out(o, "next", Json, s.next), Out(o, "error", s.failure, s.on_error)})

RunScript(o, s) ==
    Made({<<o, Slot(Script)>>},
         {Out(o, "next", Script, s.next), Out(o, "error", Text, s.on_error)}
             \union {Out(o, k, Script, s.stream_out[k]) : k \in DOMAIN s.stream_out})

Buffer(o, s) == [Made({<<o, Slot(s.type)>>}, {}) EXCEPT !.buffers = {<<o, Own>>}]

BufferAccess(o, s) == Made({<<o, Slot(s.request)>>}, {Out(o, "next", s.response, s.next)})

Join(o, s) == [Made({}, {Out(o, "next", s.response, s.next)}) EXCEPT !.error = s.buffers = {}]

Listen(o, s) == Made({}, {Out(o, "next", s.response, s.next)})

StreamOut(o, s) == Made({<<o, RedirectTo(s.stream)>>}, {})

\* s.streams gives each stream of the scope its type, s.stream_out its target.
Scope(o, s) ==
    [Made({<<o, Slot(s.request)>>, <<s.terminate, Slot(s.response)>>, <<s.cancel, Cancel>>,
           <<s.implicit_cancel, Cancel>>}
              \union {<<k, Slot(s.streams[k])>> : k \in DOMAIN s.stream_out},
          {Out(o, "begin", s.request, s.start), Out(o, "next", s.response, s.next)}
              \union Streams(o, s))
        EXCEPT !.children = s.children]

\* s.inputs and s.buffers are pairs of an exposed name and one inside,
\* s.outputs are names inside and s.connect says where they go.  What ends the
\* section ends the scope around it: s.outer is its terminate.  A name that is
\* exposed as an input and as a buffer would be registered twice.
TemplateSection(o, s) ==
    [Made({<<r[1], RedirectTo(r[2])>> : r \in s.inputs \union s.buffers}
              \union {<<k, RedirectTo(IF k \in DOMAIN s.connect THEN s.connect[k] ELSE "dispose")>> : k \in s.outputs}
              \union {<<s.terminate, RedirectTo(s.outer)>>},
          {})
        EXCEPT !.error = \/ ~(DOMAIN s.connect \subseteq s.outputs)
                         \/ Keys(s.inputs) \intersect Keys(s.buffers) # {},
               !.buffers = s.buffers,
               !.children = s.children]

\* s.slots and s.outputs give types; the slots of s.buffers are buffers.
BuilderSection(o, s) ==
    [Made({<<i, Slot(s.slots[i])>> : i \in DOMAIN s.slots} \union {<<s.terminate, RedirectTo(s.outer)>>},
          {Out(o, k, s.outputs[k], s.connect[k]) : k \in DOMAIN s.connect \intersect DOMAIN s.outputs})
        EXCEPT !.error = ~(DOMAIN s.connect \subseteq DOMAIN s.outputs),
               !.buffers = {<<b, Own>> : b \in s.buffers}]

Build(o, s) ==
    CASE s.op = "node" -> Node(o, s)
      [] s.op = "fork_clone" -> ForkClone(o, s)
      [] s.op = "fork_result" -> ForkResult(o, s)
      [] s.op = "unzip" -> Unzip(o, s)
      [] s.op = "split" -> Split(o, s)
      [] s.op = "transform" -> Transform(o, s)
      [] s.op = "script" -> RunScript(o, s)
      [] s.op = "buffer" -> Buffer(o, s)
      [] s.op = "access" -> BufferAccess(o, s)
      [] s.op = "join" -> Join(o, s)
      [] s.op = "listen" -> Listen(o, s)
      [] s.op = "stream_out" -> StreamOut(o, s)
      [] s.op = "scope" -> Scope(o, s)
      [] s.op = "template" -> TemplateSection(o, s)
      [] s.op = "builder" -> BuilderSection(o, s)

\* The buffers that an operation uses
Uses(s) == IF s.op \in {"access", "join", "listen"} THEN s.buffers ELSE {}

\* The built-in targets and the start of a workflow
Builtin(d) ==
    Made({<<"terminate", Slot(d.response)>>, <<"dispose", Drop>>, <<"cancel", Cancel>>, <<"implicit_cancel", Cancel>>}
             \union {<<k, Slot(d.streams[k])>> : k \in DOMAIN d.streams},
         {Out("start", "next", d.request, d.start)})

MadeBy(d, o) == Build(o, d.ops[o])

\* What is written in a diagram is a tree of operations, each inside at most one
\* other.  The names stand for resolved references, and each output of an
\* operation has a port of its own.
OpNames ==
    {"node", "fork_clone", "fork_result", "unzip", "split", "transform", "script", "buffer", "access", "join",
     "listen", "stream_out", "scope", "template", "builder"}

WellFormed(d) ==
    LET ops == DOMAIN d.ops
        Inside(o) == MadeBy(d, o).children
    IN  /\ IsFiniteSet(ops) /\ "start" \notin ops
        /\ d.roots \subseteq ops
        /\ \A S \in SUBSET ops : d.roots \subseteq S /\ (\A o \in S : Inside(o) \subseteq S) => S = ops
        /\ \A o \in ops :
             /\ d.ops[o].op \in OpNames
             /\ Inside(o) \subseteq ops \ d.roots
             /\ \A p \in ops \ {o} : Inside(o) \intersect Inside(p) = {}
             /\ Own \notin Keys(MadeBy(d, o).buffers)
             /\ d.ops[o].op = "builder" => d.ops[o].buffers \subseteq DOMAIN d.ops[o].slots
             /\ \A p, q \in MadeBy(d, o).outs : p[2].from = q[2].from => p = q

ASSUME DiagramsAssumption == \A name \in DOMAIN Diagrams : WellFormed(Diagrams[name])

-----------------------------------------------------------------------------
(* Helpers on functions of targets *)

\* The sequences of the elements of S, each once
Orders(S) == {s \in [1 .. Cardinality(S) -> S] : Elements(s) = S}

Of(pairs, key) == {pair[2] : pair \in {pair \in pairs : pair[1] = key}}
Empty == [t \in {} |-> {}]
AnyOf(S) == CHOOSE x \in S : TRUE
AsFunction(pairs) == [t \in Keys(pairs) |-> AnyOf(Of(pairs, t))]
Override(f, g) == [t \in DOMAIN f \union DOMAIN g |-> IF t \in DOMAIN g THEN g[t] ELSE f[t]]
Without(f, t) == [u \in DOMAIN f \ {t} |-> f[u]]

\* entry(target).or_default().push(output)
Add(f, outs) ==
    [t \in DOMAIN f \union Keys(outs) |-> (IF t \in DOMAIN f THEN f[t] ELSE {}) \union Of(outs, t)]

\* What is reached from t step by step: the places in every set that has t and,
\* with each of its members, where f leads to from there.
Follows(f, S) == \A u \in S \intersect DOMAIN f : f[u] \in S
Places(f, t) == {t} \union DOMAIN f \union Elements(f)
Reached(f, t) == {u \in Places(f, t) : \A S \in SUBSET Places(f, t) : t \in S /\ Follows(f, S) => u \in S}

\* Where the steps end: there is one such place, or none if they lead around.
Ends(f, t) == Reached(f, t) \ DOMAIN f

\* The loop of create_buffer_map
Resolved(bufs, name) == Own \in Ends(bufs, name)

-----------------------------------------------------------------------------
(* The construction *)

theDiagram == Diagrams[diagram]
schema(o) == theDiagram.ops[o]

Init ==
    \E name \in DOMAIN Diagrams : LET builtin == Builtin(Diagrams[name]) IN
        /\ diagram = name
        /\ stage = "building"
        /\ result = "running"
        /\ unfinished \in Orders(Diagrams[name].roots)
        /\ deferred = <<>>
        /\ connectors = AsFunction(builtin.targets)
        /\ buffers = [b \in {} |-> Own]
        /\ outputs = Add(Empty, builtin.outs)
        /\ fresh = Empty /\ waiting = Empty
        /\ progress = FALSE
        /\ redirected = {} /\ converted = {} /\ wired = {}

Fail(error) == result' = error

Defers(bufs, s) == \E b \in Uses(s) : ~Resolved(bufs, b)

\* The first of the unfinished operations uses a buffer that is not there yet.
Defer ==
    /\ result = "running" /\ stage = "building" /\ unfinished # <<>>
    /\ Defers(buffers, schema(Head(unfinished)))
    /\ unfinished' = Tail(unfinished)
    /\ deferred' = Append(deferred, Head(unfinished))
    /\ UNCHANGED <<diagram, stage, result, connectors, buffers, connections, progress>>

BuildOperation ==
    /\ result = "running" /\ stage = "building" /\ unfinished # <<>>
    /\ ~Defers(buffers, schema(Head(unfinished)))
    /\ unfinished' = Tail(unfinished)
    /\ LET made == MadeBy(theDiagram, Head(unfinished)) IN
       \/ /\ made.error
          /\ Fail("Refused")
          /\ UNCHANGED <<deferred, connectors, buffers, outputs, progress>>
       \/ /\ ~made.error /\ Keys(made.targets) \intersect DOMAIN connectors # {}
          /\ Fail("DuplicateInputsCreated")
          /\ UNCHANGED <<deferred, connectors, buffers, outputs, progress>>
       \/ /\ ~made.error /\ Keys(made.targets) \intersect DOMAIN connectors = {}
          /\ \E order \in Orders(made.children) : deferred' = deferred \o order
          /\ connectors' = Override(connectors, AsFunction(made.targets))
          /\ buffers' = Override(buffers, AsFunction(made.buffers))
          /\ outputs' = Add(outputs, made.outs)
          /\ progress' = TRUE
          /\ UNCHANGED result
    /\ UNCHANGED <<diagram, stage, fresh, waiting, redirected, converted, wired>>

\* Mutant: what was deferred is not drained.
StartConnectingKeeping ==
    /\ result = "running" /\ stage = "building" /\ unfinished = <<>>
    /\ stage' = "connecting"
    /\ unfinished' = deferred
    /\ UNCHANGED <<diagram, result, deferred, connectors, buffers, connections, progress>>

StartConnecting ==
    /\ result = "running" /\ stage = "building" /\ unfinished = <<>>
    /\ stage' = "connecting"
    /\ unfinished' = deferred
    /\ deferred' = <<>>
    /\ UNCHANGED <<diagram, result, connectors, buffers, connections, progress>>

\* Mutant: a target that is not built yet is unknown.
WaitNot(t) ==
    /\ t \notin DOMAIN connectors
    /\ Fail("UnknownOperation")
    /\ UNCHANGED <<waiting, fresh, progress, redirected, converted, wired>>

\* The target is not built yet, or never will be.
Wait(t) ==
    /\ t \notin DOMAIN connectors
    /\ IF unfinished = <<>>
       THEN Fail("UnknownOperation") /\ UNCHANGED waiting
       ELSE waiting' = Override(waiting, [u \in {t} |-> outputs[t]]) /\ UNCHANGED result
    /\ UNCHANGED <<fresh, progress, redirected, converted, wired>>

\* Mutant: a redirection sees each output for the first time.
RedirectAgain(t) ==
    /\ t \in DOMAIN connectors /\ connectors[t].kind = "redirect"
    /\ progress' = TRUE
    /\ fresh' = Add(fresh, {<<connectors[t].to, out>> : out \in outputs[t]})
    /\ UNCHANGED <<result, waiting, converted, redirected, wired>>

Redirect(t) ==
    /\ t \in DOMAIN connectors /\ connectors[t].kind = "redirect"
    /\ progress' = TRUE
    /\ IF \E out \in outputs[t] : <<t, out.from>> \in redirected
       THEN Fail("CircularRedirect") /\ UNCHANGED <<fresh, redirected>>
       ELSE /\ redirected' = redirected \union {<<t, out.from>> : out \in outputs[t]}
            /\ fresh' = Add(fresh, {<<connectors[t].to, out>> : out \in outputs[t]})
            /\ UNCHANGED result
    /\ UNCHANGED <<waiting, converted, wired>>

Dispose(t) ==
    /\ t \in DOMAIN connectors /\ connectors[t].kind = "dispose"
    /\ progress' = TRUE
    /\ wired' = wired \union {<<out.from, t>> : out \in outputs[t]}
    /\ UNCHANGED <<result, fresh, waiting, redirected, converted>>

\* What a slot of the type does with an output of another type: a conversion
\* that cannot fail comes first.  Everything can be cancelled with.
Accepts(connector, type) ==
    \/ connector.kind = "cancel"
    \/ connector.kind = "slot" /\ (type = connector.type \/ <<type, connector.type>> \in Into \union Fallible)

MayFail(connector, type) ==
    \/ connector.kind = "slot" /\ type # connector.type /\ <<type, connector.type>> \in Fallible \ Into
    \/ /\ connector.kind = "cancel" /\ type \notin Stringifiable \union {Text, Json}
       /\ {<<type, Text>>, <<type, Json>>} \intersect Into = {} /\ <<type, Json>> \in Fallible

\* Each new conversion that may fail has an error output, which goes to the
\* implicit error target of the diagram.
ConversionError(d, t, type) == <<d.on_implicit_error, [from |-> <<t, type, "error">>, type |-> Text]>>

\* The conversions that are still to be made for the outputs into t
NewConversions(t) == {<<t, out.type>> : out \in {out \in outputs[t] : MayFail(connectors[t], out.type)}} \ converted

Connect(t) ==
    /\ t \in DOMAIN connectors /\ connectors[t].kind \in {"slot", "cancel"}
    /\ progress' = TRUE
    /\ IF \E out \in outputs[t] : ~Accepts(connectors[t], out.type)
       THEN Fail("TypeMismatch") /\ UNCHANGED <<fresh, converted, wired>>
       ELSE /\ wired' = wired \union {<<out.from, t>> : out \in outputs[t]}
            /\ converted' = converted \union NewConversions(t)
            /\ fresh' = Add(fresh, {ConversionError(theDiagram, c[1], c[2]) : c \in NewConversions(t)})
            /\ UNCHANGED result
    /\ UNCHANGED <<waiting, redirected>>

\* The outputs of one target, in the order of the hash map
ConnectOutputs(t) ==
    /\ result = "running" /\ stage = "connecting"
    /\ outputs' = Without(outputs, t)
    /\ Wait(t) \/ Redirect(t) \/ Dispose(t) \/ Connect(t)
    /\ UNCHANGED <<diagram, stage, operations>>

\* Mutant: outputs that wait are not taken up again.
TakenUpFresh(new, old) == new

\* construction.outputs_into_target after it was extended by both
TakenUp(new, old) == Override(new, old)

EndRound ==
    /\ result = "running" /\ stage = "connecting" /\ outputs = Empty
    /\ outputs' = TakenUp(fresh, waiting)
    /\ fresh' = Empty /\ waiting' = Empty
    /\ \/ /\ fresh # Empty
          /\ UNCHANGED <<stage, result, progress>>
       \/ /\ fresh = Empty /\ ~progress
          /\ Fail("BuildHalted")
          /\ UNCHANGED <<stage, progress>>
       \/ /\ fresh = Empty /\ progress /\ unfinished = <<>> /\ outputs' = Empty
          /\ result' = "built"
          /\ UNCHANGED <<stage, progress>>
       \/ /\ fresh = Empty /\ progress /\ (unfinished # <<>> \/ outputs' # Empty)
          /\ stage' = "building" /\ progress' = FALSE
          /\ UNCHANGED result
    /\ UNCHANGED <<diagram, operations, redirected, converted, wired>>

Next ==
    \/ Defer \/ BuildOperation \/ StartConnecting \/ EndRound
    \/ \E t \in DOMAIN outputs : ConnectOutputs(t)

Spec == Init /\ [][Next]_vars /\ WF_vars(Next)

-----------------------------------------------------------------------------
(* What a diagram says *)

\* What the operations B and the built-in targets make, whenever that is
Targets(d, B) == Builtin(d).targets \union UNION {MadeBy(d, o).targets : o \in B}
Outs(d, B) == Builtin(d).outs \union UNION {MadeBy(d, o).outs : o \in B}
Buffers(d, B) == UNION {MadeBy(d, o).buffers : o \in B}

AllOps(d) == DOMAIN d.ops
ConnectorsOf(d) == AsFunction(Targets(d, AllOps(d)))
Redirects(c) == [t \in {t \in DOMAIN c : c[t].kind = "redirect"} |-> c[t].to]

\* Where an output into t ends
EndsOf(d, t) == Ends(Redirects(ConnectorsOf(d)), t)

\* The ends that are connected to, with the types of the outputs
DrawnInto(d, outs) == UNION {EndsOf(d, out[1]) \X {out[2].type} : out \in outs}
MustConvert(d, into) ==
    {c \in into : c[1] \in DOMAIN ConnectorsOf(d) /\ MayFail(ConnectorsOf(d)[c[1]], c[2])}
Errors(d, conversions) == {ConversionError(d, c[1], c[2]) : c \in conversions}

\* The outputs of the operations and of the conversions that these need; the
\* errors of further ones are of the same type and go to the same target.
Sources(d) ==
    LET outs == Outs(d, AllOps(d))
    IN  outs \union Errors(d, MustConvert(d, DrawnInto(d, outs)))

\* Two operations make one target.
Clashing(d) ==
    \E o \in AllOps(d) : Keys(MadeBy(d, o).targets) \intersect Keys(Targets(d, AllOps(d) \ {o})) # {}

\* Why no order of building can succeed
Impossible(d) ==
    \/ \E o \in AllOps(d) : MadeBy(d, o).error \/ Defers(AsFunction(Buffers(d, AllOps(d))), d.ops[o])
    \/ Clashing(d)
    \/ \E out \in Sources(d) : EndsOf(d, out[1]) = {}
    \/ \E c \in DrawnInto(d, Sources(d)) :
           \/ c[1] \notin DOMAIN ConnectorsOf(d)
           \/ ConnectorsOf(d)[c[1]].kind # "dispose" /\ ~Accepts(ConnectorsOf(d)[c[1]], c[2])

-----------------------------------------------------------------------------
(* Properties *)

Outcomes ==
    {"running", "built", "Refused", "DuplicateInputsCreated", "UnknownOperation", "CircularRedirect",
     "TypeMismatch", "BuildHalted"}

\* The variables have their types; deferred operations are handed over before
\* the outputs are connected, and nothing is left of a round when it is over.
TypeOK ==
    /\ diagram \in DOMAIN Diagrams
    /\ stage \in {"building", "connecting"}
    /\ result \in Outcomes
    /\ unfinished \in Seq(AllOps(theDiagram)) /\ deferred \in Seq(AllOps(theDiagram))
    /\ DOMAIN connectors \subseteq Keys(Targets(theDiagram, AllOps(theDiagram)))
    /\ DOMAIN buffers \subseteq Keys(Buffers(theDiagram, AllOps(theDiagram)))
    /\ progress \in BOOLEAN
    /\ stage = "connecting" => deferred = <<>>
    /\ stage = "building" => fresh = Empty /\ waiting = Empty

\* A diagram that was built has each output of each operation connected to the
\* operation that the diagram names, through all redirections, and the errors
\* of the implicit conversions to the implicit error target; nothing else is
\* connected, and no conversion is made twice.  The outputs are moved between
\* three maps while their targets come into being (create_workflow).
WiredAsDrawn ==
    LET sources == Outs(theDiagram, AllOps(theDiagram)) \union Errors(theDiagram, converted)
    IN  result = "built" =>
            /\ converted = MustConvert(theDiagram, DrawnInto(theDiagram, Sources(theDiagram)))
            /\ \A out \in sources : EndsOf(theDiagram, out[1]) # {}
            /\ wired = UNION {{out[2].from} \X EndsOf(theDiagram, out[1]) : out \in sources}

\* Whether a diagram can be built does not depend on the order in which its
\* operations come out of the hash map: it is built unless something in it is
\* impossible, and a diagram with something impossible is never built.
BuildsIfPossible ==
    result # "running" => (result = "built" <=> ~Impossible(theDiagram))

\* At the end of a round no target has both outputs that wait and new ones, of
\* which TakenUp would keep only the former.
NothingOverwritten == DOMAIN fresh \intersect DOMAIN waiting = {}

\* All operations of the diagram are built in the first iteration.
BuiltAtOnce(d) == \A o \in AllOps(d) : Uses(d.ops[o]) = {} /\ MadeBy(d, o).children = {}

\* The loop ends, without its limit of iterations: circular redirections and
\* buffers that stand for each other are found.
Terminates == <>(result # "running")
=============================================================================
