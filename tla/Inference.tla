------------------------------ MODULE Inference ------------------------------
(***************************************************************************)
(* Inference of the message types of a diagram (diagram/inference.rs).     *)
(*                                                                         *)
(* Every operation of a diagram fixes the types of some of its ports and   *)
(* constrains the others by the types of further ports.  A worklist then   *)
(* evaluates the constraints, in the order of a hash map at first and then *)
(* in the order in which they are notified, until nothing changes.         *)
(*                                                                         *)
(* A diagram is a function from the operations, those of its scopes and    *)
(* templates included, to their schemas.  References are resolved: two     *)
(* operations of different namespaces have different names.                *)
(***************************************************************************)
EXTENDS Naturals, Sequences, FiniteSets

CONSTANTS
    Diagrams,     \* the diagrams, each under a name
    Types,        \* the registered message types
    Json, Script, \* the types of JsonMessage and ScriptMessage
    Cloneable, Serializable, Deserializable, Scriptable,  \* sets of types
    Into,         \* pairs of types with a conversion
    ResultOf,     \* the Ok and Err types of the Result types
    UnzipOf,      \* the element types of the types that can be unzipped
    SplitOf,      \* the output types of the types that can be split
    JoinOf, ListenOf, AccessOf,  \* buffer layouts of the types that have one
    RequestOf,    \* the request of the types that access buffers
    NoType        \* Option::None

Errors == {"UnknownPort", "NoConnection", "Ambiguous", "NotCloneable", "CannotForkResult",
           "NotUnzippable", "InvalidUnzip", "NotSplittable", "NoLayout", "IncompatibleBuffers"}

ASSUME TypesAreNotErrors ==
    /\ NoType \notin Types
    /\ Errors \cap (Types \union {NoType}) = {}

\* What metadata says of a type is a type, or nothing.
ASSUME Registry ==
    /\ Json \in Types /\ Script \in Types \union {NoType}
    /\ \A t \in DOMAIN ResultOf : ResultOf[t] \in Types \X Types
    /\ \A t \in DOMAIN UnzipOf : UnzipOf[t] \in Seq(Types)
    /\ \A t \in DOMAIN SplitOf : SplitOf[t] \in Types
    /\ \A t \in DOMAIN RequestOf : RequestOf[t] \in Types
    /\ \A of \in {JoinOf, ListenOf, AccessOf} : \A t \in DOMAIN of :
           \/ of[t].dynamic /\ of[t].hint \in Types \union {NoType}
           \/ /\ ~of[t].dynamic
              /\ \A m \in DOMAIN of[t].hints : of[t].hints[m] \in Types \union {NoType}

VARIABLES
    diagram,     \* the diagram whose types are inferred
    types,       \* the message_type of every port
    unvisited,   \* the part of the queue that was there at the start
    queue,       \* the part of the queue that was notified
    result       \* "running", "settled" or why the inference failed

vars == <<diagram, types, unvisited, queue, result>>

-----------------------------------------------------------------------------
(* What each operation says of its ports *)

In(op) == <<op, "in">>
Out(op, key) == <<op, "out", key>>

Says(fixed, constrained, connected, redirected, hints) ==
    [fixed |-> fixed, constrained |-> constrained, connected |-> connected,
     redirected |-> redirected, hints |-> hints]

Exact(port) == [kind |-> "exact", port |-> port]
OfOp(kind, op) == [kind |-> kind, op |-> op]

\* Operations whose types are known from their metadata.
Node(o, s) ==
    Says({<<In(o), s.request>>, <<Out(o, "next"), s.response>>}
             \union {<<Out(o, k), s.streams[k]>> : k \in DOMAIN s.streams},
         {},
         {<<Out(o, "next"), s.next>>} \union {<<Out(o, k), s.stream_out[k]>> : k \in DOMAIN s.stream_out},
         {}, {})

Transform(o, s) ==
    Says({<<In(o), Json>>, <<Out(o, "next"), Json>>}, {}, {<<Out(o, "next"), s.next>>}, {}, {})

RunScript(o, s) ==
    Says({<<In(o), Script>>, <<Out(o, "next"), Script>>}
             \union {<<Out(o, k), Script>> : k \in DOMAIN s.stream_out},
         {},
         {<<Out(o, "next"), s.next>>} \union {<<Out(o, k), s.stream_out[k]>> : k \in DOMAIN s.stream_out},
         {}, {})

\* A redirection from each name to the operation it stands for.
Redirect(pairs) ==
    Says({}, {<<In(r[1]), Exact(In(r[2]))>> : r \in pairs}, {}, pairs, {})

\* s.inputs, s.outputs and s.streams are pairs of names; s.terminate is the
\* terminate operation of the namespace.
Scope(o, s) == Redirect({<<o, s.start>>, <<s.terminate, s.next>>} \union s.streams)
TemplateSection(o, s) == Redirect(s.inputs \union s.outputs \union {<<s.terminate, s.next>>})

BuilderSection(o, s) ==
    LET outer == Redirect({<<s.terminate, s.next>>})
    IN [outer EXCEPT
           !.fixed = {<<In(i), s.inputs[i]>> : i \in DOMAIN s.inputs}
                         \union {<<Out(o, k), s.outputs[k]>> : k \in DOMAIN s.outputs},
           !.connected = {<<Out(o, k), s.connect[k]>> : k \in DOMAIN s.connect}]

StreamOut(o, s) == Says({}, {<<In(o), Exact(In(s.stream))>>}, {}, {}, {})

ForkClone(o, s) ==
    Says({},
         {<<In(o), [kind |-> "clone", op |-> o, targets |-> s.next]>>}
             \union {<<Out(o, i), Exact(In(o))>> : i \in DOMAIN s.next},
         {<<Out(o, i), s.next[i]>> : i \in DOMAIN s.next}, {}, {})

ForkResult(o, s) ==
    Says({},
         {<<In(o), [kind |-> "result", op |-> o, ok |-> s.ok, err |-> s.err]>>,
          <<Out(o, "ok"), [kind |-> "result_output", op |-> o, element |-> 1]>>,
          <<Out(o, "err"), [kind |-> "result_output", op |-> o, element |-> 2]>>},
         {<<Out(o, "ok"), s.ok>>, <<Out(o, "err"), s.err>>}, {}, {})

Unzip(o, s) ==
    Says({},
         {<<In(o), OfOp("unzip", o)>>}
             \union {<<Out(o, i), [kind |-> "unzip_output", op |-> o, element |-> i]>> : i \in DOMAIN s.next},
         {<<Out(o, i), s.next[i]>> : i \in DOMAIN s.next}, {}, {})

Split(o, s) ==
    Says({},
         {<<In(o), OfOp("split", o)>>}
             \union {<<Out(o, k), OfOp("split_output", o)>> : k \in DOMAIN s.next},
         {<<Out(o, k), s.next[k]>> : k \in DOMAIN s.next}, {}, {})

Buffer(o, s) ==
    IF s.serialize THEN Says({<<In(o), Json>>}, {}, {}, {}, {})
                   ELSE Says({}, {<<In(o), OfOp("buffer", o)>>}, {}, {}, {})

\* s.buffers gives each member of the selection its buffer.
Hints(o, s, how) ==
    {[buffer |-> s.buffers[m], used_by |-> Out(o, "next"), member |-> m, how |-> how] : m \in DOMAIN s.buffers}

\* infer_from_downstream of the output of an operation that uses buffers
FromDownstream(o, s, how) ==
    Says({}, {<<Out(o, "next"), Exact(In(s.next))>>}, {<<Out(o, "next"), s.next>>}, {}, Hints(o, s, how))

Join(o, s) ==
    IF s.serialize
    THEN Says({<<Out(o, "next"), Json>>}, {}, {<<Out(o, "next"), s.next>>}, {}, Hints(o, s, "join"))
    ELSE FromDownstream(o, s, "join")

Listen(o, s) == FromDownstream(o, s, "listen")

BufferAccess(o, s) ==
    [FromDownstream(o, s, "access") EXCEPT
        !.constrained = @ \union {<<In(o), OfOp("access_input", s.next)>>}]

OpKinds == {"node", "transform", "script", "scope", "template", "builder", "stream_out", "fork_clone",
            "fork_result", "unzip", "split", "buffer", "join", "listen", "access"}

Apply(o, s) ==
    CASE s.op = "node" -> Node(o, s)
      [] s.op = "transform" -> Transform(o, s)
      [] s.op = "script" -> RunScript(o, s)
      [] s.op = "scope" -> Scope(o, s)
      [] s.op = "template" -> TemplateSection(o, s)
      [] s.op = "builder" -> BuilderSection(o, s)
      [] s.op = "stream_out" -> StreamOut(o, s)
      [] s.op = "fork_clone" -> ForkClone(o, s)
      [] s.op = "fork_result" -> ForkResult(o, s)
      [] s.op = "unzip" -> Unzip(o, s)
      [] s.op = "split" -> Split(o, s)
      [] s.op = "buffer" -> Buffer(o, s)
      [] s.op = "join" -> Join(o, s)
      [] s.op = "listen" -> Listen(o, s)
      [] s.op = "access" -> BufferAccess(o, s)

-----------------------------------------------------------------------------
(* What is built from a diagram d: its operations d.ops, the operation that *)
(* it starts with, and the types at its boundary.                           *)

Said(d) == {Apply(o, d.ops[o]) : o \in DOMAIN d.ops}

Constraints(d) == UNION {said.constrained : said \in Said(d)}
Fixed(d) == UNION {said.fixed : said \in Said(d)}
Redirections(d) == UNION {said.redirected : said \in Said(d)}

Start == Out("start", "next")

\* set_boundary_conditions
Boundary(d) ==
    {<<Start, d.request>>, <<In("terminate"), d.response>>}
        \union {<<In(s), d.streams[s]>> : s \in DOMAIN d.streams}

PortsOf(pairs) == {pair[1] : pair \in pairs}

Connections(d) == UNION {said.connected : said \in Said(d)} \union {<<Start, d.start>>}

\* The operation op and all that are redirected into it, however far away
Behind(redirected, op) ==
    LET behind[n \in Nat] ==
            IF n = 0 THEN {op}
            ELSE behind[n - 1] \union {r[1] : r \in {r \in redirected : r[2] \in behind[n - 1]}}
    IN  behind[Cardinality(redirected)]

\* The outputs that connect into op, through redirections or not
SourcesOf(d, op) == {c[1] : c \in {c \in Connections(d) : c[2] \in Behind(Redirections(d), op)}}

Unconnected(d, op) ==
    \E o \in Behind(Redirections(d), op) :
        /\ \A c \in Connections(d) : c[2] # o
        /\ \A r \in Redirections(d) : r[2] # o

Build(d) ==
    [ports |-> PortsOf(Constraints(d) \union Fixed(d) \union Boundary(d)),
     constraint |-> [p \in PortsOf(Constraints(d)) |-> (CHOOSE c \in Constraints(d) : c[1] = p)[2]],
     connected |-> Connections(d),
     hints |-> UNION {said.hints : said \in Said(d)},
     sources |-> [o \in DOMAIN d.ops |-> SourcesOf(d, o)],
     unconnected |-> {o \in DOMAIN d.ops : Unconnected(d, o)}]

\* Mutant: the boundary of the workflow is left out.
InnerTypes(d) ==
    [p \in PortsOf(Constraints(d) \union Fixed(d)) |->
        IF p \in PortsOf(Fixed(d)) THEN (CHOOSE f \in Fixed(d) : f[1] = p)[2] ELSE NoType]

FixedTypes(d) ==
    [p \in PortsOf(Constraints(d) \union Fixed(d) \union Boundary(d)) |->
        IF p \in PortsOf(Fixed(d) \union Boundary(d))
        THEN (CHOOSE f \in Fixed(d) \union Boundary(d) : f[1] = p)[2]
        ELSE NoType]

CircularRedirect(d) == \E r \in Redirections(d) : r[2] \in Behind(Redirections(d), r[1])

\* What the assertion of Inferences::constrain rejects
ConstrainedTwice(d) == \E c1, c2 \in Constraints(d) : c1[1] = c2[1] /\ c1 # c2

-----------------------------------------------------------------------------
(* Evaluation of a constraint: a type, NoType or an error *)

SourceErrors(inf, op) ==
    {"UnknownPort" : p \in inf.sources[op] \ inf.ports}
        \union (IF op \in inf.unconnected THEN {"NoConnection"} ELSE {})

TypesAt(ts, ports) == {ts[p] : p \in ports} \ {NoType}
TypesInto(inf, ts, op) == TypesAt(ts, inf.sources[op] \intersect inf.ports)

The(S) == CHOOSE x \in S : TRUE

\* A step that may fail, with the ? of the code
Checked(errors, value) == IF errors # {} THEN The(errors) ELSE value

\* get_inference_of, and what metadata says of the type that was found
TypeOf(inf, ts, port) == IF port \in inf.ports THEN ts[port] ELSE "UnknownPort"

Derived(t, of, error) ==
    CASE t \in Errors \union {NoType} -> t
      [] t \in DOMAIN of -> of[t]
      [] OTHER -> error

SameOutputType(inf, ts, targets) ==
    LET found == TypesAt(ts, targets \intersect inf.ports)
        shared == CASE Cardinality(found) = 0 -> NoType
                    [] Cardinality(found) = 1 -> The(found)
                    [] Cardinality(found) > 1 ->
                         IF Script \notin found /\ found \subseteq Deserializable THEN Json
                         ELSE IF found \subseteq Scriptable THEN Script
                         ELSE NoType
    IN  Checked({"UnknownPort" : p \in targets \ inf.ports}, shared)

\* evaluate_clone_input
CloneInput(inf, ts, c) ==
    LET incoming == TypesInto(inf, ts, c.op)
        hint == SameOutputType(inf, ts, {In(c.targets[i]) : i \in DOMAIN c.targets})
        selected == CASE Cardinality(incoming) = 1 -> The(incoming)
                      [] Cardinality(incoming) # 1 /\ hint \in Errors -> hint
                      [] Cardinality(incoming) = 0 /\ hint \notin Errors -> hint
                      [] Cardinality(incoming) > 1 /\ hint \in Types ->
                           IF \A t \in incoming : <<t, hint>> \in Into THEN hint ELSE "Ambiguous"
                      [] Cardinality(incoming) > 1 /\ hint = NoType ->
                           IF incoming \subseteq Serializable THEN Json ELSE "Ambiguous"
    IN  Checked(SourceErrors(inf, c.op),
                IF selected \in Types \ Cloneable THEN "NotCloneable" ELSE selected)

\* evaluate_result_input
ResultInput(inf, ts, c) ==
    LET incoming == TypesInto(inf, ts, c.op)
        ok == TypeOf(inf, ts, In(c.ok))
        err == TypeOf(inf, ts, In(c.err))
        results == {t \in DOMAIN ResultOf : ResultOf[t] = <<ok, err>>}
        selected == CASE Cardinality(incoming) = 1 -> The(incoming)
                      [] Cardinality(incoming) > 1 -> NoType
                      [] Cardinality(incoming) = 0 ->
                           IF ok \notin Types THEN ok
                           ELSE IF err \notin Types THEN err
                           ELSE IF results = {} THEN NoType ELSE The(results)
    IN  Checked(SourceErrors(inf, c.op),
                IF selected \in Types \ DOMAIN ResultOf THEN "CannotForkResult" ELSE selected)

ResultOutput(inf, ts, c) ==
    Derived(TypeOf(inf, ts, In(c.op)), [t \in DOMAIN ResultOf |-> ResultOf[t][c.element]], "CannotForkResult")

\* evaluate_unzip_input
UnzipInput(inf, ts, c) ==
    LET incoming == TypesInto(inf, ts, c.op)
    IN  Checked(SourceErrors(inf, c.op),
                CASE incoming = {} -> NoType
                  [] Cardinality(incoming) = 1 ->
                       IF incoming \subseteq DOMAIN UnzipOf THEN The(incoming) ELSE "NotUnzippable"
                  [] Cardinality(incoming) > 1 -> "Ambiguous")

UnzipOutput(inf, ts, c) ==
    Derived(TypeOf(inf, ts, In(c.op)),
            [t \in DOMAIN UnzipOf |->
                IF c.element \in DOMAIN UnzipOf[t] THEN UnzipOf[t][c.element] ELSE "InvalidUnzip"],
            "NotUnzippable")

\* evaluate_buffer_hint of the layout that how gives to the type t
LayoutOf(how) == CASE how = "join" -> JoinOf [] how = "listen" -> ListenOf [] how = "access" -> AccessOf

LayoutHint(layout, member) ==
    CASE layout.dynamic -> IF member \in layout.members THEN layout.hint ELSE "IncompatibleBuffers"
      [] ~layout.dynamic -> IF member \in DOMAIN layout.hints THEN layout.hints[member] ELSE NoType

HintedType(inf, ts, hint) ==
    Derived(TypeOf(inf, ts, hint.used_by),
            [t \in DOMAIN LayoutOf(hint.how) |-> LayoutHint(LayoutOf(hint.how)[t], hint.member)], "NoLayout")

\* evaluate_buffer_input: an incoming type comes before the hints
BufferInput(inf, ts, c) ==
    LET incoming == TypesInto(inf, ts, c.op)
        hinted == {HintedType(inf, ts, h) : h \in {h \in inf.hints : h.buffer = c.op}}
        candidates == IF incoming # {} THEN incoming ELSE hinted \ {NoType}
    IN  Checked({"UnknownPort" : p \in inf.sources[c.op] \ inf.ports}
                    \union (IF incoming = {} THEN hinted \intersect Errors ELSE {}),
                CASE candidates = {} -> NoType
                  [] Cardinality(candidates) = 1 -> The(candidates)
                  [] Cardinality(candidates) > 1 -> "Ambiguous")

AccessInput(inf, ts, c) ==
    Derived(TypeOf(inf, ts, In(c.op)), RequestOf, "NoLayout")

\* evaluate_split_input
SplitInput(inf, ts, c) ==
    LET incoming == TypesInto(inf, ts, c.op)
    IN  Checked(SourceErrors(inf, c.op),
                CASE incoming = {} -> NoType
                  [] Cardinality(incoming) = 1 /\ incoming \subseteq DOMAIN SplitOf -> The(incoming)
                  [] incoming # {} /\ ~(Cardinality(incoming) = 1 /\ incoming \subseteq DOMAIN SplitOf) ->
                       IF incoming \subseteq Serializable THEN Json
                       ELSE IF Cardinality(incoming) = 1 THEN "NotSplittable" ELSE "Ambiguous")

SplitOutput(inf, ts, c) ==
    Derived(TypeOf(inf, ts, In(c.op)), SplitOf, "NotSplittable")

EvaluateConstraint(inf, ts, c) ==
    CASE c.kind = "exact" -> TypeOf(inf, ts, c.port)
      [] c.kind = "clone" -> CloneInput(inf, ts, c)
      [] c.kind = "result" -> ResultInput(inf, ts, c)
      [] c.kind = "result_output" -> ResultOutput(inf, ts, c)
      [] c.kind = "unzip" -> UnzipInput(inf, ts, c)
      [] c.kind = "unzip_output" -> UnzipOutput(inf, ts, c)
      [] c.kind = "buffer" -> BufferInput(inf, ts, c)
      [] c.kind = "access_input" -> AccessInput(inf, ts, c)
      [] c.kind = "split" -> SplitInput(inf, ts, c)
      [] c.kind = "split_output" -> SplitOutput(inf, ts, c)

Evaluate(inf, ts, p) ==
    IF p \in DOMAIN inf.constraint THEN EvaluateConstraint(inf, ts, inf.constraint[p]) ELSE NoType

-----------------------------------------------------------------------------
(* The worklist *)

Direct(inf, op) == {c[1] : c \in {c \in inf.connected : c[2] = op}}

\* Mutant: a buffer is not notified of the users that hint at its type.
DependenciesWithoutHints(inf, c) ==
    CASE c.kind = "exact" -> {c.port}
      [] c.kind = "clone" -> {In(c.targets[i]) : i \in DOMAIN c.targets} \union Direct(inf, c.op)
      [] c.kind = "result" -> {In(c.ok), In(c.err)} \union Direct(inf, c.op)
      [] c.kind \in {"unzip", "split", "buffer"} -> Direct(inf, c.op)
      [] c.kind \in {"result_output", "unzip_output", "split_output", "access_input"} -> {In(c.op)}

\* The ports whose change a constraint is notified of
Dependencies(inf, c) ==
    CASE c.kind = "exact" -> {c.port}
      [] c.kind = "clone" -> {In(c.targets[i]) : i \in DOMAIN c.targets} \union Direct(inf, c.op)
      [] c.kind = "result" -> {In(c.ok), In(c.err)} \union Direct(inf, c.op)
      [] c.kind = "buffer" -> Direct(inf, c.op) \union {h.used_by : h \in {h \in inf.hints : h.buffer = c.op}}
      [] c.kind \in {"unzip", "split"} -> Direct(inf, c.op)
      [] c.kind \in {"result_output", "unzip_output", "split_output", "access_input"} -> {In(c.op)}

Dependents(inf, p) == {q \in DOMAIN inf.constraint : p \in Dependencies(inf, inf.constraint[q])}

Elements(s) == {s[i] : i \in DOMAIN s}

\* The sequences of the elements of S, each once
Orders(S) == {s \in [1 .. Cardinality(S) -> S] : Elements(s) = S}

\* What is built before the worklist starts
Inferences == [name \in DOMAIN Diagrams |-> Build(Diagrams[name])]
inferences == Inferences[diagram]

ASSUME DiagramsAreTyped ==
    \A name \in DOMAIN Diagrams :
        /\ IsFiniteSet(Inferences[name].ports)
        /\ \A o \in DOMAIN Diagrams[name].ops : Diagrams[name].ops[o].op \in OpKinds
        /\ \A f \in Fixed(Diagrams[name]) \union Boundary(Diagrams[name]) : f[2] \in Types

Init ==
    \E name \in DOMAIN Diagrams : LET d == Diagrams[name] IN
        /\ diagram = name
        /\ types = FixedTypes(d)
        /\ unvisited = PortsOf(Constraints(d) \union Fixed(d))
        /\ queue = <<>>
        /\ result = CASE ConstrainedTwice(d) -> "panicked"
                      [] ~ConstrainedTwice(d) /\ CircularRedirect(d) -> "CircularRedirect"
                      [] OTHER -> "running"

\* Mutant: a port keeps the first type that it is given.
ProcessOnce(p, first, rest) ==
    LET type == Evaluate(inferences, types, p)
    IN  \/ /\ type \in Errors
           /\ result' = type
           /\ queue' = rest
           /\ UNCHANGED types
        \/ /\ type \in Types \union {NoType} /\ (type = NoType \/ types[p] # NoType)
           /\ queue' = rest
           /\ UNCHANGED <<types, result>>
        \/ /\ type \in Types /\ types[p] = NoType
           /\ types' = [types EXCEPT ![p] = type]
           /\ \E notified \in Orders(Dependents(inferences, p) \ (first \union Elements(rest))) :
                  queue' = rest \o notified
           /\ UNCHANGED result

\* Mutant: dependents are notified of a type that did not change.
ProcessAgain(p, first, rest) ==
    LET type == Evaluate(inferences, types, p)
    IN  \/ /\ type \in Errors
           /\ result' = type
           /\ queue' = rest
           /\ UNCHANGED types
        \/ /\ type = NoType
           /\ queue' = rest
           /\ UNCHANGED <<types, result>>
        \/ /\ type \in Types
           /\ types' = [types EXCEPT ![p] = type]
           /\ \E notified \in Orders(Dependents(inferences, p) \ (first \union Elements(rest))) :
                  queue' = rest \o notified
           /\ UNCHANGED result

\* p was taken, and the ports of first and then of rest are still queued.
Process(p, first, rest) ==
    LET type == Evaluate(inferences, types, p)
    IN  \/ /\ type \in Errors
           /\ result' = type
           /\ queue' = rest
           /\ UNCHANGED types
        \/ /\ type \in {NoType, types[p]}
           /\ queue' = rest
           /\ UNCHANGED <<types, result>>
        \/ /\ type \in Types \ {types[p]}
           /\ types' = [types EXCEPT ![p] = type]
           /\ \E notified \in Orders(Dependents(inferences, p) \ (first \union Elements(rest))) :
                  queue' = rest \o notified
           /\ UNCHANGED result

\* The hash map gives the ports in any order.
Visit(p) ==
    /\ result = "running"
    /\ unvisited' = unvisited \ {p}
    /\ Process(p, unvisited', queue)
    /\ UNCHANGED diagram

Revisit ==
    /\ result = "running" /\ unvisited = {} /\ queue # <<>>
    /\ Process(Head(queue), {}, Tail(queue))
    /\ UNCHANGED <<diagram, unvisited>>

Settle ==
    /\ result = "running" /\ unvisited = {} /\ queue = <<>>
    /\ result' = "settled"
    /\ UNCHANGED <<diagram, types, unvisited, queue>>

Next == (\E p \in unvisited : Visit(p)) \/ Revisit \/ Settle

Spec == Init /\ [][Next]_vars /\ WF_vars(Next)

-----------------------------------------------------------------------------
(* Properties *)

TypeOK ==
    /\ diagram \in DOMAIN Diagrams
    /\ types \in [inferences.ports -> Types \union {NoType}]
    /\ unvisited \subseteq inferences.ports
    /\ queue \in Seq(DOMAIN inferences.constraint)
    /\ result \in {"running", "settled", "panicked", "CircularRedirect"} \union Errors

\* A constraint has nothing new to say of the port p.
Agrees(p) == Evaluate(inferences, types, p) \in {NoType, types[p]}

\* When the worklist is empty, every port has the type that its constraint
\* gives it: no port was left with what it saw before a later change.
Settled == result = "settled" => \A p \in DOMAIN inferences.constraint : Agrees(p)

\* The types that come of evaluating all the constraints at once, in rounds,
\* until nothing changes
Rounds(inf, ts) ==
    LET step(now) == [p \in inf.ports |->
                         LET type == Evaluate(inf, now, p)
                         IN  IF type \in Types THEN type ELSE now[p]]
        round[n \in Nat] == IF n = 0 THEN ts
                            ELSE LET now == round[n - 1]
                                 IN  IF step(now) = now THEN now ELSE step(now)
    IN  round[2 * Cardinality(inf.ports)]

Expected == [name \in DOMAIN Diagrams |-> Rounds(Inferences[name], FixedTypes(Diagrams[name]))]

\* Neither the types nor the failure depend on the order in which the hash map
\* gave the ports: both are what evaluating all of them at once comes to.
OrderDoesNotMatter ==
    /\ result = "settled" => types = Expected[diagram]
    /\ result \in Errors => \E p \in inferences.ports : Evaluate(inferences, Expected[diagram], p) \in Errors

\* The worklist is emptied: no two constraints keep changing each other.
Terminates == <>(result # "running")

\* infer_message_types for all the ports, infer_message_types_for_ports for some
Infer(ports) ==
    IF result # "settled" THEN result
    ELSE IF ports \subseteq inferences.ports /\ \A p \in ports : types[p] # NoType THEN "inferred"
    ELSE "CannotInferType"
=============================================================================
