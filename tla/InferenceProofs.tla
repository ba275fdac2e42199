-------------------------- MODULE InferenceProofs --------------------------
(* What is proved of Inference for all registries and diagrams. *)
EXTENDS Inference, FiniteSetTheorems, TLAPS

(***************************************************************************)
(* Sequences                                                               *)
(***************************************************************************)

LEMMA TailElements ==
  ASSUME NEW S, NEW s \in Seq(S), s # <<>>
  PROVE  /\ Head(s) \in S /\ Tail(s) \in Seq(S)
         /\ Elements(s) = {Head(s)} \union Elements(Tail(s))
  <1>1. /\ Head(s) \in S /\ Tail(s) \in Seq(S) /\ Len(s) \in Nat \ {0}
        /\ Len(Tail(s)) = Len(s) - 1
        /\ \A i \in 1 .. Len(s) - 1 : Tail(s)[i] = s[i + 1]
        /\ Head(s) = s[1] /\ DOMAIN s = 1 .. Len(s) /\ DOMAIN Tail(s) = 1 .. Len(s) - 1
    OBVIOUS
  <1>2. ASSUME NEW i \in 1 .. Len(s)
        PROVE  s[i] \in {Head(s)} \union Elements(Tail(s))
    <2>1. CASE i = 1
      BY <1>1, <2>1
    <2>2. CASE i # 1
      <3>1. i - 1 \in 1 .. Len(s) - 1 /\ Tail(s)[i - 1] = s[i]
        BY <1>1, <2>2
      <3> QED
        BY <1>1, <3>1 DEF Elements
    <2> QED
      BY <2>1, <2>2
  <1>3. Elements(Tail(s)) \subseteq Elements(s)
    BY <1>1 DEF Elements
  <1>4. Head(s) \in Elements(s)
    BY <1>1 DEF Elements
  <1> QED
    BY <1>1, <1>2, <1>3, <1>4 DEF Elements

LEMMA AppendedElements ==
  ASSUME NEW S, NEW s \in Seq(S), NEW t \in Seq(S)
  PROVE  s \o t \in Seq(S) /\ Elements(s \o t) = Elements(s) \union Elements(t)
  <1>1. /\ s \o t \in Seq(S) /\ Len(s) \in Nat /\ Len(t) \in Nat
        /\ DOMAIN s = 1 .. Len(s) /\ DOMAIN t = 1 .. Len(t) /\ DOMAIN (s \o t) = 1 .. Len(s) + Len(t)
        /\ \A i \in 1 .. Len(s) : (s \o t)[i] = s[i]
        /\ \A i \in Len(s) + 1 .. Len(s) + Len(t) : (s \o t)[i] = t[i - Len(s)]
    OBVIOUS
  <1>2. ASSUME NEW i \in 1 .. Len(t) PROVE t[i] \in Elements(s \o t)
    <2>1. Len(s) + i \in Len(s) + 1 .. Len(s) + Len(t) /\ (Len(s) + i) - Len(s) = i
      BY <1>1
    <2>2. (s \o t)[Len(s) + i] = t[i] /\ Len(s) + i \in DOMAIN (s \o t)
      BY <1>1, <2>1
    <2> QED
      BY <2>2 DEF Elements
  <1>3. Elements(s) \subseteq Elements(s \o t)
    BY <1>1 DEF Elements
  <1>4. ASSUME NEW i \in 1 .. Len(s) + Len(t) PROVE (s \o t)[i] \in Elements(s) \union Elements(t)
    <2>1. CASE i \in 1 .. Len(s)
      <3>1. (s \o t)[i] = s[i]
        BY <1>1, <2>1
      <3>2. s[i] \in Elements(s)
        BY <1>1, <2>1 DEF Elements
      <3> QED
        BY <3>1, <3>2
    <2>2. CASE i \in Len(s) + 1 .. Len(s) + Len(t)
      <3>1. i - Len(s) \in 1 .. Len(t)
        BY <1>1, <2>2
      <3> QED
        BY <1>1, <2>2, <3>1 DEF Elements
    <2> QED
      BY <1>1, <2>1, <2>2
  <1> QED
    BY <1>1, <1>2, <1>3, <1>4 DEF Elements

\* The orders of a finite set are sequences of its elements.
LEMMA OrderElements ==
  ASSUME NEW S, NEW F \in SUBSET S, IsFiniteSet(F), NEW s \in Orders(F)
  PROVE  s \in Seq(S) /\ Elements(s) = F
  <1>1. Cardinality(F) \in Nat
    BY FS_CardinalityType
  <1>2. s \in [1 .. Cardinality(F) -> S]
    BY DEF Orders
  <1> QED
    BY <1>1, <1>2 DEF Orders

(***************************************************************************)
(* The constraints of a diagram                                            *)
(***************************************************************************)
Kinds == {"exact", "clone", "result", "result_output", "unzip", "unzip_output", "buffer",
          "access_input", "split", "split_output"}

LEMMA ConstraintKinds ==
  ASSUME NEW o, NEW s, s.op \in OpKinds, NEW c \in Apply(o, s).constrained
  PROVE  c[2].kind \in Kinds
  <1> USE DEF Kinds, Apply, Says, Exact, OfOp
  <1>1. CASE s.op \in {"node", "transform", "script"}
    BY <1>1 DEF Node, Transform, RunScript
  <1>2. CASE s.op \in {"scope", "template"}
    BY <1>2 DEF Scope, TemplateSection, Redirect
  <1>3. CASE s.op = "builder"
    <2>1. BuilderSection(o, s).constrained = Redirect({<<s.terminate, s.next>>}).constrained
      BY DEF BuilderSection, Redirect
    <2>2. c \in BuilderSection(o, s).constrained
      BY <1>3
    <2>3. c \in {<<In(r[1]), Exact(In(r[2]))>> : r \in {<<s.terminate, s.next>>}}
      BY <2>1, <2>2 DEF Redirect
    <2> QED
      BY <2>3
  <1>4. CASE s.op \in {"stream_out", "fork_clone", "fork_result"}
    BY <1>4 DEF StreamOut, ForkClone, ForkResult
  <1>5. CASE s.op \in {"unzip", "split", "buffer"}
    BY <1>5 DEF Unzip, Split, Buffer
  <1>6. CASE s.op \in {"join", "listen", "access"}
    BY <1>6 DEF Join, Listen, BufferAccess, FromDownstream
  <1> QED
    BY <1>1, <1>2, <1>3, <1>4, <1>5, <1>6 DEF OpKinds

LEMMA BuiltConstraints ==
  ASSUME NEW name \in DOMAIN Diagrams, NEW p \in DOMAIN Inferences[name].constraint
  PROVE  /\ p \in Inferences[name].ports
         /\ Inferences[name].constraint[p].kind \in Kinds
  <1> DEFINE d == Diagrams[name]
             c == CHOOSE c \in Constraints(d) : c[1] = p
  <1>1. p \in PortsOf(Constraints(d)) /\ Inferences[name].constraint[p] = c[2]
    BY DEF Inferences, Build
  <1>2. c \in Constraints(d) /\ c[1] = p
    BY <1>1 DEF PortsOf
  <1>3. PICK o \in DOMAIN d.ops : c \in Apply(o, d.ops[o]).constrained
    BY <1>2 DEF Constraints, Said
  <1>4. d.ops[o].op \in OpKinds
    BY DiagramsAreTyped
  <1>5. c[2].kind \in Kinds
    BY <1>3, <1>4, ConstraintKinds
  <1> QED
    BY <1>1, <1>5 DEF Inferences, Build, PortsOf

(***************************************************************************)
(* What a constraint reads.  The evaluation of a constraint follows the    *)
(* redirections; its dependencies do not.  A diagram is heard when no      *)
(* operation that reads what comes into it is behind a redirection.        *)
(***************************************************************************)
Reading == {"clone", "result", "unzip", "buffer", "split"}

Heard(inf) ==
    \A p \in DOMAIN inf.constraint :
        LET c == inf.constraint[p]
        IN  c.kind \in Reading => inf.sources[c.op] \subseteq Direct(inf, c.op)

\* Types that agree on the dependencies of a constraint give the same evaluation.
LEMMA Reads ==
  ASSUME NEW inf, NEW c, c.kind \in Kinds,
         c.kind \in Reading => inf.sources[c.op] \subseteq Direct(inf, c.op),
         NEW ts, NEW us, \A p \in Dependencies(inf, c) : ts[p] = us[p]
  PROVE  EvaluateConstraint(inf, ts, c) = EvaluateConstraint(inf, us, c)
  <1>1. ASSUME c.kind \in Reading
        PROVE  TypesInto(inf, ts, c.op) = TypesInto(inf, us, c.op)
    <2>1. \A p \in inf.sources[c.op] : ts[p] = us[p]
      BY <1>1 DEF Reading, Dependencies
    <2> QED
      BY <2>1 DEF TypesInto, TypesAt
  <1>2. ASSUME NEW p \in Dependencies(inf, c)
        PROVE  TypeOf(inf, ts, p) = TypeOf(inf, us, p)
    BY DEF TypeOf
  <1>3. CASE c.kind = "exact"
    <2>1. c.port \in Dependencies(inf, c)
      BY <1>3 DEF Dependencies
    <2> QED
      BY <1>2, <1>3, <2>1 DEF EvaluateConstraint
  <1>4. CASE c.kind \in {"result_output", "unzip_output", "split_output", "access_input"}
    <2>1. In(c.op) \in Dependencies(inf, c)
      BY <1>4 DEF Dependencies
    <2>2. TypeOf(inf, ts, In(c.op)) = TypeOf(inf, us, In(c.op))
      BY <1>2, <2>1
    <2> QED
      BY <1>4, <2>2 DEF EvaluateConstraint, ResultOutput, UnzipOutput, SplitOutput, AccessInput
  <1>5. CASE c.kind \in {"unzip", "split"}
    <2>1. TypesInto(inf, ts, c.op) = TypesInto(inf, us, c.op)
      BY <1>1, <1>5 DEF Reading
    <2>2. UnzipInput(inf, ts, c) = UnzipInput(inf, us, c)
      BY <2>1 DEF UnzipInput
    <2>3. SplitInput(inf, ts, c) = SplitInput(inf, us, c)
      BY <2>1 DEF SplitInput
    <2> QED
      BY <1>5, <2>2, <2>3 DEF EvaluateConstraint
  <1>6. CASE c.kind = "result"
    <2>1. TypesInto(inf, ts, c.op) = TypesInto(inf, us, c.op)
      BY <1>1, <1>6 DEF Reading
    <2>2. In(c.ok) \in Dependencies(inf, c) /\ In(c.err) \in Dependencies(inf, c)
      BY <1>6 DEF Dependencies
    <2>3. /\ TypeOf(inf, ts, In(c.ok)) = TypeOf(inf, us, In(c.ok))
          /\ TypeOf(inf, ts, In(c.err)) = TypeOf(inf, us, In(c.err))
      BY <1>2, <2>2
    <2>4. ResultInput(inf, ts, c) = ResultInput(inf, us, c)
      BY <2>1, <2>3 DEF ResultInput
    <2> QED
      BY <1>6, <2>4 DEF EvaluateConstraint
  <1>7. CASE c.kind = "clone"
    <2> DEFINE targets == {In(c.targets[i]) : i \in DOMAIN c.targets}
    <2>1. TypesInto(inf, ts, c.op) = TypesInto(inf, us, c.op)
      BY <1>1, <1>7 DEF Reading
    <2>2. targets \subseteq Dependencies(inf, c)
      BY <1>7 DEF Dependencies
    <2>3. TypesAt(ts, targets \intersect inf.ports) = TypesAt(us, targets \intersect inf.ports)
      BY <2>2 DEF TypesAt
    <2> HIDE DEF targets
    <2>4. SameOutputType(inf, ts, targets) = SameOutputType(inf, us, targets)
      BY <2>3 DEF SameOutputType
    <2>5. CloneInput(inf, ts, c) = CloneInput(inf, us, c)
      BY <2>1, <2>4 DEF CloneInput, targets
    <2> QED
      BY <1>7, <2>5 DEF EvaluateConstraint
  <1>8. CASE c.kind = "buffer"
    <2> DEFINE hints == {h \in inf.hints : h.buffer = c.op}
    <2>1. TypesInto(inf, ts, c.op) = TypesInto(inf, us, c.op)
      BY <1>1, <1>8 DEF Reading
    <2>2. ASSUME NEW h \in hints
          PROVE  HintedType(inf, ts, h) = HintedType(inf, us, h)
      <3>1. h.used_by \in Dependencies(inf, c)
        BY <1>8 DEF Dependencies
      <3>2. TypeOf(inf, ts, h.used_by) = TypeOf(inf, us, h.used_by)
        BY <1>2, <3>1
      <3> QED
        BY <3>2 DEF HintedType
    <2>3. {HintedType(inf, ts, h) : h \in hints} = {HintedType(inf, us, h) : h \in hints}
      BY <2>2
    <2> HIDE DEF hints
    <2>4. BufferInput(inf, ts, c) = BufferInput(inf, us, c)
      BY <2>1, <2>3 DEF BufferInput, hints
    <2> QED
      BY <1>8, <2>4 DEF EvaluateConstraint
  <1> QED
    BY <1>3, <1>4, <1>5, <1>6, <1>7, <1>8 DEF Kinds

(***************************************************************************)
(* Types                                                                   *)
(***************************************************************************)
LEMMA InferencesStay ==
  ASSUME diagram' = diagram
  PROVE  inferences' = inferences
  BY DEF inferences

LEMMA InitTypes == Init => TypeOK
  <1> SUFFICES ASSUME Init PROVE TypeOK
    OBVIOUS
  <1>1. PICK name \in DOMAIN Diagrams :
            /\ diagram = name
            /\ types = FixedTypes(Diagrams[name])
            /\ unvisited = PortsOf(Constraints(Diagrams[name]) \union Fixed(Diagrams[name]))
            /\ queue = <<>>
            /\ result = CASE ConstrainedTwice(Diagrams[name]) -> "panicked"
                          [] ~ConstrainedTwice(Diagrams[name]) /\ CircularRedirect(Diagrams[name]) -> "CircularRedirect"
                          [] OTHER -> "running"
    BY DEF Init
  <1> DEFINE d == Diagrams[name]
             given == Fixed(d) \union Boundary(d)
  <1>2. /\ inferences.ports = PortsOf(Constraints(d) \union Fixed(d) \union Boundary(d))
        /\ \A p \in inferences.ports :
               types[p] = IF p \in PortsOf(given) THEN (CHOOSE f \in given : f[1] = p)[2] ELSE NoType
    BY <1>1 DEF inferences, Inferences, Build, FixedTypes
  <1>3. ASSUME NEW p \in inferences.ports
        PROVE  types[p] \in Types \union {NoType}
    <2>1. CASE p \in PortsOf(given)
      <3>1. PICK some \in given : some[1] = p
        BY <2>1 DEF PortsOf
      <3>2. (CHOOSE f \in given : f[1] = p) \in given
        BY <3>1
      <3>3. (CHOOSE f \in given : f[1] = p)[2] \in Types
        BY <3>2, DiagramsAreTyped
      <3>4. types[p] = (CHOOSE f \in given : f[1] = p)[2]
        BY <1>2, <2>1
      <3> QED
        BY <3>3, <3>4
    <2>2. CASE p \notin PortsOf(given)
      BY <1>2, <2>2
    <2> QED
      BY <2>1, <2>2
  <1>4. types \in [inferences.ports -> Types \union {NoType}]
    <2>1. types = [p \in inferences.ports |-> types[p]]
      BY <1>1, <1>2 DEF FixedTypes
    <2> QED
      BY <1>3, <2>1
  <1>5. unvisited \subseteq inferences.ports
    BY <1>1, <1>2 DEF PortsOf
  <1>6. result \in {"running", "panicked", "CircularRedirect"}
    BY <1>1
  <1> QED
    <2>1. queue \in Seq(DOMAIN inferences.constraint)
      BY <1>1
    <2> QED
      BY <1>1, <1>4, <1>5, <1>6, <2>1 DEF TypeOK

\* A port is taken from the queue and the ports in first and in rest are left.
LEMMA ProcessTypes ==
  ASSUME TypeOK, diagram' = diagram,
         NEW p, NEW first, NEW rest \in Seq(DOMAIN inferences.constraint), Process(p, first, rest)
  PROVE  /\ types' \in [inferences.ports -> Types \union {NoType}]
         /\ queue' \in Seq(DOMAIN inferences.constraint)
         /\ result' \in {result} \union Errors
  <1> DEFINE type == Evaluate(inferences, types, p)
             notified == Dependents(inferences, p) \ (first \union Elements(rest))
  <1>1. CASE type \in Types \ {types[p]}
             /\ types' = [types EXCEPT ![p] = type]
             /\ (\E order \in Orders(notified) : queue' = rest \o order)
             /\ UNCHANGED result
    <2>1. PICK order \in Orders(notified) : queue' = rest \o order
      BY <1>1
    <2>2. notified \subseteq DOMAIN inferences.constraint /\ IsFiniteSet(notified)
      <3>1. \A q \in DOMAIN inferences.constraint : q \in inferences.ports
        BY BuiltConstraints DEF TypeOK, inferences
      <3>2. notified \subseteq DOMAIN inferences.constraint
        BY DEF Dependents
      <3>3. IsFiniteSet(inferences.ports)
        BY DiagramsAreTyped DEF TypeOK, inferences
      <3> QED
        BY <3>1, <3>2, <3>3, FS_Subset
    <2> HIDE DEF notified
    <2>3. order \in Seq(DOMAIN inferences.constraint)
      BY <2>2, OrderElements
    <2>4. queue' \in Seq(DOMAIN inferences.constraint)
      BY <2>1, <2>3, AppendedElements
    <2> QED
      BY <1>1, <2>4 DEF TypeOK
  <1>2. CASE type \in Errors /\ result' = type /\ queue' = rest /\ UNCHANGED types
    BY <1>2 DEF TypeOK
  <1>3. CASE queue' = rest /\ UNCHANGED <<types, result>>
    BY <1>3 DEF TypeOK
  <1> QED
    BY <1>1, <1>2, <1>3 DEF Process

LEMMA NextTypes == TypeOK /\ [Next]_vars => TypeOK'
  <1> SUFFICES ASSUME TypeOK, [Next]_vars PROVE TypeOK'
    OBVIOUS
  <1>1. ASSUME NEW p \in unvisited, Visit(p) PROVE TypeOK'
    <2>1. queue \in Seq(DOMAIN inferences.constraint) /\ diagram' = diagram
      BY <1>1 DEF TypeOK, Visit
    <2>2. /\ types' \in [inferences.ports -> Types \union {NoType}]
          /\ queue' \in Seq(DOMAIN inferences.constraint)
          /\ result' \in {result} \union Errors
      BY <1>1, <2>1, ProcessTypes DEF Visit
    <2> QED
      BY <1>1, <2>1, <2>2, InferencesStay DEF TypeOK, Visit
  <1>2. CASE Revisit
    <2>1. Tail(queue) \in Seq(DOMAIN inferences.constraint) /\ diagram' = diagram
      BY <1>2, TailElements DEF TypeOK, Revisit
    <2>2. /\ types' \in [inferences.ports -> Types \union {NoType}]
          /\ queue' \in Seq(DOMAIN inferences.constraint)
          /\ result' \in {result} \union Errors
      BY <1>2, <2>1, ProcessTypes DEF Revisit
    <2> QED
      BY <1>2, <2>1, <2>2, InferencesStay DEF TypeOK, Revisit
  <1>3. CASE Settle
    BY <1>3, InferencesStay DEF TypeOK, Settle
  <1>4. CASE UNCHANGED vars
    BY <1>4, InferencesStay DEF TypeOK, vars
  <1> QED
    BY <1>1, <1>2, <1>3, <1>4 DEF Next

\* Every port has a registered type or none yet, and only ports with a
\* constraint are ever notified.
THEOREM TypeCorrect == Spec => []TypeOK
  <1> QED
    BY InitTypes, NextTypes, PTL DEF Spec

(***************************************************************************)
(* A port that is in no part of the queue has heard everything that its    *)
(* constraint has to say.                                                  *)
(***************************************************************************)
Waiting == unvisited \union Elements(queue)
Quiet == \A p \in DOMAIN inferences.constraint : p \in Waiting \/ Agrees(p)

LEMMA ProcessIsQuiet ==
  ASSUME TypeOK, diagram' = diagram, Heard(inferences),
         NEW p \in inferences.ports, NEW first, NEW rest \in Seq(DOMAIN inferences.constraint),
         Process(p, first, rest), result' \notin Errors,
         \A q \in DOMAIN inferences.constraint : q \in first \union Elements(rest) \union {p} \/ Agrees(q)
  PROVE  \A q \in DOMAIN inferences.constraint : q \in first \union Elements(queue') \/ Agrees(q)'
  <1> DEFINE type == Evaluate(inferences, types, p)
             notified == Dependents(inferences, p) \ (first \union Elements(rest))
  <1>0. inferences' = inferences
    BY InferencesStay
  <1>1. CASE type \in {NoType, types[p]} /\ queue' = rest /\ UNCHANGED <<types, result>>
    <2>1. Agrees(p)
      BY <1>1 DEF Agrees
    <2>2. \A q : Agrees(q)' <=> Agrees(q)
      BY <1>0, <1>1 DEF Agrees
    <2> QED
      BY <1>1, <2>1, <2>2
  <1>2. CASE /\ type \in Types \ {types[p]}
             /\ types' = [types EXCEPT ![p] = type]
             /\ \E order \in Orders(notified) : queue' = rest \o order
    <2>1. PICK order \in Orders(notified) : queue' = rest \o order
      BY <1>2
    <2>2. Elements(queue') = Elements(rest) \union notified
      <3>1. \A q \in DOMAIN inferences.constraint : q \in inferences.ports
        BY BuiltConstraints DEF TypeOK, inferences
      <3>2. notified \subseteq DOMAIN inferences.constraint
        BY DEF Dependents
      <3>3. IsFiniteSet(inferences.ports)
        BY DiagramsAreTyped DEF TypeOK, inferences
      <3>4. IsFiniteSet(notified)
        BY <3>1, <3>2, <3>3, FS_Subset
      <3> HIDE DEF notified
      <3>5. order \in Seq(DOMAIN inferences.constraint) /\ Elements(order) = notified
        BY <3>2, <3>4, OrderElements
      <3> QED
        BY <2>1, <3>5, AppendedElements
    <2>3. SUFFICES ASSUME NEW q \in DOMAIN inferences.constraint, q \notin first \union Elements(queue')
                   PROVE  Agrees(q)'
      OBVIOUS
    <2>4. q \notin Dependents(inferences, p) /\ q \notin first \union Elements(rest)
      BY <2>2, <2>3
    <2> DEFINE c == inferences.constraint[q]
    <2>5. c.kind \in Kinds
      BY BuiltConstraints DEF TypeOK, inferences
    <2>6. \A r \in Dependencies(inferences, c) : types[r] = types'[r]
      BY <1>2, <2>4 DEF Dependents, TypeOK
    <2>7. c.kind \in Reading => inferences.sources[c.op] \subseteq Direct(inferences, c.op)
      BY DEF Heard
    <2>8. EvaluateConstraint(inferences, types, c) = EvaluateConstraint(inferences, types', c)
      BY <2>5, <2>6, <2>7, Reads
    <2>9. Evaluate(inferences, types, q) = Evaluate(inferences, types', q)
      BY <2>8 DEF Evaluate
    <2>10. CASE q = p
      <3>1. types'[p] = type
        BY <1>2 DEF TypeOK
      <3> QED
        BY <1>0, <2>9, <2>10, <3>1 DEF Agrees
    <2>11. CASE q # p
      <3>1. types'[q] = types[q]
        BY <1>2, <2>11 DEF TypeOK
      <3>2. Agrees(q)
        BY <2>4, <2>11
      <3> QED
        BY <1>0, <2>9, <3>1, <3>2 DEF Agrees
    <2> QED
      BY <2>10, <2>11
  <1>3. CASE type \in Errors /\ result' = type
    BY <1>3
  <1> QED
    BY <1>1, <1>2, <1>3 DEF Process

\* What is claimed of the ports is claimed while there was no failure: a
\* failure ends the worklist.
Sound ==
    /\ result \in {"running", "settled"} => Quiet
    /\ result = "settled" => Waiting = {}

AllHeard == \A name \in DOMAIN Diagrams : Heard(Inferences[name])

LEMMA InitIsQuiet == Init => Sound
  <1> SUFFICES ASSUME Init PROVE Sound
    OBVIOUS
  <1>1. PICK name \in DOMAIN Diagrams :
            /\ diagram = name
            /\ unvisited = PortsOf(Constraints(Diagrams[name]) \union Fixed(Diagrams[name]))
    BY DEF Init
  <1>2. DOMAIN inferences.constraint = PortsOf(Constraints(Diagrams[name]))
    BY <1>1 DEF inferences, Inferences, Build
  <1>3. result # "settled"
    BY DEF Init
  <1> QED
    BY <1>1, <1>2, <1>3 DEF Sound, Quiet, Waiting, PortsOf

LEMMA NextIsQuiet ==
  ASSUME AllHeard
  PROVE  TypeOK /\ TypeOK' /\ Sound /\ [Next]_vars => Sound'
  <1> SUFFICES ASSUME TypeOK, TypeOK', Sound, [Next]_vars, result' \in {"running", "settled"}
               PROVE  Quiet' /\ (result' = "settled" => Waiting' = {})
    BY DEF Sound
  <1>1. Heard(inferences)
    BY DEF AllHeard, TypeOK, inferences
  <1>2. result' \notin Errors
    BY DEF Errors
  <1>3. ASSUME NEW p \in unvisited, Visit(p)
        PROVE  Quiet' /\ result' # "settled"
    <2>1. Quiet /\ diagram' = diagram /\ p \in inferences.ports /\ result = "running"
      BY <1>3 DEF Visit, Sound, TypeOK
    <2>2. queue \in Seq(DOMAIN inferences.constraint) /\ Process(p, unvisited', queue)
      BY <1>3 DEF Visit, TypeOK
    <2>3. \A q \in DOMAIN inferences.constraint :
              q \in unvisited' \union Elements(queue) \union {p} \/ Agrees(q)
      BY <1>3, <2>1 DEF Visit, Quiet, Waiting
    <2>4. \A q \in DOMAIN inferences.constraint : q \in unvisited' \union Elements(queue') \/ Agrees(q)'
      BY <1>1, <1>2, <2>1, <2>2, <2>3, ProcessIsQuiet
    <2>5. result' # "settled"
      BY <2>1, <2>2 DEF Process, Errors
    <2> QED
      BY <2>1, <2>4, <2>5, InferencesStay DEF Quiet, Waiting, Elements
  <1>4. ASSUME Revisit
        PROVE  Quiet' /\ result' # "settled"
    <2>1. Quiet /\ diagram' = diagram /\ unvisited = {} /\ unvisited' = {} /\ result = "running"
      BY <1>4 DEF Revisit, Sound
    <2>2. /\ Head(queue) \in DOMAIN inferences.constraint
          /\ Tail(queue) \in Seq(DOMAIN inferences.constraint)
          /\ Elements(queue) = {Head(queue)} \union Elements(Tail(queue))
          /\ Process(Head(queue), {}, Tail(queue))
      BY <1>4, TailElements DEF Revisit, TypeOK
    <2>3. Head(queue) \in inferences.ports
      BY <2>2, BuiltConstraints DEF TypeOK, inferences
    <2>4. \A q \in DOMAIN inferences.constraint :
              q \in {} \union Elements(Tail(queue)) \union {Head(queue)} \/ Agrees(q)
      BY <2>1, <2>2 DEF Quiet, Waiting
    <2>5. \A q \in DOMAIN inferences.constraint : q \in {} \union Elements(queue') \/ Agrees(q)'
      BY <1>1, <1>2, <2>1, <2>2, <2>3, <2>4, ProcessIsQuiet
    <2>6. result' # "settled"
      BY <2>1, <2>2 DEF Process, Errors
    <2> QED
      BY <2>1, <2>5, <2>6, InferencesStay DEF Quiet, Waiting, Elements
  <1>5. CASE Settle
    <2>1. Quiet /\ Waiting = {}
      BY <1>5 DEF Settle, Sound, Waiting, Elements
    <2> QED
      BY <1>5, <2>1, InferencesStay DEF Settle, Quiet, Waiting, Agrees, Elements
  <1>6. CASE UNCHANGED vars
    BY <1>6, InferencesStay DEF vars, Sound, Quiet, Waiting, Agrees, Elements
  <1> QED
    BY <1>3, <1>4, <1>5, <1>6 DEF Next

\* If no operation that reads what comes into it is behind a redirection, then
\* no port is left with a type other than what its constraint gives it.
THEOREM PortsAreSettled ==
  ASSUME AllHeard
  PROVE  Spec => []Settled
  <1>1. Init => TypeOK /\ Sound
    BY InitTypes, InitIsQuiet
  <1>2. TypeOK /\ Sound /\ [Next]_vars => TypeOK' /\ Sound'
    BY NextTypes, NextIsQuiet
  <1>3. Sound => Settled
    BY DEF Sound, Quiet, Settled
  <1> QED
    BY <1>1, <1>2, <1>3, PTL DEF Spec
=============================================================================
