------------------------- MODULE DiagramBuildProofs -------------------------
(* What is proved of DiagramBuild for all diagrams and sets of types. *)
EXTENDS DiagramBuild, FiniteSetTheorems, TLAPS

(***************************************************************************)
(* Following redirections                                                  *)
(***************************************************************************)

LEMMA ReachedIsLeast ==
  ASSUME NEW f, NEW t, NEW S, t \in S, Follows(f, S)
  PROVE  Reached(f, t) \subseteq S
  <1>1. SUFFICES ASSUME NEW u \in Reached(f, t)
                 PROVE  u \in S
    OBVIOUS
  <1> DEFINE T == S \intersect Places(f, t)
  <1>2. T \in SUBSET Places(f, t) /\ t \in T
    BY DEF Places
  <1>3. Follows(f, T)
    BY DEF Follows, Places, Elements
  <1> QED
    BY <1>1, <1>2, <1>3 DEF Reached

LEMMA ReachedSelf ==
  ASSUME NEW f, NEW t
  PROVE  t \in Reached(f, t)
  BY DEF Reached, Places

LEMMA ReachedFollows ==
  ASSUME NEW f, NEW t
  PROVE  Follows(f, Reached(f, t))
  <1>1. SUFFICES ASSUME NEW u \in Reached(f, t), u \in DOMAIN f
                 PROVE  f[u] \in Reached(f, t)
    BY DEF Follows
  <1>2. f[u] \in Places(f, t)
    BY <1>1 DEF Places, Elements
  <1>3. ASSUME NEW S \in SUBSET Places(f, t), t \in S, Follows(f, S)
        PROVE  f[u] \in S
    BY <1>1, <1>3 DEF Reached, Follows
  <1> QED
    BY <1>2, <1>3 DEF Reached

LEMMA ReachedStep ==
  ASSUME NEW f, NEW t \in DOMAIN f
  PROVE  Reached(f, t) = {t} \union Reached(f, f[t])
  <1>1. f[t] \in Reached(f, t)
    BY ReachedSelf, ReachedFollows DEF Follows
  <1>2. Reached(f, f[t]) \subseteq Reached(f, t)
    BY <1>1, ReachedFollows, ReachedIsLeast
  <1>3. Follows(f, {t} \union Reached(f, f[t]))
    BY ReachedSelf, ReachedFollows DEF Follows
  <1>4. Reached(f, t) \subseteq {t} \union Reached(f, f[t])
    BY <1>3, ReachedIsLeast
  <1> QED
    BY <1>2, <1>4, ReachedSelf

LEMMA ReachedAtEnd ==
  ASSUME NEW f, NEW t, t \notin DOMAIN f
  PROVE  Reached(f, t) = {t}
  <1>1. Follows(f, {t})
    BY DEF Follows
  <1> QED
    BY <1>1, ReachedIsLeast, ReachedSelf

LEMMA EndsAtEnd ==
  ASSUME NEW f, NEW t, t \notin DOMAIN f
  PROVE  Ends(f, t) = {t}
  BY ReachedAtEnd DEF Ends

LEMMA EndsStep ==
  ASSUME NEW f, NEW t \in DOMAIN f
  PROVE  Ends(f, t) = Ends(f, f[t])
  BY ReachedStep DEF Ends

\* There is at most one end.
LEMMA OneEnd ==
  ASSUME NEW f, NEW t, NEW e \in Ends(f, t), NEW g \in Ends(f, t)
  PROVE  e = g
  <1> DEFINE S == {u \in Reached(f, t) : e \in Reached(f, u)}
  <1>1. e \in Reached(f, t) /\ e \notin DOMAIN f /\ g \in Reached(f, t) /\ g \notin DOMAIN f
    BY DEF Ends
  <1>2. Follows(f, S)
    <2>1. SUFFICES ASSUME NEW u \in S, u \in DOMAIN f
                   PROVE  f[u] \in S
      BY DEF Follows
    <2>2. f[u] \in Reached(f, t)
      BY <2>1, ReachedFollows DEF Follows
    <2>3. e \in Reached(f, f[u])
      BY <1>1, <2>1, ReachedStep
    <2> QED
      BY <2>2, <2>3
  <1>3. t \in S
    BY <1>1, ReachedSelf
  <1>4. g \in S
    BY <1>1, <1>2, <1>3, ReachedIsLeast
  <1>5. Reached(f, g) = {g}
    BY <1>1, ReachedAtEnd
  <1> QED
    BY <1>4, <1>5

\* A place that is reached from itself has no end.
LEMMA NoEndOfACircle ==
  ASSUME NEW f, NEW t \in DOMAIN f, t \in Reached(f, f[t])
  PROVE  Ends(f, t) = {}
  <1> DEFINE S == {u \in Reached(f, t) : t \in Reached(f, u)}
  <1>1. Follows(f, S)
    <2>1. SUFFICES ASSUME NEW u \in S, u \in DOMAIN f
                   PROVE  f[u] \in S
      BY DEF Follows
    <2>2. f[u] \in Reached(f, t)
      BY <2>1, ReachedFollows DEF Follows
    <2>3. t \in Reached(f, f[u])
      BY <2>1, ReachedStep
    <2> QED
      BY <2>2, <2>3
  <1>2. t \in S
    BY ReachedSelf
  <1>3. Reached(f, t) \subseteq S
    BY <1>1, <1>2, ReachedIsLeast
  <1>4. SUFFICES ASSUME NEW e \in Ends(f, t)
                 PROVE  FALSE
    OBVIOUS
  <1>5. e \in S /\ e \notin DOMAIN f
    BY <1>3, <1>4 DEF Ends
  <1>6. Reached(f, e) = {e}
    BY <1>5, ReachedAtEnd
  <1> QED
    BY <1>5, <1>6

LEMMA ReachedTransitive ==
  ASSUME NEW f, NEW t, NEW u \in Reached(f, t)
  PROVE  Reached(f, u) \subseteq Reached(f, t)
  BY ReachedFollows, ReachedIsLeast

\* What is reached remains so when there are more steps.
LEMMA ReachedGrows ==
  ASSUME NEW f, NEW g, NEW t, DOMAIN f \subseteq DOMAIN g, \A u \in DOMAIN f : g[u] = f[u]
  PROVE  Reached(f, t) \subseteq Reached(g, t)
  <1>1. Follows(f, Reached(g, t))
    BY ReachedFollows DEF Follows
  <1> QED
    BY <1>1, ReachedSelf, ReachedIsLeast

LEMMA ResolvedGrows ==
  ASSUME NEW f, NEW g, NEW name, DOMAIN f \subseteq DOMAIN g, \A u \in DOMAIN f : g[u] = f[u],
         Own \notin DOMAIN g, Resolved(f, name)
  PROVE  Resolved(g, name)
  BY ReachedGrows DEF Resolved, Ends

(***************************************************************************)
(* Functions of targets                                                    *)
(***************************************************************************)

\* The outputs in f with their targets
Pairs(f) == UNION {{t} \X f[t] : t \in DOMAIN f}

ArePairs(S) == \A p \in S : p = <<p[1], p[2]>>

LEMMA PairsMembers ==
  ASSUME NEW f, NEW p
  PROVE  p \in Pairs(f) <=> p = <<p[1], p[2]>> /\ p[1] \in DOMAIN f /\ p[2] \in f[p[1]]
  <1>1. ASSUME p \in Pairs(f)
        PROVE  p = <<p[1], p[2]>> /\ p[1] \in DOMAIN f /\ p[2] \in f[p[1]]
    <2>1. PICK t \in DOMAIN f : p \in {t} \X f[t]
      BY <1>1 DEF Pairs
    <2> QED
      BY <2>1
  <1>2. ASSUME p = <<p[1], p[2]>>, p[1] \in DOMAIN f, p[2] \in f[p[1]]
        PROVE  p \in Pairs(f)
    <2>1. p \in {p[1]} \X f[p[1]]
      BY <1>2
    <2> QED
      BY <1>2, <2>1 DEF Pairs
  <1> QED
    BY <1>1, <1>2

LEMMA PairsOfEmpty ==
  Pairs(Empty) = {}
  BY DEF Pairs, Empty

LEMMA PairsOfAdd ==
  ASSUME NEW f, NEW outs, ArePairs(outs)
  PROVE  /\ Pairs(Add(f, outs)) = Pairs(f) \union outs
         /\ DOMAIN Add(f, outs) = DOMAIN f \union Keys(outs)
  <1> DEFINE g == Add(f, outs)
  <1>1. DOMAIN g = DOMAIN f \union Keys(outs)
    BY DEF Add
  <1>2. \A t \in DOMAIN g : g[t] = (IF t \in DOMAIN f THEN f[t] ELSE {}) \union Of(outs, t)
    BY DEF Add
  <1>3. ASSUME NEW p
        PROVE  p \in Pairs(g) <=> p \in Pairs(f) \/ p \in outs
    <2>1. p \in outs => p[1] \in Keys(outs) /\ p[2] \in Of(outs, p[1]) /\ p = <<p[1], p[2]>>
      BY DEF Keys, Of, ArePairs
    <2>2. ASSUME p = <<p[1], p[2]>>, p[2] \in Of(outs, p[1])
          PROVE  p \in outs
      <3>1. PICK q \in outs : q[1] = p[1] /\ q[2] = p[2]
        BY <2>2 DEF Of
      <3> QED
        BY <2>2, <3>1 DEF ArePairs
    <2>3. p \in Pairs(g) <=> p = <<p[1], p[2]>> /\ p[1] \in DOMAIN g /\ p[2] \in g[p[1]]
      BY PairsMembers
    <2>4. p \in Pairs(f) <=> p = <<p[1], p[2]>> /\ p[1] \in DOMAIN f /\ p[2] \in f[p[1]]
      BY PairsMembers
    <2> HIDE DEF g
    <2> QED
      BY <1>1, <1>2, <2>1, <2>2, <2>3, <2>4
  <1> QED
    BY <1>1, <1>3

LEMMA PairsOfWithout ==
  ASSUME NEW f, NEW t
  PROVE  /\ Pairs(Without(f, t)) = {p \in Pairs(f) : p[1] # t}
         /\ DOMAIN Without(f, t) = DOMAIN f \ {t}
         /\ \A u \in DOMAIN f \ {t} : Without(f, t)[u] = f[u]
  <1>1. DOMAIN Without(f, t) = DOMAIN f \ {t}
    BY DEF Without
  <1>2. \A u \in DOMAIN f \ {t} : Without(f, t)[u] = f[u]
    BY DEF Without
  <1>3. ASSUME NEW p
        PROVE  p \in Pairs(Without(f, t)) <=> p \in Pairs(f) /\ p[1] # t
    BY <1>1, <1>2, PairsMembers
  <1> QED
    BY <1>1, <1>2, <1>3

LEMMA PairsOfOverride ==
  ASSUME NEW f, NEW g
  PROVE  /\ DOMAIN Override(f, g) = DOMAIN f \union DOMAIN g
         /\ Pairs(g) \subseteq Pairs(Override(f, g))
         /\ Pairs(Override(f, g)) \subseteq Pairs(f) \union Pairs(g)
         /\ DOMAIN f \intersect DOMAIN g = {} => Pairs(Override(f, g)) = Pairs(f) \union Pairs(g)
  <1> DEFINE h == Override(f, g)
  <1>1. DOMAIN h = DOMAIN f \union DOMAIN g
    BY DEF Override
  <1>2. \A t \in DOMAIN h : h[t] = IF t \in DOMAIN g THEN g[t] ELSE f[t]
    BY DEF Override
  <1> HIDE DEF h
  <1>3. ASSUME NEW p
        PROVE  /\ p \in Pairs(g) => p \in Pairs(h)
               /\ p \in Pairs(h) => p \in Pairs(f) \/ p \in Pairs(g)
               /\ DOMAIN f \intersect DOMAIN g = {} /\ p \in Pairs(f) => p \in Pairs(h)
    BY <1>1, <1>2, PairsMembers
  <1> QED
    BY <1>1, <1>3 DEF h

LEMMA KeysOfUnion ==
  ASSUME NEW S, NEW T
  PROVE  Keys(S \union T) = Keys(S) \union Keys(T)
  BY DEF Keys

\* Disjoint sets of pairs make functions that extend each other.
LEMMA AsFunctionOfUnion ==
  ASSUME NEW S, NEW T, Keys(S) \intersect Keys(T) = {}
  PROVE  /\ AsFunction(S \union T) = Override(AsFunction(S), AsFunction(T))
         /\ DOMAIN AsFunction(S) = Keys(S)
         /\ \A t \in Keys(S) : AsFunction(S \union T)[t] = AsFunction(S)[t]
  <1> DEFINE f == AsFunction(S)  g == AsFunction(T)  h == AsFunction(S \union T)
  <1>1. DOMAIN f = Keys(S) /\ DOMAIN g = Keys(T) /\ DOMAIN h = Keys(S) \union Keys(T)
    BY DEF AsFunction, Keys
  <1>2. ASSUME NEW t \in Keys(S)
        PROVE  h[t] = f[t]
    <2>1. Of(S \union T, t) = Of(S, t)
      BY <1>2 DEF Of, Keys
    <2> QED
      BY <1>1, <1>2, <2>1 DEF AsFunction, Keys
  <1>3. ASSUME NEW t \in Keys(T)
        PROVE  h[t] = g[t]
    <2>1. Of(S \union T, t) = Of(T, t)
      BY <1>3 DEF Of, Keys
    <2> QED
      BY <1>1, <1>3, <2>1 DEF AsFunction, Keys
  <1>4. h = [t \in DOMAIN h |-> h[t]]
    BY DEF AsFunction
  <1> HIDE DEF f, g, h
  <1>5. Override(f, g) = [t \in DOMAIN h |-> h[t]]
    BY <1>1, <1>2, <1>3 DEF Override
  <1> QED
    BY <1>1, <1>2, <1>4, <1>5 DEF f, g, h

(***************************************************************************)
(* Sequences                                                               *)
(***************************************************************************)

Injective(s) == \A i, j \in DOMAIN s : s[i] = s[j] => i = j

LEMMA TailElements ==
  ASSUME NEW S, NEW s \in Seq(S), s # <<>>
  PROVE  /\ Head(s) \in S /\ Head(s) \in Elements(s) /\ Tail(s) \in Seq(S)
         /\ Elements(s) = {Head(s)} \union Elements(Tail(s))
         /\ Injective(s) => Injective(Tail(s)) /\ Head(s) \notin Elements(Tail(s))
  <1>1. /\ Head(s) \in S /\ Tail(s) \in Seq(S) /\ Len(s) \in Nat \ {0}
        /\ Len(Tail(s)) = Len(s) - 1
        /\ \A i \in 1 .. Len(s) - 1 : Tail(s)[i] = s[i + 1]
        /\ Head(s) = s[1] /\ DOMAIN s = 1 .. Len(s) /\ DOMAIN Tail(s) = 1 .. Len(s) - 1
    OBVIOUS
  <1>2. ASSUME NEW i \in 1 .. Len(s)
        PROVE  s[i] \in {Head(s)} \union Elements(Tail(s))
    <2>1. CASE i = 1
      BY <1>1, <2>1
    <2>2. CASE i # 1
      <3>1. i - 1 \in 1 .. Len(s) - 1 /\ Tail(s)[i - 1] = s[i]
        BY <1>1, <2>2
      <3> QED
        BY <1>1, <3>1 DEF Elements
    <2> QED
      BY <2>1, <2>2
  <1>3. Elements(Tail(s)) \subseteq Elements(s)
    BY <1>1 DEF Elements
  <1>4. Head(s) \in Elements(s)
    BY <1>1 DEF Elements
  <1>5. ASSUME Injective(s)
        PROVE  Injective(Tail(s)) /\ Head(s) \notin Elements(Tail(s))
    <2>1. ASSUME NEW i \in 1 .. Len(s) - 1, NEW j \in 1 .. Len(s) - 1, Tail(s)[i] = Tail(s)[j]
          PROVE  i = j
      <3>1. i + 1 \in DOMAIN s /\ j + 1 \in DOMAIN s /\ s[i + 1] = s[j + 1]
        BY <1>1, <2>1
      <3> QED
        BY <1>5, <3>1 DEF Injective
    <2>2. ASSUME NEW i \in 1 .. Len(s) - 1
          PROVE  Tail(s)[i] # Head(s)
      <3>1. i + 1 \in DOMAIN s /\ 1 \in DOMAIN s /\ i + 1 # 1
        BY <1>1, <2>2
      <3> QED
        BY <1>1, <1>5, <3>1 DEF Injective
    <2> QED
      BY <1>1, <2>1, <2>2 DEF Injective, Elements
  <1> QED
    BY <1>1, <1>2, <1>3, <1>4, <1>5 DEF Elements

LEMMA AppendedElements ==
  ASSUME NEW S, NEW s \in Seq(S), NEW t \in Seq(S)
  PROVE  /\ s \o t \in Seq(S) /\ Elements(s \o t) = Elements(s) \union Elements(t)
         /\ Injective(s) /\ Injective(t) /\ Elements(s) \intersect Elements(t) = {} => Injective(s \o t)
  <1>1. /\ s \o t \in Seq(S) /\ Len(s) \in Nat /\ Len(t) \in Nat
        /\ DOMAIN s = 1 .. Len(s) /\ DOMAIN t = 1 .. Len(t) /\ DOMAIN (s \o t) = 1 .. Len(s) + Len(t)
        /\ \A i \in 1 .. Len(s) : (s \o t)[i] = s[i]
        /\ \A i \in 1 .. Len(t) : (s \o t)[Len(s) + i] = t[i]
    OBVIOUS
  <1> DEFINE u == s \o t
  <1>2. ASSUME NEW i \in 1 .. Len(s) + Len(t)
        PROVE  \/ i \in DOMAIN s /\ u[i] = s[i]
               \/ i - Len(s) \in DOMAIN t /\ u[i] = t[i - Len(s)]
    <2>1. CASE i <= Len(s)
      BY <1>1, <2>1
    <2>2. CASE i > Len(s)
      <3>1. i - Len(s) \in 1 .. Len(t) /\ i = Len(s) + (i - Len(s))
        BY <1>1, <2>2
      <3> QED
        BY <1>1, <3>1
    <2> QED
      BY <1>1, <2>1, <2>2
  <1>3. Elements(u) \subseteq Elements(s) \union Elements(t)
    BY <1>1, <1>2 DEF Elements
  <1>4. Elements(s) \subseteq Elements(u)
    <2>1. ASSUME NEW i \in DOMAIN s
          PROVE  i \in DOMAIN u /\ u[i] = s[i]
      BY <1>1, <2>1
    <2> QED
      BY <2>1 DEF Elements
  <1>5. Elements(t) \subseteq Elements(u)
    <2>1. ASSUME NEW i \in DOMAIN t
          PROVE  Len(s) + i \in DOMAIN u /\ u[Len(s) + i] = t[i]
      BY <1>1, <2>1
    <2> QED
      BY <2>1 DEF Elements
  <1>6. ASSUME Injective(s), Injective(t), Elements(s) \intersect Elements(t) = {},
               NEW i \in DOMAIN u, NEW j \in DOMAIN u, u[i] = u[j]
        PROVE  i = j
    <2>1. /\ \/ i \in DOMAIN s /\ u[i] = s[i]
             \/ i - Len(s) \in DOMAIN t /\ u[i] = t[i - Len(s)]
          /\ \/ j \in DOMAIN s /\ u[j] = s[j]
             \/ j - Len(s) \in DOMAIN t /\ u[j] = t[j - Len(s)]
      BY <1>1, <1>2, <1>6
    <2>2. CASE i \in DOMAIN s /\ u[i] = s[i] /\ j \in DOMAIN s /\ u[j] = s[j]
      BY <1>6, <2>2 DEF Injective
    <2>3. CASE /\ i - Len(s) \in DOMAIN t /\ u[i] = t[i - Len(s)]
               /\ j - Len(s) \in DOMAIN t /\ u[j] = t[j - Len(s)]
      <3>1. i - Len(s) = j - Len(s)
        BY <1>6, <2>3 DEF Injective
      <3> QED
        BY <1>1, <1>6, <3>1
    <2>4. CASE i \in DOMAIN s /\ u[i] = s[i] /\ j - Len(s) \in DOMAIN t /\ u[j] = t[j - Len(s)]
      BY <1>6, <2>4 DEF Elements
    <2>5. CASE j \in DOMAIN s /\ u[j] = s[j] /\ i - Len(s) \in DOMAIN t /\ u[i] = t[i - Len(s)]
      BY <1>6, <2>5 DEF Elements
    <2> QED
      BY <2>1, <2>2, <2>3, <2>4, <2>5
  <1> QED
    BY <1>1, <1>3, <1>4, <1>5, <1>6 DEF Injective

LEMMA AppendElement ==
  ASSUME NEW S, NEW s \in Seq(S), NEW e \in S
  PROVE  /\ Append(s, e) \in Seq(S) /\ Elements(Append(s, e)) = Elements(s) \union {e}
         /\ Injective(s) /\ e \notin Elements(s) => Injective(Append(s, e))
  <1>1. PICK t : t = <<e>>
    OBVIOUS
  <1>2. t \in Seq(S) /\ Elements(t) = {e} /\ Injective(t) /\ Append(s, e) = s \o t
    BY <1>1 DEF Elements, Injective
  <1>3. /\ s \o t \in Seq(S) /\ Elements(s \o t) = Elements(s) \union Elements(t)
        /\ Injective(s) /\ Injective(t) /\ Elements(s) \intersect Elements(t) = {} => Injective(s \o t)
    BY <1>2, AppendedElements
  <1> QED
    BY <1>2, <1>3

LEMMA OrdersList ==
  ASSUME NEW S, IsFiniteSet(S), NEW s \in Orders(S)
  PROVE  s \in Seq(S) /\ Elements(s) = S /\ Injective(s)
  <1> DEFINE n == Cardinality(S)
  <1>1. n \in Nat
    BY FS_CardinalityType
  <1>2. s \in [1 .. n -> S] /\ Elements(s) = S
    BY DEF Orders
  <1>3. s \in Seq(S)
    BY <1>1, <1>2
  <1>4. Cardinality(1 .. n) = n /\ IsFiniteSet(1 .. n)
    <2>1. n = 0 => 1 .. n = {}
      BY <1>1
    <2>2. IsFiniteSet(1 .. n) /\ Cardinality(1 .. n) = IF 1 > n THEN 0 ELSE n - 1 + 1
      BY <1>1, FS_Interval
    <2> QED
      BY <1>1, <2>2
  <1>5. s \in Surjection(1 .. n, S)
    BY <1>2 DEF Surjection, Elements
  <1>6. s \in Injection(1 .. n, S)
    BY <1>4, <1>5, FS_SurjSameCardinalityImpliesInj
  <1>7. Injective(s)
    BY <1>2, <1>6 DEF Injection, IsInjective, Injective
  <1> QED
    BY <1>2, <1>3, <1>7

(***************************************************************************)
(* The invariant                                                           *)
(***************************************************************************)

Pending == Pairs(outputs) \union Pairs(fresh) \union Pairs(waiting)

\* The operations inside those of B
Inside(d, B) == UNION {MadeBy(d, o).children : o \in B}

\* The operations B are built, and those inside them or at the root are to be.
BuiltAre(d, B) ==
    /\ B \subseteq AllOps(d)
    /\ unfinished \in Seq(AllOps(d)) /\ Injective(unfinished)
    /\ deferred \in Seq(AllOps(d)) /\ Injective(deferred)
    /\ Elements(unfinished) \intersect Elements(deferred) = {}
    /\ B \intersect (Elements(unfinished) \union Elements(deferred)) = {}
    /\ d.roots \union Inside(d, B) = B \union Elements(unfinished) \union Elements(deferred)

\* What there is was made by them, without a clash.
MadeByBuilt(d, B) ==
    /\ connectors = AsFunction(Targets(d, B))
    /\ buffers = AsFunction(Buffers(d, B))
    /\ \A o \in B :
         /\ ~MadeBy(d, o).error /\ ~Defers(buffers, d.ops[o])
         /\ Keys(MadeBy(d, o).targets) \intersect Keys(Targets(d, B \ {o})) = {}

\* Nothing is left of a round when it is over, and what makes no progress in a
\* round leaves nothing to connect and only operations that were deferred.
RoundsEnd(d) ==
    /\ stage \in {"building", "connecting"} /\ progress \in BOOLEAN
    /\ \A f \in {outputs, fresh, waiting} : \A t \in DOMAIN f : f[t] # {}
    /\ DOMAIN waiting \intersect DOMAIN outputs = {}
    /\ stage = "building" =>
         /\ fresh = Empty /\ waiting = Empty
         /\ progress \/ unfinished # <<>> \/ deferred # <<>> \/ outputs # Empty
         /\ progress \/ \A o \in Elements(deferred) : Defers(buffers, d.ops[o])
    /\ stage = "connecting" =>
         /\ deferred = <<>>
         /\ unfinished = <<>> => waiting = Empty
         /\ progress \/ unfinished # <<>> \/ outputs # Empty
         /\ progress \/ (fresh = Empty /\ \A o \in Elements(unfinished) : Defers(buffers, d.ops[o]))

Redirections(d) == Redirects(ConnectorsOf(d))

\* The outputs that were made
Known(d, B) == Outs(d, B) \union Errors(d, converted)

\* Each pending output is one of those, in one place, from where it leads to the
\* same end as from the target it was made for.
PendingAreKnown(d, B) ==
    /\ Pairs(outputs) \intersect Pairs(fresh) = {}
    /\ Pairs(outputs) \intersect Pairs(waiting) = {}
    /\ Pairs(fresh) \intersect Pairs(waiting) = {}
    /\ \A p, q \in Pending : p[2].from = q[2].from => p = q
    /\ \A p \in Pending : \E s \in Known(d, B) :
         s[2] = p[2] /\ (~Clashing(d) => EndsOf(d, s[1]) = EndsOf(d, p[1]))

\* It is further along the redirections than each that has seen it.
RedirectedOnwards(d, B) ==
    /\ \A r \in redirected : \E s \in Known(d, B) : s[2].from = r[2]
    /\ ~Clashing(d) =>
         \A r \in redirected, p \in Pending : p[2].from = r[2] =>
             r[1] \in DOMAIN Redirections(d) /\ p[1] \in Reached(Redirections(d), Redirections(d)[r[1]])

\* Only what is drawn is connected or converted.
OnlyAsDrawn(d, B) ==
    /\ ArePairs(converted)
    /\ ~Clashing(d) =>
         /\ converted \subseteq MustConvert(d, DrawnInto(d, Sources(d)))
         /\ wired \subseteq UNION {{s[2].from} \X EndsOf(d, s[1]) : s \in Known(d, B)}

Sound(d, B) ==
    /\ BuiltAre(d, B) /\ MadeByBuilt(d, B) /\ RoundsEnd(d) /\ PendingAreKnown(d, B)
    /\ RedirectedOnwards(d, B) /\ OnlyAsDrawn(d, B)
    /\ result = "built" => Pending = {} /\ unfinished = <<>> /\ deferred = <<>>

Refusal == result \in Outcomes \ {"running", "built"}

\* A refused diagram is impossible, otherwise the construction is sound.
SoundOrImpossible ==
    /\ diagram \in DOMAIN Diagrams /\ result \in Outcomes
    /\ IF Refusal THEN Impossible(theDiagram)
       ELSE \E B \in SUBSET AllOps(theDiagram) : Sound(theDiagram, B)

\* An output is connected to its end, which accepts it, with the conversion that
\* it needs.
Connected(d, s) ==
    \E e \in EndsOf(d, s[1]) :
        /\ <<s[2].from, e>> \in wired
        /\ e \in DOMAIN connectors
        /\ connectors[e].kind = "dispose" \/ Accepts(connectors[e], s[2].type)
        /\ MayFail(connectors[e], s[2].type) => <<e, s[2].type>> \in converted

\* Every output that was made is connected or pending on its way to the end.
Complete(d, B) ==
    ~Clashing(d) =>
        \A s \in Known(d, B) :
            \/ \E p \in Pending : p[2] = s[2] /\ EndsOf(d, p[1]) = EndsOf(d, s[1])
            \/ Connected(d, s)

CompleteOrRefused ==
    Refusal \/ \E B \in SUBSET AllOps(theDiagram) : Sound(theDiagram, B) /\ Complete(theDiagram, B)

(***************************************************************************)
(* What the operations make                                                *)
(***************************************************************************)

FromIt(o, outs) == \A x \in outs : x = <<x[1], x[2]>> /\ \E port : x[2].from = <<o, port>>

LEMMA OutIsFromIt ==
  ASSUME NEW o, NEW port, NEW type, NEW target
  PROVE  /\ Out(o, port, type, target) = <<Out(o, port, type, target)[1], Out(o, port, type, target)[2]>>
         /\ Out(o, port, type, target)[2].from = <<o, port>>
         /\ Out(o, port, type, target)[1] = target
  BY DEF Out

LEMMA Making ==
  ASSUME NEW o, NEW s, s.op \in OpNames, s.op = "builder" => s.buffers \subseteq DOMAIN s.slots
  PROVE  /\ FromIt(o, Build(o, s).outs)
         /\ Keys(Build(o, s).buffers) \subseteq Keys(Build(o, s).targets)
         /\ Uses(s) # {} => Build(o, s).children = {} /\ Build(o, s).buffers = {}
  <1> DEFINE Good == /\ FromIt(o, Build(o, s).outs)
                     /\ Keys(Build(o, s).buffers) \subseteq Keys(Build(o, s).targets)
                     /\ Uses(s) # {} => Build(o, s).children = {} /\ Build(o, s).buffers = {}
  <1> USE OutIsFromIt DEF FromIt, Made, Uses
  <1>1. CASE s.op = "node"
    <2>1. Build(o, s) = Node(o, s)
      BY <1>1 DEF Build
    <2> QED
      BY <1>1, <2>1 DEF Node, Streams, Keys
  <1>2. CASE s.op = "fork_clone"
    <2>1. Build(o, s) = ForkClone(o, s)
      BY <1>2 DEF Build
    <2> QED
      BY <1>2, <2>1 DEF ForkClone, Keys
  <1>3. CASE s.op = "fork_result"
    <2>1. Build(o, s) = ForkResult(o, s)
      BY <1>3 DEF Build
    <2> QED
      BY <1>3, <2>1 DEF ForkResult, Keys
  <1>4. CASE s.op = "unzip"
    <2>1. Build(o, s) = Unzip(o, s)
      BY <1>4 DEF Build
    <2> QED
      BY <1>4, <2>1 DEF Unzip, Keys
  <1>5. CASE s.op = "split"
    <2>1. Build(o, s) = Split(o, s)
      BY <1>5 DEF Build
    <2> QED
      BY <1>5, <2>1 DEF Split, Keys
  <1>6. CASE s.op = "transform"
    <2>1. Build(o, s) = Transform(o, s)
      BY <1>6 DEF Build
    <2> QED
      BY <1>6, <2>1 DEF Transform, Keys
  <1>7. CASE s.op = "script"
    <2>1. Build(o, s) = RunScript(o, s)
      BY <1>7 DEF Build
    <2> QED
      BY <1>7, <2>1 DEF RunScript, Keys
  <1>8. CASE s.op = "buffer"
    <2>1. Build(o, s) = Buffer(o, s)
      BY <1>8 DEF Build
    <2> QED
      BY <1>8, <2>1 DEF Buffer, Keys
  <1>9. CASE s.op = "access"
    <2>1. Build(o, s) = BufferAccess(o, s)
      BY <1>9 DEF Build
    <2> QED
      BY <1>9, <2>1 DEF BufferAccess, Keys
  <1>10. CASE s.op = "join"
    <2>1. Build(o, s) = Join(o, s)
      BY <1>10 DEF Build
    <2> QED
      BY <1>10, <2>1 DEF Join, Keys
  <1>11. CASE s.op = "listen"
    <2>1. Build(o, s) = Listen(o, s)
      BY <1>11 DEF Build
    <2> QED
      BY <1>11, <2>1 DEF Listen, Keys
  <1>12. CASE s.op = "stream_out"
    <2>1. Build(o, s) = StreamOut(o, s)
      BY <1>12 DEF Build
    <2> QED
      BY <1>12, <2>1 DEF StreamOut, Keys
  <1>13. CASE s.op = "scope"
    <2>1. Build(o, s) = Scope(o, s)
      BY <1>13 DEF Build
    <2> QED
      BY <1>13, <2>1 DEF Scope, Streams, Keys
  <1>14. CASE s.op = "template"
    <2>1. Build(o, s) = TemplateSection(o, s)
      BY <1>14 DEF Build
    <2> DEFINE into == {<<r[1], RedirectTo(r[2])>> : r \in s.inputs \union s.buffers}
    <2>2. /\ TemplateSection(o, s).outs = {}
          /\ TemplateSection(o, s).buffers = s.buffers
          /\ into \subseteq TemplateSection(o, s).targets
      BY DEF TemplateSection
    <2>3. ASSUME NEW b \in s.buffers
          PROVE  b[1] \in Keys(into)
      <3>1. <<b[1], RedirectTo(b[2])>> \in into /\ <<b[1], RedirectTo(b[2])>>[1] = b[1]
        OBVIOUS
      <3> HIDE DEF into
      <3> QED
        BY <3>1 DEF Keys
    <2> HIDE DEF into
    <2> QED
      BY <1>14, <2>1, <2>2, <2>3 DEF Keys
  <1>15. CASE s.op = "builder"
    <2>1. Build(o, s) = BuilderSection(o, s)
      BY <1>15 DEF Build
    <2> DEFINE slots == {<<i, Slot(s.slots[i])>> : i \in DOMAIN s.slots}
               bufs == {<<b, Own>> : b \in s.buffers}
    <2>2. /\ BuilderSection(o, s).outs
                = {Out(o, k, s.outputs[k], s.connect[k]) : k \in DOMAIN s.connect \intersect DOMAIN s.outputs}
          /\ BuilderSection(o, s).buffers = bufs
          /\ slots \subseteq BuilderSection(o, s).targets
      BY DEF BuilderSection
    <2>3. ASSUME NEW b \in bufs
          PROVE  b[1] \in Keys(slots)
      <3>1. b[1] \in DOMAIN s.slots
        BY <1>15
      <3>2. <<b[1], Slot(s.slots[b[1]])>> \in slots /\ <<b[1], Slot(s.slots[b[1]])>>[1] = b[1]
        BY <3>1
      <3> HIDE DEF slots, bufs
      <3> QED
        BY <3>2 DEF Keys
    <2> HIDE DEF slots, bufs
    <2> QED
      BY <1>15, <2>1, <2>2, <2>3 DEF Keys
  <1> QED
    BY <1>1, <1>2, <1>3, <1>4, <1>5, <1>6, <1>7, <1>8, <1>9, <1>10, <1>11, <1>12, <1>13, <1>14, <1>15
       DEF OpNames

LEMMA SetsOfB ==
  ASSUME NEW d, NEW B, NEW C
  PROVE  /\ B \subseteq C => /\ Targets(d, B) \subseteq Targets(d, C)
                             /\ Outs(d, B) \subseteq Outs(d, C)
                             /\ Buffers(d, B) \subseteq Buffers(d, C)
         /\ Targets(d, B \union C) = Targets(d, B) \union UNION {MadeBy(d, o).targets : o \in C}
         /\ Outs(d, B \union C) = Outs(d, B) \union UNION {MadeBy(d, o).outs : o \in C}
         /\ Buffers(d, B \union C) = Buffers(d, B) \union UNION {MadeBy(d, o).buffers : o \in C}
  BY DEF Targets, Outs, Buffers

LEMMA OneMore ==
  ASSUME NEW d, NEW B, NEW o
  PROVE  /\ Targets(d, B \union {o}) = Targets(d, B) \union MadeBy(d, o).targets
         /\ Outs(d, B \union {o}) = Outs(d, B) \union MadeBy(d, o).outs
         /\ Buffers(d, B \union {o}) = Buffers(d, B) \union MadeBy(d, o).buffers
  BY DEF Targets, Outs, Buffers

LEMMA MakingOf ==
  ASSUME NEW d, WellFormed(d), NEW o \in AllOps(d)
  PROVE  /\ FromIt(o, MadeBy(d, o).outs)
         /\ Keys(MadeBy(d, o).buffers) \subseteq Keys(MadeBy(d, o).targets)
         /\ Uses(d.ops[o]) # {} => MadeBy(d, o).children = {} /\ MadeBy(d, o).buffers = {}
  <1>1. d.ops[o].op \in OpNames /\ (d.ops[o].op = "builder" => d.ops[o].buffers \subseteq DOMAIN d.ops[o].slots)
    BY DEF WellFormed, AllOps
  <1> QED
    BY <1>1, Making DEF MadeBy

\* The outputs of the operations have names of their own.
LEMMA NamesOfOuts ==
  ASSUME NEW d, WellFormed(d), NEW B \in SUBSET AllOps(d)
  PROVE  /\ \A x \in Outs(d, B) : x = <<x[1], x[2]>> /\ \E o \in B \union {"start"} : \E port : x[2].from = <<o, port>>
         /\ \A x, y \in Outs(d, B) : x[2].from = y[2].from => x = y
         /\ Builtin(d).outs # {}
  <1>1. FromIt("start", Builtin(d).outs) /\ Builtin(d).outs = {Out("start", "next", d.request, d.start)}
    BY OutIsFromIt DEF Builtin, Made, FromIt
  <1>2. \A o \in B : FromIt(o, MadeBy(d, o).outs)
    BY MakingOf
  <1>3. ASSUME NEW x \in Outs(d, B)
        PROVE  \/ x \in Builtin(d).outs
               \/ \E o \in B : x \in MadeBy(d, o).outs
    BY DEF Outs
  <1>4. ASSUME NEW x \in Outs(d, B)
        PROVE  x = <<x[1], x[2]>> /\ \E o \in B \union {"start"} : \E port : x[2].from = <<o, port>>
    BY <1>1, <1>2, <1>3 DEF FromIt
  <1>5. ASSUME NEW x \in Outs(d, B), NEW y \in Outs(d, B), x[2].from = y[2].from
        PROVE  x = y
    <2>1. "start" \notin B
      BY DEF WellFormed, AllOps
    <2>2. CASE x \in Builtin(d).outs /\ y \in Builtin(d).outs
      BY <1>1, <2>2
    <2>3. CASE x \in Builtin(d).outs /\ \E o \in B : y \in MadeBy(d, o).outs
      BY <1>1, <1>2, <1>5, <2>1, <2>3 DEF FromIt
    <2>4. CASE y \in Builtin(d).outs /\ \E o \in B : x \in MadeBy(d, o).outs
      BY <1>1, <1>2, <1>5, <2>1, <2>4 DEF FromIt
    <2>5. CASE (\E o \in B : x \in MadeBy(d, o).outs) /\ (\E o \in B : y \in MadeBy(d, o).outs)
      <3>1. PICK o \in B : x \in MadeBy(d, o).outs
        BY <2>5
      <3>2. PICK p \in B : y \in MadeBy(d, p).outs
        BY <2>5
      <3>3. PICK port : x[2].from = <<o, port>>
        BY <1>2, <3>1 DEF FromIt
      <3>4. PICK port2 : y[2].from = <<p, port2>>
        BY <1>2, <3>2 DEF FromIt
      <3>5. o = p
        <4>1. <<o, port>> = <<p, port2>>
          BY <1>5, <3>3, <3>4
        <4> QED
          BY <4>1
      <3>6. o \in DOMAIN d.ops
        BY DEF AllOps
      <3> QED
        BY <1>5, <3>1, <3>2, <3>5, <3>6 DEF WellFormed
    <2> QED
      BY <1>3, <2>2, <2>3, <2>4, <2>5
  <1> QED
    BY <1>1, <1>4, <1>5

\* So have those of the conversions.
LEMMA NamesOfKnown ==
  ASSUME NEW d, WellFormed(d), NEW B \in SUBSET AllOps(d), NEW cs, ArePairs(cs)
  PROVE  /\ ArePairs(Outs(d, B) \union Errors(d, cs))
         /\ \A x \in Outs(d, B), y \in Errors(d, cs) : x[2].from # y[2].from
         /\ \A x, y \in Outs(d, B) \union Errors(d, cs) : x[2].from = y[2].from => x = y
  <1>1. ASSUME NEW y \in Errors(d, cs)
        PROVE  \E c \in cs : /\ y = ConversionError(d, c[1], c[2]) /\ y = <<y[1], y[2]>>
                             /\ y[2].from = <<c[1], c[2], "error">>
    BY DEF Errors, ConversionError
  <1>2. ASSUME NEW x \in Outs(d, B), NEW y \in Errors(d, cs)
        PROVE  x[2].from # y[2].from
    <2>1. PICK o, port : x[2].from = <<o, port>>
      BY NamesOfOuts
    <2>2. PICK a, b : y[2].from = <<a, b, "error">>
      BY <1>1
    <2>3. <<o, port>> # <<a, b, "error">>
      OBVIOUS
    <2> QED
      BY <2>1, <2>2, <2>3
  <1>3. ASSUME NEW x \in Errors(d, cs), NEW y \in Errors(d, cs), x[2].from = y[2].from
        PROVE  x = y
    BY <1>1, <1>3
  <1>4. ArePairs(Outs(d, B) \union Errors(d, cs))
    BY <1>1, NamesOfOuts DEF ArePairs
  <1>5. \A x, y \in Outs(d, B) : x[2].from = y[2].from => x = y
    BY NamesOfOuts
  <1> QED
    BY <1>2, <1>3, <1>4, <1>5

\* What an operation adds is new.
LEMMA NamesAreNew ==
  ASSUME NEW d, WellFormed(d), NEW B \in SUBSET AllOps(d), NEW o \in AllOps(d) \ B, NEW cs, ArePairs(cs)
  PROVE  /\ ArePairs(MadeBy(d, o).outs)
         /\ \A x \in MadeBy(d, o).outs, y \in Outs(d, B) \union Errors(d, cs) : x[2].from # y[2].from
  <1>1. MadeBy(d, o).outs \subseteq Outs(d, B \union {o}) /\ B \union {o} \in SUBSET AllOps(d)
    <2>1. Outs(d, B \union {o}) = Outs(d, B) \union MadeBy(d, o).outs
      BY OneMore
    <2> QED
      BY <2>1
  <1>2. ASSUME NEW x \in MadeBy(d, o).outs, NEW y \in Errors(d, cs)
        PROVE  x[2].from # y[2].from
    BY <1>1, NamesOfKnown
  <1>3. ASSUME NEW x \in MadeBy(d, o).outs, NEW y \in Outs(d, B)
        PROVE  x[2].from # y[2].from
    <2>1. PICK port : x[2].from = <<o, port>>
      BY MakingOf DEF FromIt
    <2>2. PICK p \in B \union {"start"} : \E port2 : y[2].from = <<p, port2>>
      BY NamesOfOuts
    <2>3. PICK port2 : y[2].from = <<p, port2>>
      BY <2>2
    <2>4. o # p
      BY <2>2 DEF WellFormed, AllOps
    <2> QED
      BY <2>1, <2>3, <2>4
  <1>4. ArePairs(MadeBy(d, o).outs)
    BY MakingOf DEF FromIt, ArePairs
  <1> QED
    BY <1>2, <1>3, <1>4

\* What was built is part of the whole, if nothing clashes.
LEMMA PartOfTheWhole ==
  ASSUME NEW d, NEW B \in SUBSET AllOps(d), ~Clashing(d)
  PROVE  /\ DOMAIN AsFunction(Targets(d, B)) \subseteq DOMAIN ConnectorsOf(d)
         /\ \A t \in DOMAIN AsFunction(Targets(d, B)) : ConnectorsOf(d)[t] = AsFunction(Targets(d, B))[t]
  <1> DEFINE rest == UNION {MadeBy(d, o).targets : o \in AllOps(d) \ B}
  <1>1. Targets(d, AllOps(d)) = Targets(d, B) \union rest
    <2>1. B \union (AllOps(d) \ B) = AllOps(d)
      OBVIOUS
    <2>2. Targets(d, B \union (AllOps(d) \ B)) = Targets(d, B) \union rest
      BY SetsOfB
    <2> QED
      BY <2>1, <2>2
  <1>2. Keys(Targets(d, B)) \intersect Keys(rest) = {}
    <2>1. SUFFICES ASSUME NEW p \in Targets(d, B), NEW q \in rest, p[1] = q[1]
                   PROVE  FALSE
      BY DEF Keys
    <2>2. PICK o \in AllOps(d) \ B : q \in MadeBy(d, o).targets
      OBVIOUS
    <2>3. B \subseteq AllOps(d) \ {o}
      BY <2>2
    <2>4. p \in Targets(d, AllOps(d) \ {o})
      BY <2>3, SetsOfB
    <2> QED
      BY <2>1, <2>2, <2>4 DEF Clashing, Keys
  <1> HIDE DEF rest
  <1>3. DOMAIN AsFunction(Targets(d, B) \union rest) = Keys(Targets(d, B) \union rest)
    BY DEF AsFunction
  <1>4. /\ DOMAIN AsFunction(Targets(d, B)) = Keys(Targets(d, B))
        /\ \A t \in Keys(Targets(d, B)) :
              AsFunction(Targets(d, B) \union rest)[t] = AsFunction(Targets(d, B))[t]
    BY <1>2, AsFunctionOfUnion
  <1>5. ConnectorsOf(d) = AsFunction(Targets(d, B) \union rest)
    BY <1>1 DEF ConnectorsOf
  <1>6. Keys(Targets(d, B) \union rest) = Keys(Targets(d, B)) \union Keys(rest)
    BY KeysOfUnion
  <1> QED
    BY <1>3, <1>4, <1>5, <1>6

(***************************************************************************)
(* The steps                                                               *)
(***************************************************************************)

\* What each step keeps
Keeps(d, B) ==
    \/ result' \in Outcomes \ {"running", "built"} /\ Impossible(d)
    \/ /\ result' \in {"running", "built"}
       /\ \E C \in SUBSET AllOps(d) :
             Sound(d, C)' /\ (NothingOverwritten /\ Complete(d, B) => Complete(d, C)')

LEMMA SameConnections ==
  ASSUME NEW d, NEW B \in SUBSET AllOps(d), UNCHANGED connections,
         PendingAreKnown(d, B), RedirectedOnwards(d, B), OnlyAsDrawn(d, B)
  PROVE  PendingAreKnown(d, B)' /\ RedirectedOnwards(d, B)' /\ OnlyAsDrawn(d, B)'
  <1> USE DEF connections
  <1>1. Pending' = Pending /\ Known(d, B)' = Known(d, B)
    BY DEF Pending, Known
  <1>2. PendingAreKnown(d, B)'
    BY <1>1 DEF PendingAreKnown
  <1>3. RedirectedOnwards(d, B)'
    BY <1>1 DEF RedirectedOnwards
  <1>4. OnlyAsDrawn(d, B)'
    BY <1>1 DEF OnlyAsDrawn
  <1> QED
    BY <1>2, <1>3, <1>4

LEMMA SameComplete ==
  ASSUME NEW d, NEW B \in SUBSET AllOps(d), UNCHANGED <<connections, connectors>>, Complete(d, B)
  PROVE  Complete(d, B)'
  BY DEF connections, Complete, Connected, Pending, Known

LEMMA SameBuilt ==
  ASSUME NEW d, NEW B \in SUBSET AllOps(d), UNCHANGED operations, BuiltAre(d, B), MadeByBuilt(d, B)
  PROVE  BuiltAre(d, B)' /\ MadeByBuilt(d, B)'
  BY DEF operations, BuiltAre, MadeByBuilt

LEMMA DeferKeeps ==
  ASSUME NEW d, d = theDiagram, WellFormed(d), NEW B \in SUBSET AllOps(d), Sound(d, B), Defer
  PROVE  Keeps(d, B)
  <1> DEFINE o == Head(unfinished)
  <1> USE DEF Sound
  <1>1. /\ result = "running" /\ stage = "building" /\ unfinished # <<>> /\ Defers(buffers, d.ops[o])
        /\ unfinished' = Tail(unfinished) /\ deferred' = Append(deferred, o)
        /\ UNCHANGED <<diagram, stage, result, connectors, buffers, connections, progress>>
    BY DEF Defer, schema
  <1>2. /\ unfinished \in Seq(AllOps(d)) /\ Injective(unfinished)
        /\ deferred \in Seq(AllOps(d)) /\ Injective(deferred)
        /\ Elements(unfinished) \intersect Elements(deferred) = {}
    BY DEF BuiltAre
  <1>3. /\ o \in AllOps(d) /\ o \in Elements(unfinished)
        /\ unfinished' \in Seq(AllOps(d)) /\ Injective(unfinished')
        /\ Elements(unfinished) = {o} \union Elements(unfinished') /\ o \notin Elements(unfinished')
    BY <1>1, <1>2, TailElements
  <1>5. /\ deferred' \in Seq(AllOps(d)) /\ Elements(deferred') = Elements(deferred) \union {o}
        /\ Injective(deferred') /\ deferred' # <<>>
    <2>1. o \notin Elements(deferred)
      BY <1>2, <1>3
    <2>2. deferred' # <<>>
      BY <1>1, <1>2, <1>3
    <2> QED
      BY <1>1, <1>2, <1>3, <2>1, <2>2, AppendElement
  <1>6. BuiltAre(d, B)'
    BY <1>2, <1>3, <1>5 DEF BuiltAre
  <1>7. MadeByBuilt(d, B)'
    BY <1>1 DEF MadeByBuilt
  <1>8. RoundsEnd(d)'
    <2>1. \A p \in Elements(deferred') : ~progress => Defers(buffers, d.ops[p])
      BY <1>1, <1>5 DEF RoundsEnd
    <2> QED
      BY <1>1, <1>5, <2>1 DEF RoundsEnd, connections
  <1>9. PendingAreKnown(d, B)' /\ RedirectedOnwards(d, B)' /\ OnlyAsDrawn(d, B)'
    BY <1>1, SameConnections
  <1>10. Complete(d, B) => Complete(d, B)'
    BY <1>1, SameComplete
  <1>11. Sound(d, B)'
    BY <1>1, <1>6, <1>7, <1>8, <1>9
  <1> QED
    BY <1>1, <1>10, <1>11 DEF Keeps

LEMMA StartConnectingKeeps ==
  ASSUME NEW d, d = theDiagram, WellFormed(d), NEW B \in SUBSET AllOps(d), Sound(d, B), StartConnecting
  PROVE  Keeps(d, B)
  <1> USE DEF Sound
  <1>1. /\ result = "running" /\ stage = "building" /\ unfinished = <<>> /\ stage' = "connecting"
        /\ unfinished' = deferred /\ deferred' = <<>>
        /\ UNCHANGED <<diagram, result, connectors, buffers, connections, progress>>
    BY DEF StartConnecting
  <1>2. Elements(<<>>) = {} /\ Injective(<<>>) /\ <<>> \in Seq(AllOps(d))
    BY DEF Elements, Injective
  <1>3. BuiltAre(d, B)'
    BY <1>1, <1>2 DEF BuiltAre
  <1>4. MadeByBuilt(d, B)'
    BY <1>1 DEF MadeByBuilt
  <1>5. RoundsEnd(d)'
    BY <1>1 DEF RoundsEnd, connections, Empty
  <1>6. PendingAreKnown(d, B)' /\ RedirectedOnwards(d, B)' /\ OnlyAsDrawn(d, B)'
    BY <1>1, SameConnections
  <1>7. Complete(d, B) => Complete(d, B)'
    BY <1>1, SameComplete
  <1>8. Sound(d, B)'
    BY <1>1, <1>3, <1>4, <1>5, <1>6
  <1> QED
    BY <1>1, <1>7, <1>8 DEF Keeps

\* What is built besides is made without a clash.
LEMMA MadeByOneMore ==
  ASSUME NEW d, WellFormed(d), NEW B \in SUBSET AllOps(d), NEW o \in AllOps(d) \ B, MadeByBuilt(d, B),
         ~MadeBy(d, o).error, ~Defers(buffers, d.ops[o]),
         Keys(MadeBy(d, o).targets) \intersect DOMAIN connectors = {},
         connectors' = Override(connectors, AsFunction(MadeBy(d, o).targets)),
         buffers' = Override(buffers, AsFunction(MadeBy(d, o).buffers))
  PROVE  /\ MadeByBuilt(d, B \union {o})'
         /\ DOMAIN connectors \subseteq DOMAIN connectors'
         /\ \A t \in DOMAIN connectors : connectors'[t] = connectors[t]
  <1> DEFINE T == Targets(d, B)  M == MadeBy(d, o).targets
             U == Buffers(d, B)  N == MadeBy(d, o).buffers
  <1>1. connectors = AsFunction(T) /\ buffers = AsFunction(U)
    BY DEF MadeByBuilt
  <1>2. DOMAIN connectors = Keys(T) /\ DOMAIN buffers = Keys(U)
    BY <1>1 DEF AsFunction
  <1>3. Keys(U) \subseteq Keys(T) /\ Keys(N) \subseteq Keys(M)
    <2>1. \A p \in AllOps(d) : Keys(MadeBy(d, p).buffers) \subseteq Keys(MadeBy(d, p).targets)
      BY MakingOf
    <2>2. ASSUME NEW u \in U
          PROVE  u[1] \in Keys(T)
      <3>1. PICK p \in B : u \in MadeBy(d, p).buffers
        BY DEF Buffers
      <3>2. u[1] \in Keys(MadeBy(d, p).targets)
        BY <2>1, <3>1 DEF Keys
      <3>3. MadeBy(d, p).targets \subseteq T
        BY <3>1 DEF Targets
      <3> QED
        BY <3>2, <3>3 DEF Keys
    <2> QED
      BY <2>1, <2>2 DEF Keys
  <1>4. Keys(T) \intersect Keys(M) = {} /\ Keys(U) \intersect Keys(N) = {}
    BY <1>2, <1>3
  <1>5. Targets(d, B \union {o}) = T \union M /\ Buffers(d, B \union {o}) = U \union N
    BY OneMore
  <1>6. /\ connectors' = AsFunction(Targets(d, B \union {o}))
        /\ \A t \in Keys(T) : connectors'[t] = connectors[t]
        /\ DOMAIN connectors' = Keys(T) \union Keys(M)
    <2>1. /\ AsFunction(T \union M) = Override(AsFunction(T), AsFunction(M))
          /\ \A t \in Keys(T) : AsFunction(T \union M)[t] = AsFunction(T)[t]
          /\ DOMAIN AsFunction(T) = Keys(T)
      BY <1>4, AsFunctionOfUnion
    <2>2. DOMAIN AsFunction(M) = Keys(M)
      BY DEF AsFunction
    <2>4. connectors' = Override(AsFunction(T), AsFunction(M))
      BY <1>1
    <2> HIDE DEF T, M
    <2>3. DOMAIN Override(AsFunction(T), AsFunction(M)) = Keys(T) \union Keys(M)
      BY <2>1, <2>2 DEF Override
    <2> QED
      BY <1>1, <1>5, <2>1, <2>3, <2>4
  <1>7. /\ buffers' = AsFunction(Buffers(d, B \union {o}))
        /\ \A t \in Keys(U) : buffers'[t] = buffers[t]
        /\ DOMAIN buffers' = Keys(U) \union Keys(N)
    <2>1. /\ AsFunction(U \union N) = Override(AsFunction(U), AsFunction(N))
          /\ \A t \in Keys(U) : AsFunction(U \union N)[t] = AsFunction(U)[t]
          /\ DOMAIN AsFunction(U) = Keys(U)
      BY <1>4, AsFunctionOfUnion
    <2>2. DOMAIN AsFunction(N) = Keys(N)
      BY DEF AsFunction
    <2>4. buffers' = Override(AsFunction(U), AsFunction(N))
      BY <1>1
    <2> HIDE DEF U, N
    <2>3. DOMAIN Override(AsFunction(U), AsFunction(N)) = Keys(U) \union Keys(N)
      BY <2>1, <2>2 DEF Override
    <2> QED
      BY <1>1, <1>5, <2>1, <2>3, <2>4
  <1>8. Own \notin DOMAIN buffers'
    <2>1. \A p \in AllOps(d) : Own \notin Keys(MadeBy(d, p).buffers)
      BY DEF WellFormed, AllOps
    <2> QED
      BY <1>7, <2>1 DEF Buffers, Keys
  <1>9. ASSUME NEW s, ~Defers(buffers, s)
        PROVE  ~Defers(buffers', s)
    <2>1. SUFFICES ASSUME NEW b \in Uses(s)
                   PROVE  Resolved(buffers', b)
      BY DEF Defers
    <2>2. Resolved(buffers, b)
      BY <1>9, <2>1 DEF Defers
    <2>3. DOMAIN buffers \subseteq DOMAIN buffers' /\ \A u \in DOMAIN buffers : buffers'[u] = buffers[u]
      BY <1>2, <1>7
    <2> QED
      BY <1>8, <2>2, <2>3, ResolvedGrows
  <1>10. ASSUME NEW p \in B \union {o}
         PROVE  ~MadeBy(d, p).error /\ ~Defers(buffers', d.ops[p])
    BY <1>9 DEF MadeByBuilt
  <1>11. ASSUME NEW p \in B \union {o}
         PROVE  Keys(MadeBy(d, p).targets) \intersect Keys(Targets(d, (B \union {o}) \ {p})) = {}
    <2>1. CASE p = o
      <3>1. (B \union {o}) \ {p} = B
        BY <2>1
      <3> QED
        BY <1>2, <2>1, <3>1
    <2>2. CASE p \in B
      <3>1. (B \union {o}) \ {p} = (B \ {p}) \union {o}
        BY <2>2
      <3>2. Targets(d, (B \ {p}) \union {o}) = Targets(d, B \ {p}) \union M
        BY OneMore
      <3>3. Keys(MadeBy(d, p).targets) \intersect Keys(Targets(d, B \ {p})) = {}
        BY <2>2 DEF MadeByBuilt
      <3>4. Keys(MadeBy(d, p).targets) \subseteq Keys(T)
        BY <2>2 DEF Targets, Keys
      <3>5. Keys(Targets(d, B \ {p}) \union M) = Keys(Targets(d, B \ {p})) \union Keys(M)
        BY KeysOfUnion
      <3> HIDE DEF T, M
      <3> QED
        BY <1>4, <3>1, <3>2, <3>3, <3>4, <3>5
    <2> QED
      BY <2>1, <2>2
  <1> HIDE DEF T, M, U, N
  <1> QED
    BY <1>2, <1>6, <1>7, <1>10, <1>11 DEF MadeByBuilt

LEMMA BuiltIsOneMore ==
  ASSUME NEW d, WellFormed(d), NEW B \in SUBSET AllOps(d), BuiltAre(d, B), unfinished # <<>>,
         NEW o, o = Head(unfinished), NEW order \in Orders(MadeBy(d, o).children),
         unfinished' = Tail(unfinished), deferred' = deferred \o order
  PROVE  o \in AllOps(d) \ B /\ BuiltAre(d, B \union {o})'
  <1> DEFINE inside == MadeBy(d, o).children
  <1>2. /\ unfinished \in Seq(AllOps(d)) /\ Injective(unfinished)
        /\ deferred \in Seq(AllOps(d)) /\ Injective(deferred)
        /\ Elements(unfinished) \intersect Elements(deferred) = {}
        /\ B \intersect (Elements(unfinished) \union Elements(deferred)) = {}
        /\ d.roots \union Inside(d, B) = B \union Elements(unfinished) \union Elements(deferred)
    BY DEF BuiltAre
  <1>3. /\ o \in AllOps(d) /\ o \in Elements(unfinished)
        /\ unfinished' \in Seq(AllOps(d)) /\ Injective(unfinished')
        /\ Elements(unfinished) = {o} \union Elements(unfinished') /\ o \notin Elements(unfinished')
    BY <1>2, TailElements
  <1>4. o \in AllOps(d) \ B
    BY <1>2, <1>3
  <1>5. inside \subseteq AllOps(d) \ d.roots /\ \A p \in B : inside \intersect MadeBy(d, p).children = {}
    BY <1>4 DEF WellFormed, AllOps
  <1>6. IsFiniteSet(inside)
    <2>1. IsFiniteSet(AllOps(d))
      BY DEF WellFormed, AllOps
    <2> QED
      BY <1>5, <2>1, FS_Subset
  <1>7. order \in Seq(inside) /\ Elements(order) = inside /\ Injective(order)
    BY <1>6, OrdersList
  <1>8. order \in Seq(AllOps(d))
    BY <1>5, <1>7
  <1>9. inside \intersect (B \union Elements(unfinished) \union Elements(deferred)) = {}
    <2>1. inside \intersect (d.roots \union Inside(d, B)) = {}
      BY <1>5 DEF Inside
    <2> HIDE DEF inside
    <2> QED
      BY <1>2, <2>1
  <1>10. /\ deferred' \in Seq(AllOps(d)) /\ Elements(deferred') = Elements(deferred) \union inside
         /\ Injective(deferred')
    <2>1. Elements(deferred) \intersect Elements(order) = {}
      BY <1>7, <1>9
    <2> QED
      BY <1>2, <1>7, <1>8, <2>1, AppendedElements
  <1>11. Inside(d, B \union {o}) = Inside(d, B) \union inside
    BY DEF Inside
  <1> HIDE DEF inside
  <1>12. BuiltAre(d, B \union {o})'
    <2>1. B \union {o} \subseteq AllOps(d)
      BY <1>4
    <2>2. Elements(unfinished') \intersect Elements(deferred') = {}
      BY <1>2, <1>3, <1>9, <1>10
    <2>3. (B \union {o}) \intersect (Elements(unfinished') \union Elements(deferred')) = {}
      BY <1>2, <1>3, <1>9, <1>10
    <2>4. d.roots \union Inside(d, B \union {o})
              = (B \union {o}) \union Elements(unfinished') \union Elements(deferred')
      BY <1>2, <1>3, <1>10, <1>11
    <2> QED
      BY <1>3, <1>10, <2>1, <2>2, <2>3, <2>4 DEF BuiltAre
  <1> QED
    BY <1>4, <1>12

LEMMA OutputsOfOneMore ==
  ASSUME NEW d, WellFormed(d), NEW B \in SUBSET AllOps(d), NEW o \in AllOps(d) \ B,
         PendingAreKnown(d, B), RedirectedOnwards(d, B), OnlyAsDrawn(d, B),
         fresh = Empty, waiting = Empty, UNCHANGED <<fresh, waiting, redirected, converted, wired>>,
         outputs' = Add(outputs, MadeBy(d, o).outs),
         DOMAIN connectors \subseteq DOMAIN connectors', \A t \in DOMAIN connectors : connectors'[t] = connectors[t]
  PROVE  /\ PendingAreKnown(d, B \union {o})' /\ RedirectedOnwards(d, B \union {o})'
         /\ OnlyAsDrawn(d, B \union {o})'
         /\ Complete(d, B) => Complete(d, B \union {o})'
  <1> DEFINE C == B \union {o}  new == MadeBy(d, o).outs
  <1>1. ArePairs(converted)
    BY DEF OnlyAsDrawn
  <1>2. ArePairs(new) /\ \A x \in new, y \in Known(d, B) : x[2].from # y[2].from
    BY <1>1, NamesAreNew DEF Known
  <1>3. \A x, y \in new : x[2].from = y[2].from => x = y
    BY DEF WellFormed, AllOps
  <1>4. /\ Pending' = Pending \union new /\ Pairs(outputs') = Pairs(outputs) \union new
        /\ Pairs(fresh') = {} /\ Pairs(waiting') = {}
    <2>1. outputs' = Add(outputs, new)
      OBVIOUS
    <2> HIDE DEF new
    <2>2. Pairs(outputs') = Pairs(outputs) \union new
      BY <1>2, <2>1, PairsOfAdd
    <2>3. Pairs(fresh) = {} /\ Pairs(waiting) = {} /\ fresh' = fresh /\ waiting' = waiting
      BY PairsOfEmpty
    <2> QED
      BY <2>2, <2>3 DEF Pending
  <1>5. Known(d, C)' = Known(d, B) \union new
    <2>1. Outs(d, C) = Outs(d, B) \union new
      BY OneMore
    <2> HIDE DEF C, new
    <2> QED
      BY <2>1 DEF Known
  <1> HIDE DEF C, new
  <1>6. ASSUME NEW p \in Pending
        PROVE  \E s \in Known(d, B) : s[2] = p[2] /\ (~Clashing(d) => EndsOf(d, s[1]) = EndsOf(d, p[1]))
    BY DEF PendingAreKnown
  <1>7. \A p \in Pending, x \in new : p[2].from # x[2].from
    BY <1>2, <1>6
  <1>8. PendingAreKnown(d, C)'
    <2>1. \A p, q \in Pending' : p[2].from = q[2].from => p = q
      BY <1>3, <1>4, <1>7 DEF PendingAreKnown
    <2>2. \A p \in Pending' : \E s \in Known(d, C)' :
             s[2] = p[2] /\ (~Clashing(d) => EndsOf(d, s[1]) = EndsOf(d, p[1]))
      BY <1>4, <1>5, <1>6
    <2> QED
      BY <1>4, <2>1, <2>2 DEF PendingAreKnown
  <1>9. RedirectedOnwards(d, C)'
    <2>1. \A r \in redirected : \E s \in Known(d, B) : s[2].from = r[2]
      BY DEF RedirectedOnwards
    <2>2. \A r \in redirected, x \in new : x[2].from # r[2]
      BY <1>2, <2>1
    <2>3. \A r \in redirected' : \E s \in Known(d, C)' : s[2].from = r[2]
      BY <1>5, <2>1
    <2>4. ASSUME ~Clashing(d), NEW r \in redirected', NEW p \in Pending', p[2].from = r[2]
          PROVE  r[1] \in DOMAIN Redirections(d) /\ p[1] \in Reached(Redirections(d), Redirections(d)[r[1]])
      BY <1>4, <2>2, <2>4 DEF RedirectedOnwards
    <2> QED
      BY <2>3, <2>4 DEF RedirectedOnwards
  <1>10. OnlyAsDrawn(d, C)'
    <2>1. Known(d, B) \subseteq Known(d, C)'
      BY <1>5
    <2>2. UNION {{s[2].from} \X EndsOf(d, s[1]) : s \in Known(d, B)}
              \subseteq UNION {{s[2].from} \X EndsOf(d, s[1]) : s \in Known(d, C)'}
      BY <2>1
    <2> QED
      BY <2>2 DEF OnlyAsDrawn
  <1>11. ASSUME Complete(d, B), ~Clashing(d), NEW s \in Known(d, C)'
         PROVE  \/ \E p \in Pending' : p[2] = s[2] /\ EndsOf(d, p[1]) = EndsOf(d, s[1])
                \/ Connected(d, s)'
    <2>1. CASE s \in new
      BY <1>4, <2>1
    <2>2. CASE s \in Known(d, B) /\ \E p \in Pending : p[2] = s[2] /\ EndsOf(d, p[1]) = EndsOf(d, s[1])
      BY <1>4, <2>2
    <2>3. CASE s \in Known(d, B) /\ Connected(d, s)
      BY <2>3 DEF Connected
    <2> QED
      BY <1>5, <1>11, <2>1, <2>2, <2>3 DEF Complete
  <1>12. Complete(d, B) => Complete(d, C)'
    BY <1>11 DEF Complete
  <1> QED
    BY <1>8, <1>9, <1>10, <1>12 DEF C

LEMMA BuildOperationKeeps ==
  ASSUME NEW d, d = theDiagram, WellFormed(d), NEW B \in SUBSET AllOps(d), Sound(d, B), BuildOperation
  PROVE  Keeps(d, B)
  <1>1. PICK o : o = Head(unfinished)
    OBVIOUS
  <1> DEFINE made == MadeBy(d, o)
  <1> USE DEF Sound
  <1>2. /\ result = "running" /\ stage = "building" /\ unfinished # <<>> /\ ~Defers(buffers, d.ops[o])
        /\ unfinished' = Tail(unfinished)
        /\ UNCHANGED <<diagram, stage, fresh, waiting, redirected, converted, wired>>
    BY <1>1 DEF BuildOperation, schema
  <1>3. o \in AllOps(d) \ B
    <2>1. o \in AllOps(d) /\ o \in Elements(unfinished)
      BY <1>1, <1>2, TailElements DEF BuiltAre
    <2> QED
      BY <2>1 DEF BuiltAre
  <1>4. DOMAIN connectors = Keys(Targets(d, B))
    BY DEF MadeByBuilt, AsFunction
  <1>5. CASE made.error /\ result' = "Refused"
    BY <1>3, <1>5 DEF Keeps, Outcomes, Impossible
  <1>6. CASE Keys(made.targets) \intersect DOMAIN connectors # {} /\ result' = "DuplicateInputsCreated"
    <2>1. B \subseteq AllOps(d) \ {o}
      BY <1>3
    <2>4. Targets(d, B) \subseteq Targets(d, AllOps(d) \ {o})
      BY <2>1, SetsOfB
    <2>2. Keys(Targets(d, B)) \subseteq Keys(Targets(d, AllOps(d) \ {o}))
      BY <2>4 DEF Keys
    <2>3. Clashing(d)
      BY <1>3, <1>4, <1>6, <2>2 DEF Clashing
    <2> QED
      BY <1>6, <2>3 DEF Keeps, Outcomes, Impossible
  <1>7. CASE /\ ~made.error /\ Keys(made.targets) \intersect DOMAIN connectors = {}
             /\ \E order \in Orders(made.children) : deferred' = deferred \o order
             /\ connectors' = Override(connectors, AsFunction(made.targets))
             /\ buffers' = Override(buffers, AsFunction(made.buffers))
             /\ outputs' = Add(outputs, made.outs)
             /\ progress' = TRUE /\ UNCHANGED result
    <2>1. BuiltAre(d, B \union {o})'
      BY <1>1, <1>2, <1>7, BuiltIsOneMore
    <2>2. /\ MadeByBuilt(d, B \union {o})'
          /\ DOMAIN connectors \subseteq DOMAIN connectors'
          /\ \A t \in DOMAIN connectors : connectors'[t] = connectors[t]
      BY <1>2, <1>3, <1>7, MadeByOneMore
    <2>3. fresh = Empty /\ waiting = Empty
      BY <1>2 DEF RoundsEnd
    <2>4. /\ PendingAreKnown(d, B \union {o})' /\ RedirectedOnwards(d, B \union {o})'
          /\ OnlyAsDrawn(d, B \union {o})'
          /\ Complete(d, B) => Complete(d, B \union {o})'
      BY <1>2, <1>3, <1>7, <2>2, <2>3, OutputsOfOneMore
    <2>5. RoundsEnd(d)'
      <3>1. \A t \in DOMAIN outputs' : outputs'[t] # {}
        <4>1. \A t \in DOMAIN outputs : outputs[t] # {}
          BY DEF RoundsEnd
        <4>2. \A t \in Keys(made.outs) : Of(made.outs, t) # {}
          BY DEF Keys, Of
        <4> QED
          BY <1>7, <4>1, <4>2 DEF Add
      <3>2. \A t \in DOMAIN Empty : FALSE
        BY DEF Empty
      <3> QED
        BY <1>2, <1>7, <2>3, <3>1, <3>2 DEF RoundsEnd
    <2>6. Sound(d, B \union {o})'
      BY <1>2, <1>7, <2>1, <2>2, <2>4, <2>5
    <2>7. B \union {o} \in SUBSET AllOps(d) /\ result' = "running"
      BY <1>2, <1>3, <1>7
    <2> QED
      BY <2>4, <2>6, <2>7 DEF Keeps
  <1> QED
    BY <1>1, <1>5, <1>6, <1>7 DEF BuildOperation, Fail

(***************************************************************************)
(* Connecting the outputs of a target                                      *)
(***************************************************************************)

LEMMA AllAreBuilt ==
  ASSUME NEW d, WellFormed(d), NEW B, BuiltAre(d, B), unfinished = <<>>, deferred = <<>>
  PROVE  B = AllOps(d)
  <1>1. Elements(<<>>) = {}
    BY DEF Elements
  <1>2. B \subseteq AllOps(d) /\ d.roots \union Inside(d, B) = B
    BY <1>1 DEF BuiltAre
  <1>3. \A o \in B : MadeBy(d, o).children \subseteq B
    BY <1>2 DEF Inside
  <1> QED
    BY <1>2, <1>3 DEF WellFormed, AllOps

\* An error of a conversion that is drawn goes where an error of the sources goes.
LEMMA KnownAreSources ==
  ASSUME NEW d, NEW B \in SUBSET AllOps(d), ~Clashing(d), OnlyAsDrawn(d, B), NEW s \in Known(d, B)
  PROVE  \E x \in Sources(d) : x[1] = s[1] /\ x[2].type = s[2].type
  <1> DEFINE outs == Outs(d, AllOps(d))
             needed == MustConvert(d, DrawnInto(d, outs))
  <1>1. Sources(d) = outs \union Errors(d, needed)
    BY DEF Sources
  <1>2. CASE s \in Outs(d, B)
    <2>1. s \in outs
      BY <1>2, SetsOfB
    <2> QED
      BY <1>1, <2>1
  <1>3. CASE s \in Errors(d, converted)
    <2>1. PICK c \in converted : s = ConversionError(d, c[1], c[2])
      BY <1>3 DEF Errors
    <2>2. c \in MustConvert(d, DrawnInto(d, Sources(d)))
      BY <2>1 DEF OnlyAsDrawn
    <2>3. PICK x \in Sources(d) : c \in EndsOf(d, x[1]) \X {x[2].type}
      BY <2>2 DEF MustConvert, DrawnInto
    <2>4. CASE x \in outs
      <3>1. c \in needed
        BY <2>2, <2>3, <2>4 DEF MustConvert, DrawnInto
      <3>2. s \in Errors(d, needed)
        BY <2>1, <3>1 DEF Errors
      <3> QED
        BY <1>1, <3>2
    <2>5. CASE x \in Errors(d, needed)
      <3>1. PICK e : x = ConversionError(d, e[1], e[2])
        BY <2>5 DEF Errors
      <3> QED
        BY <2>1, <3>1 DEF ConversionError
    <2> QED
      BY <1>1, <2>3, <2>4, <2>5
  <1> QED
    BY <1>2, <1>3 DEF Known

\* Where a pending output leads to is drawn.
LEMMA PendingIsDrawn ==
  ASSUME NEW d, NEW B \in SUBSET AllOps(d), ~Clashing(d), PendingAreKnown(d, B), OnlyAsDrawn(d, B),
         NEW p \in Pending
  PROVE  /\ EndsOf(d, p[1]) = {} => Impossible(d)
         /\ \A e \in EndsOf(d, p[1]) : <<e, p[2].type>> \in DrawnInto(d, Sources(d))
  <1>1. PICK s \in Known(d, B) : s[2] = p[2] /\ EndsOf(d, s[1]) = EndsOf(d, p[1])
    BY DEF PendingAreKnown
  <1>2. PICK x \in Sources(d) : x[1] = s[1] /\ x[2].type = s[2].type
    BY KnownAreSources
  <1>3. EndsOf(d, x[1]) = EndsOf(d, p[1]) /\ x[2].type = p[2].type
    BY <1>1, <1>2
  <1>4. EndsOf(d, p[1]) = {} => Impossible(d)
    BY <1>2, <1>3 DEF Impossible
  <1>5. ASSUME NEW e \in EndsOf(d, p[1])
        PROVE  <<e, p[2].type>> \in DrawnInto(d, Sources(d))
    BY <1>2, <1>3, <1>5 DEF DrawnInto
  <1> QED
    BY <1>4, <1>5

\* What is connected at t, without a redirection, is drawn to end at t.
LEMMA EndsHere ==
  ASSUME NEW d, NEW B \in SUBSET AllOps(d), ~Clashing(d), MadeByBuilt(d, B), NEW t \in DOMAIN connectors
  PROVE  /\ t \in DOMAIN ConnectorsOf(d) /\ ConnectorsOf(d)[t] = connectors[t]
         /\ connectors[t].kind # "redirect" => EndsOf(d, t) = {t}
         /\ connectors[t].kind = "redirect" =>
               /\ t \in DOMAIN Redirections(d) /\ Redirections(d)[t] = connectors[t].to
               /\ EndsOf(d, t) = EndsOf(d, connectors[t].to)
  <1>1. connectors = AsFunction(Targets(d, B))
    BY DEF MadeByBuilt
  <1>2. t \in DOMAIN ConnectorsOf(d) /\ ConnectorsOf(d)[t] = connectors[t]
    BY <1>1, PartOfTheWhole
  <1>3. /\ t \in DOMAIN Redirections(d) <=> connectors[t].kind = "redirect"
        /\ t \in DOMAIN Redirections(d) => Redirections(d)[t] = connectors[t].to
    BY <1>2 DEF Redirections, Redirects
  <1>4. connectors[t].kind # "redirect" => EndsOf(d, t) = {t}
    BY <1>3, EndsAtEnd DEF EndsOf, Redirections
  <1>5. connectors[t].kind = "redirect" => EndsOf(d, t) = EndsOf(d, connectors[t].to)
    BY <1>3, EndsStep DEF EndsOf, Redirections
  <1> QED
    BY <1>2, <1>3, <1>4, <1>5

Taken(t) == {t} \X outputs[t]

LEMMA TakingOutputs ==
  ASSUME NEW t \in DOMAIN outputs, outputs' = Without(outputs, t)
  PROVE  /\ Taken(t) \subseteq Pairs(outputs) /\ Taken(t) \subseteq Pending
         /\ Pairs(outputs') = Pairs(outputs) \ Taken(t)
         /\ \A p \in Taken(t) : p[1] = t /\ p[2] \in outputs[t] /\ p = <<t, p[2]>>
         /\ \A out \in outputs[t] : <<t, out>> \in Taken(t)
         /\ DOMAIN outputs' = DOMAIN outputs \ {t}
         /\ \A u \in DOMAIN outputs' : outputs'[u] = outputs[u]
  <1>1. /\ \A p \in Taken(t) : p[1] = t /\ p[2] \in outputs[t] /\ p = <<t, p[2]>>
        /\ \A out \in outputs[t] : <<t, out>> \in Taken(t)
    BY DEF Taken
  <1>2. Taken(t) \subseteq Pairs(outputs)
    BY <1>1, PairsMembers
  <1>3. /\ Pairs(outputs') = {p \in Pairs(outputs) : p[1] # t}
        /\ DOMAIN outputs' = DOMAIN outputs \ {t}
        /\ \A u \in DOMAIN outputs' : outputs'[u] = outputs[u]
    BY PairsOfWithout
  <1>4. ASSUME NEW p \in Pairs(outputs)
        PROVE  p[1] = t <=> p \in Taken(t)
    BY <1>1, PairsMembers DEF Taken
  <1> QED
    BY <1>1, <1>2, <1>3, <1>4 DEF Pending

\* Some outputs are taken and others are added, each of them known.
LEMMA PendingMoves ==
  ASSUME NEW d, NEW B \in SUBSET AllOps(d), PendingAreKnown(d, B), NEW t \in DOMAIN outputs,
         outputs' = Without(outputs, t), waiting' = waiting, NEW new, Pairs(fresh') = Pairs(fresh) \union new,
         \A x, y \in new : x[2].from = y[2].from => x = y,
         \A x \in new, p \in Pending \ Taken(t) : x[2].from # p[2].from,
         Known(d, B) \subseteq Known(d, B)',
         \A x \in new : \E s \in Known(d, B)' : s[2] = x[2] /\ (~Clashing(d) => EndsOf(d, s[1]) = EndsOf(d, x[1]))
  PROVE  PendingAreKnown(d, B)' /\ Pending' = (Pending \ Taken(t)) \union new
  <1>1. /\ Taken(t) \subseteq Pairs(outputs) /\ Taken(t) \subseteq Pending
        /\ Pairs(outputs') = Pairs(outputs) \ Taken(t)
    BY TakingOutputs
  <1>2. /\ Pairs(outputs) \intersect Pairs(fresh) = {}
        /\ Pairs(outputs) \intersect Pairs(waiting) = {}
        /\ Pairs(fresh) \intersect Pairs(waiting) = {}
    BY DEF PendingAreKnown
  <1>3. Pending' = (Pending \ Taken(t)) \union new
    BY <1>1, <1>2 DEF Pending
  <1>4. \A p \in Pending \ Taken(t) : p \notin new
    OBVIOUS
  <1>5. /\ Pairs(outputs') \subseteq Pending \ Taken(t)
        /\ Pairs(waiting) \subseteq Pending \ Taken(t)
    BY <1>1, <1>2 DEF Pending
  <1>6. /\ Pairs(outputs') \intersect Pairs(fresh') = {}
        /\ Pairs(outputs') \intersect Pairs(waiting') = {}
        /\ Pairs(fresh') \intersect Pairs(waiting') = {}
    BY <1>1, <1>2, <1>4, <1>5
  <1>7. \A p, q \in Pending' : p[2].from = q[2].from => p = q
    <2>1. \A p, q \in Pending \ Taken(t) : p[2].from = q[2].from => p = q
      BY DEF PendingAreKnown
    <2> QED
      BY <1>3, <2>1
  <1>8. \A p \in Pending \ Taken(t) : \E s \in Known(d, B)' :
          s[2] = p[2] /\ (~Clashing(d) => EndsOf(d, s[1]) = EndsOf(d, p[1]))
    BY DEF PendingAreKnown
  <1>9. \A p \in Pending' : \E s \in Known(d, B)' :
          s[2] = p[2] /\ (~Clashing(d) => EndsOf(d, s[1]) = EndsOf(d, p[1]))
    BY <1>3, <1>8
  <1> QED
    BY <1>3, <1>6, <1>7, <1>9 DEF PendingAreKnown

\* A target that was connected leaves the rest of the round as it is.
LEMMA RoundGoesOn ==
  ASSUME NEW d, RoundsEnd(d), stage = "connecting", NEW t \in DOMAIN outputs, outputs' = Without(outputs, t),
         UNCHANGED <<stage, operations, waiting>>, progress' = TRUE, \A u \in DOMAIN fresh' : fresh'[u] # {}
  PROVE  RoundsEnd(d)'
  <1>1. DOMAIN outputs' = DOMAIN outputs \ {t} /\ \A u \in DOMAIN outputs' : outputs'[u] = outputs[u]
    BY TakingOutputs
  <1> QED
    BY <1>1 DEF RoundsEnd, operations

\* What connecting the outputs of t does besides
Connecting(t) ==
    /\ result = "running" /\ stage = "connecting" /\ t \in DOMAIN outputs
    /\ outputs' = Without(outputs, t)
    /\ UNCHANGED <<diagram, stage, operations>>

\* An output into a target that no operation makes ends there.
LEMMA WaitKeeps ==
  ASSUME NEW d, d = theDiagram, WellFormed(d), NEW B \in SUBSET AllOps(d), Sound(d, B), NEW t, Connecting(t), Wait(t)
  PROVE  Keeps(d, B)
  <1> USE DEF Sound, Connecting
  <1>1. UNCHANGED <<fresh, progress, redirected, converted, wired>>
    BY DEF Wait
  <1>2. BuiltAre(d, B)' /\ MadeByBuilt(d, B)'
    BY SameBuilt
  <1>3. CASE unfinished = <<>> /\ result' = "UnknownOperation"
    <2>1. deferred = <<>>
      BY DEF RoundsEnd
    <2>2. B = AllOps(d)
      BY <1>3, <2>1, AllAreBuilt
    <2>3. t \notin DOMAIN ConnectorsOf(d)
      BY <2>2 DEF Wait, MadeByBuilt, ConnectorsOf
    <2>4. EndsOf(d, t) = {t}
      <3>1. t \notin DOMAIN Redirects(ConnectorsOf(d))
        BY <2>3 DEF Redirects
      <3> QED
        BY <3>1, EndsAtEnd DEF EndsOf
    <2>5. PICK out \in outputs[t] : TRUE
      BY DEF RoundsEnd
    <2>6. <<t, out>> \in Pending
      BY <2>5, TakingOutputs
    <2>7. ~Clashing(d) => <<t, out.type>> \in DrawnInto(d, Sources(d))
      BY <2>4, <2>6, PendingIsDrawn
    <2>8. Impossible(d)
      BY <2>3, <2>7 DEF Impossible
    <2> QED
      BY <1>3, <2>8 DEF Keeps, Outcomes
  <1>4. CASE unfinished # <<>> /\ waiting' = Override(waiting, [u \in {t} |-> outputs[t]]) /\ UNCHANGED result
    <2> DEFINE g == [u \in {t} |-> outputs[t]]
    <2>1. /\ Taken(t) \subseteq Pairs(outputs) /\ Pairs(outputs') = Pairs(outputs) \ Taken(t)
          /\ DOMAIN outputs' = DOMAIN outputs \ {t} /\ \A u \in DOMAIN outputs' : outputs'[u] = outputs[u]
      BY TakingOutputs
    <2>2. Pairs(g) = Taken(t) /\ DOMAIN g = {t}
      BY DEF Pairs, Taken
    <2>3. DOMAIN waiting \intersect DOMAIN outputs = {}
      BY DEF RoundsEnd
    <2> HIDE DEF g
    <2>4. Pairs(waiting') = Pairs(waiting) \union Taken(t) /\ DOMAIN waiting' = DOMAIN waiting \union {t}
      <3>1. DOMAIN waiting \intersect DOMAIN g = {}
        BY <2>2, <2>3
      <3> QED
        BY <1>4, <2>2, <3>1, PairsOfOverride DEF g
    <2>5. Pending' = Pending /\ Known(d, B)' = Known(d, B)
      BY <1>1, <2>1, <2>4 DEF Pending, Known
    <2>6. PendingAreKnown(d, B)'
      BY <1>1, <2>1, <2>4, <2>5 DEF PendingAreKnown
    <2>7. RedirectedOnwards(d, B)'
      BY <1>1, <2>5 DEF RedirectedOnwards
    <2>8. OnlyAsDrawn(d, B)'
      BY <1>1, <2>5 DEF OnlyAsDrawn
    <2>9. Complete(d, B) => Complete(d, B)'
      <3>1. \A s : Connected(d, s)' <=> Connected(d, s)
        BY <1>1 DEF Connected, operations
      <3> QED
        BY <2>5, <3>1 DEF Complete
    <2>10. RoundsEnd(d)'
      <3>1. \A u \in DOMAIN waiting' : waiting'[u] # {}
        BY <1>4 DEF RoundsEnd, Override
      <3> QED
        BY <1>1, <1>4, <2>1, <2>3, <2>4, <3>1 DEF RoundsEnd, operations
    <2>11. Sound(d, B)'
      BY <1>2, <1>4, <2>6, <2>7, <2>8, <2>10
    <2> QED
      BY <1>4, <2>9, <2>11 DEF Keeps
  <1> QED
    BY <1>3, <1>4 DEF Wait, Fail

\* Outputs that are redirected are one step further; one that has been at t
\* before goes around and has no end.
LEMMA RedirectKeeps ==
  ASSUME NEW d, d = theDiagram, WellFormed(d), NEW B \in SUBSET AllOps(d), Sound(d, B), NEW t, Connecting(t),
         Redirect(t)
  PROVE  Keeps(d, B)
  <1> USE DEF Sound, Connecting
  <1>1. /\ t \in DOMAIN connectors /\ connectors[t].kind = "redirect" /\ progress' = TRUE
        /\ UNCHANGED <<waiting, converted, wired>>
    BY DEF Redirect
  <1>2. BuiltAre(d, B)' /\ MadeByBuilt(d, B)'
    BY SameBuilt
  <1> DEFINE to == connectors[t].to
             R == Redirections(d)
             new == {<<to, out>> : out \in outputs[t]}
  <1>3. ~Clashing(d) => t \in DOMAIN R /\ R[t] = to /\ EndsOf(d, t) = EndsOf(d, to)
    BY <1>1, EndsHere
  <1>4. /\ Taken(t) \subseteq Pending
        /\ \A p \in Taken(t) : p[1] = t /\ p[2] \in outputs[t] /\ p = <<t, p[2]>>
        /\ \A out \in outputs[t] : <<t, out>> \in Taken(t)
    BY TakingOutputs
  <1>5. CASE (\E out \in outputs[t] : <<t, out.from>> \in redirected) /\ result' = "CircularRedirect"
    <2>1. PICK out \in outputs[t] : <<t, out.from>> \in redirected
      BY <1>5
    <2>2. <<t, out>> \in Pending
      BY <1>4
    <2>3. ASSUME ~Clashing(d)
          PROVE  Impossible(d)
      <3>1. t \in DOMAIN R /\ t \in Reached(R, R[t])
        BY <2>1, <2>2, <2>3 DEF RedirectedOnwards
      <3>2. EndsOf(d, t) = {}
        BY <3>1, NoEndOfACircle DEF EndsOf, Redirections
      <3> QED
        BY <2>2, <2>3, <3>2, PendingIsDrawn
    <2>4. Impossible(d)
      BY <2>3 DEF Impossible
    <2> QED
      BY <1>5, <2>4 DEF Keeps, Outcomes
  <1>6. CASE /\ redirected' = redirected \union {<<t, out.from>> : out \in outputs[t]}
             /\ fresh' = Add(fresh, new) /\ UNCHANGED result
    <2>1. Known(d, B)' = Known(d, B)
      BY <1>1 DEF Known
    <2>2. ArePairs(new) /\ \A x \in new : x[1] = to /\ x[2] \in outputs[t] /\ x = <<to, x[2]>>
      BY DEF ArePairs
    <2>3. \A out \in outputs[t] : <<to, out>> \in new
      OBVIOUS
    <2> HIDE DEF new
    <2>4. Pairs(fresh') = Pairs(fresh) \union new /\ DOMAIN fresh' = DOMAIN fresh \union Keys(new)
      BY <1>6, <2>2, PairsOfAdd
    <2>5. \A p, q \in Pending : p[2].from = q[2].from => p = q
      BY DEF PendingAreKnown
    <2>6. \A x \in new, p \in Pending \ Taken(t) : x[2].from # p[2].from
      <3>1. SUFFICES ASSUME NEW x \in new, NEW p \in Pending \ Taken(t), x[2].from = p[2].from
                     PROVE  FALSE
        OBVIOUS
      <3>2. <<t, x[2]>> \in Pending /\ <<t, x[2]>> \in Taken(t)
        BY <1>4, <2>2
      <3> QED
        BY <2>5, <3>1, <3>2
    <2>7. \A x, y \in new : x[2].from = y[2].from => x = y
      <3>1. SUFFICES ASSUME NEW x \in new, NEW y \in new, x[2].from = y[2].from
                     PROVE  x = y
        OBVIOUS
      <3>2. <<t, x[2]>> \in Pending /\ <<t, y[2]>> \in Pending
        BY <1>4, <2>2
      <3>3. x[2] = y[2]
        BY <2>5, <3>1, <3>2
      <3> QED
        BY <2>2, <3>3
    <2>8. \A x \in new : \E s \in Known(d, B)' :
            s[2] = x[2] /\ (~Clashing(d) => EndsOf(d, s[1]) = EndsOf(d, x[1]))
      <3>1. SUFFICES ASSUME NEW x \in new
                     PROVE  \E s \in Known(d, B) :
                               s[2] = x[2] /\ (~Clashing(d) => EndsOf(d, s[1]) = EndsOf(d, to))
        BY <2>1, <2>2
      <3>2. <<t, x[2]>> \in Pending
        BY <1>4, <2>2
      <3>3. PICK s \in Known(d, B) : s[2] = x[2] /\ (~Clashing(d) => EndsOf(d, s[1]) = EndsOf(d, t))
        BY <3>2 DEF PendingAreKnown
      <3> QED
        BY <1>3, <3>3
    <2>9. PendingAreKnown(d, B)' /\ Pending' = (Pending \ Taken(t)) \union new
      BY <1>1, <2>1, <2>4, <2>6, <2>7, <2>8, PendingMoves
    <2>10. RedirectedOnwards(d, B)'
      <3>1. ASSUME NEW r \in redirected'
            PROVE  \E s \in Known(d, B) : s[2].from = r[2]
        <4>1. CASE r \in redirected
          BY <4>1 DEF RedirectedOnwards
        <4>2. CASE \E out \in outputs[t] : r = <<t, out.from>>
          <5>1. PICK out \in outputs[t] : r = <<t, out.from>>
            BY <4>2
          <5>2. <<t, out>> \in Pending
            BY <1>4
          <5> QED
            BY <5>1, <5>2 DEF PendingAreKnown
        <4> QED
          BY <1>6, <3>1, <4>1, <4>2
      <3>2. ASSUME ~Clashing(d), NEW r \in redirected', NEW p \in Pending', p[2].from = r[2]
            PROVE  r[1] \in DOMAIN R /\ p[1] \in Reached(R, R[r[1]])
        <4>1. CASE r \in redirected /\ p \in Pending
          BY <3>2, <4>1 DEF RedirectedOnwards
        <4>2. CASE r \in redirected /\ p \in new
          <5>1. <<t, p[2]>> \in Pending /\ p[1] = to
            BY <1>4, <2>2, <4>2
          <5>2. r[1] \in DOMAIN R /\ t \in Reached(R, R[r[1]])
            BY <3>2, <4>2, <5>1 DEF RedirectedOnwards
          <5>3. R[t] \in Reached(R, R[r[1]])
            BY <1>3, <3>2, <5>2, ReachedFollows DEF Follows
          <5> QED
            BY <1>3, <3>2, <5>1, <5>2, <5>3
        <4>3. CASE \E out \in outputs[t] : r = <<t, out.from>>
          <5>1. PICK out \in outputs[t] : r = <<t, out.from>>
            BY <4>3
          <5>2. <<to, out>> \in new
            BY <2>3
          <5>3. p \in new
            BY <2>6, <2>9, <3>2, <5>1, <5>2
          <5>4. r[1] = t /\ p[1] = R[t] /\ t \in DOMAIN R
            BY <1>3, <2>2, <3>2, <5>1, <5>3
          <5> QED
            BY <5>4, ReachedSelf
        <4> QED
          BY <1>6, <2>9, <3>2, <4>1, <4>2, <4>3
      <3> QED
        BY <2>1, <3>1, <3>2 DEF RedirectedOnwards
    <2>11. OnlyAsDrawn(d, B)'
      BY <1>1, <2>1 DEF OnlyAsDrawn
    <2>12. Complete(d, B) => Complete(d, B)'
      <3>1. SUFFICES ASSUME Complete(d, B), ~Clashing(d), NEW s \in Known(d, B)
                     PROVE  \/ \E p \in Pending' : p[2] = s[2] /\ EndsOf(d, p[1]) = EndsOf(d, s[1])
                            \/ Connected(d, s)'
        BY <2>1 DEF Complete
      <3>2. CASE Connected(d, s)
        BY <1>1, <3>2 DEF Connected, operations
      <3>3. CASE \E p \in Pending : p[2] = s[2] /\ EndsOf(d, p[1]) = EndsOf(d, s[1])
        <4>1. PICK p \in Pending : p[2] = s[2] /\ EndsOf(d, p[1]) = EndsOf(d, s[1])
          BY <3>3
        <4>2. CASE p \in Taken(t)
          <5>1. <<to, p[2]>> \in Pending' /\ EndsOf(d, to) = EndsOf(d, s[1])
            BY <1>3, <1>4, <2>3, <2>9, <3>1, <4>1, <4>2
          <5> QED
            BY <4>1, <5>1
        <4>3. CASE p \notin Taken(t)
          BY <2>9, <4>1, <4>3
        <4> QED
          BY <4>2, <4>3
      <3> QED
        BY <3>1, <3>2, <3>3 DEF Complete
    <2>13. RoundsEnd(d)'
      <3>1. \A u \in DOMAIN fresh' : fresh'[u] # {}
        <4>1. \A u \in Keys(new) : Of(new, u) # {}
          BY DEF Keys, Of
        <4> QED
          BY <1>6, <4>1 DEF Add, RoundsEnd
      <3> QED
        BY <1>1, <3>1, RoundGoesOn
    <2>14. Sound(d, B)'
      BY <1>2, <1>6, <2>9, <2>10, <2>11, <2>13
    <2> QED
      BY <1>6, <2>12, <2>14 DEF Keeps
  <1> QED
    BY <1>5, <1>6 DEF Redirect, Fail

\* What is connected at t ends there, as it is drawn.
LEMMA WiredHere ==
  ASSUME NEW d, NEW B \in SUBSET AllOps(d), ~Clashing(d), MadeByBuilt(d, B), PendingAreKnown(d, B),
         NEW t \in DOMAIN outputs, t \in DOMAIN connectors, connectors[t].kind # "redirect"
  PROVE  {<<out.from, t>> : out \in outputs[t]} \subseteq UNION {{s[2].from} \X EndsOf(d, s[1]) : s \in Known(d, B)}
  <1>1. EndsOf(d, t) = {t}
    BY EndsHere
  <1>2. SUFFICES ASSUME NEW out \in outputs[t]
                 PROVE  \E s \in Known(d, B) : <<out.from, t>> \in {s[2].from} \X EndsOf(d, s[1])
    OBVIOUS
  <1>3. <<t, out>> \in Pending
    BY PairsMembers DEF Pending
  <1>4. PICK s \in Known(d, B) : s[2] = out /\ EndsOf(d, s[1]) = EndsOf(d, t)
    BY <1>3 DEF PendingAreKnown
  <1> QED
    BY <1>1, <1>4

LEMMA DisposeKeeps ==
  ASSUME NEW d, d = theDiagram, WellFormed(d), NEW B \in SUBSET AllOps(d), Sound(d, B), NEW t, Connecting(t),
         Dispose(t)
  PROVE  Keeps(d, B)
  <1> USE DEF Sound, Connecting
  <1>1. /\ t \in DOMAIN connectors /\ connectors[t].kind = "dispose" /\ progress' = TRUE
        /\ wired' = wired \union {<<out.from, t>> : out \in outputs[t]}
        /\ UNCHANGED <<result, fresh, waiting, redirected, converted>>
    BY DEF Dispose
  <1>2. BuiltAre(d, B)' /\ MadeByBuilt(d, B)'
    BY SameBuilt
  <1>3. Known(d, B)' = Known(d, B)
    BY <1>1 DEF Known
  <1>4. PendingAreKnown(d, B)' /\ Pending' = Pending \ Taken(t)
    <2>1. PICK none : none = {}
      OBVIOUS
    <2>2. Pairs(fresh') = Pairs(fresh) \union none
      BY <1>1, <2>1
    <2>3. /\ \A x, y \in none : x[2].from = y[2].from => x = y
          /\ \A x \in none, p \in Pending \ Taken(t) : x[2].from # p[2].from
          /\ \A x \in none : \E s \in Known(d, B)' :
                s[2] = x[2] /\ (~Clashing(d) => EndsOf(d, s[1]) = EndsOf(d, x[1]))
          /\ Known(d, B) \subseteq Known(d, B)'
      BY <1>3, <2>1
    <2>4. PendingAreKnown(d, B)' /\ Pending' = (Pending \ Taken(t)) \union none
      BY <1>1, <2>2, <2>3, PendingMoves
    <2> QED
      BY <2>1, <2>4
  <1>5. RedirectedOnwards(d, B)'
    BY <1>1, <1>3, <1>4 DEF RedirectedOnwards
  <1>6. OnlyAsDrawn(d, B)'
    <2>1. ~Clashing(d) => {<<out.from, t>> : out \in outputs[t]}
                              \subseteq UNION {{s[2].from} \X EndsOf(d, s[1]) : s \in Known(d, B)}
      BY <1>1, WiredHere
    <2> QED
      BY <1>1, <1>3, <2>1 DEF OnlyAsDrawn
  <1>7. Complete(d, B) => Complete(d, B)'
    <2>1. SUFFICES ASSUME Complete(d, B), ~Clashing(d), NEW s \in Known(d, B)
                   PROVE  \/ \E p \in Pending' : p[2] = s[2] /\ EndsOf(d, p[1]) = EndsOf(d, s[1])
                          \/ Connected(d, s)'
      BY <1>3 DEF Complete
    <2>2. CASE Connected(d, s)
      BY <1>1, <2>2 DEF Connected, operations
    <2>3. CASE \E p \in Pending : p[2] = s[2] /\ EndsOf(d, p[1]) = EndsOf(d, s[1])
      <3>1. PICK p \in Pending : p[2] = s[2] /\ EndsOf(d, p[1]) = EndsOf(d, s[1])
        BY <2>3
      <3>2. CASE p \in Taken(t)
        <4>1. p[1] = t /\ p[2] \in outputs[t]
          BY <3>2, TakingOutputs
        <4>2. EndsOf(d, s[1]) = {t}
          BY <1>1, <2>1, <3>1, <4>1, EndsHere
        <4>3. <<s[2].from, t>> \in wired'
          BY <1>1, <3>1, <4>1
        <4>4. t \in DOMAIN connectors' /\ connectors'[t].kind = "dispose"
          BY <1>1 DEF operations
        <4>5. ~MayFail(connectors'[t], s[2].type)
          BY <4>4 DEF MayFail
        <4> QED
          BY <4>2, <4>3, <4>4, <4>5 DEF Connected
      <3>3. CASE p \notin Taken(t)
        BY <1>4, <3>1, <3>3
      <3> QED
        BY <3>2, <3>3
    <2> QED
      BY <2>1, <2>2, <2>3 DEF Complete
  <1>8. RoundsEnd(d)'
    <2>1. \A u \in DOMAIN fresh' : fresh'[u] # {}
      BY <1>1 DEF RoundsEnd
    <2> QED
      BY <1>1, <2>1, RoundGoesOn
  <1>9. Sound(d, B)'
    BY <1>1, <1>2, <1>4, <1>5, <1>6, <1>8
  <1> QED
    BY <1>1, <1>7, <1>9 DEF Keeps

\* New conversions have errors of their own.
LEMMA ErrorsAreNew ==
  ASSUME NEW d, WellFormed(d), NEW B \in SUBSET AllOps(d), NEW cs, ArePairs(cs), NEW more, ArePairs(more),
         cs \intersect more = {}
  PROVE  /\ ArePairs(Errors(d, more))
         /\ \A x, y \in Errors(d, more) : x[2].from = y[2].from => x = y
         /\ \A x \in Errors(d, more), y \in Outs(d, B) \union Errors(d, cs) : x[2].from # y[2].from
         /\ Errors(d, cs \union more) = Errors(d, cs) \union Errors(d, more)
  <1>1. /\ ArePairs(Outs(d, B) \union Errors(d, more))
        /\ \A x \in Outs(d, B), y \in Errors(d, more) : x[2].from # y[2].from
        /\ \A x, y \in Outs(d, B) \union Errors(d, more) : x[2].from = y[2].from => x = y
    BY NamesOfKnown
  <1>2. ASSUME NEW x \in Errors(d, more), NEW y \in Errors(d, cs)
        PROVE  x[2].from # y[2].from
    <2>1. PICK c \in more : x[2].from = <<c[1], c[2], "error">>
      BY DEF Errors, ConversionError
    <2>2. PICK e \in cs : y[2].from = <<e[1], e[2], "error">>
      BY DEF Errors, ConversionError
    <2>3. <<c[1], c[2], "error">> = <<e[1], e[2], "error">> => c[1] = e[1] /\ c[2] = e[2]
      OBVIOUS
    <2>4. c # e /\ c = <<c[1], c[2]>> /\ e = <<e[1], e[2]>>
      BY DEF ArePairs
    <2> QED
      BY <2>1, <2>2, <2>3, <2>4
  <1>3. Errors(d, cs \union more) = Errors(d, cs) \union Errors(d, more)
    BY DEF Errors
  <1>4. ArePairs(Errors(d, more))
    BY <1>1 DEF ArePairs
  <1> QED
    BY <1>1, <1>2, <1>3, <1>4

LEMMA ConnectKeeps ==
  ASSUME NEW d, d = theDiagram, WellFormed(d), NEW B \in SUBSET AllOps(d), Sound(d, B), NEW t, Connecting(t),
         Connect(t)
  PROVE  Keeps(d, B)
  <1> USE DEF Sound, Connecting
  <1>1. /\ t \in DOMAIN connectors /\ connectors[t].kind \in {"slot", "cancel"} /\ progress' = TRUE
        /\ UNCHANGED <<waiting, redirected>>
    BY DEF Connect
  <1>2. BuiltAre(d, B)' /\ MadeByBuilt(d, B)'
    BY SameBuilt
  <1>3. /\ Taken(t) \subseteq Pending
        /\ \A p \in Taken(t) : p[1] = t /\ p[2] \in outputs[t]
        /\ \A out \in outputs[t] : <<t, out>> \in Taken(t)
    BY TakingOutputs
  <1>4. ~Clashing(d) => /\ t \in DOMAIN ConnectorsOf(d) /\ ConnectorsOf(d)[t] = connectors[t]
                        /\ EndsOf(d, t) = {t}
    BY <1>1, EndsHere
  <1>5. ASSUME NEW out \in outputs[t], ~Clashing(d)
        PROVE  <<t, out.type>> \in DrawnInto(d, Sources(d))
    <2>1. <<t, out>> \in Pending
      BY <1>3
    <2> QED
      BY <1>4, <1>5, <2>1, PendingIsDrawn
  <1>6. CASE (\E out \in outputs[t] : ~Accepts(connectors[t], out.type)) /\ result' = "TypeMismatch"
    <2>1. PICK out \in outputs[t] : ~Accepts(connectors[t], out.type)
      BY <1>6
    <2>2. ASSUME ~Clashing(d)
          PROVE  Impossible(d)
      <3>1. /\ ConnectorsOf(d)[<<t, out.type>>[1]].kind # "dispose"
            /\ ~Accepts(ConnectorsOf(d)[<<t, out.type>>[1]], <<t, out.type>>[2])
        BY <1>1, <1>4, <2>1, <2>2
      <3>2. <<t, out.type>> \in DrawnInto(d, Sources(d))
        BY <1>5, <2>2
      <3> QED
        BY <3>1, <3>2 DEF Impossible
    <2>3. Impossible(d)
      BY <2>2 DEF Impossible
    <2> QED
      BY <1>6, <2>3 DEF Keeps, Outcomes
  <1> DEFINE more == NewConversions(t)
             new == Errors(d, more)
  <1>7. CASE /\ \A out \in outputs[t] : Accepts(connectors[t], out.type)
             /\ wired' = wired \union {<<out.from, t>> : out \in outputs[t]}
             /\ converted' = converted \union more /\ fresh' = Add(fresh, new) /\ UNCHANGED result
    <2>1. /\ ArePairs(converted) /\ ArePairs(more) /\ converted \intersect more = {}
          /\ \A c \in more : \E out \in outputs[t] : c = <<t, out.type>> /\ MayFail(connectors[t], out.type)
          /\ \A out \in outputs[t] : MayFail(connectors[t], out.type) => <<t, out.type>> \in converted \union more
      BY DEF NewConversions, ArePairs, OnlyAsDrawn
    <2> HIDE DEF more
    <2>2. /\ ArePairs(new)
          /\ \A x, y \in new : x[2].from = y[2].from => x = y
          /\ \A x \in new, y \in Known(d, B) : x[2].from # y[2].from
          /\ Errors(d, converted \union more) = Errors(d, converted) \union new
      BY <2>1, ErrorsAreNew DEF Known
    <2> HIDE DEF new
    <2>3. Known(d, B)' = Known(d, B) \union new
      BY <1>7, <2>2 DEF Known
    <2>4. Pairs(fresh') = Pairs(fresh) \union new
      BY <1>7, <2>2, PairsOfAdd
    <2>5. \A x \in new, p \in Pending : x[2].from # p[2].from
      BY <2>2 DEF PendingAreKnown
    <2>6. PendingAreKnown(d, B)' /\ Pending' = (Pending \ Taken(t)) \union new
      BY <1>1, <2>2, <2>3, <2>4, <2>5, PendingMoves
    <2>7. RedirectedOnwards(d, B)'
      <3>1. \A r \in redirected : \E s \in Known(d, B) : s[2].from = r[2]
        BY DEF RedirectedOnwards
      <3>2. \A r \in redirected, x \in new : x[2].from # r[2]
        BY <2>2, <3>1
      <3>3. \A r \in redirected' : \E s \in Known(d, B)' : s[2].from = r[2]
        BY <1>1, <2>3, <3>1
      <3>4. ASSUME ~Clashing(d), NEW r \in redirected', NEW p \in Pending', p[2].from = r[2]
            PROVE  r[1] \in DOMAIN Redirections(d) /\ p[1] \in Reached(Redirections(d), Redirections(d)[r[1]])
        BY <1>1, <2>6, <3>2, <3>4 DEF RedirectedOnwards
      <3> QED
        BY <3>3, <3>4 DEF RedirectedOnwards
    <2>8. OnlyAsDrawn(d, B)'
      <3>1. ArePairs(converted')
        BY <1>7, <2>1 DEF ArePairs
      <3>2. ASSUME ~Clashing(d)
            PROVE  converted' \subseteq MustConvert(d, DrawnInto(d, Sources(d)))
        <4>1. ASSUME NEW c \in more
              PROVE  c \in MustConvert(d, DrawnInto(d, Sources(d)))
          <5>1. PICK out \in outputs[t] : c = <<t, out.type>> /\ MayFail(connectors[t], out.type)
            BY <2>1
          <5>2. c \in DrawnInto(d, Sources(d)) /\ c[1] = t /\ c[2] = out.type
            BY <1>5, <3>2, <5>1
          <5> QED
            BY <1>4, <3>2, <5>1, <5>2 DEF MustConvert
        <4> QED
          BY <1>7, <3>2, <4>1 DEF OnlyAsDrawn
      <3>3. ASSUME ~Clashing(d)
            PROVE  wired' \subseteq UNION {{s[2].from} \X EndsOf(d, s[1]) : s \in Known(d, B)'}
        <4>1. {<<out.from, t>> : out \in outputs[t]}
                  \subseteq UNION {{s[2].from} \X EndsOf(d, s[1]) : s \in Known(d, B)}
          BY <1>1, <3>3, WiredHere
        <4>2. wired \subseteq UNION {{s[2].from} \X EndsOf(d, s[1]) : s \in Known(d, B)}
          BY <3>3 DEF OnlyAsDrawn
        <4>3. UNION {{s[2].from} \X EndsOf(d, s[1]) : s \in Known(d, B)}
                  \subseteq UNION {{s[2].from} \X EndsOf(d, s[1]) : s \in Known(d, B)'}
          BY <2>3
        <4> QED
          BY <1>7, <4>1, <4>2, <4>3
      <3> QED
        BY <3>1, <3>2, <3>3 DEF OnlyAsDrawn
    <2>9. Complete(d, B) => Complete(d, B)'
      <3>1. SUFFICES ASSUME Complete(d, B), ~Clashing(d), NEW s \in Known(d, B)'
                     PROVE  \/ \E p \in Pending' : p[2] = s[2] /\ EndsOf(d, p[1]) = EndsOf(d, s[1])
                            \/ Connected(d, s)'
        BY DEF Complete
      <3>2. CASE s \in new
        BY <2>6, <3>2
      <3>3. CASE s \in Known(d, B) /\ Connected(d, s)
        BY <1>7, <3>3 DEF Connected, operations
      <3>4. CASE s \in Known(d, B) /\ \E p \in Pending : p[2] = s[2] /\ EndsOf(d, p[1]) = EndsOf(d, s[1])
        <4>1. PICK p \in Pending : p[2] = s[2] /\ EndsOf(d, p[1]) = EndsOf(d, s[1])
          BY <3>4
        <4>2. CASE p \in Taken(t)
          <5>1. p[1] = t /\ s[2] \in outputs[t] /\ EndsOf(d, s[1]) = {t}
            BY <1>3, <1>4, <3>1, <4>1, <4>2
          <5>2. <<s[2].from, t>> \in wired' /\ Accepts(connectors[t], s[2].type)
            BY <1>7, <5>1
          <5>3. MayFail(connectors[t], s[2].type) => <<t, s[2].type>> \in converted'
            BY <1>7, <2>1, <5>1
          <5>4. t \in DOMAIN connectors' /\ connectors' = connectors
            BY <1>1 DEF operations
          <5> QED
            BY <5>1, <5>2, <5>3, <5>4 DEF Connected
        <4>3. CASE p \notin Taken(t)
          BY <2>6, <4>1, <4>3
        <4> QED
          BY <4>2, <4>3
      <3> QED
        BY <2>3, <3>1, <3>2, <3>3, <3>4 DEF Complete
    <2>10. RoundsEnd(d)'
      <3>1. \A u \in DOMAIN fresh' : fresh'[u] # {}
        <4>1. \A u \in Keys(new) : Of(new, u) # {}
          BY DEF Keys, Of
        <4> QED
          BY <1>7, <4>1 DEF Add, RoundsEnd
      <3> QED
        BY <1>1, <3>1, RoundGoesOn
    <2>11. Sound(d, B)'
      BY <1>2, <1>7, <2>6, <2>7, <2>8, <2>10
    <2> QED
      BY <1>7, <2>9, <2>11 DEF Keeps
  <1>8. Errors(d, more) = {ConversionError(theDiagram, c[1], c[2]) : c \in NewConversions(t)}
    BY DEF Errors
  <1> HIDE DEF more
  <1> QED
    BY <1>6, <1>7, <1>8 DEF Connect, Fail, more

\* At the end of a round what is fresh and what waits is taken up.
LEMMA EndRoundKeeps ==
  ASSUME NEW d, d = theDiagram, WellFormed(d), NEW B \in SUBSET AllOps(d), Sound(d, B), EndRound
  PROVE  Keeps(d, B)
  <1> USE DEF Sound
  <1>1. /\ result = "running" /\ stage = "connecting" /\ outputs = Empty /\ deferred = <<>>
        /\ outputs' = Override(fresh, waiting) /\ fresh' = Empty /\ waiting' = Empty
        /\ UNCHANGED <<diagram, operations, redirected, converted, wired>>
    BY DEF EndRound, TakenUp, RoundsEnd
  <1>2. BuiltAre(d, B)' /\ MadeByBuilt(d, B)'
    BY <1>1, SameBuilt
  <1>3. Pairs(outputs) = {} /\ Pairs(fresh') = {} /\ Pairs(waiting') = {}
    BY <1>1, PairsOfEmpty
  <1>4. /\ DOMAIN outputs' = DOMAIN fresh \union DOMAIN waiting
        /\ Pairs(outputs') \subseteq Pairs(fresh) \union Pairs(waiting)
        /\ NothingOverwritten => Pairs(outputs') = Pairs(fresh) \union Pairs(waiting)
    BY <1>1, PairsOfOverride DEF NothingOverwritten
  <1>5. Pending' = Pairs(outputs') /\ Pending' \subseteq Pending /\ (NothingOverwritten => Pending' = Pending)
    BY <1>3, <1>4 DEF Pending
  <1>6. Known(d, B)' = Known(d, B)
    BY <1>1 DEF Known
  <1>7. PendingAreKnown(d, B)'
    BY <1>3, <1>5, <1>6 DEF PendingAreKnown
  <1>8. RedirectedOnwards(d, B)'
    BY <1>1, <1>5, <1>6 DEF RedirectedOnwards
  <1>9. OnlyAsDrawn(d, B)'
    BY <1>1, <1>6 DEF OnlyAsDrawn
  <1>10. NothingOverwritten /\ Complete(d, B) => Complete(d, B)'
    <2>1. \A s : Connected(d, s)' <=> Connected(d, s)
      BY <1>1 DEF Connected, operations
    <2> QED
      BY <1>5, <1>6, <2>1 DEF Complete
  <1>11. /\ \A f \in {outputs', fresh', waiting'} : \A t \in DOMAIN f : f[t] # {}
         /\ DOMAIN waiting' \intersect DOMAIN outputs' = {}
    <2>1. \A t \in DOMAIN Empty : FALSE
      BY DEF Empty
    <2>2. \A t \in DOMAIN outputs' : outputs'[t] # {}
      BY <1>1 DEF Override, RoundsEnd
    <2> QED
      BY <1>1, <2>1, <2>2
  <1>12. CASE fresh # Empty /\ UNCHANGED <<stage, result, progress>>
    <2>1. progress
      BY <1>1, <1>12 DEF RoundsEnd
    <2>2. RoundsEnd(d)'
      BY <1>1, <1>11, <1>12, <2>1 DEF RoundsEnd, operations
    <2>3. Sound(d, B)'
      BY <1>1, <1>2, <1>7, <1>8, <1>9, <1>12, <2>2
    <2> QED
      BY <1>1, <1>10, <1>12, <2>3 DEF Keeps
  <1>13. CASE fresh = Empty /\ ~progress /\ result' = "BuildHalted"
    <2>1. unfinished # <<>> /\ \A o \in Elements(unfinished) : Defers(buffers, d.ops[o])
      BY <1>1, <1>13 DEF RoundsEnd
    <2> DEFINE E == Elements(unfinished)
    <2>2. /\ Elements(deferred) = {} /\ B \union E \subseteq AllOps(d) /\ Head(unfinished) \in E
          /\ d.roots \union Inside(d, B) = B \union E
      <3>1. Elements(<<>>) = {}
        BY DEF Elements
      <3>2. unfinished \in Seq(AllOps(d))
        BY DEF BuiltAre
      <3>3. Head(unfinished) \in E
        BY <2>1, <3>2, TailElements
      <3>4. E \subseteq AllOps(d)
        BY <3>2 DEF Elements
      <3> QED
        BY <1>1, <3>1, <3>3, <3>4 DEF BuiltAre
    <2>3. \A o \in E : MadeBy(d, o).children = {} /\ MadeBy(d, o).buffers = {}
      BY <2>1, <2>2, MakingOf DEF Defers
    <2> HIDE DEF E
    <2>4. B \union E = AllOps(d)
      <3>1. \A o \in B \union E : MadeBy(d, o).children \subseteq B \union E
        BY <2>2, <2>3 DEF Inside
      <3> QED
        BY <2>2, <3>1 DEF WellFormed, AllOps
    <2>5. Buffers(d, B \union E) = Buffers(d, B)
      BY <2>3 DEF Buffers
    <2>6. buffers = AsFunction(Buffers(d, AllOps(d)))
      BY <2>4, <2>5 DEF MadeByBuilt
    <2>7. Impossible(d)
      BY <2>1, <2>2, <2>4, <2>6 DEF Impossible, E
    <2> QED
      BY <1>13, <2>7 DEF Keeps, Outcomes
  <1>14. CASE fresh = Empty /\ progress /\ unfinished = <<>> /\ outputs' = Empty /\ result' = "built"
              /\ UNCHANGED <<stage, progress>>
    <2>1. RoundsEnd(d)'
      BY <1>1, <1>11, <1>14 DEF RoundsEnd, operations
    <2>2. Pending' = {} /\ unfinished' = <<>> /\ deferred' = <<>>
      BY <1>1, <1>5, <1>14, PairsOfEmpty DEF operations
    <2>3. Sound(d, B)'
      BY <1>2, <1>7, <1>8, <1>9, <2>1, <2>2
    <2> QED
      BY <1>10, <1>14, <2>3 DEF Keeps
  <1>15. CASE /\ fresh = Empty /\ progress /\ (unfinished # <<>> \/ outputs' # Empty)
              /\ stage' = "building" /\ progress' = FALSE /\ UNCHANGED result
    <2>1. Elements(deferred') = {}
      BY <1>1 DEF Elements, operations
    <2>2. RoundsEnd(d)'
      BY <1>1, <1>11, <1>15, <2>1 DEF RoundsEnd, operations
    <2>3. Sound(d, B)'
      BY <1>1, <1>2, <1>7, <1>8, <1>9, <1>15, <2>2
    <2> QED
      BY <1>1, <1>10, <1>15, <2>3 DEF Keeps
  <1> QED
    BY <1>1, <1>12, <1>13, <1>14, <1>15 DEF EndRound, Fail

LEMMA ConnectOutputsKeeps ==
  ASSUME NEW d, d = theDiagram, WellFormed(d), NEW B \in SUBSET AllOps(d), Sound(d, B), NEW t \in DOMAIN outputs,
         ConnectOutputs(t)
  PROVE  Keeps(d, B)
  <1>1. Connecting(t) /\ (Wait(t) \/ Redirect(t) \/ Dispose(t) \/ Connect(t))
    BY DEF ConnectOutputs, Connecting
  <1> QED
    BY <1>1, WaitKeeps, RedirectKeeps, DisposeKeeps, ConnectKeeps

(***************************************************************************)
(* The construction is sound, or what it refuses is impossible             *)
(***************************************************************************)

LEMMA InitIsSound ==
  ASSUME Init
  PROVE  /\ diagram \in DOMAIN Diagrams /\ result = "running" /\ deferred = <<>>
         /\ Sound(theDiagram, {}) /\ Complete(theDiagram, {})
  <1>1. PICK name \in DOMAIN Diagrams : LET builtin == Builtin(Diagrams[name]) IN
          /\ diagram = name /\ stage = "building" /\ result = "running"
          /\ unfinished \in Orders(Diagrams[name].roots) /\ deferred = <<>>
          /\ connectors = AsFunction(builtin.targets) /\ buffers = [b \in {} |-> Own]
          /\ outputs = Add(Empty, builtin.outs) /\ fresh = Empty /\ waiting = Empty
          /\ progress = FALSE /\ redirected = {} /\ converted = {} /\ wired = {}
    BY DEF Init
  <1>2. PICK d : d = Diagrams[name]
    OBVIOUS
  <1>3. PICK none : none = {}
    OBVIOUS
  <1>4. WellFormed(d) /\ d = theDiagram
    BY <1>1, <1>2, DiagramsAssumption DEF theDiagram
  <1> DEFINE outs == Builtin(d).outs
  <1>5. BuiltAre(d, none)
    <2>1. d.roots \subseteq AllOps(d) /\ IsFiniteSet(AllOps(d))
      BY <1>4 DEF WellFormed, AllOps
    <2>2. IsFiniteSet(d.roots)
      BY <2>1, FS_Subset
    <2>3. unfinished \in Seq(d.roots) /\ Elements(unfinished) = d.roots /\ Injective(unfinished)
      BY <1>1, <1>2, <2>2, OrdersList
    <2>4. Elements(deferred) = {} /\ Injective(deferred) /\ deferred \in Seq(AllOps(d))
      BY <1>1 DEF Elements, Injective
    <2>5. unfinished \in Seq(AllOps(d))
      BY <2>1, <2>3
    <2>6. Inside(d, none) = {}
      BY <1>3 DEF Inside
    <2> QED
      BY <1>3, <2>3, <2>4, <2>5, <2>6 DEF BuiltAre
  <1>6. Targets(d, none) = Builtin(d).targets /\ Outs(d, none) = outs /\ Buffers(d, none) = {}
    BY <1>3 DEF Targets, Outs, Buffers
  <1>7. MadeByBuilt(d, none)
    <2>1. AsFunction({}) = [b \in {} |-> Own]
      BY DEF AsFunction, Keys
    <2> QED
      BY <1>1, <1>2, <1>3, <1>6, <2>1 DEF MadeByBuilt
  <1>8. none \in SUBSET AllOps(d)
    BY <1>3
  <1>9. /\ ArePairs(outs) /\ outs # {}
        /\ \A x, y \in outs : x[2].from = y[2].from => x = y
    BY <1>4, <1>6, <1>8, NamesOfOuts DEF ArePairs
  <1>10. outputs = Add(Empty, outs) /\ fresh = Empty /\ waiting = Empty
    BY <1>1, <1>2
  <1>11. Known(d, none) = outs
    BY <1>1, <1>6 DEF Known, Errors
  <1> HIDE DEF outs
  <1>12. Pairs(outputs) = outs /\ Pairs(fresh) = {} /\ Pairs(waiting) = {} /\ DOMAIN outputs = Keys(outs)
    <2>1. Pairs(outputs) = Pairs(Empty) \union outs /\ DOMAIN outputs = DOMAIN Empty \union Keys(outs)
      BY <1>9, <1>10, PairsOfAdd
    <2>2. DOMAIN Empty = {}
      BY DEF Empty
    <2> QED
      BY <1>10, <2>1, <2>2, PairsOfEmpty
  <1>13. Pending = outs
    BY <1>12 DEF Pending
  <1>14. RoundsEnd(d)
    <2>1. \A t \in DOMAIN outputs : outputs[t] # {}
      <3>1. \A t \in Keys(outs) : Of(outs, t) # {}
        BY DEF Keys, Of
      <3> QED
        BY <1>10, <3>1 DEF Add, Empty
    <2>2. DOMAIN Empty = {}
      BY DEF Empty
    <2>3. outputs # Empty
      <3>1. Keys(outs) # {}
        BY <1>9 DEF Keys
      <3> QED
        BY <1>12, <2>2, <3>1
    <2>4. Elements(deferred) = {}
      BY <1>1 DEF Elements
    <2> QED
      BY <1>1, <1>10, <2>1, <2>2, <2>3, <2>4 DEF RoundsEnd
  <1>15. PendingAreKnown(d, none)
    BY <1>9, <1>11, <1>12, <1>13 DEF PendingAreKnown
  <1>16. RedirectedOnwards(d, none) /\ OnlyAsDrawn(d, none)
    BY <1>1 DEF RedirectedOnwards, OnlyAsDrawn, ArePairs
  <1>17. Complete(d, none)
    BY <1>11, <1>13 DEF Complete
  <1>18. Sound(d, none)
    BY <1>1, <1>5, <1>7, <1>14, <1>15, <1>16 DEF Sound
  <1> QED
    BY <1>1, <1>3, <1>4, <1>17, <1>18

\* A step is taken only of a running construction.
LEMMA StepKeeps ==
  ASSUME SoundOrImpossible, Next, NEW B \in SUBSET AllOps(theDiagram), Sound(theDiagram, B)
  PROVE  /\ UNCHANGED diagram /\ result = "running" /\ ~Refusal
         /\ \E d : d = theDiagram /\ d = theDiagram' /\ WellFormed(d) /\ Keeps(d, B)
  <1>1. UNCHANGED diagram /\ result = "running"
    BY DEF Next, Defer, BuildOperation, StartConnecting, EndRound, ConnectOutputs
  <1>2. PICK d : d = theDiagram
    OBVIOUS
  <1>3. WellFormed(d) /\ d = theDiagram'
    BY <1>1, <1>2, DiagramsAssumption DEF theDiagram, SoundOrImpossible
  <1>4. B \in SUBSET AllOps(d) /\ Sound(d, B)
    BY <1>2
  <1>5. Keeps(d, B)
    BY <1>2, <1>3, <1>4, DeferKeeps, BuildOperationKeeps, StartConnectingKeeps, EndRoundKeeps, ConnectOutputsKeeps
       DEF Next
  <1> QED
    BY <1>1, <1>2, <1>3, <1>5 DEF Refusal

LEMMA SameSound ==
  ASSUME NEW d, NEW B \in SUBSET AllOps(d), UNCHANGED vars, Sound(d, B)
  PROVE  Sound(d, B)' /\ (Complete(d, B) => Complete(d, B)')
  <1>1. UNCHANGED connections /\ UNCHANGED operations /\ UNCHANGED connectors
    BY DEF vars, connections, operations
  <1>2. PendingAreKnown(d, B)' /\ RedirectedOnwards(d, B)' /\ OnlyAsDrawn(d, B)'
    BY <1>1, SameConnections DEF Sound
  <1>3. BuiltAre(d, B)' /\ MadeByBuilt(d, B)'
    BY <1>1, SameBuilt DEF Sound
  <1>4. RoundsEnd(d)'
    BY DEF RoundsEnd, vars, Sound
  <1>5. result' = "built" => Pending' = {} /\ unfinished' = <<>> /\ deferred' = <<>>
    BY DEF Sound, Pending, vars
  <1>6. Complete(d, B) => Complete(d, B)'
    BY <1>1, SameComplete
  <1> QED
    BY <1>2, <1>3, <1>4, <1>5, <1>6 DEF Sound

LEMMA SoundnessIsKept ==
  ASSUME SoundOrImpossible, [Next]_vars
  PROVE  SoundOrImpossible'
  <1>1. CASE UNCHANGED vars
    <2>1. PICK d : d = theDiagram
      OBVIOUS
    <2>2. d = theDiagram' /\ (Refusal' <=> Refusal) /\ UNCHANGED <<diagram, result>>
      BY <1>1, <2>1 DEF theDiagram, Refusal, vars
    <2>3. CASE Refusal
      BY <2>1, <2>2, <2>3 DEF SoundOrImpossible
    <2>4. CASE ~Refusal
      <3>1. PICK B \in SUBSET AllOps(d) : Sound(d, B)
        BY <2>1, <2>4 DEF SoundOrImpossible
      <3>2. Sound(d, B)'
        BY <1>1, <3>1, SameSound
      <3> QED
        BY <2>1, <2>2, <2>4, <3>1, <3>2 DEF SoundOrImpossible
    <2> QED
      BY <2>3, <2>4
  <1>2. CASE Next
    <2>1. ~Refusal
      BY <1>2 DEF Next, Defer, BuildOperation, StartConnecting, EndRound, ConnectOutputs, Refusal
    <2>2. PICK B \in SUBSET AllOps(theDiagram) : Sound(theDiagram, B)
      BY <2>1 DEF SoundOrImpossible
    <2>3. UNCHANGED diagram
      BY <1>2, <2>2, StepKeeps
    <2>4. PICK d : d = theDiagram /\ d = theDiagram' /\ Keeps(d, B)
      BY <1>2, <2>2, StepKeeps
    <2>5. CASE result' \in Outcomes \ {"running", "built"} /\ Impossible(d)
      <3>1. Refusal'
        BY <2>5 DEF Refusal, Outcomes
      <3> QED
        BY <2>3, <2>4, <2>5, <3>1 DEF SoundOrImpossible, Outcomes
    <2>6. CASE result' \in {"running", "built"} /\ \E C \in SUBSET AllOps(d) : Sound(d, C)'
      <3>1. ~Refusal' /\ result' \in Outcomes
        BY <2>6 DEF Refusal, Outcomes
      <3> QED
        BY <2>3, <2>4, <2>6, <3>1 DEF SoundOrImpossible
    <2> QED
      BY <2>4, <2>5, <2>6 DEF Keeps
  <1> QED
    BY <1>1, <1>2

LEMMA Soundness ==
  Spec => []SoundOrImpossible
  <1>1. Init => SoundOrImpossible
    <2>1. SUFFICES ASSUME Init
                   PROVE  SoundOrImpossible
      OBVIOUS
    <2>2. /\ diagram \in DOMAIN Diagrams /\ result = "running"
          /\ Sound(theDiagram, {}) /\ {} \in SUBSET AllOps(theDiagram)
      BY <2>1, InitIsSound
    <2>3. ~Refusal /\ result \in Outcomes
      BY <2>2 DEF Refusal, Outcomes
    <2> QED
      BY <2>2, <2>3 DEF SoundOrImpossible
  <1>2. SoundOrImpossible /\ [Next]_vars => SoundOrImpossible'
    BY SoundnessIsKept
  <1> QED
    BY <1>1, <1>2, PTL DEF Spec

(***************************************************************************)
(* A diagram that was built                                                *)
(***************************************************************************)

LEMMA BuiltIsAll ==
  ASSUME NEW d, WellFormed(d), NEW B, Sound(d, B), result = "built"
  PROVE  /\ Sound(d, AllOps(d)) /\ Pending = {} /\ ~Clashing(d) /\ connectors = ConnectorsOf(d) /\ B = AllOps(d)
         /\ \A o \in AllOps(d) : ~MadeBy(d, o).error /\ ~Defers(AsFunction(Buffers(d, AllOps(d))), d.ops[o])
  <1>1. B = AllOps(d)
    BY AllAreBuilt DEF Sound
  <1>2. MadeByBuilt(d, AllOps(d))
    BY <1>1 DEF Sound
  <1>3. ~Clashing(d)
    BY <1>2 DEF MadeByBuilt, Clashing
  <1> QED
    BY <1>1, <1>2, <1>3 DEF Sound, MadeByBuilt, ConnectorsOf

\* Nothing is pending any more, so all that was made is connected to its end.
LEMMA AllConnected ==
  ASSUME NEW d, WellFormed(d), NEW B, Sound(d, B), Complete(d, B), result = "built"
  PROVE  \A s \in Known(d, AllOps(d)) :
            /\ Connected(d, s)
            /\ \A e \in EndsOf(d, s[1]) :
                 /\ EndsOf(d, s[1]) = {e} /\ <<s[2].from, e>> \in wired
                 /\ e \in DOMAIN ConnectorsOf(d)
                 /\ ConnectorsOf(d)[e].kind = "dispose" \/ Accepts(ConnectorsOf(d)[e], s[2].type)
                 /\ MayFail(ConnectorsOf(d)[e], s[2].type) => <<e, s[2].type>> \in converted
  <1>1. Pending = {} /\ ~Clashing(d) /\ connectors = ConnectorsOf(d) /\ B = AllOps(d)
    BY BuiltIsAll
  <1>2. SUFFICES ASSUME NEW s \in Known(d, AllOps(d))
                 PROVE  /\ Connected(d, s)
                        /\ \A e \in EndsOf(d, s[1]) :
                             /\ EndsOf(d, s[1]) = {e} /\ <<s[2].from, e>> \in wired
                             /\ e \in DOMAIN connectors
                             /\ connectors[e].kind = "dispose" \/ Accepts(connectors[e], s[2].type)
                             /\ MayFail(connectors[e], s[2].type) => <<e, s[2].type>> \in converted
    BY <1>1
  <1>3. Connected(d, s)
    BY <1>1, <1>2 DEF Complete
  <1>4. \A e, g \in EndsOf(d, s[1]) : e = g
    BY OneEnd DEF EndsOf
  <1> QED
    BY <1>3, <1>4 DEF Connected

\* All conversions that are needed were made.
LEMMA AllConverted ==
  ASSUME NEW d, WellFormed(d), NEW B, Sound(d, B), Complete(d, B), result = "built"
  PROVE  /\ converted = MustConvert(d, DrawnInto(d, Sources(d)))
         /\ Sources(d) \subseteq Known(d, AllOps(d))
  <1>1. ~Clashing(d) /\ Sound(d, AllOps(d))
    BY BuiltIsAll
  <1>2. converted \subseteq MustConvert(d, DrawnInto(d, Sources(d)))
    BY <1>1 DEF Sound, OnlyAsDrawn
  <1>3. ASSUME NEW outs \in SUBSET Known(d, AllOps(d))
        PROVE  MustConvert(d, DrawnInto(d, outs)) \subseteq converted
    <2>1. SUFFICES ASSUME NEW c \in MustConvert(d, DrawnInto(d, outs))
                   PROVE  c \in converted
      OBVIOUS
    <2>2. PICK s \in outs : c \in EndsOf(d, s[1]) \X {s[2].type}
      BY DEF MustConvert, DrawnInto
    <2>3. c[1] \in EndsOf(d, s[1]) /\ c = <<c[1], s[2].type>> /\ MayFail(ConnectorsOf(d)[c[1]], s[2].type)
      BY <2>2 DEF MustConvert
    <2>4. s \in Known(d, AllOps(d))
      OBVIOUS
    <2>5. MayFail(ConnectorsOf(d)[c[1]], s[2].type) => <<c[1], s[2].type>> \in converted
      BY <2>3, <2>4, AllConnected
    <2> QED
      BY <2>3, <2>5
  <1>4. Outs(d, AllOps(d)) \in SUBSET Known(d, AllOps(d))
    BY DEF Known
  <1>5. MustConvert(d, DrawnInto(d, Outs(d, AllOps(d)))) \subseteq converted
    BY <1>3, <1>4
  <1>6. Sources(d) \subseteq Known(d, AllOps(d))
    <2>1. Errors(d, MustConvert(d, DrawnInto(d, Outs(d, AllOps(d))))) \subseteq Errors(d, converted)
      BY <1>5 DEF Errors
    <2> QED
      BY <2>1 DEF Known, Sources
  <1>7. MustConvert(d, DrawnInto(d, Sources(d))) \subseteq converted
    BY <1>3, <1>6
  <1> QED
    BY <1>2, <1>6, <1>7

LEMMA BuiltAsDrawn ==
  ASSUME WellFormed(theDiagram), NEW B, Sound(theDiagram, B), Complete(theDiagram, B), result = "built"
  PROVE  WiredAsDrawn /\ ~Impossible(theDiagram)
  <1>1. PICK d : d = theDiagram
    OBVIOUS
  <1>2. WellFormed(d) /\ Sound(d, B) /\ Complete(d, B)
    BY <1>1
  <1> DEFINE sources == Known(d, AllOps(d))
  <1>3. ~Clashing(d) /\ Sound(d, AllOps(d))
        /\ \A o \in AllOps(d) : ~MadeBy(d, o).error /\ ~Defers(AsFunction(Buffers(d, AllOps(d))), d.ops[o])
    BY <1>2, BuiltIsAll
  <1>4. converted = MustConvert(d, DrawnInto(d, Sources(d))) /\ Sources(d) \subseteq sources
    BY <1>2, AllConverted
  <1>5. \A s \in sources :
          /\ Connected(d, s)
          /\ \A e \in EndsOf(d, s[1]) :
               /\ EndsOf(d, s[1]) = {e} /\ <<s[2].from, e>> \in wired
               /\ e \in DOMAIN ConnectorsOf(d)
               /\ ConnectorsOf(d)[e].kind = "dispose" \/ Accepts(ConnectorsOf(d)[e], s[2].type)
    BY <1>2, AllConnected
  <1>6. \A s \in sources : EndsOf(d, s[1]) # {}
    BY <1>5 DEF Connected
  <1>7. wired = UNION {{s[2].from} \X EndsOf(d, s[1]) : s \in sources}
    <2>1. wired \subseteq UNION {{s[2].from} \X EndsOf(d, s[1]) : s \in sources}
      BY <1>3 DEF Sound, OnlyAsDrawn
    <2>2. ASSUME NEW s \in sources
          PROVE  {s[2].from} \X EndsOf(d, s[1]) \subseteq wired
      BY <1>5
    <2> QED
      BY <2>1, <2>2
  <1>8. WiredAsDrawn
    BY <1>1, <1>4, <1>6, <1>7 DEF WiredAsDrawn, Known
  <1>9. \A out \in Sources(d) : EndsOf(d, out[1]) # {}
    BY <1>4, <1>6
  <1>10. ASSUME NEW c \in DrawnInto(d, Sources(d))
         PROVE  /\ c[1] \in DOMAIN ConnectorsOf(d)
                /\ ConnectorsOf(d)[c[1]].kind = "dispose" \/ Accepts(ConnectorsOf(d)[c[1]], c[2])
    <2>1. PICK s \in Sources(d) : c \in EndsOf(d, s[1]) \X {s[2].type}
      BY DEF DrawnInto
    <2>2. c[1] \in EndsOf(d, s[1]) /\ c[2] = s[2].type /\ s \in sources
      BY <1>4, <2>1
    <2> QED
      BY <1>5, <2>2
  <1>11. ~Impossible(d)
    BY <1>3, <1>9, <1>10 DEF Impossible
  <1> QED
    BY <1>1, <1>8, <1>11

(***************************************************************************)
(* Theorems                                                                *)
(***************************************************************************)

\* The construction keeps its types: only operations of the diagram are built or
\* deferred, only targets and buffers that an operation of it makes exist, and
\* nothing is left of a round when it is over (create_workflow).
THEOREM TypeCorrect == Spec => []TypeOK
  <1> DEFINE d == theDiagram
  <1>1. Init => TypeOK
    <2>1. SUFFICES ASSUME Init
                   PROVE  TypeOK
      OBVIOUS
    <2>2. /\ diagram \in DOMAIN Diagrams /\ result = "running" /\ Sound(d, {}) /\ {} \in SUBSET AllOps(d)
      BY <2>1, InitIsSound
    <2>3. Targets(d, {}) \subseteq Targets(d, AllOps(d)) /\ Buffers(d, {}) \subseteq Buffers(d, AllOps(d))
      BY SetsOfB
    <2>4. DOMAIN connectors = Keys(Targets(d, {})) /\ DOMAIN buffers = Keys(Buffers(d, {}))
      BY <2>2 DEF Sound, MadeByBuilt, AsFunction
    <2>5. unfinished \in Seq(AllOps(d)) /\ deferred \in Seq(AllOps(d))
      BY <2>2 DEF Sound, BuiltAre
    <2> QED
      BY <2>2, <2>3, <2>4, <2>5 DEF TypeOK, Outcomes, Sound, RoundsEnd, Keys
  <1>2. TypeOK /\ [Next]_vars => TypeOK'
    <2>1. SUFFICES ASSUME TypeOK, [Next]_vars
                   PROVE  TypeOK'
      OBVIOUS
    <2>2. UNCHANGED diagram /\ theDiagram' = theDiagram
      BY <2>1 DEF Next, Defer, BuildOperation, StartConnecting, EndRound, ConnectOutputs, vars, theDiagram
    <2>3. WellFormed(d)
      BY <2>1, DiagramsAssumption DEF TypeOK, theDiagram
    <2> HIDE DEF d
    <2>4. d = theDiagram
      BY DEF d
    <2>5. CASE UNCHANGED vars
      BY <2>1, <2>2, <2>5 DEF TypeOK, vars
    <2>6. ASSUME unfinished # <<>>
          PROVE  Head(unfinished) \in AllOps(d) /\ Tail(unfinished) \in Seq(AllOps(d))
      BY <2>1, <2>4, <2>6, TailElements DEF TypeOK
    <2>7. CASE Defer
      <3>1. unfinished' \in Seq(AllOps(d)) /\ deferred' \in Seq(AllOps(d))
        BY <2>1, <2>4, <2>6, <2>7 DEF Defer, TypeOK
      <3> QED
        BY <2>1, <2>2, <2>4, <2>7, <3>1 DEF Defer, TypeOK, connections
    <2>8. CASE BuildOperation
      <3>1. PICK o : o = Head(unfinished)
        OBVIOUS
      <3>2. o \in AllOps(d) /\ unfinished' \in Seq(AllOps(d)) /\ UNCHANGED <<stage, fresh, waiting>>
        BY <2>6, <2>8, <3>1 DEF BuildOperation
      <3>3. CASE result' \in {"Refused", "DuplicateInputsCreated"} /\ UNCHANGED <<deferred, connectors, buffers, progress>>
        BY <2>1, <2>2, <2>4, <3>2, <3>3 DEF TypeOK, Outcomes
      <3>4. CASE /\ \E order \in Orders(MadeBy(d, o).children) : deferred' = deferred \o order
                 /\ connectors' = Override(connectors, AsFunction(MadeBy(d, o).targets))
                 /\ buffers' = Override(buffers, AsFunction(MadeBy(d, o).buffers))
                 /\ progress' = TRUE /\ UNCHANGED result
        <4>1. MadeBy(d, o).children \subseteq AllOps(d) /\ IsFiniteSet(AllOps(d))
          BY <2>3, <2>4, <3>2 DEF WellFormed, AllOps
        <4>2. IsFiniteSet(MadeBy(d, o).children)
          BY <4>1, FS_Subset
        <4>3. PICK order \in Orders(MadeBy(d, o).children) : deferred' = deferred \o order
          BY <3>4
        <4>4. order \in Seq(AllOps(d))
          BY <4>1, <4>2, OrdersList
        <4>5. deferred' \in Seq(AllOps(d))
          BY <2>1, <2>4, <4>3, <4>4 DEF TypeOK
        <4>6. /\ Keys(MadeBy(d, o).targets) \subseteq Keys(Targets(d, AllOps(d)))
              /\ Keys(MadeBy(d, o).buffers) \subseteq Keys(Buffers(d, AllOps(d)))
          BY <3>2 DEF Targets, Buffers, Keys
        <4>7. /\ DOMAIN connectors' = DOMAIN connectors \union Keys(MadeBy(d, o).targets)
              /\ DOMAIN buffers' = DOMAIN buffers \union Keys(MadeBy(d, o).buffers)
          BY <3>4 DEF Override, AsFunction
        <4>8. stage = "building"
          BY <2>8 DEF BuildOperation
        <4> QED
          BY <2>1, <2>2, <2>4, <3>2, <3>4, <4>5, <4>6, <4>7, <4>8 DEF TypeOK
      <3> QED
        BY <2>4, <2>8, <3>1, <3>3, <3>4 DEF BuildOperation, Fail
    <2>9. CASE StartConnecting
      <3>1. deferred' \in Seq(AllOps(d))
        BY <2>9 DEF StartConnecting
      <3> QED
        BY <2>1, <2>2, <2>4, <2>9, <3>1 DEF StartConnecting, TypeOK, connections
    <2>10. CASE EndRound
      BY <2>1, <2>2, <2>10 DEF EndRound, TypeOK, Outcomes, Fail, operations
    <2>11. ASSUME NEW t \in DOMAIN outputs, ConnectOutputs(t)
           PROVE  TypeOK'
      <3>1. result' \in Outcomes /\ progress' \in BOOLEAN
        BY <2>1, <2>11 DEF ConnectOutputs, Wait, Redirect, Dispose, Connect, Fail, Outcomes, TypeOK
      <3>2. stage = "connecting" /\ UNCHANGED <<stage, operations>>
        BY <2>11 DEF ConnectOutputs
      <3> QED
        BY <2>1, <2>2, <3>1, <3>2 DEF TypeOK, operations
    <2> QED
      BY <2>1, <2>5, <2>7, <2>8, <2>9, <2>10, <2>11 DEF Next
  <1> QED
    BY <1>1, <1>2, PTL DEF Spec

\* Whatever order the operations come in, the builder refuses a diagram only for
\* something in it that no order of building could have got around: an operation
\* that cannot be built, two that make one target, a target that nothing makes, a
\* circle of redirections or of buffers, or types that do not fit.  This is one
\* half of BuildsIfPossible.
THEOREM RefusedOnlyIfImpossible == Spec => [](Refusal => Impossible(theDiagram))
  <1>1. SoundOrImpossible => (Refusal => Impossible(theDiagram))
    BY DEF SoundOrImpossible
  <1> QED
    BY <1>1, Soundness, PTL

\* In a diagram that was built all operations were built, each once and with all
\* the buffers it uses, no two of them made one target, and nothing is connected
\* or converted that the diagram does not say.
BuiltSoundly ==
    result = "built" =>
        /\ \A o \in AllOps(theDiagram) :
              /\ ~MadeBy(theDiagram, o).error
              /\ ~Defers(AsFunction(Buffers(theDiagram, AllOps(theDiagram))), theDiagram.ops[o])
        /\ ~Clashing(theDiagram) /\ connectors = ConnectorsOf(theDiagram)
        /\ converted \subseteq MustConvert(theDiagram, DrawnInto(theDiagram, Sources(theDiagram)))
        /\ wired \subseteq
              UNION {{s[2].from} \X EndsOf(theDiagram, s[1]) : s \in Known(theDiagram, AllOps(theDiagram))}

\* One half of WiredAsDrawn, for all diagrams: nothing else is connected.
THEOREM OnlyWhatIsDrawn == Spec => []BuiltSoundly
  <1>1. SoundOrImpossible => BuiltSoundly
    <2>1. SUFFICES ASSUME SoundOrImpossible, result = "built"
                   PROVE  BuiltSoundly
      BY DEF BuiltSoundly
    <2>2. WellFormed(theDiagram)
      BY <2>1, DiagramsAssumption DEF SoundOrImpossible, theDiagram
    <2>3. ~Refusal
      BY <2>1 DEF Refusal
    <2>4. PICK d : d = theDiagram
      OBVIOUS
    <2>5. PICK B : Sound(d, B)
      BY <2>1, <2>3, <2>4 DEF SoundOrImpossible
    <2>6. /\ Sound(d, AllOps(d)) /\ ~Clashing(d) /\ connectors = ConnectorsOf(d)
          /\ \A o \in AllOps(d) : ~MadeBy(d, o).error /\ ~Defers(AsFunction(Buffers(d, AllOps(d))), d.ops[o])
      BY <2>1, <2>2, <2>4, <2>5, BuiltIsAll
    <2> QED
      BY <2>4, <2>6 DEF BuiltSoundly, Sound, OnlyAsDrawn
  <1> QED
    BY <1>1, Soundness, PTL

LEMMA CompletenessIsKept ==
  ASSUME SoundOrImpossible, CompleteOrRefused, NothingOverwritten, [Next]_vars
  PROVE  CompleteOrRefused'
  <1>1. CASE UNCHANGED vars
    <2>1. PICK d : d = theDiagram
      OBVIOUS
    <2>2. d = theDiagram' /\ (Refusal' <=> Refusal)
      BY <1>1, <2>1 DEF theDiagram, Refusal, vars
    <2>3. CASE Refusal
      BY <2>2, <2>3 DEF CompleteOrRefused
    <2>4. CASE ~Refusal
      <3>1. PICK B \in SUBSET AllOps(d) : Sound(d, B) /\ Complete(d, B)
        BY <2>1, <2>4 DEF CompleteOrRefused
      <3>2. Sound(d, B)' /\ Complete(d, B)'
        BY <1>1, <3>1, SameSound
      <3> QED
        BY <2>2, <3>1, <3>2 DEF CompleteOrRefused
    <2> QED
      BY <2>3, <2>4
  <1>2. CASE Next
    <2>1. ~Refusal
      BY <1>2 DEF Next, Defer, BuildOperation, StartConnecting, EndRound, ConnectOutputs, Refusal
    <2>2. PICK B \in SUBSET AllOps(theDiagram) : Sound(theDiagram, B) /\ Complete(theDiagram, B)
      BY <2>1 DEF CompleteOrRefused
    <2>3. PICK d : d = theDiagram /\ d = theDiagram' /\ Keeps(d, B)
      BY <1>2, <2>2, StepKeeps
    <2>4. CASE result' \in Outcomes \ {"running", "built"}
      BY <2>4 DEF CompleteOrRefused, Refusal
    <2>5. CASE \E C \in SUBSET AllOps(d) :
                  Sound(d, C)' /\ (NothingOverwritten /\ Complete(d, B) => Complete(d, C)')
      <3>1. PICK C \in SUBSET AllOps(d) : Sound(d, C)' /\ Complete(d, C)'
        BY <2>2, <2>3, <2>5
      <3> QED
        BY <2>3, <3>1 DEF CompleteOrRefused
    <2> QED
      BY <2>3, <2>4, <2>5 DEF Keeps
  <1> QED
    BY <1>1, <1>2

LEMMA InitIsComplete ==
  Init => CompleteOrRefused
  <1>1. SUFFICES ASSUME Init
                 PROVE  CompleteOrRefused
    OBVIOUS
  <1>2. Sound(theDiagram, {}) /\ Complete(theDiagram, {}) /\ {} \in SUBSET AllOps(theDiagram)
    BY <1>1, InitIsSound
  <1> QED
    BY <1>2 DEF CompleteOrRefused

\* What is sound and complete is as the diagram says.
LEMMA CompleteIsRight ==
  ASSUME SoundOrImpossible, CompleteOrRefused
  PROVE  WiredAsDrawn /\ BuildsIfPossible
  <1>1. CASE Refusal
    BY <1>1 DEF SoundOrImpossible, WiredAsDrawn, BuildsIfPossible, Refusal
  <1>2. CASE ~Refusal /\ result = "built"
    <2>1. WellFormed(theDiagram)
      BY DiagramsAssumption DEF SoundOrImpossible, theDiagram
    <2>2. PICK B : Sound(theDiagram, B) /\ Complete(theDiagram, B)
      BY <1>2 DEF CompleteOrRefused
    <2>3. WiredAsDrawn /\ ~Impossible(theDiagram)
      BY <1>2, <2>1, <2>2, BuiltAsDrawn
    <2> QED
      BY <1>2, <2>3 DEF BuildsIfPossible
  <1>3. CASE ~Refusal /\ result # "built"
    BY <1>3 DEF SoundOrImpossible, WiredAsDrawn, BuildsIfPossible, Refusal
  <1> QED
    BY <1>1, <1>2, <1>3

LEMMA Completeness ==
  Spec /\ []NothingOverwritten => [](SoundOrImpossible /\ CompleteOrRefused)
  <1>1. Init => CompleteOrRefused
    BY InitIsComplete
  <1>2. SoundOrImpossible /\ CompleteOrRefused /\ NothingOverwritten /\ [Next]_vars => CompleteOrRefused'
    BY CompletenessIsKept
  <1> QED
    BY <1>1, <1>2, Soundness, PTL DEF Spec

\* As long as no outputs that wait meet new ones for the same target, of which
\* the extension of outputs_into_target keeps only one (run build_overwrites),
\* every output of every operation is connected to its end, whatever order the
\* operations and the targets come in.
THEOREM Wiring == Spec /\ []NothingOverwritten => []WiredAsDrawn
  <1>1. SoundOrImpossible /\ CompleteOrRefused => WiredAsDrawn
    BY CompleteIsRight
  <1> QED
    BY <1>1, Completeness, PTL

\* Under the same condition exactly the diagrams with nothing impossible in them
\* are built, so the order of the hash maps decides nothing.
THEOREM BuildsPossible == Spec /\ []NothingOverwritten => []BuildsIfPossible
  <1>1. SoundOrImpossible /\ CompleteOrRefused => BuildsIfPossible
    BY CompleteIsRight
  <1> QED
    BY <1>1, Completeness, PTL

\* The condition holds of the diagrams whose operations are all built in the
\* first iteration, without a buffer to wait for, a scope or a section.
InOneIteration ==
    BuiltAtOnce(theDiagram) =>
        \/ Refusal
        \/ /\ \E B \in SUBSET AllOps(theDiagram) : Sound(theDiagram, B) /\ Complete(theDiagram, B)
           /\ deferred = <<>> /\ (stage = "connecting" => unfinished = <<>>)

LEMMA OneIterationIsKept ==
  ASSUME SoundOrImpossible, InOneIteration, [Next]_vars
  PROVE  InOneIteration'
  <1>1. CASE UNCHANGED vars
    <2>1. PICK d : d = theDiagram
      OBVIOUS
    <2>2. d = theDiagram' /\ (Refusal' <=> Refusal) /\ UNCHANGED <<deferred, stage, unfinished>>
      BY <1>1, <2>1 DEF theDiagram, Refusal, vars
    <2>3. ASSUME NEW B \in SUBSET AllOps(d), Sound(d, B), Complete(d, B)
          PROVE  Sound(d, B)' /\ Complete(d, B)'
      BY <1>1, <2>3, SameSound
    <2> QED
      BY <2>1, <2>2, <2>3 DEF InOneIteration
  <1>2. CASE Next
    <2>1. ~Refusal /\ UNCHANGED diagram
      BY <1>2 DEF Next, Defer, BuildOperation, StartConnecting, EndRound, ConnectOutputs, Refusal
    <2>2. SUFFICES ASSUME BuiltAtOnce(theDiagram), ~Refusal'
                   PROVE  InOneIteration'
      BY <2>1 DEF InOneIteration, theDiagram
    <2>3. /\ deferred = <<>> /\ (stage = "connecting" => unfinished = <<>>)
          /\ \E B \in SUBSET AllOps(theDiagram) : Sound(theDiagram, B) /\ Complete(theDiagram, B)
      BY <2>1, <2>2 DEF InOneIteration
    <2>4. PICK B \in SUBSET AllOps(theDiagram) : Sound(theDiagram, B) /\ Complete(theDiagram, B)
      BY <2>3
    <2>5. PICK d : d = theDiagram /\ d = theDiagram' /\ WellFormed(d) /\ Keeps(d, B)
      BY <1>2, <2>4, StepKeeps
    <2>6. NothingOverwritten
      <3>1. waiting = Empty
        BY <2>3, <2>4 DEF Sound, RoundsEnd
      <3> QED
        BY <3>1 DEF NothingOverwritten, Empty
    <2>7. PICK C \in SUBSET AllOps(d) : Sound(d, C)' /\ Complete(d, C)'
      BY <2>2, <2>4, <2>5, <2>6 DEF Keeps, Refusal
    <2>8. unfinished \in Seq(AllOps(d))
      BY <2>4, <2>5 DEF Sound, BuiltAre
    <2>9. ASSUME unfinished # <<>>
          PROVE  /\ ~Defers(buffers, schema(Head(unfinished)))
                 /\ \A order \in Orders(MadeBy(theDiagram, Head(unfinished)).children) : deferred \o order = <<>>
      <3>1. PICK o : o = Head(unfinished)
        OBVIOUS
      <3>2. o \in AllOps(d)
        BY <2>8, <2>9, <3>1, TailElements
      <3>3. Uses(d.ops[o]) = {} /\ MadeBy(d, o).children = {}
        BY <2>2, <2>5, <3>2 DEF BuiltAtOnce
      <3>4. ~Defers(buffers, d.ops[o])
        BY <3>3 DEF Defers
      <3>5. ASSUME NEW order \in Orders({})
            PROVE  order = <<>>
        <4>1. PICK none : none = {}
          OBVIOUS
        <4>2. order \in Seq(none)
          BY <4>1, OrdersList, FS_EmptySet
        <4> QED
          BY <4>1, <4>2
      <3>6. \A order \in Orders(MadeBy(d, o).children) : deferred \o order = <<>>
        BY <2>3, <3>3, <3>5
      <3> QED
        BY <2>5, <3>1, <3>4, <3>6 DEF schema
    <2>10. deferred' = <<>>
      BY <1>2, <2>3, <2>9 DEF Next, Defer, BuildOperation, StartConnecting, EndRound, ConnectOutputs, operations
    <2>11. stage' = "connecting" => unfinished' = <<>>
      BY <1>2, <2>3, <2>10 DEF Next, Defer, BuildOperation, StartConnecting, EndRound, ConnectOutputs, operations
    <2> QED
      BY <2>5, <2>7, <2>10, <2>11 DEF InOneIteration
  <1> QED
    BY <1>1, <1>2

\* These diagrams are built as they are drawn, exactly if it is possible.
THEOREM AtOnce == Spec => [](BuiltAtOnce(theDiagram) => WiredAsDrawn /\ BuildsIfPossible)
  <1>1. Init => InOneIteration
    <2>1. SUFFICES ASSUME Init
                   PROVE  InOneIteration
      OBVIOUS
    <2>2. /\ Sound(theDiagram, {}) /\ Complete(theDiagram, {}) /\ deferred = <<>>
          /\ {} \in SUBSET AllOps(theDiagram) /\ stage = "building"
      BY <2>1, InitIsSound DEF Init
    <2> QED
      BY <2>2 DEF InOneIteration
  <1>2. SoundOrImpossible /\ InOneIteration /\ [Next]_vars => InOneIteration'
    BY OneIterationIsKept
  <1>3. SoundOrImpossible /\ InOneIteration => (BuiltAtOnce(theDiagram) => WiredAsDrawn /\ BuildsIfPossible)
    <2>1. SUFFICES ASSUME SoundOrImpossible, InOneIteration, BuiltAtOnce(theDiagram)
                   PROVE  WiredAsDrawn /\ BuildsIfPossible
      OBVIOUS
    <2>2. CompleteOrRefused
      BY <2>1 DEF InOneIteration, CompleteOrRefused
    <2> QED
      BY <2>1, <2>2, CompleteIsRight
  <1> QED
    BY <1>1, <1>2, <1>3, Soundness, PTL DEF Spec

=============================================================================
