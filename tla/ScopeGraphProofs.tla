-------------------------- MODULE ScopeGraphProofs --------------------------
(***************************************************************************)
(* Theorems about ScopeGraph, for every workflow the builder allows: its   *)
(* types, the balance between the inputs that wait and the entries of the  *)
(* queues, the same for the polls of the tasks, and that no join is left   *)
(* with complete sets.                                                     *)
(*                                                                         *)
(* FlattenSeq is a recursive function.  What is needed of it is proved by  *)
(* induction over sets of numbers, which rests on the finiteness of the    *)
(* intervals.                                                              *)
(***************************************************************************)
EXTENDS ScopeGraph, FiniteSetTheorems, SequenceTheorems, TLAPS

-----------------------------------------------------------------------------
(* Induction over a set of numbers.                                        *)

\* A set of numbers that is not empty has a least member: the lower bounds of the
\* set are an interval, whose end is a member.
LEMMA LeastMember ==
    ASSUME NEW S \in SUBSET Nat, S # {}
    PROVE  \E x \in S : \A y \in S : x <= y
<1>1. PICK s \in S : TRUE
    OBVIOUS
<1> DEFINE T == {i \in 0 .. s : \A y \in S : i <= y}
           k == Cardinality(T)
<1>2. IsFiniteSet(T) /\ k \in Nat
    BY <1>1, FS_Interval, FS_Subset, FS_CardinalityType, 0 \in Int, s \in Int
<1>3. \A t \in T : t < k
  <2> SUFFICES ASSUME NEW t \in T, ~(t < k) PROVE FALSE
      OBVIOUS
  <2>1. 0 .. t \in SUBSET T
      BY <1>1
  <2>2. Cardinality(0 .. t) = t + 1 /\ 0 .. t \in SUBSET T
      BY <2>1, FS_Interval, 0 \in Int, t \in Int
  <2>3. Cardinality(0 .. t) <= k
      BY <1>2, <2>1, FS_Subset
  <2> HIDE DEF k
  <2> QED  BY <1>2, <2>2, <2>3
<1>4. T = 0 .. (k - 1)
  <2>1. T \in SUBSET (0 .. (k - 1))
      BY <1>2, <1>3
  <2>2. IsFiniteSet(0 .. (k - 1)) /\ Cardinality(0 .. (k - 1)) = k
    <3> HIDE DEF k
    <3> QED  BY <1>2, FS_Interval, 0 \in Int, k - 1 \in Int
  <2> HIDE DEF T, k
  <2>3. Cardinality(T) = k
      BY DEF k
  <2> QED  BY <2>1, <2>2, <2>3, FS_Subset
<1>5. 0 \in T
    BY <1>1
<1>6. k \in Nat /\ k - 1 \in T /\ k \notin T
  <2> HIDE DEF T, k
  <2> QED  BY <1>2, <1>4, <1>5
<1> HIDE DEF k
<1>7. PICK y \in S : y < k
    BY <1>1, <1>6
<1>8. y = k - 1
    BY <1>6, <1>7
<1> QED  BY <1>6, <1>7, <1>8

LEMMA Induction ==
    ASSUME NEW P \in SUBSET Nat, 0 \in P, \A k \in P : k + 1 \in P
    PROVE  P = Nat
<1> SUFFICES ASSUME Nat \ P # {} PROVE FALSE
    OBVIOUS
<1>1. PICK x \in Nat \ P : \A y \in Nat \ P : x <= y
    BY LeastMember
<1>2. x # 0 /\ x - 1 \in Nat
    BY <1>1
<1>3. x - 1 \in P
    BY <1>1, <1>2
<1> QED  BY <1>1, <1>2, <1>3

-----------------------------------------------------------------------------
(* FlattenSeq and the selections that are made with it.                    *)

\* The partial results of FlattenSeq exist, and are sequences.
Flattens(f, seqs, k) ==
    f = [i \in 1 .. k |-> IF i = 1 THEN seqs[i] ELSE f[i - 1] \o seqs[i]]

LEMMA FlattenExists ==
    ASSUME NEW S, NEW seqs \in Seq(Seq(S)), NEW k \in Nat, k <= Len(seqs)
    PROVE  \E f \in [1 .. k -> Seq(S)] : Flattens(f, seqs, k)
<1> DEFINE P == {j \in Nat : j <= Len(seqs) =>
                    \E f \in [1 .. j -> Seq(S)] : Flattens(f, seqs, j)}
<1>1. 0 \in P
  <2>1. [i \in 1 .. 0 |-> <<>>] \in [1 .. 0 -> Seq(S)]
      OBVIOUS
  <2>2. Flattens([i \in 1 .. 0 |-> <<>>], seqs, 0)
      BY DEF Flattens
  <2> QED  BY <2>1, <2>2
<1>2. ASSUME NEW j \in P PROVE j + 1 \in P
  <2> SUFFICES ASSUME j + 1 <= Len(seqs)
               PROVE  \E f \in [1 .. (j + 1) -> Seq(S)] : Flattens(f, seqs, j + 1)
      OBVIOUS
  <2>1. PICK f \in [1 .. j -> Seq(S)] : Flattens(f, seqs, j)
      BY <1>2
  <2>2. seqs[j + 1] \in Seq(S)
      BY <1>2
  <2> DEFINE g == [i \in 1 .. (j + 1) |->
                      IF i <= j THEN f[i] ELSE IF i = 1 THEN seqs[i] ELSE f[i - 1] \o seqs[i]]
  <2>3. g \in [1 .. (j + 1) -> Seq(S)]
    <3> SUFFICES ASSUME NEW i \in 1 .. (j + 1) PROVE g[i] \in Seq(S)
        OBVIOUS
    <3>1. CASE i <= j
        BY <1>2, <3>1
    <3>2. CASE i = j + 1 /\ j = 0
        BY <1>2, <2>2, <3>2
    <3>3. CASE i = j + 1 /\ j # 0
      <4>1. j \in Nat /\ j \in 1 .. j /\ ~(i <= j) /\ i # 1 /\ i - 1 = j
          BY <1>2, <3>3
      <4>2. f[j] \in Seq(S) /\ g[i] = f[j] \o seqs[j + 1]
          BY <3>3, <4>1
      <4> QED  BY <4>2, <2>2, ConcatProperties
    <3> QED  BY <1>2, <3>1, <3>2, <3>3
  <2>4. Flattens(g, seqs, j + 1)
    <3> SUFFICES ASSUME NEW i \in 1 .. (j + 1)
                 PROVE  g[i] = IF i = 1 THEN seqs[i] ELSE g[i - 1] \o seqs[i]
        BY DEF Flattens
    <3>1. CASE i <= j
      <4>1. g[i] = f[i] /\ (i # 1 => g[i - 1] = f[i - 1])
          BY <1>2, <3>1
      <4>2. i \in 1 .. j
          BY <1>2, <3>1
      <4> HIDE DEF P
      <4>3. f[i] = IF i = 1 THEN seqs[i] ELSE f[i - 1] \o seqs[i]
          BY <2>1, <4>2 DEF Flattens
      <4> QED  BY <4>1, <4>3
    <3>2. CASE i = j + 1
        BY <1>2, <3>2
    <3> QED  BY <1>2, <3>1, <3>2
  <2> QED  BY <2>3, <2>4
<1>3. P = Nat
  <2> HIDE DEF P
  <2> QED  BY <1>1, <1>2, Induction, P \in SUBSET Nat DEF P
<1> QED  BY <1>3

LEMMA FlattenedBy ==
    ASSUME NEW S, NEW seqs \in Seq(Seq(S)), seqs # <<>>
    PROVE  \E f \in [1 .. Len(seqs) -> Seq(S)] :
               Flattens(f, seqs, Len(seqs)) /\ FlattenSeq(seqs) = f[Len(seqs)]
<1>1. Len(seqs) \in Nat /\ Len(seqs) # 0
    BY EmptySeq
<1>2. PICK h \in [1 .. Len(seqs) -> Seq(S)] : Flattens(h, seqs, Len(seqs))
    BY <1>1, FlattenExists, SMTT(30)
<1> DEFINE f == CHOOSE f : Flattens(f, seqs, Len(seqs))
<1>3. Flattens(f, seqs, Len(seqs))
    BY <1>2
<1>4. FlattenSeq(seqs) = f[Len(seqs)]
    BY <1>1 DEF FlattenSeq, Flattens
<1> HIDE DEF f
<1> DEFINE P == {j \in Nat : j + 1 <= Len(seqs) => f[j + 1] \in Seq(S)}
<1>5. 0 \in P
    BY <1>1, <1>3 DEF Flattens
<1>6. ASSUME NEW j \in P PROVE j + 1 \in P
  <2> SUFFICES ASSUME j + 2 <= Len(seqs) PROVE f[j + 2] \in Seq(S)
      OBVIOUS
  <2>1. j + 1 <= Len(seqs) /\ f[j + 1] \in Seq(S) /\ seqs[j + 2] \in Seq(S)
      BY <1>1, <1>6
  <2>2. j + 2 \in 1 .. Len(seqs) /\ j + 2 # 1 /\ (j + 2) - 1 = j + 1
      BY <1>1, <1>6
  <2>3. f[j + 2] = f[j + 1] \o seqs[j + 2]
    <3> HIDE DEF P
    <3> QED  BY <1>3, <2>2 DEF Flattens
  <2> QED  BY <2>1, <2>3, ConcatProperties
<1>7. P = Nat
  <2> HIDE DEF P
  <2> QED  BY <1>5, <1>6, Induction, P \in SUBSET Nat DEF P
<1>8. ASSUME NEW i \in 1 .. Len(seqs) PROVE f[i] \in Seq(S)
  <2>1. i - 1 \in Nat /\ (i - 1) + 1 = i /\ i <= Len(seqs)
      BY <1>1
  <2>2. i - 1 \in P
    <3> HIDE DEF P
    <3> QED  BY <1>7, <2>1
  <2> QED  BY <2>1, <2>2
<1>9. f \in [1 .. Len(seqs) -> Seq(S)]
    BY <1>3, <1>8 DEF Flattens
<1> QED  BY <1>3, <1>4, <1>9

LEMMA FlattenType ==
    ASSUME NEW S, NEW seqs \in Seq(Seq(S))
    PROVE  FlattenSeq(seqs) \in Seq(S)
<1>1. CASE seqs = <<>>
    BY <1>1 DEF FlattenSeq
<1>2. CASE seqs # <<>>
  <2>1. PICK f \in [1 .. Len(seqs) -> Seq(S)] : FlattenSeq(seqs) = f[Len(seqs)]
      BY <1>2, FlattenedBy
  <2>2. Len(seqs) \in 1 .. Len(seqs)
      BY <1>2, EmptySeq
  <2> QED  BY <2>1, <2>2
<1> QED  BY <1>1, <1>2

LEMMA ContainsConcat ==
    ASSUME NEW S, NEW s \in Seq(S), NEW t \in Seq(S), NEW x, Contains(s, x) \/ Contains(t, x)
    PROVE  Contains(s \o t, x)
<1>1. Len(s) \in Nat /\ Len(t) \in Nat /\ Len(s \o t) = Len(s) + Len(t)
    BY ConcatProperties
<1>2. CASE Contains(s, x)
  <2>1. PICK i \in 1 .. Len(s) : s[i] = x
      BY <1>2 DEF Contains
  <2>2. i \in 1 .. Len(s) + Len(t) /\ (s \o t)[i] = x
      BY <1>1, <2>1, ConcatProperties
  <2> QED  BY <1>1, <2>2 DEF Contains
<1>3. CASE Contains(t, x)
  <2>1. PICK i \in 1 .. Len(t) : t[i] = x
      BY <1>3 DEF Contains
  <2>2. Len(s) + i \in 1 .. Len(s) + Len(t) /\ (s \o t)[Len(s) + i] = x
      BY <1>1, <2>1, ConcatProperties
  <2> QED  BY <1>1, <2>2 DEF Contains
<1> QED  BY <1>2, <1>3

\* What is in one of the sequences is in all of them together.
LEMMA FlattenContains ==
    ASSUME NEW S, NEW seqs \in Seq(Seq(S)), NEW i \in 1 .. Len(seqs), NEW x, Contains(seqs[i], x)
    PROVE  Contains(FlattenSeq(seqs), x)
<1>1. Len(seqs) \in Nat /\ seqs # <<>>
    BY EmptySeq
<1>2. PICK f \in [1 .. Len(seqs) -> Seq(S)] :
          Flattens(f, seqs, Len(seqs)) /\ FlattenSeq(seqs) = f[Len(seqs)]
    BY <1>1, FlattenedBy
<1>3. \A j \in 1 .. Len(seqs) : f[j] = IF j = 1 THEN seqs[j] ELSE f[j - 1] \o seqs[j]
    BY <1>2 DEF Flattens
<1>4. Contains(f[i], x)
  <2>1. CASE i = 1
      BY <1>3, <2>1
  <2>2. CASE i # 1
    <3>1. i - 1 \in 1 .. Len(seqs)
        BY <1>1, <2>2
    <3>2. f[i - 1] \in Seq(S)
        BY <1>2, <3>1
    <3>3. seqs[i] \in Seq(S)
        OBVIOUS
    <3>4. f[i] = f[i - 1] \o seqs[i]
        BY <1>3, <2>2
    <3> QED  BY <3>2, <3>3, <3>4, ContainsConcat
  <2> QED  BY <2>1, <2>2
<1> DEFINE P == {j \in Nat : i + j <= Len(seqs) => Contains(f[i + j], x)}
<1>5. 0 \in P
    BY <1>4
<1>6. ASSUME NEW j \in P PROVE j + 1 \in P
  <2> SUFFICES ASSUME i + (j + 1) <= Len(seqs) PROVE Contains(f[i + (j + 1)], x)
      OBVIOUS
  <2>1. Contains(f[i + j], x)
      BY <1>1, <1>6
  <2>2. /\ i + j \in 1 .. Len(seqs) /\ i + (j + 1) \in 1 .. Len(seqs)
        /\ i + (j + 1) # 1 /\ (i + (j + 1)) - 1 = i + j
      BY <1>1, <1>6
  <2> HIDE DEF P
  <2>3. f[i + (j + 1)] = f[i + j] \o seqs[i + (j + 1)]
      BY <1>3, <2>2
  <2>4. f[i + j] \in Seq(S) /\ seqs[i + (j + 1)] \in Seq(S)
      BY <2>2
  <2> QED  BY <2>1, <2>3, <2>4, ContainsConcat
<1>7. P = Nat
  <2> HIDE DEF P
  <2> QED  BY <1>5, <1>6, Induction, P \in SUBSET Nat DEF P
<1>8. Len(seqs) - i \in Nat /\ i + (Len(seqs) - i) = Len(seqs)
    BY <1>1
<1>9. Len(seqs) - i \in P
  <2> HIDE DEF P
  <2> QED  BY <1>7, <1>8
<1> QED  BY <1>1, <1>2, <1>8, <1>9

LEMMA OnlyType ==
    ASSUME NEW T, NEW s \in Seq(T), NEW S
    PROVE  Only(s, S) \in Seq(T) /\ Only(s, S) \in Seq(S)
<1> DEFINE picks == [i \in DOMAIN s |-> IF s[i] \in S THEN <<s[i]>> ELSE <<>>]
<1>1. picks \in Seq(Seq(T)) /\ picks \in Seq(Seq(S))
  <2>1. Len(s) \in Nat /\ DOMAIN s = 1 .. Len(s) /\ \A i \in 1 .. Len(s) : s[i] \in T
      BY LenProperties
  <2>2. picks \in [1 .. Len(s) -> Seq(T)] /\ picks \in [1 .. Len(s) -> Seq(S)]
      BY <2>1
  <2> HIDE DEF picks
  <2> QED  BY <2>1, <2>2, SeqDef
<1> HIDE DEF picks
<1> QED  BY <1>1, FlattenType DEF Only, picks

LEMMA OnlyContains ==
    ASSUME NEW T, NEW s \in Seq(T), NEW S, NEW x \in S, Contains(s, x)
    PROVE  Contains(Only(s, S), x)
<1> DEFINE picks == [i \in DOMAIN s |-> IF s[i] \in S THEN <<s[i]>> ELSE <<>>]
<1>1. picks \in Seq(Seq(T)) /\ Len(picks) = Len(s)
  <2>1. Len(s) \in Nat /\ DOMAIN s = 1 .. Len(s) /\ \A i \in 1 .. Len(s) : s[i] \in T
      BY LenProperties
  <2>2. picks \in [1 .. Len(s) -> Seq(T)]
      BY <2>1
  <2> HIDE DEF picks
  <2>3. picks \in Seq(Seq(T))
      BY <2>1, <2>2, SeqDef
  <2> QED  BY <2>1, <2>2, <2>3, LenProperties
<1>2. PICK i \in 1 .. Len(s) : s[i] = x
    BY DEF Contains
<1>3. picks[i] = <<x>>
    BY <1>2, LenProperties
<1>4. Contains(picks[i], x)
  <2>1. Len(<<x>>) = 1 /\ <<x>>[1] = x
      OBVIOUS
  <2> HIDE DEF picks
  <2> QED  BY <1>3, <2>1 DEF Contains
<1> HIDE DEF picks
<1>5. i \in 1 .. Len(picks)
    BY <1>1
<1>6. Contains(FlattenSeq(picks), x)
    BY <1>1, <1>4, <1>5, FlattenContains
<1> QED  BY <1>6 DEF Only, picks

-----------------------------------------------------------------------------
(* How often a member occurs.                                              *)

LEMMA OccurrencesType ==
    ASSUME NEW S, NEW s \in Seq(S), NEW x
    PROVE  /\ IsFiniteSet({i \in DOMAIN s : s[i] = x})
           /\ Occurrences(s, x) \in Nat
           /\ Occurrences(s, x) > 0 <=> Contains(s, x)
<1>1. Len(s) \in Nat /\ DOMAIN s = 1 .. Len(s) /\ IsFiniteSet(1 .. Len(s))
    BY LenProperties, FS_Interval
<1> DEFINE at == {i \in DOMAIN s : s[i] = x}
<1>2. IsFiniteSet(at) /\ Cardinality(at) \in Nat /\ (Cardinality(at) = 0 <=> at = {})
    BY <1>1, at \in SUBSET (1 .. Len(s)), FS_Subset, FS_CardinalityType, FS_EmptySet
<1>3. at # {} <=> Contains(s, x)
    BY <1>1 DEF Contains
<1> HIDE DEF at
<1> QED  BY <1>2, <1>3 DEF Occurrences, at

LEMMA OccurrencesConcat ==
    ASSUME NEW S, NEW s \in Seq(S), NEW t \in Seq(S), NEW x
    PROVE  Occurrences(s \o t, x) = Occurrences(s, x) + Occurrences(t, x)
<1> DEFINE m == Len(s)
           n == Len(t)
           inS == {i \in DOMAIN s : s[i] = x}
           inT == {i \in DOMAIN t : t[i] = x}
           moved == {i \in (m + 1) .. (m + n) : t[i - m] = x}
           both == {i \in DOMAIN (s \o t) : (s \o t)[i] = x}
<1>1. m \in Nat /\ n \in Nat /\ DOMAIN s = 1 .. m /\ DOMAIN t = 1 .. n
    BY LenProperties
<1>2. /\ DOMAIN (s \o t) = 1 .. (m + n)
      /\ \A i \in 1 .. (m + n) : (s \o t)[i] = IF i <= m THEN s[i] ELSE t[i - m]
    BY ConcatProperties, LenProperties
<1>3. IsFiniteSet(inS) /\ IsFiniteSet(inT)
    BY OccurrencesType
<1>4. both = inS \cup moved /\ inS \cap moved = {}
    BY <1>1, <1>2
<1>5. IsFiniteSet(moved) /\ Cardinality(moved) = Cardinality(inT)
  <2> DEFINE shift == [i \in inT |-> m + i]
  <2>1. shift \in Bijection(inT, moved)
    <3>1. shift \in [inT -> moved]
        BY <1>1
    <3>2. \A i, j \in inT : shift[i] = shift[j] => i = j
        BY <1>1
    <3>3. \A k \in moved : k - m \in inT /\ shift[k - m] = k
        BY <1>1
    <3> HIDE DEF inT, moved, shift
    <3>4. \A k \in moved : \E i \in inT : shift[i] = k
        BY <3>3
    <3> QED  BY <3>1, <3>2, <3>4 DEF Bijection, Injection, Surjection, IsInjective
  <2> HIDE DEF inT, moved, shift
  <2> QED  BY <1>3, <2>1, FS_Bijection DEF ExistsBijection
<1>6. Cardinality(both) = Cardinality(inS) + Cardinality(inT)
  <2>1. Cardinality(inS) \in Nat /\ Cardinality(inT) \in Nat
      BY <1>3, FS_CardinalityType
  <2> HIDE DEF inS, inT, moved, both
  <2>2. Cardinality(inS \cup moved)
            = Cardinality(inS) + Cardinality(moved) - Cardinality(inS \cap moved)
      BY <1>3, <1>5, FS_Union
  <2>3. Cardinality(inS \cap moved) = 0
      BY <1>4, FS_EmptySet
  <2> QED  BY <1>4, <1>5, <2>1, <2>2, <2>3
<1> HIDE DEF m, n
<1> QED  BY <1>6 DEF Occurrences

LEMMA OccurrencesEmpty ==
    ASSUME NEW x
    PROVE  Occurrences(<<>>, x) = 0
BY FS_EmptySet, {i \in DOMAIN <<>> : <<>>[i] = x} = {} DEF Occurrences

LEMMA OccurrencesOne ==
    ASSUME NEW x, NEW y
    PROVE  Occurrences(<<y>>, x) = IF x = y THEN 1 ELSE 0
<1>1. CASE x = y
    BY <1>1, FS_Singleton, {i \in DOMAIN <<y>> : <<y>>[i] = x} = {1} DEF Occurrences
<1>2. CASE x # y
    BY <1>2, FS_EmptySet, {i \in DOMAIN <<y>> : <<y>>[i] = x} = {} DEF Occurrences
<1> QED  BY <1>1, <1>2

LEMMA OccurrencesAppend ==
    ASSUME NEW S, NEW s \in Seq(S), NEW y \in S, NEW x
    PROVE  Occurrences(Append(s, y), x) = Occurrences(s, x) + IF x = y THEN 1 ELSE 0
<1>1. <<y>> \in Seq(S) /\ Append(s, y) = s \o <<y>>
    BY AppendIsConcat
<1>2. Occurrences(s \o <<y>>, x) = Occurrences(s, x) + Occurrences(<<y>>, x)
    BY <1>1, OccurrencesConcat
<1> QED  BY <1>1, <1>2, OccurrencesOne

LEMMA OccurrencesTail ==
    ASSUME NEW S, NEW s \in Seq(S), s # <<>>, NEW x
    PROVE  /\ Head(s) \in S /\ Tail(s) \in Seq(S)
           /\ Occurrences(s, x) = Occurrences(Tail(s), x) + IF x = Head(s) THEN 1 ELSE 0
           /\ Occurrences(Tail(s), x) \in Nat
<1>1. Head(s) \in S /\ Tail(s) \in Seq(S) /\ <<Head(s)>> \in Seq(S)
    BY HeadTailProperties
<1>2. s = <<Head(s)>> \o Tail(s)
    BY <1>1
<1>3. Occurrences(s, x) = Occurrences(<<Head(s)>>, x) + Occurrences(Tail(s), x)
    BY <1>1, <1>2, OccurrencesConcat, ZenonT(60)
<1>4. Occurrences(Tail(s), x) \in Nat
    BY <1>1, OccurrencesType
<1> QED  BY <1>1, <1>3, <1>4, OccurrencesOne

\* What is not a member does not occur.
LEMMA OccurrencesOutside ==
    ASSUME NEW S, NEW s \in Seq(S), NEW x, x \notin S
    PROVE  Occurrences(s, x) = 0
<1>1. ~Contains(s, x)
    BY ElementOfSeq DEF Contains
<1>2. Occurrences(s, x) \in Nat /\ ~(Occurrences(s, x) > 0)
    BY <1>1, OccurrencesType
<1> DEFINE k == Occurrences(s, x)
<1> HIDE DEF k
<1>3. k \in Nat /\ ~(k > 0)
    BY <1>2 DEF k
<1>4. k = 0
    BY <1>3
<1> QED  BY <1>4 DEF k

-----------------------------------------------------------------------------
(* The effects of a step on the inputs and the rosters.                    *)

Worlds == [input : [Nodes -> Seq(Messages)], roster : Rosters, later : Rosters]

\* Every input has its entry in a queue.
Balanced(w) ==
    \A n \in Nodes : Len(w.input[n]) =
        Occurrences(w.roster.queue, n) + Occurrences(w.roster.deferred, n)
        + Occurrences(w.later.queue, n) + Occurrences(w.later.deferred, n)

Sound(w) == w \in Worlds /\ Balanced(w)

Polls(w, t) == Occurrences(w.roster.queue, t) + Occurrences(w.later.queue, t)

\* From w to v the entries of the tasks remain, and no input is taken.
Grows(w, v) ==
    /\ Sound(v)
    /\ \A t \in Tasks : Polls(v, t) = Polls(w, t)
    /\ v.roster.awake = w.roster.awake /\ v.later.awake = w.later.awake
    /\ \A n \in Nodes : w.input[n] # <<>> => v.input[n] # <<>>

\* What GraphsAssumption says of the graph that runs.
LEMMA GraphFacts ==
    ASSUME graph \in Graphs
    PROVE  /\ Nodes \cap Tasks = {} /\ None \notin Nodes /\ None \notin Tasks
           /\ None \notin ActiveTasks
           /\ graph.start \in Nodes /\ graph.order \in Seq(Nodes)
           /\ graph.loops \in Nat \cup {None} /\ graph.items \in Nat \cup {None}
           /\ \A n \in Nodes :
                /\ Out(n) \in Seq(Nodes) /\ Stream(n) \in Seq(Nodes)
                /\ Buffers(n) \in Seq(Has("buffer"))
                /\ Op(n) = "gate" => graph.node[n].action \in {"open", "closed"}
                /\ Op(n) = "collect" => graph.node[n].min \in Nat
                /\ Op(n) = "join" =>
                     /\ Buffers(n) # <<>>
                     /\ \A i \in DOMAIN Buffers(n) : Contains(Out(Buffers(n)[i]), n)
<1>1. WellFormed(graph) /\ None \notin Tasks
    BY GraphsAssumption, TasksAssumption
<1>2. None \notin ActiveTask(Nodes, Nodes)
    BY TasksAssumption DEF Nodes
<1>3. None \notin ActiveTasks
    BY <1>2 DEF ActiveTask, ActiveTasks, Has, Keyers
<1> QED  BY <1>1, <1>3 DEF WellFormed, Nodes, Out, Stream, Buffers, Op, Has

LEMMA PlainIsMessage ==
    ASSUME NEW a \in Keyers \cup {None}, NEW t \in Tasks \cup {None}, NEW f \in BOOLEAN
    PROVE  Message(t, f, a) \in Messages /\ Plain \in Messages
BY DEF Message, Messages, Plain

LEMMA GiveStep ==
    ASSUME NEW w \in Worlds, NEW targets \in Seq(Nodes), NEW m \in Messages
    PROVE  LET to == Only(targets, Nodes \ Has("sink"))
               v == Give(w, targets, m)
           IN  /\ to \in Seq(Nodes)
               /\ v \in Worlds
               /\ v.roster = [w.roster EXCEPT !.queue = @ \o to]
               /\ v.later = w.later
               /\ \A n \in Nodes : Len(v.input[n]) = Len(w.input[n]) + Occurrences(to, n)
<1> DEFINE to == Only(targets, Nodes \ Has("sink"))
           more(n) == [i \in 1 .. Occurrences(to, n) |-> m]
           v == Give(w, targets, m)
<1>1. to \in Seq(Nodes)
    BY OnlyType
<1>2. to \in Seq(Nodes \cup Tasks)
    BY <1>1, SeqMonotonic, Nodes \subseteq Nodes \cup Tasks
<1> HIDE DEF to
<1>3. ASSUME NEW n \in Nodes
      PROVE  more(n) \in Seq(Messages) /\ Len(more(n)) = Occurrences(to, n)
  <2>1. Occurrences(to, n) \in Nat
      BY <1>1, OccurrencesType
  <2>2. more(n) \in [1 .. Occurrences(to, n) -> Messages]
      OBVIOUS
  <2> HIDE DEF more
  <2>3. more(n) \in Seq(Messages)
      BY <2>1, <2>2, SeqDef
  <2> QED  BY <2>1, <2>2, <2>3, LenProperties
<1>4. v = [w EXCEPT !.input = [n \in Nodes |-> w.input[n] \o more(n)],
                    !.roster.queue = w.roster.queue \o to]
    BY DEF Give, to
<1> HIDE DEF more, v
<1>5. ASSUME NEW n \in Nodes
      PROVE  /\ w.input[n] \o more(n) \in Seq(Messages)
             /\ Len(w.input[n] \o more(n)) = Len(w.input[n]) + Occurrences(to, n)
  <2>1. w.input[n] \in Seq(Messages)
      BY DEF Worlds
  <2>2. more(n) \in Seq(Messages) /\ Len(more(n)) = Occurrences(to, n)
      BY <1>3
  <2>3. /\ w.input[n] \o more(n) \in Seq(Messages)
        /\ Len(w.input[n] \o more(n)) = Len(w.input[n]) + Len(more(n))
      BY <2>1, <2>2, ConcatProperties
  <2> QED  BY <2>2, <2>3
<1>6. w.roster.queue \o to \in Seq(Nodes \cup Tasks)
  <2>1. w.roster.queue \in Seq(Nodes \cup Tasks)
      BY DEF Worlds, Rosters
  <2> QED  BY <1>2, <2>1, ConcatProperties
<1>7. /\ v.input = [n \in Nodes |-> w.input[n] \o more(n)]
      /\ v.roster = [w.roster EXCEPT !.queue = @ \o to] /\ v.later = w.later
    BY <1>4 DEF Worlds, Rosters
<1>8. v \in Worlds
  <2>1. v.input \in [Nodes -> Seq(Messages)]
      BY <1>5, <1>7
  <2>2. v.roster \in Rosters
      BY <1>6, <1>7 DEF Worlds, Rosters
  <2>3. v = [input |-> v.input, roster |-> v.roster, later |-> v.later]
      BY <1>4 DEF Worlds
  <2> QED  BY <1>7, <2>1, <2>2, <2>3 DEF Worlds
<1>9. \A n \in Nodes : Len(v.input[n]) = Len(w.input[n]) + Occurrences(to, n)
    BY <1>5, <1>7
<1> QED  BY <1>1, <1>7, <1>8, <1>9 DEF to, v

\* What give_input does to the balance.
LEMMA GiveGrows ==
    ASSUME graph \in Graphs, NEW w, Sound(w),
           NEW targets \in Seq(Nodes), NEW m \in Messages
    PROVE  /\ Grows(w, Give(w, targets, m))
           /\ \A n \in Nodes \ Has("sink") :
                Contains(targets, n) => Give(w, targets, m).input[n] # <<>>
<1> DEFINE to == Only(targets, Nodes \ Has("sink"))
           v == Give(w, targets, m)
<1>1. /\ w \in Worlds /\ to \in Seq(Nodes) /\ v \in Worlds
      /\ v.roster = [w.roster EXCEPT !.queue = @ \o to] /\ v.later = w.later
      /\ \A n \in Nodes : Len(v.input[n]) = Len(w.input[n]) + Occurrences(to, n)
    BY GiveStep DEF Sound
<1>2. \A n \in Nodes \ Has("sink") : Contains(targets, n) => Contains(to, n)
    BY OnlyContains
<1> HIDE DEF to, v
<1>3. /\ w.roster.queue \in Seq(Nodes \cup Tasks) /\ to \in Seq(Nodes \cup Tasks)
      /\ v.roster.queue = w.roster.queue \o to /\ v.roster.deferred = w.roster.deferred
      /\ v.roster.awake = w.roster.awake
    BY <1>1, SeqMonotonic, Nodes \subseteq Nodes \cup Tasks DEF Worlds, Rosters
<1>4. \A x : Occurrences(v.roster.queue, x) = Occurrences(w.roster.queue, x) + Occurrences(to, x)
    BY <1>3, OccurrencesConcat
<1>5. \A n \in Nodes : Occurrences(to, n) \in Nat /\ (Contains(to, n) => Occurrences(to, n) > 0)
    BY <1>1, OccurrencesType
<1>6. \A n \in Nodes : /\ w.input[n] \in Seq(Messages) /\ Len(w.input[n]) \in Nat
                       /\ v.input[n] \in Seq(Messages)
    BY <1>1, LenProperties DEF Worlds
<1>7. Balanced(v)
  <2> SUFFICES ASSUME NEW n \in Nodes
               PROVE  Len(v.input[n]) =
                   Occurrences(v.roster.queue, n) + Occurrences(v.roster.deferred, n)
                   + Occurrences(v.later.queue, n) + Occurrences(v.later.deferred, n)
      BY DEF Balanced
  <2>1. /\ Occurrences(w.roster.queue, n) \in Nat /\ Occurrences(w.roster.deferred, n) \in Nat
        /\ Occurrences(w.later.queue, n) \in Nat /\ Occurrences(w.later.deferred, n) \in Nat
      BY <1>1, OccurrencesType DEF Worlds, Rosters
  <2>2. Len(w.input[n]) =
            Occurrences(w.roster.queue, n) + Occurrences(w.roster.deferred, n)
            + Occurrences(w.later.queue, n) + Occurrences(w.later.deferred, n)
      BY DEF Sound, Balanced
  <2>3. /\ Occurrences(v.roster.queue, n) = Occurrences(w.roster.queue, n) + Occurrences(to, n)
        /\ v.roster.deferred = w.roster.deferred /\ v.later = w.later
        /\ Len(v.input[n]) = Len(w.input[n]) + Occurrences(to, n)
        /\ Occurrences(to, n) \in Nat
      BY <1>1, <1>3, <1>4, <1>5
  <2> QED  BY <2>1, <2>2, <2>3
<1>8. ASSUME NEW t \in Tasks PROVE Polls(v, t) = Polls(w, t)
  <2>1. Occurrences(to, t) = 0
      BY <1>1, GraphFacts, OccurrencesOutside
  <2>2. Occurrences(w.roster.queue, t) \in Nat
      BY <1>3, OccurrencesType
  <2> QED  BY <1>1, <1>4, <2>1, <2>2 DEF Polls
<1>9. \A n \in Nodes : w.input[n] # <<>> => v.input[n] # <<>>
    BY <1>1, <1>5, <1>6, EmptySeq
<1>10. \A n \in Nodes \ Has("sink") : Contains(targets, n) => v.input[n] # <<>>
    BY <1>1, <1>2, <1>5, <1>6, EmptySeq
<1> QED  BY <1>1, <1>3, <1>7, <1>8, <1>9, <1>10 DEF Grows, Sound, v

LEMMA GrowsTransitive ==
    ASSUME NEW u, NEW v, NEW w, Grows(u, v), Grows(v, w)
    PROVE  Grows(u, w)
BY DEF Grows

LEMMA DisposeGrows ==
    ASSUME NEW w, Sound(w), NEW n \in Nodes
    PROVE  Grows(w, Dispose(w, n)) /\ Dispose(w, n).input = w.input
<1> DEFINE v == Dispose(w, n)
<1>1. /\ v.input = w.input /\ v.later = w.later
      /\ v.roster = [w.roster EXCEPT !.disposals = Append(@, n)]
      /\ v = [input |-> v.input, roster |-> v.roster, later |-> v.later]
  <2>1. w = [input |-> w.input, roster |-> w.roster, later |-> w.later]
      BY DEF Sound, Worlds
  <2>2. v = [w EXCEPT !.roster = [w.roster EXCEPT !.disposals = Append(@, n)]]
      BY DEF Dispose
  <2> HIDE DEF v
  <2> QED  BY <2>1, <2>2
<1>2. Append(w.roster.disposals, n) \in Seq(Nodes)
    BY AppendProperties DEF Sound, Worlds, Rosters
<1> HIDE DEF v
<1>3. v.roster \in Rosters /\ v.roster.queue = w.roster.queue
      /\ v.roster.deferred = w.roster.deferred /\ v.roster.awake = w.roster.awake
    BY <1>1, <1>2 DEF Sound, Worlds, Rosters
<1>4. v \in Worlds
    BY <1>1, <1>3 DEF Sound, Worlds
<1>5. Balanced(v)
    BY <1>1, <1>3 DEF Sound, Balanced
<1> QED  BY <1>1, <1>3, <1>4, <1>5 DEF Grows, Sound, Polls, v

LEMMA ListenersFacts ==
    ASSUME graph \in Graphs, NEW b \in Nodes, NEW a
    PROVE  /\ Listeners(b, a) \in Seq(Nodes)
           /\ \A n \in Nodes \ {a} : Contains(Out(b), n) => Contains(Listeners(b, a), n)
<1>1. Out(b) \in Seq(Nodes)
    BY GraphFacts
<1> QED  BY <1>1, OnlyType, OnlyContains DEF Listeners

\* An update that is left to the next flush is a gift to the other roster.
LEMMA NotifyLaterSwaps ==
    ASSUME NEW w, Sound(w), NEW b, NEW a
    PROVE  LET swapped == [input |-> w.input, roster |-> w.later, later |-> w.roster]
               h == Give(swapped, Listeners(b, a), Plain)
               v == NotifyLater(w, b, a)
           IN  /\ Sound(swapped)
               /\ v = [input |-> h.input, roster |-> h.later, later |-> h.roster]
<1> DEFINE u == [w EXCEPT !.roster = w.later]
           g == Give(u, Listeners(b, a), Plain)
           swapped == [input |-> w.input, roster |-> w.later, later |-> w.roster]
           h == Give(swapped, Listeners(b, a), Plain)
           v == NotifyLater(w, b, a)
           to == Only(Listeners(b, a), Nodes \ Has("sink"))
           fed(i) == [n \in Nodes |-> i[n] \o [j \in 1 .. Occurrences(to, n) |-> Plain]]
<1>1. /\ swapped \in Worlds /\ swapped.input = w.input
      /\ swapped.roster = w.later /\ swapped.later = w.roster
      /\ w = [input |-> w.input, roster |-> w.roster, later |-> w.later]
    BY DEF Sound, Worlds
<1>2. Sound(swapped)
  <2>1. \A n \in Nodes :
            /\ Occurrences(w.roster.queue, n) \in Nat /\ Occurrences(w.roster.deferred, n) \in Nat
            /\ Occurrences(w.later.queue, n) \in Nat /\ Occurrences(w.later.deferred, n) \in Nat
      BY OccurrencesType DEF Sound, Worlds, Rosters
  <2> HIDE DEF swapped
  <2> QED  BY <1>1, <2>1 DEF Sound, Balanced
<1>3. /\ g = [u EXCEPT !.input = fed(u.input), !.roster = [u.roster EXCEPT !.queue = @ \o to]]
      /\ h = [swapped EXCEPT !.input = fed(swapped.input),
                             !.roster = [swapped.roster EXCEPT !.queue = @ \o to]]
    BY DEF Give
<1>4. v = [w EXCEPT !.input = g.input, !.later = g.roster]
    BY DEF NotifyLater, Notify
<1> HIDE DEF g, h, v, to, fed
<1>5. u = [input |-> w.input, roster |-> w.later, later |-> w.later]
    BY <1>1
<1>6. swapped.input = w.input /\ swapped.roster = w.later /\ swapped.later = w.roster
    OBVIOUS
<1>7. u.input = w.input /\ u.roster = w.later /\ u.later = w.later
    BY <1>5
<1> HIDE DEF u
<1>8. /\ g = [input |-> fed(w.input), roster |-> [w.later EXCEPT !.queue = @ \o to],
              later |-> w.later]
      /\ h = [input |-> fed(w.input), roster |-> [w.later EXCEPT !.queue = @ \o to],
              later |-> w.roster]
    BY <1>3, <1>5, <1>6, <1>7
<1>9. v = [input |-> g.input, roster |-> w.roster, later |-> g.roster]
    BY <1>1, <1>4
<1>10. v = [input |-> h.input, roster |-> h.later, later |-> h.roster]
    BY <1>8, <1>9
<1> QED  BY <1>2, <1>10 DEF h, v

\* An update that is left to the next flush has the same effect on the balance.
LEMMA NotifyLaterGrows ==
    ASSUME graph \in Graphs, NEW w, Sound(w), NEW b \in Nodes, NEW a
    PROVE  /\ Grows(w, NotifyLater(w, b, a))
           /\ \A n \in Nodes \ (Has("sink") \cup {a}) :
                Contains(Out(b), n) => NotifyLater(w, b, a).input[n] # <<>>
<1> DEFINE swapped == [input |-> w.input, roster |-> w.later, later |-> w.roster]
           h == Give(swapped, Listeners(b, a), Plain)
           v == NotifyLater(w, b, a)
<1>1. Plain \in Messages /\ Listeners(b, a) \in Seq(Nodes)
    BY PlainIsMessage, ListenersFacts DEF Messages, Plain, Message
<1>2. /\ swapped.input = w.input /\ swapped.roster = w.later /\ swapped.later = w.roster
    OBVIOUS
<1>3. Sound(swapped) /\ v = [input |-> h.input, roster |-> h.later, later |-> h.roster]
    BY NotifyLaterSwaps
<1> HIDE DEF swapped, h, v
<1>4. /\ v.input = h.input /\ v.roster = h.later /\ v.later = h.roster
      /\ v = [input |-> v.input, roster |-> v.roster, later |-> v.later]
    BY <1>3
<1>5. /\ Grows(swapped, h)
      /\ \A n \in Nodes \ Has("sink") : Contains(Listeners(b, a), n) => h.input[n] # <<>>
    BY <1>1, <1>3, GiveGrows DEF h
<1>6. v \in Worlds
    BY <1>4, <1>5 DEF Grows, Sound, Worlds
<1>7. Balanced(v)
  <2>1. \A n \in Nodes :
            /\ Occurrences(v.roster.queue, n) \in Nat /\ Occurrences(v.roster.deferred, n) \in Nat
            /\ Occurrences(v.later.queue, n) \in Nat /\ Occurrences(v.later.deferred, n) \in Nat
      BY <1>6, OccurrencesType DEF Worlds, Rosters
  <2>2. Balanced(h)
      BY <1>5 DEF Grows, Sound
  <2> QED  BY <1>4, <2>1, <2>2 DEF Balanced
<1>8. \A t \in Tasks : Polls(v, t) = Polls(w, t)
  <2> TAKE t \in Tasks
  <2>1. Polls(h, t) = Polls(swapped, t)
      BY <1>5 DEF Grows
  <2>2. /\ Occurrences(v.roster.queue, t) \in Nat /\ Occurrences(v.later.queue, t) \in Nat
        /\ Occurrences(w.roster.queue, t) \in Nat /\ Occurrences(w.later.queue, t) \in Nat
      BY <1>6, OccurrencesType DEF Sound, Worlds, Rosters
  <2> QED  BY <1>2, <1>4, <2>1, <2>2 DEF Polls
<1>9. Grows(w, v)
    BY <1>2, <1>4, <1>5, <1>6, <1>7, <1>8 DEF Grows, Sound
<1>10. \A n \in Nodes \ (Has("sink") \cup {a}) : Contains(Out(b), n) => v.input[n] # <<>>
    BY <1>4, <1>5, ListenersFacts
<1> QED  BY <1>9, <1>10 DEF v

LEMMA GrowsReflexive ==
    ASSUME NEW w, Sound(w)
    PROVE  Grows(w, w)
BY DEF Grows

LEMMA UpdatedGrows ==
    ASSUME graph \in Graphs, NEW w, Sound(w), NEW b \in Nodes, NEW a
    PROVE  /\ Grows(w, Updated(w, b, a))
           /\ gate[b] # "closed" => \A n \in Nodes \ (Has("sink") \cup {a}) :
                Contains(Out(b), n) => Updated(w, b, a).input[n] # <<>>
BY NotifyLaterGrows, GrowsReflexive DEF Updated

LEMMA EndOfStreamsGrows ==
    ASSUME NEW w, Sound(w), NEW n \in Nodes
    PROVE  Grows(w, EndOfStreams(w, n))
BY DisposeGrows, GrowsReflexive DEF EndOfStreams

\* What a task defers is in the storage of the target at once.
LEMMA DeferStep ==
    ASSUME NEW w, Sound(w), NEW targets \in Seq(Nodes), NEW m \in Messages
    PROVE  LET u == [w EXCEPT !.roster.queue = <<>>]
               to == Only(targets, Nodes \ Has("sink"))
               v == Defer(w, targets, m)
           IN  /\ u \in Worlds /\ u.input = w.input
               /\ to \in Seq(Nodes) /\ v \in Worlds
               /\ v.input = Give(u, targets, m).input /\ v.later = w.later
               /\ v.roster.queue = w.roster.queue
               /\ v.roster.deferred = w.roster.deferred \o to /\ v.roster.awake = w.roster.awake
               /\ \A n \in Nodes : Len(v.input[n]) = Len(w.input[n]) + Occurrences(to, n)
<1> DEFINE u == [w EXCEPT !.roster.queue = <<>>]
           to == Only(targets, Nodes \ Has("sink"))
           g == Give(u, targets, m)
           v == Defer(w, targets, m)
<1>1. /\ w.roster.queue \in Seq(Nodes \cup Tasks) /\ w.roster.deferred \in Seq(Nodes)
      /\ w.later.queue \in Seq(Nodes \cup Tasks) /\ w.later.deferred \in Seq(Nodes)
    BY DEF Sound, Worlds, Rosters
<1>2. /\ u \in Worlds /\ u.input = w.input /\ u.later = w.later
      /\ u.roster = [w.roster EXCEPT !.queue = <<>>]
  <2>1. w = [input |-> w.input, roster |-> w.roster, later |-> w.later]
      BY DEF Sound, Worlds
  <2>2. u = [w EXCEPT !.roster = [w.roster EXCEPT !.queue = <<>>]]
      OBVIOUS
  <2> HIDE DEF u
  <2>3. /\ u.input = w.input /\ u.later = w.later
        /\ u.roster = [w.roster EXCEPT !.queue = <<>>]
        /\ u = [input |-> u.input, roster |-> u.roster, later |-> u.later]
      BY <2>1, <2>2
  <2>4. u.roster \in Rosters
    <3>1. w.roster \in Rosters /\ <<>> \in Seq(Nodes \cup Tasks)
        BY DEF Sound, Worlds
    <3> QED  BY <2>3, <3>1 DEF Rosters
  <2> QED  BY <2>3, <2>4 DEF Sound, Worlds
<1> HIDE DEF u
<1>3. /\ to \in Seq(Nodes) /\ g \in Worlds
      /\ g.roster = [u.roster EXCEPT !.queue = @ \o to] /\ g.later = u.later
      /\ \A n \in Nodes : Len(g.input[n]) = Len(u.input[n]) + Occurrences(to, n)
    BY <1>2, GiveStep, ZenonT(60)
<1>4. v = [g EXCEPT !.roster.queue = w.roster.queue,
                    !.roster.deferred = @ \o g.roster.queue]
    BY DEF Defer, u
<1> HIDE DEF to, g, v
<1>5. u.roster \in Rosters /\ u.roster.queue = <<>> /\ g.roster \in Rosters /\ w.roster \in Rosters
    BY <1>2, <1>3 DEF Sound, Worlds, Rosters
<1>6. /\ g.roster.queue = to /\ g.roster.deferred = w.roster.deferred
      /\ g.roster.awake = w.roster.awake
  <2>1. /\ g.roster.queue = u.roster.queue \o to /\ g.roster.deferred = u.roster.deferred
        /\ g.roster.awake = u.roster.awake
      BY <1>3, <1>5 DEF Rosters
  <2>2. u.roster.deferred = w.roster.deferred /\ u.roster.awake = w.roster.awake
      BY <1>2, <1>5 DEF Rosters
  <2> QED  BY <1>3, <1>5, <2>1, <2>2, ConcatEmptySeq
<1>7. /\ v.input = g.input /\ v.later = w.later
      /\ v.roster = [g.roster EXCEPT !.queue = w.roster.queue, !.deferred = w.roster.deferred \o to]
      /\ v = [input |-> v.input, roster |-> v.roster, later |-> v.later]
  <2>1. g = [input |-> g.input, roster |-> g.roster, later |-> g.later]
      BY <1>3 DEF Worlds
  <2> QED  BY <1>2, <1>3, <1>4, <1>6, <2>1
<1>8. /\ v.roster \in Rosters /\ v.roster.queue = w.roster.queue
      /\ v.roster.deferred = w.roster.deferred \o to /\ v.roster.awake = w.roster.awake
  <2>1. w.roster.deferred \o to \in Seq(Nodes)
      BY <1>1, <1>3, ConcatProperties
  <2> QED  BY <1>1, <1>5, <1>6, <1>7, <2>1 DEF Rosters
<1>9. v \in Worlds
    BY <1>3, <1>7, <1>8 DEF Sound, Worlds
<1>10. \A n \in Nodes : Len(v.input[n]) = Len(w.input[n]) + Occurrences(to, n)
    BY <1>2, <1>3, <1>7
<1> QED  BY <1>2, <1>3, <1>7, <1>8, <1>9, <1>10 DEF u, to, g, v

\* What a task defers is balanced by the queue of what is deferred.
LEMMA DeferGrows ==
    ASSUME graph \in Graphs, NEW w, Sound(w), NEW targets \in Seq(Nodes), NEW m \in Messages
    PROVE  Grows(w, Defer(w, targets, m))
<1> DEFINE to == Only(targets, Nodes \ Has("sink"))
           v == Defer(w, targets, m)
<1>1. /\ w.roster.queue \in Seq(Nodes \cup Tasks) /\ w.roster.deferred \in Seq(Nodes)
      /\ w.later.queue \in Seq(Nodes \cup Tasks) /\ w.later.deferred \in Seq(Nodes)
    BY DEF Sound, Worlds, Rosters
<1>2. /\ to \in Seq(Nodes) /\ v \in Worlds /\ v.later = w.later
      /\ v.roster.queue = w.roster.queue /\ v.roster.deferred = w.roster.deferred \o to
      /\ v.roster.awake = w.roster.awake
      /\ \A n \in Nodes : Len(v.input[n]) = Len(w.input[n]) + Occurrences(to, n)
    BY DeferStep
<1> HIDE DEF to, v
<1>3. \A n \in Nodes : /\ Len(v.input[n]) = Len(w.input[n]) + Occurrences(to, n)
                        /\ Occurrences(to, n) \in Nat
                        /\ Occurrences(v.roster.deferred, n)
                              = Occurrences(w.roster.deferred, n) + Occurrences(to, n)
  <2> TAKE n \in Nodes
  <2>1. Occurrences(to, n) \in Nat
      BY <1>2, OccurrencesType
  <2>2. Occurrences(w.roster.deferred \o to, n)
            = Occurrences(w.roster.deferred, n) + Occurrences(to, n)
      BY <1>1, <1>2, OccurrencesConcat
  <2> QED  BY <1>2, <2>1, <2>2
<1>4. Balanced(v)
  <2> SUFFICES ASSUME NEW n \in Nodes
               PROVE  Len(v.input[n]) =
                   Occurrences(v.roster.queue, n) + Occurrences(v.roster.deferred, n)
                   + Occurrences(v.later.queue, n) + Occurrences(v.later.deferred, n)
      BY DEF Balanced
  <2>1. /\ Occurrences(w.roster.queue, n) \in Nat /\ Occurrences(w.roster.deferred, n) \in Nat
        /\ Occurrences(w.later.queue, n) \in Nat /\ Occurrences(w.later.deferred, n) \in Nat
      BY <1>1, OccurrencesType
  <2>2. Len(w.input[n]) =
            Occurrences(w.roster.queue, n) + Occurrences(w.roster.deferred, n)
            + Occurrences(w.later.queue, n) + Occurrences(w.later.deferred, n)
      BY DEF Sound, Balanced
  <2> QED  BY <1>2, <1>3, <2>1, <2>2
<1>5. \A n \in Nodes : w.input[n] # <<>> => v.input[n] # <<>>
  <2>1. \A n \in Nodes : w.input[n] \in Seq(Messages) /\ v.input[n] \in Seq(Messages)
      BY <1>2 DEF Sound, Worlds
  <2> QED  BY <1>3, <2>1, EmptySeq
<1>6. \A t \in Tasks : Polls(v, t) = Polls(w, t)
    BY <1>2 DEF Polls
<1> QED  BY <1>2, <1>4, <1>5, <1>6 DEF Grows, Sound, v

\* A node that is next in the queue has an input; both are taken.
LEMMA TakenIsSound ==
    ASSUME graph \in Graphs, Sound(World), NEW n \in Nodes, IsNext(n)
    PROVE  /\ input[n] # <<>> /\ input[n] \in Seq(Messages)
           /\ Sound(Taken(n))
           /\ \A t \in Tasks : Polls(Taken(n), t) = Polls(World, t)
           /\ Taken(n).roster.awake = roster.awake /\ Taken(n).later = later
           /\ \A l \in Nodes \ {n} : Taken(n).input[l] = input[l]
<1> DEFINE v == Taken(n)
<1>1. /\ World \in Worlds /\ World.input = input /\ World.roster = roster
      /\ World.later = later
    BY DEF Sound, World
<1>2. /\ input \in [Nodes -> Seq(Messages)] /\ roster \in Rosters /\ later \in Rosters
      /\ roster.queue \in Seq(Nodes \cup Tasks) /\ roster.queue # <<>> /\ Head(roster.queue) = n
    BY <1>1 DEF Worlds, Rosters, IsNext
<1>3. /\ Tail(roster.queue) \in Seq(Nodes \cup Tasks)
      /\ \A x : /\ Occurrences(Tail(roster.queue), x) \in Nat
                /\ Occurrences(roster.queue, x) =
                       Occurrences(Tail(roster.queue), x) + IF x = n THEN 1 ELSE 0
    BY <1>2, OccurrencesTail
<1>4. \A l \in Nodes :
        /\ Len(input[l]) = Occurrences(roster.queue, l) + Occurrences(roster.deferred, l)
                           + Occurrences(later.queue, l) + Occurrences(later.deferred, l)
        /\ Occurrences(roster.deferred, l) \in Nat
        /\ Occurrences(later.queue, l) \in Nat /\ Occurrences(later.deferred, l) \in Nat
  <2>1. Balanced(World)
      BY DEF Sound
  <2> QED  BY <1>1, <1>2, <2>1, OccurrencesType DEF Balanced, Rosters
<1>5. input[n] # <<>> /\ input[n] \in Seq(Messages)
  <2>1. Len(input[n]) > 0
      BY <1>3, <1>4
  <2> QED  BY <1>2, <2>1, EmptySeq
<1>6. Tail(input[n]) \in Seq(Messages) /\ Len(Tail(input[n])) = Len(input[n]) - 1
    BY <1>5, HeadTailProperties
<1>7. /\ v.input = [input EXCEPT ![n] = Tail(@)] /\ v.later = later
      /\ v.roster = [roster EXCEPT !.queue = Tail(@)]
      /\ v = [input |-> v.input, roster |-> v.roster, later |-> v.later]
  <2>1. World = [input |-> World.input, roster |-> World.roster, later |-> World.later]
      BY DEF World
  <2>2. v = [World EXCEPT !.input = [World.input EXCEPT ![n] = Tail(@)],
                          !.roster = [World.roster EXCEPT !.queue = Tail(@)]]
      BY DEF Taken
  <2> HIDE DEF v
  <2> QED  BY <1>1, <2>1, <2>2
<1> HIDE DEF v
<1>8. /\ v.roster \in Rosters /\ v.roster.queue = Tail(roster.queue)
      /\ v.roster.deferred = roster.deferred /\ v.roster.awake = roster.awake
    BY <1>2, <1>3, <1>7 DEF Rosters
<1>9. v \in Worlds
  <2>1. v.input \in [Nodes -> Seq(Messages)]
      BY <1>2, <1>6, <1>7
  <2> QED  BY <1>2, <1>7, <1>8, <2>1 DEF Worlds
<1>10. Balanced(v)
  <2> SUFFICES ASSUME NEW l \in Nodes
               PROVE  Len(v.input[l]) =
                   Occurrences(v.roster.queue, l) + Occurrences(v.roster.deferred, l)
                   + Occurrences(v.later.queue, l) + Occurrences(v.later.deferred, l)
      BY DEF Balanced
  <2>1. Len(v.input[l]) = Len(input[l]) - IF l = n THEN 1 ELSE 0
    <3>1. Len(input[l]) \in Nat
        BY <1>2, LenProperties
    <3> QED  BY <1>2, <1>6, <1>7, <3>1
  <2>2. /\ v.roster.queue = Tail(roster.queue) /\ v.roster.deferred = roster.deferred
        /\ v.later = later
      BY <1>7, <1>8
  <2>3. CASE l = n
    <3>1. Occurrences(roster.queue, l) = Occurrences(Tail(roster.queue), l) + 1
        BY <1>3, <2>3
    <3>2. Len(v.input[l]) = Len(input[l]) - 1
        BY <2>1, <2>3
    <3>3. Occurrences(Tail(roster.queue), l) \in Nat
        BY <1>3
    <3> QED  BY <1>4, <2>2, <3>1, <3>2, <3>3, SMTT(30)
  <2>4. CASE l # n
      BY <1>3, <1>4, <2>1, <2>2, <2>4
  <2> QED  BY <2>3, <2>4
<1>11. \A t \in Tasks : Polls(v, t) = Polls(World, t)
  <2> TAKE t \in Tasks
  <2>1. t # n
      BY GraphFacts
  <2> QED  BY <1>1, <1>3, <1>7, <1>8, <2>1 DEF Polls
<1>12. \A l \in Nodes \ {n} : v.input[l] = input[l]
    BY <1>2, <1>7
<1> QED  BY <1>5, <1>7, <1>8, <1>9, <1>10, <1>11, <1>12 DEF Sound, v

\* A task that is next leaves the queue, and nothing else changes.
LEMMA PolledIsSound ==
    ASSUME graph \in Graphs, Sound(World), NEW t \in Tasks, IsNext(t),
           NEW v, v = [World EXCEPT !.roster.queue = Tail(@)]
    PROVE  /\ Sound(v) /\ v.input = input
           /\ \A s \in Tasks : /\ Polls(World, s) = Polls(v, s) + IF s = t THEN 1 ELSE 0
                               /\ Polls(v, s) \in Nat
           /\ v.roster.awake = roster.awake /\ v.later = later
           /\ v.roster.queue = Tail(roster.queue) /\ v.roster.deferred = roster.deferred
<1>1. /\ World \in Worlds /\ World.input = input /\ World.roster = roster
      /\ World.later = later
    BY DEF Sound, World
<1>2. /\ input \in [Nodes -> Seq(Messages)] /\ roster \in Rosters /\ later \in Rosters
      /\ roster.queue \in Seq(Nodes \cup Tasks) /\ roster.queue # <<>> /\ Head(roster.queue) = t
    BY <1>1 DEF Worlds, Rosters, IsNext
<1>3. /\ Tail(roster.queue) \in Seq(Nodes \cup Tasks)
      /\ \A x : /\ Occurrences(Tail(roster.queue), x) \in Nat
                /\ Occurrences(roster.queue, x) =
                       Occurrences(Tail(roster.queue), x) + IF x = t THEN 1 ELSE 0
    BY <1>2, OccurrencesTail
<1>4. /\ v.input = input /\ v.later = later
      /\ v.roster = [roster EXCEPT !.queue = Tail(@)]
      /\ v = [input |-> v.input, roster |-> v.roster, later |-> v.later]
    BY DEF World
<1>5. /\ v.roster \in Rosters /\ v.roster.queue = Tail(roster.queue)
      /\ v.roster.deferred = roster.deferred /\ v.roster.awake = roster.awake
    BY <1>2, <1>3, <1>4, ZenonT(60) DEF Rosters
<1>6. v \in Worlds
    BY <1>2, <1>4, <1>5 DEF Worlds
<1>7. Balanced(v)
  <2> SUFFICES ASSUME NEW l \in Nodes
               PROVE  Len(v.input[l]) =
                   Occurrences(v.roster.queue, l) + Occurrences(v.roster.deferred, l)
                   + Occurrences(v.later.queue, l) + Occurrences(v.later.deferred, l)
      BY DEF Balanced
  <2>1. l # t
      BY GraphFacts
  <2>2. Len(input[l]) = Occurrences(roster.queue, l) + Occurrences(roster.deferred, l)
                        + Occurrences(later.queue, l) + Occurrences(later.deferred, l)
      BY <1>1 DEF Sound, Balanced
  <2>3. Occurrences(roster.queue, l) = Occurrences(v.roster.queue, l)
      BY <1>3, <1>5, <2>1
  <2> QED  BY <1>4, <1>5, <2>2, <2>3
<1>8. \A s \in Tasks : /\ Polls(World, s) = Polls(v, s) + IF s = t THEN 1 ELSE 0
                       /\ Polls(v, s) \in Nat
  <2> TAKE s \in Tasks
  <2>1. Occurrences(later.queue, s) \in Nat
      BY <1>2, OccurrencesType DEF Rosters
  <2> QED  BY <1>1, <1>3, <1>4, <1>5, <2>1 DEF Polls
<1> QED  BY <1>4, <1>5, <1>6, <1>7, <1>8 DEF Sound

-----------------------------------------------------------------------------
(* The operations: each but a service gives what follows from its input.   *)

\* The types of what is not in World.
OtherTypes ==
    /\ graph \in Graphs
    /\ stage \in {"begin", "idle", "first", "full", "channel", "check", "queue", "awake", "dispose"}
    /\ loops \in Nat /\ received \in Nat /\ heard \in 0 .. Len(Collects)
    /\ channel \in Seq(Items) /\ wake \in Seq(Tasks)
    /\ tasks \in [Tasks -> ActiveTasks \cup {None}]
    /\ stored \in [Has("buffer") -> 0 .. Retention]
    /\ gate \in [Has("buffer") -> {"open", "closed"}]
    /\ pile \in [Has("collect") -> Nat \cup {None}]
    /\ status \in {"active", "terminated", "cancelled"}
    /\ judged \in BOOLEAN /\ released \subseteq Has("collect")

\* What is left of World once a step has become w.
LEMMA BecomeSound ==
    ASSUME NEW w, Sound(w), Become(w), UNCHANGED graph
    PROVE  /\ Sound(World)'
           /\ input' = w.input /\ roster' = w.roster /\ later' = w.later
           /\ \A t \in Tasks : Polls(World, t)' = Polls(w, t)
<1>1. /\ World'.input = w.input /\ World'.roster = w.roster /\ World'.later = w.later
      /\ input' = w.input /\ roster' = w.roster /\ later' = w.later
    BY DEF World, Become
<1>2. World' = [input |-> w.input, roster |-> w.roster, later |-> w.later]
    BY DEF World, Become
<1>3. w = [input |-> w.input, roster |-> w.roster, later |-> w.later]
    BY DEF Sound, Worlds
<1>4. World' = w
    BY <1>2, <1>3
<1>5. Sound(World)'
  <2>1. Nodes' = Nodes /\ Worlds' = Worlds
      BY DEF Nodes, Worlds, Messages, Rosters, Keyers, Has, Op
  <2> QED  BY <1>4, <2>1 DEF Sound, Balanced
<1>6. \A t \in Tasks : Polls(World, t)' = Polls(w, t)
    BY <1>4 DEF Polls
<1> QED  BY <1>1, <1>5, <1>6

\* The step of a node: what it took is followed by w.
LEMMA NodeStep ==
    ASSUME graph \in Graphs, Sound(World), NEW n \in Nodes, IsNext(n),
           NEW w, Grows(Taken(n), w), Become(w), UNCHANGED graph
    PROVE  /\ Sound(World)'
           /\ roster'.awake = roster.awake /\ later'.awake = later.awake
           /\ \A t \in Tasks : Polls(World, t)' = Polls(World, t)
           /\ \A l \in Nodes \ {n} : input[l] # <<>> => input'[l] # <<>>
<1>1. Sound(w)
    BY DEF Grows
<1> QED  BY <1>1, BecomeSound, TakenIsSound DEF Grows

LEMMA LeastStored ==
    ASSUME NEW D, NEW s \in Seq(D), s # <<>>, NEW f \in [D -> Nat]
    PROVE  LET least == Min({f[s[i]] : i \in DOMAIN s})
           IN  /\ least \in Nat
               /\ \A i \in DOMAIN s : least <= f[s[i]]
               /\ \E i \in DOMAIN s : least = f[s[i]]
<1> DEFINE held == {f[s[i]] : i \in DOMAIN s}
<1>1. DOMAIN s = 1 .. Len(s) /\ 1 \in DOMAIN s /\ \A i \in DOMAIN s : s[i] \in D
    BY EmptySeq, LenProperties
<1>2. held \in SUBSET Nat /\ held # {}
    BY <1>1
<1>3. PICK x \in held : \A y \in held : x <= y
  <2> HIDE DEF held
  <2> QED  BY <1>2, LeastMember
<1>4. Min(held) \in held /\ \A y \in held : Min(held) <= y
  <2> HIDE DEF held
  <2>1. Min(held) = CHOOSE z \in held : \A y \in held : z <= y
      BY DEF Min
  <2> QED  BY <1>3, <2>1
<1> QED  BY <1>2, <1>4

LEMMA SetsFacts ==
    ASSUME OtherTypes, NEW n \in Nodes, Op(n) = "join"
    PROVE  /\ Sets(n) \in Nat
           /\ \A i \in DOMAIN Buffers(n) : Sets(n) <= stored[Buffers(n)[i]]
           /\ \E i \in DOMAIN Buffers(n) : Sets(n) = stored[Buffers(n)[i]]
           /\ \A b \in Has("buffer") : Contains(Buffers(n), b) => Sets(n) <= stored[b]
<1>1. Buffers(n) \in Seq(Has("buffer")) /\ Buffers(n) # <<>>
    BY GraphFacts DEF OtherTypes
<1>2. stored \in [Has("buffer") -> Nat]
    BY BoundsAssumption DEF OtherTypes
<1>3. /\ Sets(n) \in Nat
      /\ \A i \in DOMAIN Buffers(n) : Sets(n) <= stored[Buffers(n)[i]]
      /\ \E i \in DOMAIN Buffers(n) : Sets(n) = stored[Buffers(n)[i]]
    BY <1>1, <1>2, LeastStored DEF Sets
<1>4. DOMAIN Buffers(n) = 1 .. Len(Buffers(n))
    BY <1>1, LenProperties
<1> QED  BY <1>3, <1>4 DEF Contains

\* Where the outputs of a join and the updates of a gate go.
LEMMA RepeatedType ==
    ASSUME graph \in Graphs, NEW n \in Nodes, NEW k \in Nat
    PROVE  FlattenSeq([i \in 1 .. k |-> Out(n)]) \in Seq(Nodes)
<1> DEFINE outs == [i \in 1 .. k |-> Out(n)]
<1>1. outs \in [1 .. k -> Seq(Nodes)]
    BY GraphFacts
<1> HIDE DEF outs
<1>2. outs \in Seq(Seq(Nodes))
    BY <1>1, SeqDef
<1> QED  BY <1>2, FlattenType DEF outs

LEMMA WokenFacts ==
    ASSUME graph \in Graphs, NEW n \in Nodes
    PROVE  /\ Woken(n) \in Seq(Nodes)
           /\ \A b \in Has("buffer"), l \in Nodes :
                 Contains(Buffers(n), b) /\ Opens(n, b) /\ Contains(Out(b), l)
                 => Contains(Woken(n), l)
<1> DEFINE each == [i \in DOMAIN Buffers(n) |->
                       IF Opens(n, Buffers(n)[i]) THEN Listeners(Buffers(n)[i], None) ELSE <<>>]
<1>1. /\ Buffers(n) \in Seq(Has("buffer")) /\ Len(Buffers(n)) \in Nat
      /\ DOMAIN Buffers(n) = 1 .. Len(Buffers(n))
      /\ \A i \in 1 .. Len(Buffers(n)) : Buffers(n)[i] \in Nodes
  <2>1. Buffers(n) \in Seq(Has("buffer"))
      BY GraphFacts
  <2> QED  BY <2>1, LenProperties DEF Has
<1>2. each \in [1 .. Len(Buffers(n)) -> Seq(Nodes)]
    BY <1>1, ListenersFacts
<1>3. each \in Seq(Seq(Nodes)) /\ Len(each) = Len(Buffers(n))
  <2> HIDE DEF each
  <2>1. each \in Seq(Seq(Nodes))
      BY <1>1, <1>2, SeqDef
  <2> QED  BY <1>1, <1>2, <2>1, LenProperties
<1>4. ASSUME NEW b \in Has("buffer"), NEW l \in Nodes,
             Contains(Buffers(n), b), Opens(n, b), Contains(Out(b), l)
      PROVE  Contains(FlattenSeq(each), l)
  <2>1. PICK i \in 1 .. Len(Buffers(n)) : Buffers(n)[i] = b
      BY <1>4 DEF Contains
  <2>2. l # None /\ Contains(Listeners(b, None), l)
      BY <1>4, GraphFacts, ListenersFacts DEF Has
  <2>3. each[i] = Listeners(b, None)
      BY <1>1, <1>4, <2>1
  <2> HIDE DEF each
  <2>4. i \in 1 .. Len(each) /\ Contains(each[i], l)
      BY <1>3, <2>1, <2>2, <2>3
  <2> QED  BY <1>3, <2>4, FlattenContains
<1> HIDE DEF each
<1>5. FlattenSeq(each) \in Seq(Nodes)
    BY <1>3, FlattenType
<1>6. Woken(n) = FlattenSeq(each)
    BY DEF Woken, each
<1> QED  BY <1>4, <1>5, <1>6

\* Fork, Access, Listen, Branch, Filter, and the end of a session.
LEMMA MessagesGrow ==
    ASSUME OtherTypes, Sound(World), NEW n \in Nodes, IsNext(n),
           Fork(n) \/ Access(n) \/ Listen(n) \/ Branch(n) \/ Filter(n) \/ Finish(n)
    PROVE  \E w : Become(w) /\ Grows(Taken(n), w)
<1>1. /\ graph \in Graphs /\ Sound(Taken(n)) /\ Out(n) \in Seq(Nodes)
      /\ Plain \in Messages
    BY TakenIsSound, GraphFacts DEF OtherTypes, Plain, Message, Messages
<1>2. CASE Fork(n)
    BY <1>1, <1>2, GiveGrows DEF Fork
<1>3. CASE Access(n) \/ Listen(n)
  <2>1. Keyed(n) \in Messages
      BY <1>3 DEF Access, Listen, Keyed, Message, Messages, Keyers, Has
  <2> QED  BY <1>1, <1>3, <2>1, GiveGrows DEF Access, Listen
<1>4. CASE Branch(n)
  <2>1. PICK i \in DOMAIN Out(n) : Become(Dispose(Give(Taken(n), <<Out(n)[i]>>, Plain), n))
      BY <1>4 DEF Branch
  <2>2. <<Out(n)[i]>> \in Seq(Nodes)
      BY <1>1, LenProperties
  <2>3. Grows(Taken(n), Give(Taken(n), <<Out(n)[i]>>, Plain))
      BY <1>1, <2>2, GiveGrows
  <2>4. Grows(Give(Taken(n), <<Out(n)[i]>>, Plain),
              Dispose(Give(Taken(n), <<Out(n)[i]>>, Plain), n))
      BY <2>3, DisposeGrows DEF Grows
  <2> QED  BY <2>1, <2>3, <2>4, GrowsTransitive
<1>5. CASE Filter(n)
    BY <1>1, <1>5, GiveGrows, DisposeGrows DEF Filter
<1>6. CASE Finish(n)
    BY <1>1, <1>6, GrowsReflexive DEF Finish
<1> QED  BY <1>2, <1>3, <1>4, <1>5, <1>6

LEMMA StoreGrows ==
    ASSUME OtherTypes, Sound(World), NEW b \in Nodes, IsNext(b), Store(b)
    PROVE  /\ \E w : Become(w) /\ Grows(Taken(b), w)
           /\ gate[b] # "closed" => \A n \in Nodes \ (Has("sink") \cup {b}) :
                Contains(Out(b), n) => input'[n] # <<>>
<1>1. graph \in Graphs /\ Sound(Taken(b))
    BY TakenIsSound DEF OtherTypes
<1>2. Become(Updated(Taken(b), b, b))
    BY DEF Store
<1>3. /\ Grows(Taken(b), Updated(Taken(b), b, b))
      /\ gate[b] # "closed" => \A n \in Nodes \ (Has("sink") \cup {b}) :
           Contains(Out(b), n) => Updated(Taken(b), b, b).input[n] # <<>>
    BY <1>1, UpdatedGrows
<1> QED  BY <1>2, <1>3 DEF Become

LEMMA JoinGrows ==
    ASSUME OtherTypes, Sound(World), NEW n \in Nodes, IsNext(n), Join(n)
    PROVE  \E w : Become(w) /\ Grows(Taken(n), w)
<1> DEFINE all == FlattenSeq([i \in 1 .. Sets(n) |-> Out(n)])
<1>1. graph \in Graphs /\ Sound(Taken(n)) /\ Plain \in Messages
    BY TakenIsSound DEF OtherTypes, Plain, Message, Messages
<1>2. all \in Seq(Nodes) /\ Become(Give(Taken(n), all, Plain))
    BY <1>1, SetsFacts, RepeatedType DEF Join
<1> HIDE DEF all
<1> QED  BY <1>1, <1>2, GiveGrows

LEMMA GateGrows ==
    ASSUME OtherTypes, Sound(World), NEW n \in Nodes, IsNext(n), Gate(n)
    PROVE  /\ \E w : Become(w) /\ Grows(Taken(n), w)
           /\ \A b \in Has("buffer"), l \in Nodes \ Has("sink") :
                 Contains(Buffers(n), b) /\ Opens(n, b) /\ Contains(Out(b), l)
                 => input'[l] # <<>>
<1> DEFINE first == Give(Taken(n), Woken(n), Plain)
           given == Give(first, Out(n), Plain)
           v == IF graph.node[n].action = "closed" THEN Dispose(given, n) ELSE given
<1>1. /\ graph \in Graphs /\ Sound(Taken(n)) /\ Out(n) \in Seq(Nodes)
      /\ Plain \in Messages /\ Woken(n) \in Seq(Nodes)
    BY TakenIsSound, GraphFacts, WokenFacts DEF OtherTypes, Plain, Message, Messages
<1>2. Become(v)
    BY DEF Gate
<1>3. /\ Grows(Taken(n), first) /\ Sound(first)
      /\ \A l \in Nodes \ Has("sink") : Contains(Woken(n), l) => first.input[l] # <<>>
    BY <1>1, GiveGrows DEF Grows
<1> HIDE DEF first
<1>4. Grows(first, given) /\ Sound(given)
    BY <1>1, <1>3, GiveGrows DEF Grows
<1> HIDE DEF given
<1>5. Grows(given, v)
    BY <1>4, DisposeGrows, GrowsReflexive
<1> HIDE DEF v
<1>6. Grows(first, v) /\ Grows(Taken(n), v)
    BY <1>3, <1>4, <1>5, GrowsTransitive
<1>7. \A l \in Nodes \ Has("sink") : Contains(Woken(n), l) => v.input[l] # <<>>
    BY <1>3, <1>6 DEF Grows
<1>8. input' = v.input
    BY <1>2 DEF Become
<1> QED  BY <1>1, <1>2, <1>6, <1>7, <1>8, WokenFacts

LEMMA ConcludeGrows ==
    ASSUME graph \in Graphs, NEW w, Sound(w), NEW n \in Nodes, NEW h, Conclude(w, n, h)
    PROVE  \E v : Become(v) /\ Grows(w, v)
<1>1. Out(n) \in Seq(Nodes) /\ Plain \in Messages
    BY GraphFacts DEF Plain, Message, Messages
<1> QED  BY <1>1, GiveGrows, DisposeGrows DEF Conclude

LEMMA CollectGrows ==
    ASSUME OtherTypes, Sound(World), NEW n \in Nodes, IsNext(n), Collect(n)
    PROVE  \E w : Become(w) /\ Grows(Taken(n), w)
<1>1. /\ graph \in Graphs /\ Sound(Taken(n)) /\ Out(n) \in Seq(Nodes)
      /\ Plain \in Messages
    BY TakenIsSound, GraphFacts DEF OtherTypes, Plain, Message, Messages
<1>2. \/ Become(Give(Taken(n), Out(n), Plain)) \/ Become(Taken(n))
      \/ \E h : Conclude(Taken(n), n, h)
    BY DEF Collect
<1>3. Grows(Taken(n), Give(Taken(n), Out(n), Plain)) /\ Grows(Taken(n), Taken(n))
    BY <1>1, GiveGrows, GrowsReflexive
<1> QED  BY <1>1, <1>2, <1>3, ConcludeGrows

-----------------------------------------------------------------------------
(* The invariant.  The counts of TasksAreQueued are kept one by one, for   *)
(* what moves between the queues moves a sequence at a time.               *)

Wakes(t) == Occurrences(wake, t) + Occurrences(roster.awake, t) + Occurrences(later.awake, t)

PollsExpected(t) == IF tasks[t] # None /\ ~tasks[t].polled THEN 1 ELSE 0
WakesExpected(t) == IF tasks[t] # None /\ tasks[t].polled /\ tasks[t].done THEN 1 ELSE 0

TasksCounted ==
    \A t \in Tasks : Polls(World, t) = PollsExpected(t) /\ Wakes(t) = WakesExpected(t)

IInv == OtherTypes /\ Sound(World) /\ TasksCounted

LEMMA SameSets ==
    ASSUME UNCHANGED graph
    PROVE  /\ Nodes' = Nodes /\ Keyers' = Keyers /\ Items' = Items
           /\ ActiveTasks' = ActiveTasks /\ Collects' = Collects
           /\ Has("buffer")' = Has("buffer") /\ Has("collect")' = Has("collect")
           /\ Has("join")' = Has("join")
BY DEF Nodes, Keyers, Items, ActiveTasks, ActiveTask, Collects, Has, Op, Only

LEMMA CollectsFacts ==
    ASSUME graph \in Graphs
    PROVE  /\ Collects \in Seq(Nodes) /\ Len(Collects) \in Nat
           /\ \A i \in 1 .. Len(Collects) : Collects[i] \in Has("collect")
<1>1. graph.order \in Seq(Nodes)
    BY GraphFacts
<1>2. Collects \in Seq(Nodes) /\ Collects \in Seq(Has("collect"))
    BY <1>1, OnlyType DEF Collects
<1> QED  BY <1>2, LenProperties

\* A step that leaves the tasks alone and moves no entry of theirs.
LEMMA TasksKept ==
    ASSUME TasksCounted, UNCHANGED <<tasks, wake>>,
           roster'.awake = roster.awake, later'.awake = later.awake,
           \A t \in Tasks : Polls(World, t)' = Polls(World, t)
    PROVE  TasksCounted'
BY DEF TasksCounted, Wakes, PollsExpected, WakesExpected

-----------------------------------------------------------------------------
(* The execution of a node.                                                *)

LEMMA CountedTypes ==
    ASSUME OtherTypes, Counted
    PROVE  /\ stage' \in {"awake", "queue"} /\ loops' \in Nat
           /\ received' \in Nat /\ heard' = heard
<1>1. graph.loops \in Nat \cup {None}
    BY GraphFacts DEF OtherTypes
<1> QED  BY <1>1 DEF Counted, OtherTypes

LEMMA PushedType ==
    ASSUME OtherTypes, NEW b \in Has("buffer")
    PROVE  /\ Pushed(b) \in [Has("buffer") -> 0 .. Retention]
           /\ \A c \in Has("buffer") : c # b => Pushed(b)[c] = stored[c]
BY BoundsAssumption DEF OtherTypes, Pushed

\* The operations that neither start a task nor hold anything.
LEMMA PlainNodes ==
    ASSUME IInv, NEW n \in Nodes, IsNext(n), Counted,
           Fork(n) \/ Access(n) \/ Listen(n) \/ Branch(n) \/ Filter(n) \/ Finish(n)
    PROVE  IInv'
<1>1. OtherTypes /\ Sound(World) /\ TasksCounted /\ graph \in Graphs
    BY DEF IInv, OtherTypes
<1>2. PICK w : Become(w) /\ Grows(Taken(n), w)
    BY <1>1, MessagesGrow
<1>3. /\ UNCHANGED <<graph, channel, wake, tasks, stored, gate, pile, released, judged>>
      /\ status' \in {status, "terminated", "cancelled"}
    BY DEF Fork, Access, Listen, Branch, Filter, Finish, OnlyMessages, NoTask, Quiet
<1>4. /\ Sound(World)' /\ roster'.awake = roster.awake /\ later'.awake = later.awake
      /\ \A t \in Tasks : Polls(World, t)' = Polls(World, t)
    BY <1>1, <1>2, <1>3, NodeStep
<1>5. OtherTypes'
    BY <1>1, <1>3, SameSets, CountedTypes DEF OtherTypes
<1> QED  BY <1>1, <1>3, <1>4, <1>5, TasksKept DEF IInv

LEMMA StoreTypes ==
    ASSUME IInv, NEW n \in Nodes, IsNext(n), Counted, Store(n)
    PROVE  IInv'
<1>1. OtherTypes /\ Sound(World) /\ TasksCounted /\ graph \in Graphs
    BY DEF IInv, OtherTypes
<1>2. PICK w : Become(w) /\ Grows(Taken(n), w)
    BY <1>1, StoreGrows
<1>3. /\ UNCHANGED <<graph, channel, wake, tasks, gate, pile, released, status, judged>>
      /\ n \in Has("buffer") /\ stored' = Pushed(n)
    BY DEF Store, NoTask, Quiet, Has
<1>4. /\ Sound(World)' /\ roster'.awake = roster.awake /\ later'.awake = later.awake
      /\ \A t \in Tasks : Polls(World, t)' = Polls(World, t)
    BY <1>1, <1>2, <1>3, NodeStep
<1>5. OtherTypes'
    BY <1>1, <1>3, SameSets, CountedTypes, PushedType DEF OtherTypes
<1> QED  BY <1>1, <1>3, <1>4, <1>5, TasksKept DEF IInv

LEMMA JoinedFacts ==
    ASSUME OtherTypes, NEW n \in Nodes, Join(n)
    PROVE  /\ stored' \in [Has("buffer") -> 0 .. Retention]
           /\ \A b \in Has("buffer") : stored'[b] <= stored[b]
           /\ \E i \in DOMAIN Buffers(n) : stored'[Buffers(n)[i]] = 0
<1>1. /\ Op(n) = "join" /\ Sets(n) \in Nat
      /\ \A b \in Has("buffer") : Contains(Buffers(n), b) => Sets(n) <= stored[b]
    BY SetsFacts DEF Join
<1>2. /\ stored \in [Has("buffer") -> 0 .. Retention] /\ Retention \in Nat
      /\ stored' = [b \in Has("buffer") |->
                      IF Contains(Buffers(n), b) THEN stored[b] - Sets(n) ELSE stored[b]]
    BY BoundsAssumption DEF OtherTypes, Join
<1>3. \A b \in Has("buffer") : stored[b] \in 0 .. Retention
    BY <1>2
<1>4. \A b \in Has("buffer") : stored'[b] \in 0 .. Retention /\ stored'[b] <= stored[b]
    BY <1>1, <1>2, <1>3
<1>5. PICK i \in DOMAIN Buffers(n) : Sets(n) = stored[Buffers(n)[i]]
    BY <1>1, SetsFacts
<1>6. Buffers(n) \in Seq(Has("buffer"))
    BY GraphFacts DEF OtherTypes
<1>7. Buffers(n)[i] \in Has("buffer") /\ Contains(Buffers(n), Buffers(n)[i])
    BY <1>6, LenProperties DEF Contains
<1>8. stored'[Buffers(n)[i]] = 0
    BY <1>1, <1>2, <1>3, <1>5, <1>7
<1> QED  BY <1>2, <1>4, <1>8

LEMMA JoinTypes ==
    ASSUME IInv, NEW n \in Nodes, IsNext(n), Counted, Join(n)
    PROVE  IInv'
<1>1. OtherTypes /\ Sound(World) /\ TasksCounted /\ graph \in Graphs
    BY DEF IInv, OtherTypes
<1>2. PICK w : Become(w) /\ Grows(Taken(n), w)
    BY <1>1, JoinGrows
<1>3. UNCHANGED <<graph, channel, wake, tasks, gate, pile, released, status, judged>>
    BY DEF Join, NoTask, Quiet
<1>4. /\ Sound(World)' /\ roster'.awake = roster.awake /\ later'.awake = later.awake
      /\ \A t \in Tasks : Polls(World, t)' = Polls(World, t)
    BY <1>1, <1>2, <1>3, NodeStep
<1>5. OtherTypes'
    BY <1>1, <1>3, SameSets, CountedTypes, JoinedFacts DEF OtherTypes
<1> QED  BY <1>1, <1>3, <1>4, <1>5, TasksKept DEF IInv

LEMMA GateTypes ==
    ASSUME IInv, NEW n \in Nodes, IsNext(n), Counted, Gate(n)
    PROVE  IInv'
<1>1. OtherTypes /\ Sound(World) /\ TasksCounted /\ graph \in Graphs
    BY DEF IInv, OtherTypes
<1>2. PICK w : Become(w) /\ Grows(Taken(n), w)
    BY <1>1, GateGrows
<1>3. UNCHANGED <<graph, channel, wake, tasks, stored, pile, released, status, judged>>
    BY DEF Gate, NoTask, Quiet
<1>4. /\ Sound(World)' /\ roster'.awake = roster.awake /\ later'.awake = later.awake
      /\ \A t \in Tasks : Polls(World, t)' = Polls(World, t)
    BY <1>1, <1>2, <1>3, NodeStep
<1>5. gate' \in [Has("buffer") -> {"open", "closed"}]
  <2>1. graph.node[n].action \in {"open", "closed"}
      BY <1>1, GraphFacts DEF Gate
  <2> QED  BY <1>1, <2>1 DEF Gate, OtherTypes
<1>6. OtherTypes'
    BY <1>1, <1>3, <1>5, SameSets, CountedTypes DEF OtherTypes
<1> QED  BY <1>1, <1>3, <1>4, <1>6, TasksKept DEF IInv

LEMMA ConcludeTypes ==
    ASSUME OtherTypes, NEW w, NEW n \in Has("collect"),
           NEW h \in [Has("collect") -> Nat \cup {None}], Conclude(w, n, h)
    PROVE  /\ pile' \in [Has("collect") -> Nat \cup {None}]
           /\ released' \subseteq Has("collect")
BY DEF Conclude, OtherTypes

LEMMA CollectTypes ==
    ASSUME IInv, NEW n \in Nodes, IsNext(n), Counted, Collect(n)
    PROVE  IInv'
<1>1. OtherTypes /\ Sound(World) /\ TasksCounted /\ graph \in Graphs
    BY DEF IInv, OtherTypes
<1>2. PICK w : Become(w) /\ Grows(Taken(n), w)
    BY <1>1, CollectGrows
<1>3. /\ UNCHANGED <<graph, channel, wake, tasks, stored, gate, status, judged>>
      /\ n \in Has("collect")
    BY DEF Collect, NoTask, Quiet, Has
<1>4. /\ Sound(World)' /\ roster'.awake = roster.awake /\ later'.awake = later.awake
      /\ \A t \in Tasks : Polls(World, t)' = Polls(World, t)
    BY <1>1, <1>2, <1>3, NodeStep
<1> DEFINE held == [pile EXCEPT ![n] = Count(n) + 1]
<1>5. held \in [Has("collect") -> Nat \cup {None}]
  <2>1. Count(n) + 1 \in Nat
      BY <1>1, <1>3 DEF Count, OtherTypes
  <2> QED  BY <1>1, <2>1 DEF OtherTypes
<1>6. \/ pile' = [pile EXCEPT ![n] = 0] /\ UNCHANGED released
      \/ pile' = held /\ UNCHANGED released
      \/ Conclude(Taken(n), n, held)
    BY DEF Collect
<1> HIDE DEF held
<1>7. /\ pile' \in [Has("collect") -> Nat \cup {None}]
      /\ released' \subseteq Has("collect")
  <2>1. /\ pile \in [Has("collect") -> Nat \cup {None}] /\ released \subseteq Has("collect")
        /\ [pile EXCEPT ![n] = 0] \in [Has("collect") -> Nat \cup {None}]
      BY <1>1, <1>3 DEF OtherTypes
  <2>2. CASE Conclude(Taken(n), n, held)
      BY <1>1, <1>3, <1>5, <2>2, ConcludeTypes
  <2> QED  BY <1>5, <1>6, <2>1, <2>2
<1>8. OtherTypes'
    BY <1>1, <1>3, <1>7, SameSets, CountedTypes DEF OtherTypes
<1> QED  BY <1>1, <1>3, <1>4, <1>8, TasksKept DEF IInv

\* The first poll of a task is queued.
LEMMA QueuedIsSound ==
    ASSUME graph \in Graphs, NEW w, Sound(w), NEW t \in Tasks
    PROVE  LET v == Queued(w, t)
           IN  /\ Sound(v) /\ v.input = w.input
               /\ \A s \in Tasks : Polls(v, s) = Polls(w, s) + IF s = t THEN 1 ELSE 0
               /\ v.roster.awake = w.roster.awake /\ v.later = w.later
<1> DEFINE v == Queued(w, t)
<1>1. /\ w \in Worlds /\ w.roster \in Rosters /\ w.later \in Rosters
      /\ w.roster.queue \in Seq(Nodes \cup Tasks) /\ w.later.queue \in Seq(Nodes \cup Tasks)
    BY DEF Sound, Worlds, Rosters
<1>2. /\ Append(w.roster.queue, t) \in Seq(Nodes \cup Tasks)
      /\ \A x : Occurrences(Append(w.roster.queue, t), x)
                  = Occurrences(w.roster.queue, x) + IF x = t THEN 1 ELSE 0
    BY <1>1, AppendProperties, OccurrencesAppend
<1>3. /\ v.input = w.input /\ v.later = w.later
      /\ v.roster = [w.roster EXCEPT !.queue = Append(@, t)]
      /\ v = [input |-> v.input, roster |-> v.roster, later |-> v.later]
  <2>1. w = [input |-> w.input, roster |-> w.roster, later |-> w.later]
      BY <1>1 DEF Worlds
  <2>2. v = [w EXCEPT !.roster = [w.roster EXCEPT !.queue = Append(@, t)]]
      BY DEF Queued
  <2> HIDE DEF v
  <2> QED  BY <2>1, <2>2
<1> HIDE DEF v
<1>4. /\ v.roster \in Rosters /\ v.roster.queue = Append(w.roster.queue, t)
      /\ v.roster.deferred = w.roster.deferred /\ v.roster.awake = w.roster.awake
    BY <1>1, <1>2, <1>3 DEF Rosters
<1>5. v \in Worlds
    BY <1>1, <1>3, <1>4 DEF Worlds
<1>6. Balanced(v)
  <2> SUFFICES ASSUME NEW l \in Nodes
               PROVE  Len(v.input[l]) =
                   Occurrences(v.roster.queue, l) + Occurrences(v.roster.deferred, l)
                   + Occurrences(v.later.queue, l) + Occurrences(v.later.deferred, l)
      BY DEF Balanced
  <2>1. l # t
      BY GraphFacts
  <2>2. Occurrences(v.roster.queue, l) = Occurrences(w.roster.queue, l)
    <3>1. Occurrences(w.roster.queue, l) \in Nat
        BY <1>1, OccurrencesType
    <3>2. Occurrences(v.roster.queue, l)
              = Occurrences(w.roster.queue, l) + IF l = t THEN 1 ELSE 0
        BY <1>2, <1>4
    <3> QED  BY <2>1, <3>1, <3>2
  <2> QED  BY <1>3, <1>4, <2>2 DEF Sound, Balanced
<1>7. ASSUME NEW s \in Tasks PROVE Polls(v, s) = Polls(w, s) + IF s = t THEN 1 ELSE 0
  <2>1. Occurrences(w.roster.queue, s) \in Nat /\ Occurrences(w.later.queue, s) \in Nat
      BY <1>1, OccurrencesType
  <2>2. Occurrences(v.roster.queue, s) = Occurrences(w.roster.queue, s) + IF s = t THEN 1 ELSE 0
      BY <1>2, <1>4
  <2> QED  BY <1>3, <2>1, <2>2 DEF Polls
<1> QED  BY <1>3, <1>4, <1>5, <1>6, <1>7 DEF Sound, v

LEMMA ServeTypes ==
    ASSUME IInv, NEW n \in Nodes, IsNext(n), Counted, Serve(n)
    PROVE  /\ IInv'
           /\ \A l \in Nodes \ {n} : input[l] # <<>> => input'[l] # <<>>
<1>1. OtherTypes /\ Sound(World) /\ TasksCounted /\ graph \in Graphs
    BY DEF IInv, OtherTypes
<1> DEFINE free == {t \in Tasks : tasks[t] = None /\ ~InFlight(t)}
           t == CHOOSE t \in free : TRUE
           new == [node |-> n, key |-> Head(input[n]).key, streamed |-> 0, pushed |-> 0,
                   polled |-> FALSE, done |-> FALSE, dropping |-> FALSE]
           v == Queued(Taken(n), t)
<1>2. /\ free # {} /\ tasks' = [tasks EXCEPT ![t] = new] /\ Become(v)
      /\ UNCHANGED <<graph, channel, wake, stored, gate, pile, released, status, judged>>
    BY DEF Serve, Quiet
<1>3. t \in Tasks /\ tasks[t] = None
    BY <1>2
<1>4. /\ new \in ActiveTasks /\ new # None /\ ~new.polled
  <2>1. Head(input[n]) \in Messages
      BY <1>1, TakenIsSound, HeadTailProperties
  <2>2. new \in ActiveTasks
      BY <2>1 DEF Serve, ActiveTasks, ActiveTask, Messages, Has
  <2> HIDE DEF new
  <2>3. new # None
      BY <1>1, <2>2, GraphFacts
  <2> QED  BY <2>2, <2>3 DEF new
<1> HIDE DEF free, t, new
<1>5. /\ Sound(v)
      /\ \A s \in Tasks : Polls(v, s) = Polls(World, s) + IF s = t THEN 1 ELSE 0
      /\ v.roster.awake = roster.awake /\ v.later.awake = later.awake
      /\ \A l \in Nodes \ {n} : v.input[l] = input[l]
  <2>1. /\ Sound(Taken(n)) /\ Taken(n).roster.awake = roster.awake
        /\ Taken(n).later = later
        /\ \A s \in Tasks : Polls(Taken(n), s) = Polls(World, s)
        /\ \A l \in Nodes \ {n} : Taken(n).input[l] = input[l]
      BY <1>1, TakenIsSound
  <2>2. /\ Sound(v) /\ v.input = Taken(n).input
        /\ v.roster.awake = Taken(n).roster.awake /\ v.later = Taken(n).later
        /\ \A s \in Tasks : Polls(v, s) = Polls(Taken(n), s) + IF s = t THEN 1 ELSE 0
      BY <1>1, <1>3, <2>1, QueuedIsSound
  <2> HIDE DEF v
  <2> QED  BY <2>1, <2>2
<1> HIDE DEF v
<1>6. /\ Sound(World)' /\ input' = v.input /\ roster'.awake = roster.awake
      /\ later'.awake = later.awake
      /\ \A s \in Tasks : Polls(World, s)' = Polls(v, s)
    BY <1>2, <1>5, BecomeSound
<1>7. /\ tasks' \in [Tasks -> ActiveTasks \cup {None}] /\ tasks'[t] = new
      /\ \A s \in Tasks \ {t} : tasks'[s] = tasks[s]
    BY <1>1, <1>2, <1>3, <1>4 DEF OtherTypes
<1>8. OtherTypes'
    BY <1>1, <1>2, <1>7, SameSets, CountedTypes DEF OtherTypes
<1>9. TasksCounted'
  <2> SUFFICES ASSUME NEW s \in Tasks
               PROVE  Polls(World, s)' = PollsExpected(s)' /\ Wakes(s)' = WakesExpected(s)'
      BY DEF TasksCounted
  <2>1. Wakes(s)' = Wakes(s)
      BY <1>2, <1>6 DEF Wakes
  <2>2. Polls(World, s) = PollsExpected(s) /\ Wakes(s) = WakesExpected(s)
      BY <1>1 DEF TasksCounted
  <2>3. Polls(World, s)' = Polls(World, s) + IF s = t THEN 1 ELSE 0
      BY <1>5, <1>6
  <2>4. CASE s = t
    <3>1. PollsExpected(s) = 0 /\ WakesExpected(s) = 0
        BY <1>3, <2>4 DEF PollsExpected, WakesExpected
    <3>2. PollsExpected(s)' = 1 /\ WakesExpected(s)' = 0
        BY <1>4, <1>7, <2>4 DEF PollsExpected, WakesExpected
    <3> QED  BY <2>1, <2>2, <2>3, <2>4, <3>1, <3>2
  <2>5. CASE s # t
    <3>1. PollsExpected(s)' = PollsExpected(s) /\ WakesExpected(s)' = WakesExpected(s)
        BY <1>7, <2>5 DEF PollsExpected, WakesExpected
    <3> QED  BY <2>1, <2>2, <2>3, <2>5, <3>1 DEF PollsExpected
  <2> QED  BY <2>4, <2>5
<1> QED  BY <1>5, <1>6, <1>8, <1>9 DEF IInv

\* No node but the one that executes loses an input.
LEMMA ExecuteKeeps ==
    ASSUME IInv, NEW n \in Nodes, Execute(n)
    PROVE  /\ IInv' /\ UNCHANGED graph
           /\ \A l \in Nodes \ {n} : input[l] # <<>> => input'[l] # <<>>
<1>1. OtherTypes /\ Sound(World) /\ graph \in Graphs /\ IsNext(n) /\ Counted
    BY DEF IInv, OtherTypes, Execute
<1>2. CASE Serve(n)
    BY <1>1, <1>2, ServeTypes DEF Serve, Quiet
<1>3. CASE ~Serve(n)
  <2>1. IInv'
      BY <1>1, <1>3, PlainNodes, StoreTypes, JoinTypes, GateTypes, CollectTypes DEF Execute
  <2>2. \E w : Become(w) /\ Grows(Taken(n), w)
      BY <1>1, <1>3, MessagesGrow, StoreGrows, JoinGrows, GateGrows, CollectGrows DEF Execute
  <2>3. UNCHANGED graph
      BY <1>3 DEF Execute, Fork, Access, Listen, Branch, Filter, Store, Join, Gate, Collect,
                  Finish, OnlyMessages, Quiet
  <2> QED  BY <1>1, <2>1, <2>2, <2>3, NodeStep
<1> QED  BY <1>2, <1>3

-----------------------------------------------------------------------------
(* The polls of a task.                                                    *)

LEMMA PollKeeps ==
    ASSUME OtherTypes, NEW t \in Tasks, tasks[t] # None, UNCHANGED graph,
           NEW w, Sound(w), Poll(t, w)
    PROVE  /\ Sound(World)'
           /\ roster'.awake = w.roster.awake /\ later'.awake = w.later.awake
           /\ \A s \in Tasks : Polls(World, s)' = Polls(w, s)
           /\ \A n \in Nodes : w.input[n] # <<>> => input'[n] # <<>>
           /\ tasks' \in [Tasks -> ActiveTasks \cup {None}]
           /\ \A s \in Tasks \ {t} : tasks'[s] = tasks[s]
           /\ \/ tasks[t].done /\ tasks'[t] = None
              \/ /\ ~tasks[t].done
                 /\ tasks'[t] # None /\ tasks'[t].polled /\ ~tasks'[t].done
           /\ UNCHANGED <<channel, wake>>
<1>1. /\ graph \in Graphs /\ tasks \in [Tasks -> ActiveTasks \cup {None}]
      /\ tasks[t] \in ActiveTasks
    BY DEF OtherTypes
<1> DEFINE n == tasks[t].node
           m == Message(t, TRUE, None)
           v == EndOfStreams(Defer(w, Out(n), m), n)
<1>2. CASE tasks[t].done /\ Become(v) /\ tasks' = [tasks EXCEPT ![t] = None]
  <2>1. n \in Nodes /\ m \in Messages
      BY <1>1 DEF ActiveTasks, ActiveTask, Has, Message, Messages
  <2>2. Out(n) \in Seq(Nodes)
      BY <1>1, <2>1, GraphFacts
  <2> HIDE DEF n, m
  <2>3. Grows(w, Defer(w, Out(n), m))
      BY <1>1, <2>1, <2>2, DeferGrows
  <2>4. Grows(Defer(w, Out(n), m), v)
      BY <2>1, <2>3, EndOfStreamsGrows DEF Grows
  <2>5. Grows(w, v)
      BY <2>3, <2>4, GrowsTransitive
  <2> HIDE DEF v
  <2>6. /\ Sound(World)' /\ input' = v.input /\ roster' = v.roster /\ later' = v.later
        /\ \A s \in Tasks : Polls(World, s)' = Polls(v, s)
      BY <1>2, <2>5, BecomeSound DEF Grows
  <2>7. /\ tasks' \in [Tasks -> ActiveTasks \cup {None}] /\ tasks'[t] = None
        /\ \A s \in Tasks \ {t} : tasks'[s] = tasks[s]
      BY <1>1, <1>2
  <2> QED  BY <1>2, <2>5, <2>6, <2>7 DEF Grows, Poll
<1>3. CASE ~tasks[t].done /\ Become(w) /\ tasks' = [tasks EXCEPT ![t].polled = TRUE]
  <2>1. /\ Sound(World)' /\ input' = w.input /\ roster' = w.roster /\ later' = w.later
        /\ \A s \in Tasks : Polls(World, s)' = Polls(w, s)
      BY <1>3, BecomeSound
  <2> DEFINE new == [tasks[t] EXCEPT !.polled = TRUE]
  <2>2. new \in ActiveTasks /\ new.polled /\ new.done = tasks[t].done
      BY <1>1 DEF ActiveTasks, ActiveTask
  <2>3. tasks' = [tasks EXCEPT ![t] = new]
      BY <1>3
  <2> HIDE DEF new
  <2>4. /\ tasks' \in [Tasks -> ActiveTasks \cup {None}] /\ tasks'[t] = new
        /\ \A s \in Tasks \ {t} : tasks'[s] = tasks[s]
      BY <1>1, <2>2, <2>3
  <2>5. new # None
      BY <1>1, <2>2, GraphFacts
  <2> QED  BY <1>3, <2>1, <2>2, <2>4, <2>5 DEF Poll
<1> QED  BY <1>2, <1>3 DEF Poll

LEMMA FirstPollKeeps ==
    ASSUME IInv, NEW t \in Tasks, FirstPoll(t)
    PROVE  /\ IInv' /\ UNCHANGED <<graph, stored, gate>>
           /\ \A n \in Nodes : input[n] # <<>> => input'[n] # <<>>
<1>1. /\ OtherTypes /\ Sound(World) /\ TasksCounted /\ graph \in Graphs
      /\ UNCHANGED <<graph, stored, gate, pile, released, status, judged>>
      /\ IsNext(t) /\ Counted
    BY DEF IInv, OtherTypes, FirstPoll, Quiet
<1> DEFINE w == [World EXCEPT !.roster.queue = Tail(@)]
<1>2. Poll(t, w)
    BY DEF FirstPoll
<1>3. /\ Sound(w) /\ w.input = input
      /\ \A s \in Tasks : /\ Polls(World, s) = Polls(w, s) + IF s = t THEN 1 ELSE 0
                          /\ Polls(w, s) \in Nat
      /\ w.roster.awake = roster.awake /\ w.later.awake = later.awake
  <2>1. w = [World EXCEPT !.roster.queue = Tail(@)]
      OBVIOUS
  <2> HIDE DEF w
  <2> QED  BY <1>1, <2>1, PolledIsSound
<1> HIDE DEF w
<1>4. tasks[t] # None /\ ~tasks[t].polled /\ Polls(w, t) = 0
  <2>1. Polls(World, t) = PollsExpected(t)
      BY <1>1 DEF TasksCounted
  <2>2. Polls(World, t) = Polls(w, t) + 1 /\ Polls(w, t) \in Nat
      BY <1>3
  <2> QED  BY <2>1, <2>2 DEF PollsExpected
<1>5. /\ Sound(World)'
      /\ roster'.awake = roster.awake /\ later'.awake = later.awake
      /\ \A s \in Tasks : Polls(World, s)' = Polls(w, s)
      /\ \A n \in Nodes : input[n] # <<>> => input'[n] # <<>>
      /\ tasks' \in [Tasks -> ActiveTasks \cup {None}]
      /\ \A s \in Tasks \ {t} : tasks'[s] = tasks[s]
      /\ \/ tasks'[t] = None
         \/ tasks'[t] # None /\ tasks'[t].polled /\ ~tasks'[t].done
      /\ UNCHANGED <<channel, wake>>
    BY <1>1, <1>2, <1>3, <1>4, PollKeeps
<1>6. OtherTypes'
    BY <1>1, <1>5, SameSets, CountedTypes DEF OtherTypes
<1>7. TasksCounted'
  <2> SUFFICES ASSUME NEW s \in Tasks
               PROVE  Polls(World, s)' = PollsExpected(s)' /\ Wakes(s)' = WakesExpected(s)'
      BY DEF TasksCounted
  <2>1. Wakes(s)' = Wakes(s)
      BY <1>5 DEF Wakes
  <2>2. Polls(World, s) = PollsExpected(s) /\ Wakes(s) = WakesExpected(s)
      BY <1>1 DEF TasksCounted
  <2>3. CASE s = t
    <3>1. PollsExpected(s)' = 0 /\ WakesExpected(s)' = 0 /\ WakesExpected(s) = 0
        BY <1>4, <1>5, <2>3 DEF PollsExpected, WakesExpected
    <3> QED  BY <1>4, <1>5, <2>1, <2>2, <2>3, <3>1
  <2>4. CASE s # t
    <3>1. PollsExpected(s)' = PollsExpected(s) /\ WakesExpected(s)' = WakesExpected(s)
        BY <1>5, <2>4 DEF PollsExpected, WakesExpected
    <3>2. Polls(World, s)' = Polls(World, s)
        BY <1>3, <1>5, <2>4
    <3> QED  BY <2>1, <2>2, <3>1, <3>2
  <2> QED  BY <2>3, <2>4
<1> QED  BY <1>1, <1>5, <1>6, <1>7 DEF IInv

\* A task that is to be woken leaves that queue, and nothing else changes.
LEMMA AwokenIsSound ==
    ASSUME Sound(World), roster.awake # <<>>,
           NEW v, v = [World EXCEPT !.roster.awake = Tail(@)]
    PROVE  /\ Sound(v) /\ v.input = input /\ v.later = later
           /\ v.roster.awake = Tail(roster.awake)
           /\ v.roster.queue = roster.queue /\ v.roster.deferred = roster.deferred
           /\ \A s \in Tasks : Polls(v, s) = Polls(World, s)
<1>1. /\ World \in Worlds /\ World.input = input /\ World.roster = roster
      /\ World.later = later
    BY DEF Sound, World
<1>2. /\ roster \in Rosters /\ later \in Rosters /\ roster.awake \in Seq(Tasks)
      /\ Tail(roster.awake) \in Seq(Tasks)
    BY <1>1, HeadTailProperties DEF Worlds, Rosters
<1>3. /\ v.input = input /\ v.later = later
      /\ v.roster = [roster EXCEPT !.awake = Tail(@)]
      /\ v = [input |-> v.input, roster |-> v.roster, later |-> v.later]
    BY DEF World
<1>4. /\ v.roster \in Rosters /\ v.roster.awake = Tail(roster.awake)
      /\ v.roster.queue = roster.queue /\ v.roster.deferred = roster.deferred
    BY <1>2, <1>3, ZenonT(60) DEF Rosters
<1>5. v \in Worlds
    BY <1>1, <1>3, <1>4 DEF Worlds
<1>6. /\ v.input = World.input /\ v.later = World.later
      /\ v.roster.queue = World.roster.queue /\ v.roster.deferred = World.roster.deferred
    BY <1>1, <1>3, <1>4
<1>7. Balanced(v)
    BY <1>6 DEF Sound, Balanced
<1>8. \A s \in Tasks : Polls(v, s) = Polls(World, s)
    BY <1>6 DEF Polls
<1> QED  BY <1>3, <1>4, <1>5, <1>7, <1>8 DEF Sound

LEMMA AwakenKeeps ==
    ASSUME IInv, NEW t \in Tasks, Awaken(t)
    PROVE  /\ IInv' /\ UNCHANGED <<graph, stored, gate>>
           /\ \A n \in Nodes : input[n] # <<>> => input'[n] # <<>>
<1>1. /\ OtherTypes /\ Sound(World) /\ TasksCounted /\ graph \in Graphs
      /\ UNCHANGED <<graph, stage, loops, received, heard, stored, gate, pile, released,
                     status, judged>>
      /\ roster.awake # <<>> /\ Head(roster.awake) = t
    BY DEF IInv, OtherTypes, Awaken, Quiet, Nodal
<1> DEFINE w == [World EXCEPT !.roster.awake = Tail(@)]
<1>2. Poll(t, w)
    BY DEF Awaken
<1>3. /\ Sound(w) /\ w.input = input /\ w.later = later
      /\ w.roster.awake = Tail(roster.awake)
      /\ \A s \in Tasks : Polls(w, s) = Polls(World, s)
  <2>1. w = [World EXCEPT !.roster.awake = Tail(@)]
      OBVIOUS
  <2> HIDE DEF w
  <2> QED  BY <1>1, <2>1, AwokenIsSound
<1> HIDE DEF w
<1>4. /\ roster.awake \in Seq(Tasks) /\ later.awake \in Seq(Tasks) /\ wake \in Seq(Tasks)
    BY <1>1 DEF Sound, World, Worlds, Rosters, OtherTypes
<1>5. \A s \in Tasks :
        /\ Occurrences(roster.awake, s) =
               Occurrences(w.roster.awake, s) + IF s = t THEN 1 ELSE 0
        /\ Occurrences(w.roster.awake, s) \in Nat /\ Occurrences(later.awake, s) \in Nat
        /\ Occurrences(wake, s) \in Nat
    BY <1>1, <1>3, <1>4, OccurrencesTail, OccurrencesType, ZenonT(60)
<1>6. /\ tasks[t] # None /\ tasks[t].polled /\ tasks[t].done
      /\ Occurrences(w.roster.awake, t) = 0 /\ Occurrences(later.awake, t) = 0
      /\ Occurrences(wake, t) = 0
  <2>1. Wakes(t) = WakesExpected(t)
      BY <1>1 DEF TasksCounted
  <2>2. Occurrences(roster.awake, t) = Occurrences(w.roster.awake, t) + 1
      BY <1>5
  <2> QED  BY <1>5, <2>1, <2>2 DEF Wakes, WakesExpected
<1>7. /\ Sound(World)'
      /\ roster'.awake = w.roster.awake /\ later'.awake = later.awake
      /\ \A s \in Tasks : Polls(World, s)' = Polls(w, s)
      /\ \A n \in Nodes : input[n] # <<>> => input'[n] # <<>>
      /\ tasks' \in [Tasks -> ActiveTasks \cup {None}]
      /\ \A s \in Tasks \ {t} : tasks'[s] = tasks[s]
      /\ tasks'[t] = None
      /\ UNCHANGED <<channel, wake>>
    BY <1>1, <1>2, <1>3, <1>6, PollKeeps
<1>8. OtherTypes'
    BY <1>1, <1>7, SameSets DEF OtherTypes
<1>9. TasksCounted'
  <2> SUFFICES ASSUME NEW s \in Tasks
               PROVE  Polls(World, s)' = PollsExpected(s)' /\ Wakes(s)' = WakesExpected(s)'
      BY DEF TasksCounted
  <2>1. Polls(World, s)' = Polls(World, s)
      BY <1>3, <1>7
  <2>2. Polls(World, s) = PollsExpected(s) /\ Wakes(s) = WakesExpected(s)
      BY <1>1 DEF TasksCounted
  <2>3. Wakes(s)' = Occurrences(wake, s) + Occurrences(w.roster.awake, s)
                    + Occurrences(later.awake, s)
      BY <1>7 DEF Wakes
  <2>4. CASE s = t
    <3>1. PollsExpected(s)' = 0 /\ WakesExpected(s)' = 0 /\ PollsExpected(s) = 0
        BY <1>6, <1>7, <2>4 DEF PollsExpected, WakesExpected
    <3> QED  BY <1>6, <2>1, <2>2, <2>3, <2>4, <3>1
  <2>5. CASE s # t
    <3>1. PollsExpected(s)' = PollsExpected(s) /\ WakesExpected(s)' = WakesExpected(s)
        BY <1>7, <2>5 DEF PollsExpected, WakesExpected
    <3>2. Occurrences(roster.awake, s) = Occurrences(w.roster.awake, s)
        BY <1>5, <2>5
    <3> QED  BY <2>1, <2>2, <2>3, <3>1, <3>2 DEF Wakes
  <2> QED  BY <2>4, <2>5
<1> QED  BY <1>1, <1>7, <1>8, <1>9 DEF IInv

-----------------------------------------------------------------------------
(* What a running task does.                                               *)

LEMMA WorldKept ==
    ASSUME Sound(World), UNCHANGED <<graph, input, roster, later>>
    PROVE  Sound(World)' /\ \A t \in Tasks : Polls(World, t)' = Polls(World, t)
BY BecomeSound DEF Become, World

LEMMA TaskActs ==
    ASSUME IInv, NEW t \in Tasks, tasks[t] # None, Unflushed, UNCHANGED wake,
           NEW a \in ActiveTasks, tasks' = [tasks EXCEPT ![t] = a],
           a.polled = tasks[t].polled, a.done = tasks[t].done, channel' \in Seq(Items)
    PROVE  IInv'
<1>1. /\ OtherTypes /\ Sound(World) /\ TasksCounted /\ graph \in Graphs
      /\ UNCHANGED <<graph, input, roster, later, stage, loops, received, heard, stored, gate,
                     pile, status, judged, released>>
    BY DEF IInv, OtherTypes, Unflushed, flush
<1>2. Sound(World)' /\ \A s \in Tasks : Polls(World, s)' = Polls(World, s)
    BY <1>1, WorldKept
<1>3. /\ tasks' \in [Tasks -> ActiveTasks \cup {None}] /\ tasks'[t] = a
      /\ \A s \in Tasks \ {t} : tasks'[s] = tasks[s]
    BY <1>1 DEF OtherTypes
<1>4. OtherTypes'
    BY <1>1, <1>3, SameSets DEF OtherTypes
<1>5. a # None
    BY <1>1, GraphFacts
<1>6. \A s \in Tasks : PollsExpected(s)' = PollsExpected(s) /\ WakesExpected(s)' = WakesExpected(s)
    BY <1>3, <1>5 DEF PollsExpected, WakesExpected
<1>7. \A s \in Tasks : Wakes(s)' = Wakes(s)
    BY <1>1 DEF Wakes
<1> QED  BY <1>1, <1>2, <1>4, <1>6, <1>7 DEF IInv, TasksCounted

LEMMA TaskFacts ==
    ASSUME OtherTypes, NEW t \in Tasks, tasks[t] # None
    PROVE  /\ tasks[t] \in ActiveTasks /\ tasks[t].node \in Nodes
           /\ tasks[t].key \in Keyers \cup {None}
           /\ tasks[t].key # None =>
                tasks[t].key \in Keyers /\ Buffers(tasks[t].key) \in Seq(Has("buffer"))
<1>1. tasks[t] \in ActiveTasks
    BY DEF OtherTypes
<1>2. tasks[t].node \in Nodes /\ tasks[t].key \in Keyers \cup {None}
    BY <1>1 DEF ActiveTasks, ActiveTask, Has
<1>3. Keyers \subseteq Nodes
    BY DEF Keyers, Has
<1>4. \A n \in Nodes : Buffers(n) \in Seq(Has("buffer"))
    BY GraphFacts DEF OtherTypes
<1> QED  BY <1>1, <1>2, <1>3, <1>4

LEMMA SendKeeps ==
    ASSUME IInv, NEW t \in Tasks, Send(t)
    PROVE  IInv'
<1>1. OtherTypes /\ graph \in Graphs /\ tasks[t] # None
    BY DEF IInv, OtherTypes, Send, IsAwake
<1> DEFINE a == [tasks[t] EXCEPT !.streamed = @ + 1]
<1>2. a \in ActiveTasks /\ a.polled = tasks[t].polled /\ a.done = tasks[t].done
    BY <1>1, TaskFacts DEF ActiveTasks, ActiveTask
<1>3. tasks' = [tasks EXCEPT ![t] = a]
    BY DEF Send
<1> HIDE DEF a
<1>4. channel' \in Seq(Items)
  <2>1. PICK i \in DOMAIN Stream(tasks[t].node) :
            channel' = Append(channel, Sent("stream", t, Stream(tasks[t].node)[i]))
      BY DEF Send
  <2>2. Stream(tasks[t].node) \in Seq(Nodes)
      BY <1>1, TaskFacts, GraphFacts
  <2>3. Stream(tasks[t].node)[i] \in Nodes
      BY <2>2, LenProperties
  <2>4. Sent("stream", t, Stream(tasks[t].node)[i]) \in Items
      BY <2>3 DEF Sent, Items
  <2>5. channel \in Seq(Items)
      BY <1>1 DEF OtherTypes
  <2> QED  BY <2>1, <2>4, <2>5, AppendProperties
<1> QED  BY <1>1, <1>2, <1>3, <1>4, TaskActs DEF Send

LEMMA PushWithKeyKeeps ==
    ASSUME IInv, NEW t \in Tasks, PushWithKey(t)
    PROVE  IInv'
<1>1. OtherTypes /\ graph \in Graphs /\ tasks[t] # None /\ tasks[t].key # None
    BY DEF IInv, OtherTypes, PushWithKey, IsAwake, HoldsKey
<1> DEFINE a == [tasks[t] EXCEPT !.pushed = @ + 1]
<1>2. a \in ActiveTasks /\ a.polled = tasks[t].polled /\ a.done = tasks[t].done
    BY <1>1, TaskFacts DEF ActiveTasks, ActiveTask
<1>3. tasks' = [tasks EXCEPT ![t] = a]
    BY DEF PushWithKey
<1> HIDE DEF a
<1>4. channel' \in Seq(Items)
  <2>1. PICK i \in DOMAIN Buffers(tasks[t].key) :
            channel' = Append(channel, Sent("push", tasks[t].key, Buffers(tasks[t].key)[i]))
      BY DEF PushWithKey
  <2>2. tasks[t].key \in Keyers /\ Buffers(tasks[t].key) \in Seq(Has("buffer"))
      BY <1>1, TaskFacts
  <2>3. Buffers(tasks[t].key)[i] \in Has("buffer")
      BY <2>2, LenProperties
  <2>4. Sent("push", tasks[t].key, Buffers(tasks[t].key)[i]) \in Items
      BY <2>2, <2>3 DEF Sent, Items
  <2>5. channel \in Seq(Items)
      BY <1>1 DEF OtherTypes
  <2> QED  BY <2>1, <2>4, <2>5, AppendProperties
<1> QED  BY <1>1, <1>2, <1>3, <1>4, TaskActs DEF PushWithKey

LEMMA DropKeyKeeps ==
    ASSUME IInv, NEW t \in Tasks, DropKey(t)
    PROVE  IInv'
<1>1. OtherTypes /\ graph \in Graphs /\ tasks[t] # None /\ tasks[t].key # None
    BY DEF IInv, OtherTypes, DropKey, IsAwake, HoldsKey
<1> DEFINE a == [tasks[t] EXCEPT !.dropping = TRUE]
<1>2. a \in ActiveTasks /\ a.polled = tasks[t].polled /\ a.done = tasks[t].done
    BY <1>1, TaskFacts DEF ActiveTasks, ActiveTask
<1>3. tasks' = [tasks EXCEPT ![t] = a]
    BY DEF DropKey
<1> HIDE DEF a
<1>4. channel' \in Seq(Items)
  <2>1. channel \in Seq(Items) /\ tasks[t].key \in Keyers
      BY <1>1, TaskFacts DEF OtherTypes
  <2>2. Sent("drop", tasks[t].key, None) \in Items
      BY <2>1 DEF Sent, Items
  <2> QED  BY <2>1, <2>2, AppendProperties DEF DropKey
<1> QED  BY <1>1, <1>2, <1>3, <1>4, TaskActs DEF DropKey

LEMMA DropTrackerKeeps ==
    ASSUME IInv, NEW t \in Tasks, DropTracker(t)
    PROVE  IInv'
<1>1. OtherTypes /\ graph \in Graphs /\ tasks[t] # None
    BY DEF IInv, OtherTypes, DropTracker, IsAwake
<1> DEFINE a == [tasks[t] EXCEPT !.key = None, !.dropping = FALSE]
<1>2. a \in ActiveTasks /\ a.polled = tasks[t].polled /\ a.done = tasks[t].done
    BY <1>1, TaskFacts DEF ActiveTasks, ActiveTask
<1>3. tasks' = [tasks EXCEPT ![t] = a]
  <2>1. tasks \in [Tasks -> ActiveTasks \cup {None}]
      BY <1>1 DEF OtherTypes
  <2> QED  BY <1>1, <2>1, TaskFacts DEF DropTracker, ActiveTasks, ActiveTask
<1> HIDE DEF a
<1>4. channel' \in Seq(Items)
    BY <1>1 DEF DropTracker, OtherTypes
<1> QED  BY <1>1, <1>2, <1>3, <1>4, TaskActs DEF DropTracker

LEMMA CompleteKeeps ==
    ASSUME IInv, NEW t \in Tasks, Complete(t)
    PROVE  IInv'
<1>1. /\ OtherTypes /\ Sound(World) /\ TasksCounted /\ graph \in Graphs
      /\ tasks[t] # None /\ ~tasks[t].done
      /\ UNCHANGED <<graph, input, roster, later, stage, loops, received, heard, stored, gate,
                     pile, status, judged, released, channel>>
    BY DEF IInv, OtherTypes, Complete, IsAwake, Unflushed, flush
<1> DEFINE a == [tasks[t] EXCEPT !.done = TRUE]
<1>2. a \in ActiveTasks /\ a.polled = tasks[t].polled /\ a.done /\ a # None
  <2>1. a \in ActiveTasks /\ a.polled = tasks[t].polled /\ a.done
      BY <1>1, TaskFacts DEF ActiveTasks, ActiveTask
  <2> HIDE DEF a
  <2> QED  BY <1>1, <2>1, GraphFacts
<1>3. tasks' = [tasks EXCEPT ![t] = a]
    BY DEF Complete
<1> HIDE DEF a
<1>4. /\ tasks' \in [Tasks -> ActiveTasks \cup {None}] /\ tasks'[t] = a
      /\ \A s \in Tasks \ {t} : tasks'[s] = tasks[s]
    BY <1>1, <1>2, <1>3 DEF OtherTypes
<1>5. wake \in Seq(Tasks) /\ wake' = IF tasks[t].polled THEN Append(wake, t) ELSE wake
    BY <1>1 DEF Complete, WokenOnce, OtherTypes
<1>6. /\ wake' \in Seq(Tasks)
      /\ \A s \in Tasks :
            Occurrences(wake', s) =
                Occurrences(wake, s) + IF s = t /\ tasks[t].polled THEN 1 ELSE 0
  <2>1. \A s \in Tasks : Occurrences(wake, s) \in Nat
      BY <1>5, OccurrencesType
  <2>2. CASE tasks[t].polled
    <3>1. wake' = Append(wake, t)
        BY <1>5, <2>2
    <3> QED  BY <1>5, <2>2, <3>1, AppendProperties, OccurrencesAppend
  <2>3. CASE ~tasks[t].polled
      BY <1>5, <2>1, <2>3
  <2> QED  BY <2>2, <2>3
<1>7. Sound(World)' /\ \A s \in Tasks : Polls(World, s)' = Polls(World, s)
    BY <1>1, WorldKept
<1>8. OtherTypes'
    BY <1>1, <1>4, <1>6, SameSets DEF OtherTypes
<1>9. TasksCounted'
  <2> SUFFICES ASSUME NEW s \in Tasks
               PROVE  Polls(World, s)' = PollsExpected(s)' /\ Wakes(s)' = WakesExpected(s)'
      BY DEF TasksCounted
  <2>1. Polls(World, s) = PollsExpected(s) /\ Wakes(s) = WakesExpected(s)
      BY <1>1 DEF TasksCounted
  <2>2. /\ Occurrences(wake, s) \in Nat /\ Occurrences(roster.awake, s) \in Nat
        /\ Occurrences(later.awake, s) \in Nat
      BY <1>1, <1>5, OccurrencesType DEF Sound, World, Worlds, Rosters
  <2>3. PollsExpected(s)' = PollsExpected(s)
      BY <1>1, <1>2, <1>4 DEF PollsExpected
  <2>4. WakesExpected(s)' = WakesExpected(s) + IF s = t /\ tasks[t].polled THEN 1 ELSE 0
    <3>1. CASE s = t
        BY <1>1, <1>2, <1>4, <3>1 DEF WakesExpected
    <3>2. CASE s # t
        BY <1>4, <3>2 DEF WakesExpected
    <3> QED  BY <3>1, <3>2
  <2>5. Wakes(s)' = Wakes(s) + IF s = t /\ tasks[t].polled THEN 1 ELSE 0
    <3>1. Occurrences(wake', s) = Occurrences(wake, s) + IF s = t /\ tasks[t].polled THEN 1 ELSE 0
        BY <1>6
    <3> DEFINE d == IF s = t /\ tasks[t].polled THEN 1 ELSE 0
    <3>2. d \in Nat /\ Occurrences(wake', s) = Occurrences(wake, s) + d
        BY <3>1
    <3> HIDE DEF d
    <3>3. Wakes(s)' = Wakes(s) + d
        BY <1>1, <2>2, <3>2 DEF Wakes
    <3> QED  BY <3>3 DEF d
  <2> QED  BY <1>7, <2>1, <2>3, <2>4, <2>5
<1> QED  BY <1>1, <1>7, <1>8, <1>9 DEF IInv

-----------------------------------------------------------------------------
(* The steps of the flush.                                                 *)

\* Entries that move between the queues, the wakes and the two rosters.
LEMMA EntriesMove ==
    ASSUME Sound(World), TasksCounted, UNCHANGED <<graph, input, tasks>>,
           roster' \in Rosters, later' \in Rosters,
           \A n \in Nodes :
               Occurrences(roster'.queue, n) + Occurrences(roster'.deferred, n)
               + Occurrences(later'.queue, n) + Occurrences(later'.deferred, n)
                 = Occurrences(roster.queue, n) + Occurrences(roster.deferred, n)
                   + Occurrences(later.queue, n) + Occurrences(later.deferred, n),
           \A t \in Tasks :
               /\ Occurrences(roster'.queue, t) + Occurrences(later'.queue, t)
                    = Occurrences(roster.queue, t) + Occurrences(later.queue, t)
               /\ Occurrences(wake', t) + Occurrences(roster'.awake, t)
                  + Occurrences(later'.awake, t)
                    = Occurrences(wake, t) + Occurrences(roster.awake, t)
                      + Occurrences(later.awake, t)
    PROVE  Sound(World)' /\ TasksCounted'
<1> DEFINE v == [input |-> input, roster |-> roster', later |-> later']
<1>1. World \in Worlds /\ World.input = input /\ World.roster = roster /\ World.later = later
    BY DEF Sound, World
<1>2. /\ v \in Worlds /\ v.input = input /\ v.roster = roster' /\ v.later = later'
    BY <1>1 DEF Worlds
<1>3. World' = v
    BY DEF World
<1> HIDE DEF v
<1>4. Balanced(v)
    BY <1>1, <1>2 DEF Sound, Balanced
<1>5. Worlds' = Worlds /\ Nodes' = Nodes
    BY DEF Worlds, Messages, Rosters, Keyers, Has, Op, Nodes
<1>6. Sound(World)'
    BY <1>2, <1>3, <1>4, <1>5 DEF Sound, Balanced
<1>7. TasksCounted'
  <2> SUFFICES ASSUME NEW t \in Tasks
               PROVE  Polls(World, t)' = PollsExpected(t)' /\ Wakes(t)' = WakesExpected(t)'
      BY DEF TasksCounted
  <2>1. Polls(World, t) = PollsExpected(t) /\ Wakes(t) = WakesExpected(t)
      BY DEF TasksCounted
  <2>2. Polls(World, t)' = Polls(World, t)
      BY <1>1, <1>2, <1>3 DEF Polls
  <2>3. Wakes(t)' = Wakes(t)
      BY DEF Wakes
  <2>4. PollsExpected(t)' = PollsExpected(t) /\ WakesExpected(t)' = WakesExpected(t)
      BY DEF PollsExpected, WakesExpected
  <2> QED  BY <2>1, <2>2, <2>3, <2>4
<1> QED  BY <1>6, <1>7

\* Nothing moves but disposals and requests for a validation.
LEMMA EntriesStay ==
    ASSUME Sound(World), TasksCounted, UNCHANGED <<graph, input, tasks, wake, later>>,
           roster' \in Rosters, roster'.queue = roster.queue,
           roster'.deferred = roster.deferred, roster'.awake = roster.awake
    PROVE  Sound(World)' /\ TasksCounted'
<1>1. later' \in Rosters
    BY DEF Sound, World, Worlds
<1> QED  BY <1>1, EntriesMove

LEMMA EmptyRoster ==
    /\ NoRoster \in Rosters /\ NoRoster.queue = <<>> /\ NoRoster.deferred = <<>>
    /\ NoRoster.awake = <<>>
BY DEF NoRoster, Rosters

LEMMA AppendedFacts ==
    ASSUME NEW r \in Rosters, NEW s \in Rosters
    PROVE  /\ Appended(r, s) \in Rosters
           /\ Appended(r, s).queue = r.queue \o s.queue
           /\ Appended(r, s).deferred = r.deferred \o s.deferred
           /\ Appended(r, s).awake = r.awake \o s.awake
           /\ \A x :
                /\ Occurrences(Appended(r, s).queue, x)
                     = Occurrences(r.queue, x) + Occurrences(s.queue, x)
                /\ Occurrences(Appended(r, s).deferred, x)
                     = Occurrences(r.deferred, x) + Occurrences(s.deferred, x)
                /\ Occurrences(Appended(r, s).awake, x)
                     = Occurrences(r.awake, x) + Occurrences(s.awake, x)
<1>1. /\ r.queue \in Seq(Nodes \cup Tasks) /\ s.queue \in Seq(Nodes \cup Tasks)
      /\ r.deferred \in Seq(Nodes) /\ s.deferred \in Seq(Nodes)
      /\ r.awake \in Seq(Tasks) /\ s.awake \in Seq(Tasks)
      /\ r.disposals \in Seq(Nodes) /\ s.disposals \in Seq(Nodes)
      /\ r.reachable \in Nat /\ s.reachable \in Nat
    BY DEF Rosters
<1>2. /\ r.queue \o s.queue \in Seq(Nodes \cup Tasks)
      /\ r.deferred \o s.deferred \in Seq(Nodes) /\ r.awake \o s.awake \in Seq(Tasks)
      /\ r.disposals \o s.disposals \in Seq(Nodes) /\ r.reachable + s.reachable \in Nat
    BY <1>1, ConcatProperties
<1>3. /\ Appended(r, s) \in Rosters
      /\ Appended(r, s).queue = r.queue \o s.queue
      /\ Appended(r, s).deferred = r.deferred \o s.deferred
      /\ Appended(r, s).awake = r.awake \o s.awake
    BY <1>2 DEF Appended, Rosters
<1> QED  BY <1>1, <1>3, OccurrencesConcat

LEMMA SettleKeeps ==
    ASSUME IInv, Settle
    PROVE  IInv'
<1>1. /\ OtherTypes /\ Sound(World) /\ TasksCounted /\ graph \in Graphs
      /\ roster \in Rosters /\ later \in Rosters /\ wake \in Seq(Tasks)
    BY DEF IInv, OtherTypes, Sound, World, Worlds
<1>2. /\ UNCHANGED <<graph, input, loops, received, heard, channel, tasks, stored, gate, pile,
                     released, status, judged>>
      /\ later' = NoRoster /\ wake' = <<>> /\ stage' \in {"dispose", "check"}
    BY DEF Settle, Nodal, Quiet
<1> DEFINE processed == [roster EXCEPT !.queue = @ \o roster.deferred, !.deferred = <<>>]
           both == Appended(processed, later)
<1>3. /\ roster.queue \in Seq(Nodes \cup Tasks) /\ roster.deferred \in Seq(Nodes \cup Tasks)
      /\ roster.awake \in Seq(Tasks)
  <2>1. roster.deferred \in Seq(Nodes) /\ Nodes \subseteq Nodes \cup Tasks
      BY <1>1 DEF Rosters
  <2>2. roster.deferred \in Seq(Nodes \cup Tasks)
      BY <2>1, SeqMonotonic
  <2> QED  BY <1>1, <2>2 DEF Rosters
<1>4. roster.queue \o roster.deferred \in Seq(Nodes \cup Tasks)
    BY <1>3, ConcatProperties
<1>5. /\ processed \in Rosters /\ processed.queue = roster.queue \o roster.deferred
      /\ processed.deferred = <<>> /\ processed.awake = roster.awake
  <2>1. <<>> \in Seq(Nodes)
      OBVIOUS
  <2> QED  BY <1>1, <1>4, <2>1 DEF Rosters
<1>6. roster' = [both EXCEPT !.awake = @ \o wake]
    BY DEF Settle
<1> HIDE DEF processed
<1>7. /\ both \in Rosters
      /\ \A x : /\ Occurrences(both.queue, x)
                     = Occurrences(processed.queue, x) + Occurrences(later.queue, x)
                /\ Occurrences(both.deferred, x)
                     = Occurrences(processed.deferred, x) + Occurrences(later.deferred, x)
                /\ Occurrences(both.awake, x)
                     = Occurrences(processed.awake, x) + Occurrences(later.awake, x)
    BY <1>1, <1>5, AppendedFacts
<1> HIDE DEF both
<1>8. both.awake \o wake \in Seq(Tasks) /\ both.awake \in Seq(Tasks)
    BY <1>1, <1>7, ConcatProperties DEF Rosters
<1>9. /\ roster' \in Rosters /\ roster'.queue = both.queue
      /\ roster'.deferred = both.deferred /\ roster'.awake = both.awake \o wake
    BY <1>6, <1>7, <1>8 DEF Rosters
<1>10. \A x : /\ Occurrences(processed.queue, x)
                   = Occurrences(roster.queue, x) + Occurrences(roster.deferred, x)
              /\ Occurrences(roster'.awake, x) = Occurrences(both.awake, x) + Occurrences(wake, x)
              /\ Occurrences(roster.queue, x) \in Nat /\ Occurrences(roster.deferred, x) \in Nat
              /\ Occurrences(roster.awake, x) \in Nat /\ Occurrences(wake, x) \in Nat
              /\ Occurrences(later.queue, x) \in Nat /\ Occurrences(later.deferred, x) \in Nat
              /\ Occurrences(later.awake, x) \in Nat
  <2> TAKE x
  <2>1. /\ Occurrences(roster.queue, x) \in Nat /\ Occurrences(roster.deferred, x) \in Nat
        /\ Occurrences(roster.awake, x) \in Nat /\ Occurrences(wake, x) \in Nat
      BY <1>1, <1>3, OccurrencesType
  <2>2. /\ Occurrences(later.queue, x) \in Nat /\ Occurrences(later.deferred, x) \in Nat
        /\ Occurrences(later.awake, x) \in Nat
      BY <1>1, OccurrencesType DEF Rosters
  <2>3. /\ Occurrences(processed.queue, x)
             = Occurrences(roster.queue, x) + Occurrences(roster.deferred, x)
        /\ Occurrences(roster'.awake, x) = Occurrences(both.awake, x) + Occurrences(wake, x)
      BY <1>1, <1>3, <1>5, <1>8, <1>9, OccurrencesConcat
  <2> QED  BY <2>1, <2>2, <2>3
<1>11. \A x : /\ Occurrences(later'.queue, x) = 0 /\ Occurrences(later'.deferred, x) = 0
              /\ Occurrences(later'.awake, x) = 0 /\ Occurrences(wake', x) = 0
              /\ Occurrences(processed.deferred, x) = 0
    BY <1>2, <1>5, EmptyRoster, OccurrencesEmpty
<1>12. ASSUME NEW n \in Nodes
       PROVE  Occurrences(roster'.queue, n) + Occurrences(roster'.deferred, n)
              + Occurrences(later'.queue, n) + Occurrences(later'.deferred, n)
                = Occurrences(roster.queue, n) + Occurrences(roster.deferred, n)
                  + Occurrences(later.queue, n) + Occurrences(later.deferred, n)
  <2>1. /\ Occurrences(roster'.queue, n) = Occurrences(processed.queue, n) + Occurrences(later.queue, n)
        /\ Occurrences(roster'.deferred, n)
             = Occurrences(processed.deferred, n) + Occurrences(later.deferred, n)
      BY <1>7, <1>9
  <2> QED  BY <1>10, <1>11, <2>1
<1>13. ASSUME NEW t \in Tasks
       PROVE  /\ Occurrences(roster'.queue, t) + Occurrences(later'.queue, t)
                   = Occurrences(roster.queue, t) + Occurrences(later.queue, t)
              /\ Occurrences(wake', t) + Occurrences(roster'.awake, t)
                 + Occurrences(later'.awake, t)
                   = Occurrences(wake, t) + Occurrences(roster.awake, t)
                     + Occurrences(later.awake, t)
  <2>1. Occurrences(roster.deferred, t) = 0
    <3>1. t \notin Nodes /\ roster.deferred \in Seq(Nodes)
        BY <1>1, GraphFacts DEF Rosters
    <3> QED  BY <3>1, OccurrencesOutside
  <2>2. /\ Occurrences(roster'.queue, t) = Occurrences(processed.queue, t) + Occurrences(later.queue, t)
        /\ Occurrences(both.awake, t) = Occurrences(roster.awake, t) + Occurrences(later.awake, t)
      BY <1>5, <1>7, <1>9
  <2> QED  BY <1>10, <1>11, <2>1, <2>2
<1>14. Sound(World)' /\ TasksCounted'
    BY <1>1, <1>2, <1>9, <1>12, <1>13, EmptyRoster, EntriesMove
<1>15. OtherTypes'
  <2>1. wake' \in Seq(Tasks)
      BY <1>2
  <2> QED  BY <1>1, <1>2, <2>1, SameSets DEF OtherTypes
<1> QED  BY <1>14, <1>15 DEF IInv

LEMMA CheckKeeps ==
    ASSUME IInv, Check
    PROVE  IInv'
<1>1. /\ OtherTypes /\ Sound(World) /\ TasksCounted /\ graph \in Graphs
      /\ roster \in Rosters /\ later \in Rosters
    BY DEF IInv, OtherTypes, Sound, World, Worlds
<1>2. /\ UNCHANGED <<graph, input, received, heard, channel, wake, tasks, stored, gate, pile,
                     released, status, judged>>
      /\ stage' \in {"idle", "queue"} /\ loops' \in {loops, loops + 1}
    BY DEF Check, NoTask, Nodal, Quiet
<1>3. OtherTypes'
    BY <1>1, <1>2, SameSets DEF OtherTypes
<1>4. CASE UNCHANGED <<roster, later>>
    BY <1>1, <1>2, <1>3, <1>4, EntriesStay DEF IInv
<1>5. CASE later' = Appended(later, roster) /\ roster' = NoRoster
  <2>1. /\ later' \in Rosters /\ roster' \in Rosters
        /\ \A x : /\ Occurrences(roster'.queue, x) = 0 /\ Occurrences(roster'.deferred, x) = 0
                  /\ Occurrences(roster'.awake, x) = 0
                  /\ Occurrences(later'.queue, x)
                       = Occurrences(later.queue, x) + Occurrences(roster.queue, x)
                  /\ Occurrences(later'.deferred, x)
                       = Occurrences(later.deferred, x) + Occurrences(roster.deferred, x)
                  /\ Occurrences(later'.awake, x)
                       = Occurrences(later.awake, x) + Occurrences(roster.awake, x)
    <3> DEFINE a == Appended(later, roster)
    <3>1. /\ a \in Rosters
          /\ \A x : /\ Occurrences(a.queue, x)
                         = Occurrences(later.queue, x) + Occurrences(roster.queue, x)
                    /\ Occurrences(a.deferred, x)
                         = Occurrences(later.deferred, x) + Occurrences(roster.deferred, x)
                    /\ Occurrences(a.awake, x)
                         = Occurrences(later.awake, x) + Occurrences(roster.awake, x)
        BY <1>1, AppendedFacts
    <3>2. /\ roster' \in Rosters
          /\ \A x : /\ Occurrences(roster'.queue, x) = 0 /\ Occurrences(roster'.deferred, x) = 0
                    /\ Occurrences(roster'.awake, x) = 0
        BY <1>5, EmptyRoster, OccurrencesEmpty
    <3>3. later' = a
        BY <1>5
    <3> HIDE DEF a
    <3> QED  BY <3>1, <3>2, <3>3
  <2>2. \A x : /\ Occurrences(roster.queue, x) \in Nat /\ Occurrences(roster.deferred, x) \in Nat
               /\ Occurrences(roster.awake, x) \in Nat /\ Occurrences(wake, x) \in Nat
               /\ Occurrences(later.queue, x) \in Nat /\ Occurrences(later.deferred, x) \in Nat
               /\ Occurrences(later.awake, x) \in Nat
      BY <1>1, OccurrencesType DEF Rosters, OtherTypes
  <2>3. ASSUME NEW n \in Nodes
        PROVE  Occurrences(roster'.queue, n) + Occurrences(roster'.deferred, n)
               + Occurrences(later'.queue, n) + Occurrences(later'.deferred, n)
                 = Occurrences(roster.queue, n) + Occurrences(roster.deferred, n)
                   + Occurrences(later.queue, n) + Occurrences(later.deferred, n)
      BY <2>1, <2>2
  <2>4. ASSUME NEW t \in Tasks
        PROVE  /\ Occurrences(roster'.queue, t) + Occurrences(later'.queue, t)
                    = Occurrences(roster.queue, t) + Occurrences(later.queue, t)
               /\ Occurrences(wake', t) + Occurrences(roster'.awake, t)
                  + Occurrences(later'.awake, t)
                    = Occurrences(wake, t) + Occurrences(roster.awake, t)
                      + Occurrences(later.awake, t)
      BY <1>2, <2>1, <2>2
  <2>5. Sound(World)' /\ TasksCounted'
      BY <1>1, <1>2, <2>1, <2>3, <2>4, EntriesMove
  <2> QED  BY <1>3, <2>5 DEF IInv
<1> QED  BY <1>4, <1>5 DEF Check

\* The steps that leave every entry where it is.
LEMMA RosterRests ==
    ASSUME IInv, StartFlush \/ EndQueue \/ EndAwake \/ EndHear \/ Validate \/ EndDispose \/ Begin
    PROVE  IInv'
<1>1. /\ OtherTypes /\ Sound(World) /\ TasksCounted /\ graph \in Graphs /\ roster \in Rosters
    BY DEF IInv, OtherTypes, Sound, World, Worlds
<1>2. UNCHANGED <<graph, input, later, channel, wake, tasks, stored, gate, pile, released>>
    BY DEF StartFlush, EndQueue, EndAwake, EndHear, Validate, EndDispose, Begin, NoTask, Nodal, Quiet
<1>3. /\ stage' \in {stage, "first", "awake", "channel", "check", "queue"}
      /\ loops' \in Nat /\ received' \in Nat /\ heard' \in 0 .. Len(Collects)
  <2>1. 0 \in 0 .. Len(Collects)
      BY <1>1, CollectsFacts
  <2> QED  BY <1>1, <2>1 DEF StartFlush, EndQueue, EndAwake, EndHear, Validate, EndDispose, Begin,
                             OtherTypes
<1>4. status' \in {status, "cancelled"} /\ judged' \in BOOLEAN
    BY <1>1 DEF StartFlush, EndQueue, EndAwake, EndHear, Validate, EndDispose, Begin, Quiet, Judge,
                OtherTypes
<1>5. OtherTypes'
    BY <1>1, <1>2, <1>3, <1>4, SameSets DEF OtherTypes
<1>6. /\ roster' \in Rosters /\ roster'.queue = roster.queue
      /\ roster'.deferred = roster.deferred /\ roster'.awake = roster.awake
  <2>1. CASE UNCHANGED roster
      BY <1>1, <2>1
  <2>2. CASE EndHear
    <3>1. Tail(roster.disposals) \in Seq(Nodes) /\ roster.reachable + 1 \in Nat
        BY <1>1, <2>2, HeadTailProperties DEF EndHear, Rosters
    <3>2. roster' = [roster EXCEPT !.disposals = Tail(roster.disposals),
                                   !.reachable = roster.reachable + 1]
        BY <2>2 DEF EndHear
    <3> QED  BY <1>1, <3>1, <3>2 DEF Rosters
  <2>3. CASE Validate
    <3>1. roster.reachable - 1 \in Nat
        BY <1>1, <2>3 DEF Validate, Rosters
    <3> QED  BY <1>1, <2>3, <3>1 DEF Validate, Rosters
  <2> QED  BY <2>1, <2>2, <2>3 DEF StartFlush, EndQueue, EndAwake, EndDispose, Begin
<1>7. Sound(World)' /\ TasksCounted'
    BY <1>1, <1>2, <1>6, EntriesStay
<1> QED  BY <1>5, <1>7 DEF IInv

\* A step of the flush that gives and disposes.
LEMMA GrowthKeeps ==
    ASSUME Sound(World), TasksCounted, UNCHANGED <<graph, tasks, wake>>,
           NEW w, Grows(World, w), Become(w)
    PROVE  /\ Sound(World)' /\ TasksCounted'
           /\ \A n \in Nodes : input[n] # <<>> => input'[n] # <<>>
<1>1. Sound(w)
    BY DEF Grows
<1>2. /\ Sound(World)' /\ input' = w.input /\ roster' = w.roster /\ later' = w.later
      /\ \A t \in Tasks : Polls(World, t)' = Polls(w, t)
    BY <1>1, BecomeSound
<1>3. World.input = input /\ World.roster = roster /\ World.later = later
    BY DEF World
<1>4. /\ \A t \in Tasks : Polls(w, t) = Polls(World, t)
      /\ w.roster.awake = roster.awake /\ w.later.awake = later.awake
      /\ \A n \in Nodes : input[n] # <<>> => w.input[n] # <<>>
    BY <1>3 DEF Grows
<1>5. TasksCounted'
    BY <1>2, <1>4, TasksKept
<1> QED  BY <1>2, <1>4, <1>5

LEMMA ReceiveKeeps ==
    ASSUME IInv, Receive
    PROVE  /\ IInv' /\ UNCHANGED <<graph, gate>>
           /\ \A n \in Nodes : input[n] # <<>> => input'[n] # <<>>
           /\ \/ UNCHANGED stored
              \/ \E b \in Has("buffer"), a \in Keyers :
                    /\ stored' = Pushed(b)
                    /\ gate[b] # "closed" => \A n \in Nodes \ (Has("sink") \cup {a}) :
                         Contains(Out(b), n) => input'[n] # <<>>
<1>1. /\ OtherTypes /\ Sound(World) /\ TasksCounted /\ graph \in Graphs
      /\ channel \in Seq(Items) /\ channel # <<>>
      /\ UNCHANGED <<graph, loops, heard, wake, tasks, gate, pile, released, status, judged>>
    BY DEF IInv, OtherTypes, Receive, Quiet
<1> DEFINE item == Head(channel)
           m == Message(item.from, FALSE, None)
<1>2. item \in Items /\ Tail(channel) \in Seq(Items)
    BY <1>1, HeadTailProperties
<1>3. stage' \in {stage, "full"} /\ received' \in Nat /\ channel' = Tail(channel)
    BY <1>1 DEF Receive, OtherTypes
<1>4. CASE item.kind = "stream"
  <2>1. item.at \in Nodes /\ item.from \in Tasks
      BY <1>2, <1>4 DEF Items
  <2>2. <<item.at>> \in Seq(Nodes) /\ m \in Messages
      BY <2>1 DEF Message, Messages
  <2>3. Become(Give(World, <<item.at>>, m)) /\ UNCHANGED stored
      BY <1>4 DEF Receive
  <2> HIDE DEF item, m
  <2>4. Grows(World, Give(World, <<item.at>>, m))
      BY <1>1, <2>2, GiveGrows
  <2>5. /\ Sound(World)' /\ TasksCounted'
        /\ \A n \in Nodes : input[n] # <<>> => input'[n] # <<>>
      BY <1>1, <2>3, <2>4, GrowthKeeps
  <2>6. OtherTypes'
      BY <1>1, <1>2, <1>3, <2>3, SameSets DEF OtherTypes
  <2> QED  BY <1>1, <2>3, <2>5, <2>6 DEF IInv
<1>5. CASE item.kind = "push"
  <2>1. item.at \in Has("buffer") /\ item.from \in Keyers /\ item.at \in Nodes
      BY <1>2, <1>5 DEF Items, Has
  <2>2. Become(Updated(World, item.at, item.from)) /\ stored' = Pushed(item.at)
      BY <1>5 DEF Receive
  <2> HIDE DEF item
  <2>3. /\ Grows(World, Updated(World, item.at, item.from))
        /\ gate[item.at] # "closed" => \A n \in Nodes \ (Has("sink") \cup {item.from}) :
             Contains(Out(item.at), n) => Updated(World, item.at, item.from).input[n] # <<>>
      BY <1>1, <2>1, UpdatedGrows
  <2>4. /\ Sound(World)' /\ TasksCounted'
        /\ \A n \in Nodes : input[n] # <<>> => input'[n] # <<>>
      BY <1>1, <2>2, <2>3, GrowthKeeps
  <2>5. input' = Updated(World, item.at, item.from).input
      BY <2>2 DEF Become
  <2>6. stored' \in [Has("buffer") -> 0 .. Retention]
      BY <1>1, <2>1, <2>2, PushedType
  <2>7. OtherTypes'
      BY <1>1, <1>2, <1>3, <2>6, SameSets DEF OtherTypes
  <2> QED  BY <1>1, <2>1, <2>2, <2>3, <2>4, <2>5, <2>7 DEF IInv
<1>6. CASE item.kind = "drop"
  <2>1. item.from \in Nodes
      BY <1>2, <1>6 DEF Items, Keyers, Has
  <2>2. Become(Dispose(World, item.from)) /\ UNCHANGED stored
      BY <1>6 DEF Receive
  <2> HIDE DEF item
  <2>3. Grows(World, Dispose(World, item.from))
      BY <1>1, <2>1, DisposeGrows
  <2>4. /\ Sound(World)' /\ TasksCounted'
        /\ \A n \in Nodes : input[n] # <<>> => input'[n] # <<>>
      BY <1>1, <2>2, <2>3, GrowthKeeps
  <2>5. OtherTypes'
      BY <1>1, <1>2, <1>3, <2>2, SameSets DEF OtherTypes
  <2> QED  BY <1>1, <2>2, <2>4, <2>5 DEF IInv
<1>7. item.kind \in {"stream", "push", "drop"}
    BY <1>2 DEF Items
<1> QED  BY <1>4, <1>5, <1>6, <1>7

LEMMA HearKeeps ==
    ASSUME IInv, Hear
    PROVE  /\ IInv' /\ UNCHANGED <<graph, stored, gate>>
           /\ \A n \in Nodes : input[n] # <<>> => input'[n] # <<>>
<1>1. /\ OtherTypes /\ Sound(World) /\ TasksCounted /\ graph \in Graphs
      /\ UNCHANGED <<graph, stage, loops, received, channel, wake, tasks, stored, gate,
                     status, judged>>
      /\ heard < Len(Collects) /\ heard' = heard + 1 /\ heard \in 0 .. Len(Collects)
    BY DEF IInv, OtherTypes, Hear, NoTask, Quiet
<1> DEFINE n == Collects[heard + 1]
<1>2. n \in Has("collect") /\ n \in Nodes /\ heard' \in 0 .. Len(Collects)
  <2>1. Len(Collects) \in Nat /\ \A i \in 1 .. Len(Collects) : Collects[i] \in Has("collect")
      BY <1>1, CollectsFacts
  <2>2. heard + 1 \in 1 .. Len(Collects)
      BY <1>1, <2>1
  <2> QED  BY <1>1, <2>1, <2>2 DEF Has
<1>3. \/ Conclude(World, n, pile)
      \/ Become(World) /\ UNCHANGED <<pile, released>>
    BY DEF Hear
<1> HIDE DEF n
<1>4. PICK w : Become(w) /\ Grows(World, w)
    BY <1>1, <1>2, <1>3, ConcludeGrows, GrowsReflexive
<1>5. /\ Sound(World)' /\ TasksCounted'
      /\ \A l \in Nodes : input[l] # <<>> => input'[l] # <<>>
    BY <1>1, <1>4, GrowthKeeps
<1>6. pile' \in [Has("collect") -> Nat \cup {None}] /\ released' \subseteq Has("collect")
  <2>1. pile \in [Has("collect") -> Nat \cup {None}] /\ released \subseteq Has("collect")
      BY <1>1 DEF OtherTypes
  <2> QED  BY <1>1, <1>2, <1>3, <2>1, ConcludeTypes
<1>7. OtherTypes'
    BY <1>1, <1>2, <1>6, SameSets DEF OtherTypes
<1> QED  BY <1>1, <1>5, <1>7 DEF IInv

-----------------------------------------------------------------------------
(* The theorems.                                                           *)

LEMMA InitSound ==
    Init => IInv
<1> SUFFICES ASSUME Init PROVE IInv
    OBVIOUS
<1>1. graph \in Graphs /\ graph.start \in Nodes /\ Nodes \cap Tasks = {}
    BY GraphFacts DEF Init
<1>2. /\ Plain \in Messages /\ <<Plain>> \in Seq(Messages) /\ <<graph.start>> \in Seq(Nodes \cup Tasks)
    BY <1>1 DEF Plain, Message, Messages
<1>3. /\ roster.queue = <<graph.start>> /\ roster.deferred = <<>> /\ roster.awake = <<>>
      /\ later.queue = <<>> /\ later.deferred = <<>> /\ later.awake = <<>> /\ wake = <<>>
      /\ roster \in Rosters /\ later \in Rosters
  <2>1. NoRoster \in Rosters
      BY EmptyRoster
  <2>2. roster = [NoRoster EXCEPT !.queue = <<graph.start>>] /\ later = NoRoster /\ wake = <<>>
      BY DEF Init
  <2> QED  BY <1>2, <2>1, <2>2 DEF NoRoster, Rosters
<1>4. input = [n \in Nodes |-> IF n = graph.start THEN <<Plain>> ELSE <<>>]
    BY DEF Init
<1>5. /\ World.input = input /\ World.roster = roster /\ World.later = later
      /\ World \in Worlds
    BY <1>2, <1>3, <1>4 DEF World, Worlds
<1>6. Balanced(World)
  <2> SUFFICES ASSUME NEW n \in Nodes
               PROVE  Len(input[n]) =
                   Occurrences(roster.queue, n) + Occurrences(roster.deferred, n)
                   + Occurrences(later.queue, n) + Occurrences(later.deferred, n)
      BY <1>5 DEF Balanced
  <2>1. /\ Occurrences(roster.queue, n) = (IF n = graph.start THEN 1 ELSE 0)
        /\ Occurrences(roster.deferred, n) = 0 /\ Occurrences(later.queue, n) = 0
        /\ Occurrences(later.deferred, n) = 0
      BY <1>3, OccurrencesOne, OccurrencesEmpty
  <2>2. Len(input[n]) = IF n = graph.start THEN 1 ELSE 0
      BY <1>4
  <2> QED  BY <2>1, <2>2
<1>7. TasksCounted
  <2> SUFFICES ASSUME NEW t \in Tasks
               PROVE  Polls(World, t) = PollsExpected(t) /\ Wakes(t) = WakesExpected(t)
      BY DEF TasksCounted
  <2>1. tasks[t] = None /\ t # graph.start
      BY <1>1 DEF Init
  <2>2. Occurrences(roster.queue, t) = 0 /\ Occurrences(later.queue, t) = 0
      BY <1>3, <2>1, OccurrencesOne, OccurrencesEmpty
  <2>3. Polls(World, t) = 0
      BY <1>5, <2>2 DEF Polls
  <2>4. Occurrences(wake, t) = 0 /\ Occurrences(roster.awake, t) = 0 /\ Occurrences(later.awake, t) = 0
      BY <1>3, OccurrencesEmpty
  <2> QED  BY <2>1, <2>3, <2>4 DEF PollsExpected, WakesExpected, Wakes
<1>8. OtherTypes
  <2>1. 0 \in 0 .. Len(Collects) /\ 0 \in 0 .. Retention
      BY <1>1, CollectsFacts, BoundsAssumption
  <2>2. channel \in Seq(Items) /\ wake \in Seq(Tasks)
      BY DEF Init
  <2> QED  BY <2>1, <2>2 DEF Init, OtherTypes
<1> QED  BY <1>5, <1>6, <1>7, <1>8 DEF IInv, Sound

LEMMA StepSound ==
    IInv /\ [Next]_vars => IInv'
<1> SUFFICES ASSUME IInv, [Next]_vars PROVE IInv'
    OBVIOUS
<1>1. CASE StartFlush \/ EndQueue \/ EndAwake \/ EndHear \/ Validate \/ EndDispose \/ Begin
    BY <1>1, RosterRests
<1>2. CASE Receive \/ Settle \/ Check \/ Hear
    BY <1>2, ReceiveKeeps, SettleKeeps, CheckKeeps, HearKeeps
<1>3. CASE \E n \in Nodes : Execute(n)
    BY <1>3, ExecuteKeeps
<1>4. CASE \E t \in Tasks : FirstPoll(t) \/ Awaken(t)
    BY <1>4, FirstPollKeeps, AwakenKeeps
<1>5. CASE \E t \in Tasks : Send(t) \/ PushWithKey(t) \/ DropKey(t) \/ DropTracker(t) \/ Complete(t)
    BY <1>5, SendKeeps, PushWithKeyKeeps, DropKeyKeeps, DropTrackerKeeps, CompleteKeeps
<1>6. CASE UNCHANGED vars
  <2>1. UNCHANGED <<graph, input, roster, later, stage, loops, received, heard, channel, wake,
                    tasks, stored, gate, pile, status, judged, released>>
      BY <1>6 DEF vars, flush
  <2>2. OtherTypes'
      BY <2>1, SameSets DEF IInv, OtherTypes
  <2>3. roster \in Rosters
      BY DEF IInv, Sound, World, Worlds
  <2> QED  BY <2>1, <2>2, <2>3, EntriesStay DEF IInv
<1> QED  BY <1>1, <1>2, <1>3, <1>4, <1>5, <1>6 DEF Next

LEMMA Invariance ==
    Spec => []IInv
<1> QED  BY InitSound, StepSound, PTL DEF Spec

\* The variables keep their types, in every workflow: a message tells of a task
\* and of a node that gives keys, what waits in the queues are nodes and tasks,
\* what the channel carries is for a node, a buffer or the holder of a key, and
\* no buffer holds more than it retains.
THEOREM TypeCorrect ==
    Spec => []TypeOK
<1>1. IInv => TypeOK
    BY DEF IInv, OtherTypes, Sound, Worlds, World, TypeOK
<1> QED  BY <1>1, Invariance, PTL

\* Each input in the storage of a node has its own entry in a queue of the roster
\* or of the deferred roster, whatever the operations are, wherever their outputs
\* go and in whatever order the flush, the tasks and the channel take their turns.
THEOREM InputsQueued ==
    Spec => []InputsAreQueued
<1>1. IInv => InputsAreQueued
  <2> SUFFICES ASSUME IInv, NEW n \in Nodes
               PROVE  Len(input[n]) =
                   Occurrences(roster.queue \o roster.deferred \o later.queue \o later.deferred, n)
      BY DEF InputsAreQueued
  <2> DEFINE S == Nodes \cup Tasks
             a == roster.queue
             b == roster.deferred
             c == later.queue
             d == later.deferred
  <2>1. a \in Seq(S) /\ b \in Seq(S) /\ c \in Seq(S) /\ d \in Seq(S)
    <3>1. a \in Seq(S) /\ c \in Seq(S) /\ b \in Seq(Nodes) /\ d \in Seq(Nodes)
        BY DEF IInv, Sound, World, Worlds, Rosters
    <3> QED  BY <3>1, SeqMonotonic, Nodes \subseteq S
  <2>2. Len(input[n]) = Occurrences(a, n) + Occurrences(b, n) + Occurrences(c, n) + Occurrences(d, n)
      BY DEF IInv, Sound, World, Balanced
  <2> HIDE DEF S, a, b, c, d
  <2>3. a \o b \in Seq(S) /\ Occurrences(a \o b, n) = Occurrences(a, n) + Occurrences(b, n)
      BY <2>1, ConcatProperties, OccurrencesConcat
  <2>4. /\ (a \o b) \o c \in Seq(S)
        /\ Occurrences((a \o b) \o c, n) = Occurrences(a \o b, n) + Occurrences(c, n)
      BY <2>1, <2>3, ConcatProperties, OccurrencesConcat, ZenonT(60)
  <2>5. Occurrences(((a \o b) \o c) \o d, n) = Occurrences((a \o b) \o c, n) + Occurrences(d, n)
      BY <2>1, <2>4, OccurrencesConcat, ZenonT(60)
  <2>6. Len(input[n]) = Occurrences(((a \o b) \o c) \o d, n)
      BY <2>2, <2>3, <2>4, <2>5
  <2> QED  BY <2>6 DEF a, b, c, d
<1> QED  BY <1>1, Invariance, PTL

\* A task is queued once for its first poll and woken once when its future is
\* ready, also if it is ready before it was polled, or if the limit of the loop
\* moves the roster to the deferred one in between.
THEOREM TasksQueued ==
    Spec => []TasksAreQueued
<1>1. IInv => TasksAreQueued
  <2> SUFFICES ASSUME IInv, NEW t \in Tasks
               PROVE  /\ Occurrences(roster.queue \o later.queue, t) = PollsExpected(t)
                      /\ Occurrences(wake \o roster.awake \o later.awake, t) = WakesExpected(t)
      BY DEF TasksAreQueued, PollsExpected, WakesExpected
  <2>1. /\ roster.queue \in Seq(Nodes \cup Tasks) /\ later.queue \in Seq(Nodes \cup Tasks)
        /\ wake \in Seq(Tasks) /\ roster.awake \in Seq(Tasks) /\ later.awake \in Seq(Tasks)
      BY DEF IInv, OtherTypes, Sound, World, Worlds, Rosters
  <2>2. Polls(World, t) = PollsExpected(t) /\ Wakes(t) = WakesExpected(t)
      BY DEF IInv, TasksCounted
  <2>3. Polls(World, t) = Occurrences(roster.queue, t) + Occurrences(later.queue, t)
      BY DEF Polls, World
  <2>4. Occurrences(roster.queue \o later.queue, t) =
            Occurrences(roster.queue, t) + Occurrences(later.queue, t)
      BY <2>1, OccurrencesConcat
  <2>5. /\ wake \o roster.awake \in Seq(Tasks)
        /\ Occurrences(wake \o roster.awake, t) = Occurrences(wake, t) + Occurrences(roster.awake, t)
      BY <2>1, ConcatProperties, OccurrencesConcat
  <2>6. Occurrences(wake \o roster.awake \o later.awake, t)
            = Occurrences(wake \o roster.awake, t) + Occurrences(later.awake, t)
      BY <2>1, <2>5, OccurrencesConcat, ZenonT(60)
  <2> QED  BY <2>2, <2>3, <2>4, <2>5, <2>6 DEF Wakes
<1> QED  BY <1>1, Invariance, PTL

-----------------------------------------------------------------------------
(* The joins: a step that adds to a buffer or opens it wakes its listeners. *)

\* A join has a set if each of its buffers holds a message, before a step and after.
LEMMA SetsPositive ==
    ASSUME OtherTypes, UNCHANGED graph, stored' \in [Has("buffer") -> 0 .. Retention],
           NEW n \in Has("join")
    PROVE  /\ Sets(n) > 0 <=> \A i \in DOMAIN Buffers(n) : stored[Buffers(n)[i]] > 0
           /\ Sets(n)' > 0 <=> \A i \in DOMAIN Buffers(n) : stored'[Buffers(n)[i]] > 0
<1>1. Buffers(n) \in Seq(Has("buffer")) /\ Buffers(n) # <<>>
    BY GraphFacts DEF OtherTypes, Has
<1>2. /\ stored \in [Has("buffer") -> Nat] /\ stored' \in [Has("buffer") -> Nat]
      /\ \A b \in Has("buffer") : stored[b] \in Nat /\ stored'[b] \in Nat
    BY BoundsAssumption DEF OtherTypes
<1>3. \A i \in DOMAIN Buffers(n) : Buffers(n)[i] \in Has("buffer")
    BY <1>1, LenProperties
<1>4. /\ Sets(n) \in Nat
      /\ \A i \in DOMAIN Buffers(n) : Sets(n) <= stored[Buffers(n)[i]]
      /\ \E i \in DOMAIN Buffers(n) : Sets(n) = stored[Buffers(n)[i]]
    BY <1>1, <1>2, LeastStored DEF Sets
<1>5. Sets(n)' = Min({stored'[Buffers(n)[i]] : i \in DOMAIN Buffers(n)})
    BY DEF Sets, Buffers
<1>6. /\ Sets(n)' \in Nat
      /\ \A i \in DOMAIN Buffers(n) : Sets(n)' <= stored'[Buffers(n)[i]]
      /\ \E i \in DOMAIN Buffers(n) : Sets(n)' = stored'[Buffers(n)[i]]
  <2> DEFINE f == stored'
  <2>1. f \in [Has("buffer") -> Nat] /\ Sets(n)' = Min({f[Buffers(n)[i]] : i \in DOMAIN Buffers(n)})
      BY <1>2, <1>5
  <2> HIDE DEF f
  <2>2. LET least == Min({f[Buffers(n)[i]] : i \in DOMAIN Buffers(n)})
        IN  /\ least \in Nat
            /\ \A i \in DOMAIN Buffers(n) : least <= f[Buffers(n)[i]]
            /\ \E i \in DOMAIN Buffers(n) : least = f[Buffers(n)[i]]
      BY <1>1, <2>1, LeastStored
  <2> QED  BY <2>1, <2>2 DEF f
<1>7. Sets(n) > 0 <=> \A i \in DOMAIN Buffers(n) : stored[Buffers(n)[i]] > 0
    BY <1>2, <1>3, <1>4
<1>8. Sets(n)' > 0 <=> \A i \in DOMAIN Buffers(n) : stored'[Buffers(n)[i]] > 0
    BY <1>2, <1>3, <1>6
<1> QED  BY <1>7, <1>8

\* What a step has to see to for the join n.
Heeded(n) ==
    /\ input[n] # <<>> => input'[n] # <<>>
    /\ \A i \in DOMAIN Buffers(n) :
          LET b == Buffers(n)[i]
          IN  (stored'[b] <= stored[b] /\ gate[b] = gate'[b]) \/ gate'[b] # "open" \/ input'[n] # <<>>

LEMMA JoinsHeeded ==
    ASSUME IInv, JoinMissesNothing, UNCHANGED graph,
           stored' \in [Has("buffer") -> 0 .. Retention],
           \A n \in Has("join") : Heeded(n) \/ Sets(n)' = 0
    PROVE  JoinMissesNothing'
<1>1. SUFFICES ASSUME NEW n \in Has("join"), Sets(n)' > 0,
                      \A i \in DOMAIN Buffers(n) : gate'[Buffers(n)[i]] = "open"
               PROVE  input'[n] # <<>>
    BY SameSets DEF JoinMissesNothing, HasInput, Buffers
<1>2. OtherTypes
    BY DEF IInv
<1>3. Heeded(n)
  <2>1. Sets(n)' # 0
      BY <1>1
  <2> QED  BY <2>1
<1>4. SUFFICES ASSUME input'[n] = <<>> PROVE FALSE
    OBVIOUS
<1>5. \A i \in DOMAIN Buffers(n) : /\ stored'[Buffers(n)[i]] <= stored[Buffers(n)[i]]
                                   /\ gate[Buffers(n)[i]] = "open"
    BY <1>1, <1>3, <1>4 DEF Heeded
<1>6. \A i \in DOMAIN Buffers(n) : Buffers(n)[i] \in Has("buffer")
  <2>1. Buffers(n) \in Seq(Has("buffer"))
      BY <1>2, GraphFacts DEF OtherTypes, Has
  <2> QED  BY <2>1, LenProperties
<1>7. \A b \in Has("buffer") : stored[b] \in Nat /\ stored'[b] \in Nat
    BY <1>2, BoundsAssumption DEF OtherTypes
<1>8. \A i \in DOMAIN Buffers(n) : stored'[Buffers(n)[i]] > 0
    BY <1>1, <1>2, SetsPositive
<1>9. \A i \in DOMAIN Buffers(n) : stored[Buffers(n)[i]] > 0
    BY <1>5, <1>6, <1>7, <1>8
<1>10. Sets(n) > 0
    BY <1>2, <1>9, SetsPositive
<1>11. input[n] # <<>>
    BY <1>5, <1>10 DEF JoinMissesNothing, HasInput
<1> QED  BY <1>3, <1>4, <1>11 DEF Heeded

\* The buffers of a join are buffers, and it listens to each of them.
LEMMA ListensToAll ==
    ASSUME OtherTypes, NEW n \in Has("join"), NEW i \in DOMAIN Buffers(n)
    PROVE  /\ Buffers(n)[i] \in Has("buffer") /\ stored[Buffers(n)[i]] \in Nat
           /\ Contains(Out(Buffers(n)[i]), n)
           /\ n \in Nodes /\ n \notin Has("sink") /\ n \notin Keyers /\ n \notin Has("buffer")
<1>1. Buffers(n) \in Seq(Has("buffer")) /\ Contains(Out(Buffers(n)[i]), n)
    BY GraphFacts DEF OtherTypes, Has
<1>2. Buffers(n)[i] \in Has("buffer")
    BY <1>1, LenProperties
<1>3. stored[Buffers(n)[i]] \in Nat
    BY <1>2, BoundsAssumption DEF OtherTypes
<1> QED  BY <1>1, <1>2, <1>3 DEF Has, Keyers

LEMMA NothingAdded ==
    ASSUME IInv, UNCHANGED <<stored, gate>>, NEW n \in Has("join"),
           input[n] # <<>> => input'[n] # <<>>
    PROVE  Heeded(n)
BY ListensToAll DEF IInv, Heeded

\* A push to c, with an update of its listeners but a.
LEMMA PushHeeded ==
    ASSUME IInv, NEW c \in Has("buffer"), NEW a \in Keyers \cup Has("buffer"),
           stored' = Pushed(c), UNCHANGED gate,
           gate[c] # "closed" => \A n \in Nodes \ (Has("sink") \cup {a}) :
               Contains(Out(c), n) => input'[n] # <<>>,
           NEW n \in Has("join"), input[n] # <<>> => input'[n] # <<>>
    PROVE  Heeded(n)
<1> SUFFICES ASSUME NEW i \in DOMAIN Buffers(n)
             PROVE  LET b == Buffers(n)[i]
                    IN  \/ stored'[b] <= stored[b] /\ gate[b] = gate'[b]
                        \/ gate'[b] # "open" \/ input'[n] # <<>>
    BY DEF Heeded
<1> DEFINE b == Buffers(n)[i]
<1>1. /\ b \in Has("buffer") /\ stored[b] \in Nat /\ Contains(Out(b), n)
      /\ n \in Nodes \ (Has("sink") \cup {a})
    BY ListensToAll DEF IInv
<1> HIDE DEF b
<1>2. gate'[b] = gate[b]
    OBVIOUS
<1>3. b # c => stored'[b] = stored[b]
    BY <1>1, PushedType DEF IInv
<1>4. b = c /\ gate[b] = "open" => input'[n] # <<>>
    BY <1>1
<1>5. \/ stored'[b] <= stored[b] /\ gate[b] = gate'[b]
      \/ gate'[b] # "open" \/ input'[n] # <<>>
    BY <1>1, <1>2, <1>3, <1>4
<1> QED  BY <1>5 DEF b

LEMMA ExecuteHeeds ==
    ASSUME IInv, NEW m \in Nodes, Execute(m), NEW n \in Has("join")
    PROVE  (Heeded(n) \/ Sets(n)' = 0) /\ stored' \in [Has("buffer") -> 0 .. Retention]
<1>1. /\ OtherTypes /\ Sound(World) /\ IsNext(m) /\ UNCHANGED graph /\ n \in Nodes
      /\ n # m => (input[n] # <<>> => input'[n] # <<>>)
      /\ stored \in [Has("buffer") -> 0 .. Retention]
    BY ExecuteKeeps DEF IInv, OtherTypes, Execute, Has
<1>2. CASE Fork(m) \/ Access(m) \/ Listen(m) \/ Branch(m) \/ Filter(m) \/ Serve(m) \/ Collect(m) \/ Finish(m)
  <2>1. UNCHANGED <<stored, gate>> /\ Op(m) # "join"
      BY <1>2 DEF Fork, Access, Listen, Branch, Filter, Serve, Collect, Finish, OnlyMessages
  <2>2. n # m
      BY <2>1 DEF Has
  <2> QED  BY <1>1, <2>1, <2>2, NothingAdded
<1>3. CASE Store(m)
  <2>1. m \in Has("buffer") /\ n # m /\ stored' = Pushed(m) /\ UNCHANGED gate
      BY <1>3 DEF Store, Has
  <2>2. gate[m] # "closed" => \A l \in Nodes \ (Has("sink") \cup {m}) :
            Contains(Out(m), l) => input'[l] # <<>>
      BY <1>1, <1>3, StoreGrows
  <2> QED  BY <1>1, <2>1, <2>2, PushHeeded, PushedType
<1>4. CASE Join(m)
  <2>1. /\ UNCHANGED gate /\ stored' \in [Has("buffer") -> 0 .. Retention]
        /\ \A b \in Has("buffer") : stored'[b] <= stored[b]
        /\ \E i \in DOMAIN Buffers(m) : stored'[Buffers(m)[i]] = 0
      BY <1>1, <1>4, JoinedFacts DEF Join
  <2>2. CASE n # m
      BY <1>1, <2>1, <2>2, ListensToAll DEF Heeded
  <2>3. CASE n = m
    <3>1. ~(Sets(n)' > 0)
        BY <1>1, <2>1, <2>3, SetsPositive
    <3>2. Sets(n)' \in Nat
      <4> DEFINE f == stored'
      <4>1. /\ f \in [Has("buffer") -> Nat]
            /\ Sets(n)' = Min({f[Buffers(n)[i]] : i \in DOMAIN Buffers(n)})
          BY <1>1, <2>1, BoundsAssumption DEF Sets, Buffers
      <4> HIDE DEF f
      <4>2. Buffers(n) \in Seq(Has("buffer")) /\ Buffers(n) # <<>>
          BY <1>1, GraphFacts DEF OtherTypes, Has
      <4> QED  BY <4>1, <4>2, LeastStored
    <3> QED  BY <2>1, <3>1, <3>2
  <2> QED  BY <2>2, <2>3
<1>5. CASE Gate(m)
  <2>1. /\ UNCHANGED stored /\ n # m
        /\ gate' = [b \in DOMAIN gate |->
                      IF Contains(Buffers(m), b) THEN graph.node[m].action ELSE gate[b]]
      BY <1>5 DEF Gate, Has
  <2>2. ASSUME NEW i \in DOMAIN Buffers(n)
        PROVE  LET b == Buffers(n)[i]
               IN  \/ stored'[b] <= stored[b] /\ gate[b] = gate'[b]
                   \/ gate'[b] # "open" \/ input'[n] # <<>>
    <3> DEFINE b == Buffers(n)[i]
    <3>1. /\ b \in Has("buffer") /\ stored[b] \in Nat /\ Contains(Out(b), n)
          /\ n \in Nodes \ Has("sink")
        BY <1>1, ListensToAll
    <3>2. gate \in [Has("buffer") -> {"open", "closed"}]
        BY <1>1 DEF OtherTypes
    <3> HIDE DEF b
    <3>3. stored'[b] <= stored[b]
        BY <2>1, <3>1
    <3>4. gate'[b] # gate[b] /\ gate'[b] = "open" => input'[n] # <<>>
      <4> SUFFICES ASSUME gate'[b] # gate[b], gate'[b] = "open" PROVE input'[n] # <<>>
          OBVIOUS
      <4>1. gate[b] = "closed" /\ Contains(Buffers(m), b) /\ graph.node[m].action = "open"
          BY <2>1, <3>1, <3>2
      <4>2. Opens(m, b)
          BY <4>1 DEF Opens
      <4> QED  BY <1>1, <1>5, <3>1, <4>1, <4>2, GateGrows
    <3> QED  BY <3>3, <3>4 DEF b
  <2> QED  BY <1>1, <2>1, <2>2 DEF Heeded
<1> QED  BY <1>2, <1>3, <1>4, <1>5 DEF Execute

\* No join is left with a complete set behind open gates, whatever buffers the
\* joins share, whoever pushes, and in whatever order the gates are opened: what
\* wakes it is never lost to the listener that an update leaves out.
THEOREM JoinsMissNothing ==
    Spec => []JoinMissesNothing
<1>1. Init => JoinMissesNothing
  <2> SUFFICES ASSUME Init, NEW n \in Has("join"), Sets(n) > 0 PROVE FALSE
      BY DEF JoinMissesNothing
  <2>1. OtherTypes
      BY InitSound DEF IInv
  <2>2. PICK i \in DOMAIN Buffers(n) : Sets(n) = stored[Buffers(n)[i]]
      BY <2>1, SetsFacts DEF Has
  <2>3. stored[Buffers(n)[i]] = 0
      BY <2>1, ListensToAll DEF Init
  <2> QED  BY <2>2, <2>3
<1>2. IInv /\ JoinMissesNothing /\ [Next]_vars => JoinMissesNothing'
  <2> SUFFICES ASSUME IInv, JoinMissesNothing, [Next]_vars PROVE JoinMissesNothing'
      OBVIOUS
  <2>1. stored \in [Has("buffer") -> 0 .. Retention] /\ \A n \in Has("join") : n \in Nodes
      BY DEF IInv, OtherTypes, Has
  <2>2. CASE /\ UNCHANGED <<graph, stored, gate>>
             /\ \A n \in Nodes : input[n] # <<>> => input'[n] # <<>>
      BY <2>1, <2>2, NothingAdded, JoinsHeeded
  <2>3. CASE StartFlush \/ EndQueue \/ EndAwake \/ EndHear \/ Validate \/ EndDispose \/ Begin
             \/ Settle \/ Check
    <3>1. UNCHANGED <<graph, stored, gate, input>>
        BY <2>3 DEF StartFlush, EndQueue, EndAwake, EndHear, Validate, EndDispose, Begin, Settle,
                    Check, Nodal, Quiet
    <3> QED  BY <2>2, <3>1
  <2>4. CASE Hear
      BY <2>2, <2>4, HearKeeps
  <2>5. CASE Receive
    <3>1. /\ UNCHANGED <<graph, gate>>
          /\ \A n \in Nodes : input[n] # <<>> => input'[n] # <<>>
          /\ \/ UNCHANGED stored
             \/ \E b \in Has("buffer"), a \in Keyers :
                   /\ stored' = Pushed(b)
                   /\ gate[b] # "closed" => \A n \in Nodes \ (Has("sink") \cup {a}) :
                        Contains(Out(b), n) => input'[n] # <<>>
        BY <2>5, ReceiveKeeps
    <3>2. CASE UNCHANGED stored
        BY <2>2, <3>1, <3>2
    <3>3. CASE ~UNCHANGED stored
      <4>1. PICK b \in Has("buffer"), a \in Keyers :
                /\ stored' = Pushed(b)
                /\ gate[b] # "closed" => \A n \in Nodes \ (Has("sink") \cup {a}) :
                     Contains(Out(b), n) => input'[n] # <<>>
          BY <3>1, <3>3
      <4>2. \A n \in Has("join") : Heeded(n)
          BY <2>1, <3>1, <4>1, PushHeeded
      <4>3. stored' \in [Has("buffer") -> 0 .. Retention]
          BY <4>1, PushedType DEF IInv
      <4> QED  BY <3>1, <4>2, <4>3, JoinsHeeded
    <3> QED  BY <3>2, <3>3
  <2>6. CASE \E n \in Nodes : Execute(n)
    <3>1. PICK m \in Nodes : Execute(m)
        BY <2>6
    <3>2. /\ UNCHANGED graph
          /\ \A n \in Has("join") : Heeded(n) \/ Sets(n)' = 0
        BY <3>1, ExecuteKeeps, ExecuteHeeds
    <3>3. CASE Has("join") = {}
        BY <3>2, <3>3, SameSets DEF JoinMissesNothing
    <3>4. CASE Has("join") # {}
      <4>1. stored' \in [Has("buffer") -> 0 .. Retention]
          BY <3>1, <3>4, ExecuteHeeds
      <4> QED  BY <3>2, <4>1, JoinsHeeded
    <3> QED  BY <3>3, <3>4
  <2>7. CASE \E t \in Tasks : FirstPoll(t) \/ Awaken(t)
      BY <2>2, <2>7, FirstPollKeeps, AwakenKeeps
  <2>8. CASE \E t \in Tasks : Send(t) \/ PushWithKey(t) \/ DropKey(t) \/ DropTracker(t) \/ Complete(t)
    <3>1. Unflushed
        BY <2>8 DEF Send, PushWithKey, DropKey, DropTracker, Complete
    <3> QED  BY <2>2, <3>1 DEF Unflushed
  <2>9. CASE UNCHANGED vars
      BY <2>2, <2>9 DEF vars
  <2> QED  BY <2>3, <2>4, <2>5, <2>6, <2>7, <2>8, <2>9 DEF Next
<1> QED  BY <1>1, <1>2, Invariance, PTL DEF Spec
=============================================================================
