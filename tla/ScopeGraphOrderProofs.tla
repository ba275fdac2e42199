------------------------ MODULE ScopeGraphOrderProofs -----------------------
(***************************************************************************)
(* The output of a task is the last of what the task sends (ScopeGraph).   *)
(*                                                                         *)
(* The storage of a node and its entries in the queues match by position:  *)
(* its k-th input is taken with its k-th entry.  So the order of two       *)
(* inputs of different nodes is that of their entries in one line, the     *)
(* queue of the flush followed by the deferred one.  The invariant says    *)
(* where what a task streamed is under way to, what may wait in which      *)
(* queue at which stage of the flush, and that the entry of a final output *)
(* has those of all items of its task before it.                           *)
(***************************************************************************)
EXTENDS ScopeGraphProofs

-----------------------------------------------------------------------------
(* How often a member occurs among the first members of a sequence.        *)

Rank(s, p, x) == Occurrences(SubSeq(s, 1, p), x)

LEMMA FirstMembers ==
    ASSUME NEW S, NEW s \in Seq(S), NEW p \in 0 .. Len(s)
    PROVE  /\ SubSeq(s, 1, p) \in Seq(S) /\ Len(SubSeq(s, 1, p)) = p
           /\ \A i \in 1 .. p : SubSeq(s, 1, p)[i] = s[i]
<1>1. Len(s) \in Nat /\ \A i \in 1 .. p : s[i] \in S
    BY LenProperties
<1>2. 1 \in Int /\ p \in Int /\ p \in Nat
    BY <1>1
<1>3. /\ SubSeq(s, 1, p) \in Seq(S)
      /\ Len(SubSeq(s, 1, p)) = IF 1 <= p THEN p - 1 + 1 ELSE 0
      /\ \A i \in 1 .. p - 1 + 1 : SubSeq(s, 1, p)[i] = s[1 + i - 1]
    BY <1>1, <1>2, SubSeqProperties
<1> QED  BY <1>2, <1>3

LEMMA RankConcat ==
    ASSUME NEW S, NEW s \in Seq(S), NEW t \in Seq(S), NEW p \in 0 .. Len(s) + Len(t), NEW x
    PROVE  Rank(s \o t, p, x) =
               IF p <= Len(s) THEN Rank(s, p, x) ELSE Occurrences(s, x) + Rank(t, p - Len(s), x)
<1>1. /\ Len(s) \in Nat /\ Len(t) \in Nat /\ p \in Nat
      /\ s \o t \in Seq(S) /\ Len(s \o t) = Len(s) + Len(t)
      /\ \A i \in 1 .. Len(s) + Len(t) : (s \o t)[i] = IF i <= Len(s) THEN s[i] ELSE t[i - Len(s)]
    BY LenProperties, ConcatProperties
<1> DEFINE u == SubSeq(s \o t, 1, p)
<1>2. u \in Seq(S) /\ Len(u) = p /\ \A i \in 1 .. p : u[i] = (s \o t)[i]
    BY <1>1, FirstMembers
<1>3. CASE p <= Len(s)
  <2> DEFINE v == SubSeq(s, 1, p)
  <2>1. v \in Seq(S) /\ Len(v) = p /\ \A i \in 1 .. p : v[i] = s[i]
      BY <1>1, <1>3, FirstMembers
  <2> HIDE DEF u, v
  <2>2. \A i \in 1 .. p : u[i] = v[i]
      BY <1>1, <1>2, <1>3, <2>1
  <2>3. u = v
      BY <1>2, <2>1, <2>2, SeqEqual
  <2> QED  BY <1>3, <2>3 DEF Rank, u, v
<1>4. CASE ~(p <= Len(s))
  <2> DEFINE v == SubSeq(t, 1, p - Len(s))
  <2>1. p - Len(s) \in 0 .. Len(t)
      BY <1>1, <1>4
  <2>2. v \in Seq(S) /\ Len(v) = p - Len(s) /\ \A i \in 1 .. p - Len(s) : v[i] = t[i]
      BY <2>1, FirstMembers
  <2> HIDE DEF u, v
  <2>3. /\ s \o v \in Seq(S) /\ Len(s \o v) = Len(s) + Len(v)
        /\ \A i \in 1 .. Len(s) + Len(v) : (s \o v)[i] = IF i <= Len(s) THEN s[i] ELSE v[i - Len(s)]
      BY <2>2, ConcatProperties
  <2>4. Len(s \o v) = p
      BY <1>1, <2>2, <2>3
  <2>5. ASSUME NEW i \in 1 .. p PROVE u[i] = (s \o v)[i]
    <3>1. CASE i <= Len(s)
        BY <1>1, <1>2, <2>2, <2>3, <3>1
    <3>2. CASE ~(i <= Len(s))
      <4>1. i - Len(s) \in 1 .. p - Len(s)
          BY <1>1, <3>2
      <4>2. u[i] = t[i - Len(s)]
          BY <1>1, <1>2, <3>2
      <4>3. (s \o v)[i] = v[i - Len(s)]
          BY <1>1, <2>2, <2>3, <3>2
      <4> QED  BY <2>2, <4>1, <4>2, <4>3
    <3> QED  BY <3>1, <3>2
  <2>6. u = s \o v
      BY <1>2, <2>3, <2>4, <2>5, SeqEqual
  <2>7. Occurrences(s \o v, x) = Occurrences(s, x) + Occurrences(v, x)
      BY <2>2, OccurrencesConcat
  <2> QED  BY <1>4, <2>6, <2>7 DEF Rank, u, v
<1> QED  BY <1>3, <1>4

LEMMA RankBounds ==
    ASSUME NEW S, NEW s \in Seq(S), NEW p \in 0 .. Len(s), NEW x
    PROVE  /\ Rank(s, p, x) \in Nat /\ Occurrences(s, x) \in Nat
           /\ Rank(s, p, x) <= Occurrences(s, x)
           /\ Rank(s, 0, x) = 0 /\ Rank(s, Len(s), x) = Occurrences(s, x)
<1>1. Len(s) \in Nat /\ p \in Nat
    BY LenProperties
<1>2. SubSeq(s, 1, Len(s)) = s /\ SubSeq(s, 1, 0) = <<>>
    BY SubSeqFull, SubSeqEmpty
<1> DEFINE u == SubSeq(s, 1, p)
           v == SubSeq(s, p + 1, Len(s))
<1>3. u \in Seq(S) /\ u \o v = s
  <2>1. 1 \in 1 .. Len(s) + 1 /\ p \in 1 - 1 .. Len(s) /\ Len(s) \in p .. Len(s)
      BY <1>1
  <2>2. SubSeq(s, 1, p) \o SubSeq(s, p + 1, Len(s)) = SubSeq(s, 1, Len(s))
      BY <2>1, ConcatAdjacentSubSeq
  <2> QED  BY <1>2, <2>2, FirstMembers
<1>4. v \in Seq(S)
  <2>1. \A i \in p + 1 .. Len(s) : s[i] \in S
      BY <1>1, LenProperties
  <2>2. p + 1 \in Int /\ Len(s) \in Int
      BY <1>1
  <2> QED  BY <2>1, <2>2, SubSeqProperties
<1> HIDE DEF u, v
<1>5. Occurrences(s, x) = Occurrences(u, x) + Occurrences(v, x)
    BY <1>3, <1>4, OccurrencesConcat
<1>6. Occurrences(u, x) \in Nat /\ Occurrences(v, x) \in Nat
    BY <1>3, <1>4, OccurrencesType
<1>7. Rank(s, p, x) = Occurrences(u, x)
    BY DEF Rank, u
<1>8. Rank(s, 0, x) = 0 /\ Rank(s, Len(s), x) = Occurrences(s, x)
    BY <1>2, OccurrencesEmpty, Zenon DEF Rank
<1> QED  BY <1>5, <1>6, <1>7, <1>8

-----------------------------------------------------------------------------
(* Which entries come before which.                                        *)

\* The k-th entry of n comes after the i-th of x.
Before(q, n, k, x, i) == \A p \in 0 .. Len(q) : Rank(q, p, n) >= k => Rank(q, p, x) >= i

\* What is put between or behind the entries, but for n, keeps this.
LEMMA BeforeInserted ==
    ASSUME NEW S, NEW a \in Seq(S), NEW b \in Seq(S), NEW c \in Seq(S), NEW e \in Seq(S),
           NEW n, NEW k \in Nat, NEW x, NEW i \in Nat,
           Occurrences(c, n) = 0, Occurrences(e, n) = 0,
           Before(a \o b, n, k, x, i)
    PROVE  Before((a \o c) \o (b \o e), n, k, x, i)
<1> DEFINE q == a \o b
           ac == a \o c
           be == b \o e
           r == ac \o be
           la == Len(a)
           lb == Len(b)
           lc == Len(c)
           le == Len(e)
<1>1. /\ la \in Nat /\ lb \in Nat /\ lc \in Nat /\ le \in Nat
      /\ q \in Seq(S) /\ Len(q) = la + lb
      /\ ac \in Seq(S) /\ Len(ac) = la + lc /\ be \in Seq(S) /\ Len(be) = lb + le
      /\ Len(r) = la + lc + (lb + le)
    BY LenProperties, ConcatProperties
<1>2. /\ \A y : \A p \in 0 .. la + lb : Rank(q, p, y) =
             IF p <= la THEN Rank(a, p, y) ELSE Occurrences(a, y) + Rank(b, p - la, y)
      /\ \A y : \A p \in 0 .. la + lc : Rank(ac, p, y) =
             IF p <= la THEN Rank(a, p, y) ELSE Occurrences(a, y) + Rank(c, p - la, y)
      /\ \A y : \A p \in 0 .. lb + le : Rank(be, p, y) =
             IF p <= lb THEN Rank(b, p, y) ELSE Occurrences(b, y) + Rank(e, p - lb, y)
    BY RankConcat
<1>3. \A y : \A p \in 0 .. la + lc + (lb + le) : Rank(r, p, y) =
             IF p <= la + lc THEN Rank(ac, p, y) ELSE Occurrences(ac, y) + Rank(be, p - (la + lc), y)
  <2> SUFFICES ASSUME NEW y, NEW p \in 0 .. la + lc + (lb + le)
               PROVE  Rank(r, p, y) =
             IF p <= la + lc THEN Rank(ac, p, y) ELSE Occurrences(ac, y) + Rank(be, p - (la + lc), y)
      OBVIOUS
  <2>1. p \in 0 .. Len(ac) + Len(be) /\ ac \in Seq(S) /\ be \in Seq(S) /\ Len(ac) = la + lc
      BY <1>1
  <2> HIDE DEF ac, be, la, lc
  <2>2. Rank(ac \o be, p, y) =
            IF p <= Len(ac) THEN Rank(ac, p, y) ELSE Occurrences(ac, y) + Rank(be, p - Len(ac), y)
      BY <2>1, RankConcat
  <2> QED  BY <2>1, <2>2
<1>4. \A y : Occurrences(ac, y) = Occurrences(a, y) + Occurrences(c, y)
    BY OccurrencesConcat
<1>5. /\ \A y : \A p \in 0 .. la : Rank(a, p, y) \in Nat /\ Rank(a, la, y) = Occurrences(a, y)
      /\ \A y : \A p \in 0 .. lb : /\ Rank(b, p, y) \in Nat /\ Rank(b, lb, y) = Occurrences(b, y)
                                   /\ Rank(b, 0, y) = 0
      /\ \A y : \A p \in 0 .. lc : Rank(c, p, y) \in Nat /\ Rank(c, p, y) <= Occurrences(c, y)
      /\ \A y : \A p \in 0 .. le : Rank(e, p, y) \in Nat /\ Rank(e, p, y) <= Occurrences(e, y)
      /\ \A y : /\ Occurrences(a, y) \in Nat /\ Occurrences(b, y) \in Nat
                /\ Occurrences(c, y) \in Nat /\ Occurrences(e, y) \in Nat
    BY RankBounds, OccurrencesType
<1>6. \A p \in 0 .. la + lb : Rank(q, p, n) >= k => Rank(q, p, x) >= i
    BY <1>1 DEF Before
<1> SUFFICES ASSUME NEW p \in 0 .. la + lc + (lb + le), Rank(r, p, n) >= k
             PROVE  Rank(r, p, x) >= i
    BY <1>1 DEF Before
<1> HIDE DEF la, lb, lc, le, q, ac, be, r
<1>7. CASE p <= la
  <2>1. p \in 0 .. la /\ p \in 0 .. la + lb /\ p \in 0 .. la + lc /\ p <= la + lc
      BY <1>1, <1>7
  <2> QED  BY <1>2, <1>3, <1>6, <1>7, <2>1
<1>8. CASE p > la /\ p <= la + lc
  <2>1. p \in 0 .. la + lc /\ p - la \in 0 .. lc /\ la \in 0 .. la /\ la \in 0 .. la + lb
      BY <1>1, <1>8
  <2>2. ASSUME NEW y PROVE Rank(r, p, y) = Occurrences(a, y) + Rank(c, p - la, y)
    <3>1. Rank(r, p, y) = Rank(ac, p, y)
        BY <1>3, <1>8
    <3>2. ~(p <= la)
        BY <1>1, <1>8
    <3> QED  BY <1>2, <2>1, <3>1, <3>2
  <2>3. Rank(c, p - la, n) = 0 /\ Rank(c, p - la, x) \in Nat
    <3>1. Rank(c, p - la, n) \in Nat /\ Rank(c, p - la, n) <= Occurrences(c, n)
        BY <1>5, <2>1
    <3>2. Rank(c, p - la, x) \in Nat
        BY <1>5, <2>1
    <3> QED  BY <3>1, <3>2
  <2>4. ASSUME NEW y PROVE Rank(q, la, y) = Occurrences(a, y)
    <3>1. Rank(q, la, y) = Rank(a, la, y)
        BY <1>1, <1>2, <2>1
    <3> QED  BY <1>5, <2>1, <3>1
  <2>5. Occurrences(a, n) \in Nat /\ Occurrences(a, x) \in Nat
      BY <1>5
  <2>6. Rank(q, la, n) >= k
      BY <2>2, <2>3, <2>4, <2>5
  <2>7. Rank(q, la, x) >= i
      BY <1>6, <2>1, <2>6
  <2>8. Rank(r, p, x) = Occurrences(a, x) + Rank(c, p - la, x) /\ Rank(q, la, x) = Occurrences(a, x)
      BY <2>2, <2>4
  <2> QED  BY <2>3, <2>5, <2>7, <2>8
<1>9. CASE p > la + lc /\ p <= la + lc + lb
  <2> DEFINE o == p - (la + lc)
  <2>1. o \in 0 .. lb /\ o \in 0 .. lb + le /\ o > 0 /\ la + o \in 0 .. la + lb /\ la + o - la = o
      BY <1>1, <1>9
  <2> HIDE DEF o
  <2>2. \A y : Rank(r, p, y) = Occurrences(a, y) + Occurrences(c, y) + Rank(b, o, y)
      BY <1>1, <1>2, <1>3, <1>4, <1>9, <2>1 DEF o
  <2>3. \A y : Rank(q, la + o, y) = Occurrences(a, y) + Rank(b, o, y)
      BY <1>1, <1>2, <2>1
  <2>4. \A y : Rank(b, o, y) \in Nat
      BY <1>5, <2>1
  <2>5. Rank(q, la + o, n) >= k
    <3>1. /\ Rank(r, p, n) = Occurrences(a, n) + Occurrences(c, n) + Rank(b, o, n)
          /\ Rank(q, la + o, n) = Occurrences(a, n) + Rank(b, o, n)
        BY <2>2, <2>3
    <3>2. Occurrences(a, n) \in Nat /\ Rank(b, o, n) \in Nat
        BY <1>5, <2>4
    <3> QED  BY <3>1, <3>2
  <2>6. Rank(q, la + o, x) >= i
      BY <1>6, <2>1, <2>5
  <2>7. /\ Rank(r, p, x) = Occurrences(a, x) + Occurrences(c, x) + Rank(b, o, x)
        /\ Rank(q, la + o, x) = Occurrences(a, x) + Rank(b, o, x)
      BY <2>2, <2>3
  <2>8. Occurrences(a, x) \in Nat /\ Occurrences(c, x) \in Nat /\ Rank(b, o, x) \in Nat
      BY <1>5, <2>4
  <2> QED  BY <2>6, <2>7, <2>8
<1>10. CASE p > la + lc + lb
  <2> DEFINE o == p - (la + lc)
  <2>1. /\ o \in 0 .. lb + le /\ o > lb /\ o - lb \in 0 .. le
        /\ la + lb \in 0 .. la + lb /\ la + lb - la = lb /\ lb \in 0 .. lb
      BY <1>1, <1>10
  <2>2. \A y : Rank(r, p, y) = Occurrences(ac, y) + Rank(be, o, y)
      BY <1>1, <1>3, <1>10
  <2> HIDE DEF o
  <2>3. \A y : Rank(be, o, y) = Occurrences(b, y) + Rank(e, o - lb, y)
      BY <1>1, <1>2, <2>1
  <2>4. \A y : Rank(q, la + lb, y) = Occurrences(a, y) + Occurrences(b, y)
    <3>1. CASE lb = 0
      <4>1. la + lb = la /\ la \in 0 .. la /\ 0 \in 0 .. lb
          BY <1>1, <3>1
      <4> QED  BY <1>1, <1>2, <1>5, <2>1, <3>1, <4>1
    <3>2. CASE lb # 0
      <4> DEFINE z == la + lb
      <4>1. ~(z <= la) /\ z \in 0 .. la + lb /\ z - la = lb
          BY <1>1, <3>2
      <4>2. \A y : Rank(b, lb, y) = Occurrences(b, y)
          BY <1>5, <2>1
      <4> HIDE DEF z
      <4>3. \A y : Rank(q, z, y) = Occurrences(a, y) + Rank(b, lb, y)
          BY <1>2, <4>1
      <4> QED  BY <4>2, <4>3 DEF z
    <3> QED  BY <3>1, <3>2
  <2>5. Rank(e, o - lb, n) = 0 /\ Rank(e, o - lb, x) \in Nat
    <3>1. Rank(e, o - lb, n) \in Nat /\ Rank(e, o - lb, n) <= Occurrences(e, n)
        BY <1>5, <2>1
    <3>2. Rank(e, o - lb, x) \in Nat
        BY <1>5, <2>1
    <3> QED  BY <3>1, <3>2
  <2>6. Rank(q, la + lb, n) >= k
    <3>1. Rank(r, p, n) = Occurrences(ac, n) + Rank(be, o, n)
        BY <2>2
    <3>2. Rank(be, o, n) = Occurrences(b, n) + Rank(e, o - lb, n)
        BY <2>3
    <3>3. Rank(q, la + lb, n) = Occurrences(a, n) + Occurrences(b, n)
        BY <2>4
    <3>4. Occurrences(ac, n) = Occurrences(a, n) + Occurrences(c, n)
        BY <1>4
    <3>5. Occurrences(a, n) \in Nat /\ Occurrences(b, n) \in Nat
        BY <1>5
    <3> QED  BY <2>5, <3>1, <3>2, <3>3, <3>4, <3>5
  <2>7. Rank(q, la + lb, x) >= i
      BY <1>6, <2>1, <2>6
  <2>8. Rank(r, p, x) = Rank(q, la + lb, x) + Occurrences(c, x) + Rank(e, o - lb, x)
    <3>1. Rank(r, p, x) = Occurrences(ac, x) + Rank(be, o, x)
        BY <2>2
    <3>2. Rank(be, o, x) = Occurrences(b, x) + Rank(e, o - lb, x)
        BY <2>3
    <3>3. Rank(q, la + lb, x) = Occurrences(a, x) + Occurrences(b, x)
        BY <2>4
    <3>4. Occurrences(ac, x) = Occurrences(a, x) + Occurrences(c, x)
        BY <1>4
    <3>5. /\ Occurrences(a, x) \in Nat /\ Occurrences(b, x) \in Nat /\ Occurrences(c, x) \in Nat
          /\ Rank(e, o - lb, x) \in Nat
        BY <1>5, <2>5
    <3> QED  BY <3>1, <3>2, <3>3, <3>4, <3>5
  <2>9. Rank(q, la + lb, x) \in Nat /\ Occurrences(c, x) \in Nat
      BY <1>5, <2>4
  <2> QED  BY <2>5, <2>7, <2>8, <2>9
<1> QED  BY <1>1, <1>7, <1>8, <1>9, <1>10

\* What is settled comes after all of a, and no entry of n or x is behind it.
LEMMA BeforeSettled ==
    ASSUME NEW S, NEW a \in Seq(S), NEW b \in Seq(S), NEW d \in Seq(S),
           NEW n, NEW k \in Nat, NEW x, NEW i \in Nat,
           \/ k <= Occurrences(a, n) /\ Before(a \o b, n, k, x, i)
           \/ k > Occurrences(a, n) /\ i <= Occurrences(a, x)
    PROVE  Before((a \o d) \o b, n, k, x, i)
<1> DEFINE q == a \o b
           db == d \o b
           r == a \o db
           la == Len(a)
<1>1. /\ la \in Nat /\ Len(b) \in Nat /\ Len(d) \in Nat
      /\ q \in Seq(S) /\ Len(q) = la + Len(b)
      /\ db \in Seq(S) /\ Len(r) = la + Len(db) /\ Len(db) \in Nat
      /\ (a \o d) \o b = r
  <2>1. q \in Seq(S) /\ db \in Seq(S) /\ Len(q) = la + Len(b) /\ Len(r) = la + Len(db)
      BY ConcatProperties
  <2>2. (a \o d) \o b = r
      BY ConcatAssociative
  <2> HIDE DEF q, db, r
  <2>3. la \in Nat /\ Len(b) \in Nat /\ Len(d) \in Nat /\ Len(db) \in Nat
      BY <2>1, LenProperties
  <2> QED  BY <2>1, <2>2, <2>3
<1>2. /\ \A y : \A p \in 0 .. la + Len(b) : Rank(q, p, y) =
             IF p <= la THEN Rank(a, p, y) ELSE Occurrences(a, y) + Rank(b, p - la, y)
      /\ \A y : \A p \in 0 .. la + Len(db) : Rank(r, p, y) =
             IF p <= la THEN Rank(a, p, y) ELSE Occurrences(a, y) + Rank(db, p - la, y)
  <2> HIDE DEF db
  <2> QED  BY <1>1, RankConcat
<1>3. /\ \A y : \A p \in 0 .. la : /\ Rank(a, p, y) \in Nat /\ Rank(a, p, y) <= Occurrences(a, y)
                                   /\ Rank(a, la, y) = Occurrences(a, y)
      /\ \A y : \A p \in 0 .. Len(db) : Rank(db, p, y) \in Nat
      /\ \A y : Occurrences(a, y) \in Nat
    BY <1>1, RankBounds, OccurrencesType
<1>4. k <= Occurrences(a, n) =>
        \A o \in 0 .. la + Len(b) : Rank(q, o, n) >= k => Rank(q, o, x) >= i
    BY <1>1, <1>3 DEF Before
<1>5. k > Occurrences(a, n) => i <= Occurrences(a, x)
    BY <1>3
<1> SUFFICES ASSUME NEW p \in 0 .. la + Len(db), Rank(r, p, n) >= k
             PROVE  Rank(r, p, x) >= i
    BY <1>1 DEF Before
<1> HIDE DEF la, q, db, r
<1>6. CASE p <= la
  <2>1. p \in 0 .. la /\ p \in 0 .. la + Len(b)
      BY <1>1, <1>6
  <2>2. k <= Occurrences(a, n)
      BY <1>2, <1>3, <1>6, <2>1
  <2> QED  BY <1>2, <1>4, <1>6, <2>1, <2>2
<1>7. CASE p > la
  <2>1. p - la \in 0 .. Len(db) /\ la \in 0 .. la /\ la \in 0 .. la + Len(b) /\ ~(p <= la)
      BY <1>1, <1>7
  <2>2. Rank(r, p, x) = Occurrences(a, x) + Rank(db, p - la, x)
      BY <1>2, <2>1
  <2>3. \A y : Rank(q, la, y) = Occurrences(a, y)
      BY <1>1, <1>2, <1>3, <2>1
  <2>4. i <= Occurrences(a, x)
      BY <1>3, <1>4, <1>5, <2>1, <2>3
  <2> QED  BY <1>3, <2>1, <2>2, <2>4
<1> QED  BY <1>1, <1>6, <1>7

\* The first entry leaves: the others move up, and one less is asked of it.
LEMMA BeforeTail ==
    ASSUME NEW S, NEW a \in Seq(S), NEW b \in Seq(S), a # <<>>,
           NEW n, NEW k \in Nat, NEW x, NEW i \in Nat,
           Before(a \o b, n, k + (IF n = Head(a) THEN 1 ELSE 0), x, i + (IF x = Head(a) THEN 1 ELSE 0))
    PROVE  Before(Tail(a) \o b, n, k, x, i)
<1> DEFINE h == <<Head(a)>>
           r == Tail(a) \o b
<1>1. /\ Head(a) \in S /\ Tail(a) \in Seq(S) /\ h \in Seq(S) /\ Len(h) = 1
      /\ a = h \o Tail(a) /\ r \in Seq(S) /\ Len(r) \in Nat
    BY HeadTailProperties, ConcatProperties, LenProperties
<1>2. \A y : Occurrences(h, y) = IF y = Head(a) THEN 1 ELSE 0
    BY OccurrencesOne
<1> HIDE DEF h
<1>3. a \o b = h \o r
  <2>1. h \in Seq(S) /\ Tail(a) \in Seq(S)
      BY <1>1
  <2>2. (h \o Tail(a)) \o b = h \o (Tail(a) \o b)
      BY <2>1, ConcatAssociative
  <2> QED  BY <1>1, <2>2, Zenon
<1> HIDE DEF r
<1>4. Len(h \o r) = 1 + Len(r)
    BY <1>1, ConcatProperties
<1> SUFFICES ASSUME NEW p \in 0 .. Len(r), Rank(r, p, n) >= k
             PROVE  Rank(r, p, x) >= i
    BY DEF Before, r
<1>5. p + 1 \in 0 .. 1 + Len(r) /\ p + 1 - 1 = p /\ p \in Nat
    BY <1>1
<1>6. \A y : /\ Rank(h \o r, p + 1, y) = Occurrences(h, y) + Rank(r, p, y)
             /\ Rank(r, p, y) \in Nat
  <2> TAKE y
  <2>1. Rank(h \o r, p + 1, y) =
          IF p + 1 <= 1 THEN Rank(h, p + 1, y) ELSE Occurrences(h, y) + Rank(r, p, y)
    <3>1. p + 1 \in 0 .. Len(h) + Len(r) /\ h \in Seq(S) /\ r \in Seq(S)
        BY <1>1, <1>5 DEF r
    <3>2. Rank(h \o r, p + 1, y) =
            IF p + 1 <= Len(h) THEN Rank(h, p + 1, y) ELSE Occurrences(h, y) + Rank(r, p + 1 - Len(h), y)
        BY <3>1, RankConcat
    <3> QED  BY <1>1, <1>5, <3>2
  <2>2. Rank(h, 1, y) = Occurrences(h, y)
    <3>1. 1 \in 0 .. Len(h)
        BY <1>1
    <3> QED  BY <1>1, <3>1, RankBounds
  <2>3. Rank(r, 0, y) = 0 /\ Rank(r, p, y) \in Nat
      BY <1>1, RankBounds
  <2>4. Occurrences(h, y) \in Nat
      BY <1>2
  <2>5. CASE p = 0
      BY <2>1, <2>2, <2>3, <2>4, <2>5
  <2>6. CASE p # 0
    <3>1. ~(p + 1 <= 1)
        BY <1>5, <2>6
    <3> QED  BY <2>1, <2>3, <3>1
  <2> QED  BY <2>5, <2>6
<1>7. Rank(h \o r, p + 1, n) >= k + (IF n = Head(a) THEN 1 ELSE 0)
    BY <1>2, <1>6
<1>8. Rank(h \o r, p + 1, x) >= i + (IF x = Head(a) THEN 1 ELSE 0)
    BY <1>3, <1>4, <1>5, <1>7 DEF Before
<1> QED  BY <1>2, <1>6, <1>8

-----------------------------------------------------------------------------
(* What the operations give but for the outputs of tasks: it is queued     *)
(* behind what there is, and nobody gives to a node that tasks feed.       *)

Entries == Nodes \cup Tasks

\* r is s with more entries, none of which is of N.
Extends(s, r, N) ==
    \E more \in Seq(Entries) : r = s \o more /\ \A n \in N : Occurrences(more, n) = 0

\* A message that is given to n: no output of a task, and streamed, if it is, by t to x
Given(m, n, t, x) == ~m.final /\ (m.task = None \/ (m.task = t /\ n = x))

Feeds(w, v, t, x) ==
    /\ Sound(v)
    /\ Extends(w.roster.queue, v.roster.queue, FedByTasks)
    /\ Extends(w.later.queue, v.later.queue, FedByTasks \cup QueuedAtOnce)
    /\ v.roster.deferred = w.roster.deferred /\ v.later.deferred = w.later.deferred
    /\ \A n \in Nodes :
         /\ Len(w.input[n]) <= Len(v.input[n])
         /\ \A i \in 1 .. Len(v.input[n]) :
              IF i <= Len(w.input[n]) THEN v.input[n][i] = w.input[n][i]
              ELSE Given(v.input[n][i], n, t, x)

LEMMA ExtendsReflexive ==
    ASSUME NEW s \in Seq(Entries), NEW N
    PROVE  Extends(s, s, N)
<1>1. <<>> \in Seq(Entries) /\ s = s \o <<>>
    BY ConcatEmptySeq
<1> QED  BY <1>1, OccurrencesEmpty DEF Extends

LEMMA ExtendsTransitive ==
    ASSUME NEW s \in Seq(Entries), NEW r, NEW q, NEW N, Extends(s, r, N), Extends(r, q, N)
    PROVE  Extends(s, q, N)
<1>1. PICK a \in Seq(Entries) : r = s \o a /\ \A n \in N : Occurrences(a, n) = 0
    BY DEF Extends
<1>2. PICK b \in Seq(Entries) : q = r \o b /\ \A n \in N : Occurrences(b, n) = 0
    BY DEF Extends
<1>3. q = s \o (a \o b) /\ a \o b \in Seq(Entries)
  <2>1. (s \o a) \o b = s \o (a \o b) /\ a \o b \in Seq(Entries)
      BY ConcatAssociative, ConcatProperties
  <2> QED  BY <1>1, <1>2, <2>1, Zenon
<1>4. \A n \in N : Occurrences(a \o b, n) = 0
  <2> TAKE n \in N
  <2>1. Occurrences(a \o b, n) = Occurrences(a, n) + Occurrences(b, n)
      BY OccurrencesConcat
  <2>2. Occurrences(a, n) = 0 /\ Occurrences(b, n) = 0
      BY <1>1, <1>2
  <2> QED  BY <2>1, <2>2
<1> QED  BY <1>3, <1>4 DEF Extends

LEMMA WorldTypes ==
    ASSUME NEW w \in Worlds
    PROVE  /\ w = [input |-> w.input, roster |-> w.roster, later |-> w.later]
           /\ w.roster \in Rosters /\ w.later \in Rosters
           /\ w.roster.queue \in Seq(Entries) /\ w.later.queue \in Seq(Entries)
           /\ w.roster.deferred \in Seq(Nodes) /\ w.later.deferred \in Seq(Nodes)
           /\ \A n \in Nodes : w.input[n] \in Seq(Messages) /\ Len(w.input[n]) \in Nat
           /\ \A n \in Nodes, i \in Nat : i \in 1 .. Len(w.input[n]) => w.input[n][i] \in Messages
<1>1. /\ w = [input |-> w.input, roster |-> w.roster, later |-> w.later]
      /\ w.roster \in Rosters /\ w.later \in Rosters /\ w.input \in [Nodes -> Seq(Messages)]
    BY DEF Worlds
<1>2. /\ w.roster.queue \in Seq(Entries) /\ w.later.queue \in Seq(Entries)
      /\ w.roster.deferred \in Seq(Nodes) /\ w.later.deferred \in Seq(Nodes)
    BY <1>1 DEF Rosters, Entries
<1> QED  BY <1>1, <1>2, LenProperties

LEMMA SoundTypes ==
    ASSUME NEW w, Sound(w)
    PROVE  /\ w = [input |-> w.input, roster |-> w.roster, later |-> w.later]
           /\ w.roster \in Rosters /\ w.later \in Rosters
           /\ w.roster.queue \in Seq(Entries) /\ w.later.queue \in Seq(Entries)
           /\ w.roster.deferred \in Seq(Nodes) /\ w.later.deferred \in Seq(Nodes)
           /\ \A n \in Nodes : w.input[n] \in Seq(Messages) /\ Len(w.input[n]) \in Nat
           /\ \A n \in Nodes, i \in Nat : i \in 1 .. Len(w.input[n]) => w.input[n][i] \in Messages
BY WorldTypes DEF Sound

LEMMA FeedsReflexive ==
    ASSUME NEW w, Sound(w), NEW t, NEW x
    PROVE  Feeds(w, w, t, x)
<1>1. /\ w.roster.queue \in Seq(Entries) /\ w.later.queue \in Seq(Entries)
      /\ \A n \in Nodes : Len(w.input[n]) \in Nat
    BY SoundTypes
<1>2. \A n \in Nodes : \A i \in 1 .. Len(w.input[n]) : i <= Len(w.input[n])
    BY <1>1
<1> QED  BY <1>1, <1>2, ExtendsReflexive DEF Feeds

LEMMA FeedsTransitive ==
    ASSUME NEW u, Sound(u), NEW v, NEW w, NEW t, NEW x, Feeds(u, v, t, x), Feeds(v, w, t, x)
    PROVE  Feeds(u, w, t, x)
<1>1. Sound(v) /\ Sound(w)
    BY DEF Feeds
<1>2. u.roster.queue \in Seq(Entries) /\ u.later.queue \in Seq(Entries)
    BY SoundTypes
<1>3. /\ Extends(u.roster.queue, w.roster.queue, FedByTasks)
      /\ Extends(u.later.queue, w.later.queue, FedByTasks \cup QueuedAtOnce)
    BY <1>2, ExtendsTransitive DEF Feeds
<1>4. ASSUME NEW n \in Nodes
      PROVE  /\ Len(u.input[n]) <= Len(w.input[n])
             /\ \A i \in 1 .. Len(w.input[n]) :
                  IF i <= Len(u.input[n]) THEN w.input[n][i] = u.input[n][i]
                  ELSE Given(w.input[n][i], n, t, x)
  <2>1. Len(u.input[n]) \in Nat /\ Len(v.input[n]) \in Nat /\ Len(w.input[n]) \in Nat
      BY <1>1, SoundTypes
  <2>2. /\ Len(u.input[n]) <= Len(v.input[n]) /\ Len(v.input[n]) <= Len(w.input[n])
        /\ \A i \in 1 .. Len(v.input[n]) :
             IF i <= Len(u.input[n]) THEN v.input[n][i] = u.input[n][i]
             ELSE Given(v.input[n][i], n, t, x)
        /\ \A i \in 1 .. Len(w.input[n]) :
             IF i <= Len(v.input[n]) THEN w.input[n][i] = v.input[n][i]
             ELSE Given(w.input[n][i], n, t, x)
      BY DEF Feeds
  <2> QED  BY <2>1, <2>2
<1>5. w.roster.deferred = u.roster.deferred /\ w.later.deferred = u.later.deferred
    BY DEF Feeds
<1> QED  BY <1>1, <1>3, <1>4, <1>5 DEF Feeds

\* What is given to the targets, exactly
LEMMA GiveInput ==
    ASSUME NEW w \in Worlds, NEW targets \in Seq(Nodes), NEW m \in Messages
    PROVE  LET to == Only(targets, Nodes \ Has("sink"))
               v == Give(w, targets, m)
           IN  /\ to \in Seq(Nodes)
               /\ v.later = w.later /\ v.roster.queue = w.roster.queue \o to
               /\ v.roster.deferred = w.roster.deferred
               /\ \A n \in Nodes : Len(v.input[n]) = Len(w.input[n]) + Occurrences(to, n)
               /\ \A n \in Nodes, i \in Nat :
                    i \in 1 .. Len(v.input[n]) =>
                        /\ i <= Len(w.input[n]) => v.input[n][i] = w.input[n][i]
                        /\ ~(i <= Len(w.input[n])) => v.input[n][i] = m
<1> DEFINE to == Only(targets, Nodes \ Has("sink"))
           v == Give(w, targets, m)
           more(n) == [i \in 1 .. Occurrences(to, n) |-> m]
<1>1. /\ to \in Seq(Nodes) /\ w \in Worlds
      /\ v.roster = [w.roster EXCEPT !.queue = @ \o to] /\ v.later = w.later
      /\ \A n \in Nodes : Len(v.input[n]) = Len(w.input[n]) + Occurrences(to, n)
    BY GiveStep
<1> HIDE DEF to, v
<1>2. \A n \in Nodes : v.input[n] = w.input[n] \o more(n)
  <2>1. v = [w EXCEPT !.input = [n \in Nodes |-> w.input[n] \o more(n)],
                      !.roster.queue = w.roster.queue \o to]
      BY DEF Give, v, to
  <2> HIDE DEF more
  <2>2. v.input = [n \in Nodes |-> w.input[n] \o more(n)]
      BY <1>1, <2>1 DEF Worlds, Rosters
  <2> QED  BY <2>2
<1>3. v.roster.queue = w.roster.queue \o to /\ v.roster.deferred = w.roster.deferred
    BY <1>1, WorldTypes DEF Rosters
<1>4. ASSUME NEW n \in Nodes, NEW i \in Nat, i \in 1 .. Len(v.input[n])
      PROVE  v.input[n][i] = IF i <= Len(w.input[n]) THEN w.input[n][i] ELSE m
  <2>1. Occurrences(to, n) \in Nat /\ w.input[n] \in Seq(Messages) /\ Len(w.input[n]) \in Nat
      BY <1>1, OccurrencesType, WorldTypes
  <2>2. more(n) \in [1 .. Occurrences(to, n) -> Messages]
      OBVIOUS
  <2>3. \A j \in 1 .. Occurrences(to, n) : more(n)[j] = m
      OBVIOUS
  <2> HIDE DEF more
  <2>4. more(n) \in Seq(Messages)
      BY <2>1, <2>2, SeqDef
  <2>5. Len(more(n)) = Occurrences(to, n)
      BY <2>1, <2>2, <2>4, LenProperties
  <2>6. \A j \in 1 .. Len(w.input[n]) + Len(more(n)) : (w.input[n] \o more(n))[j] =
            IF j <= Len(w.input[n]) THEN w.input[n][j] ELSE more(n)[j - Len(w.input[n])]
      BY <2>1, <2>4, ConcatProperties
  <2>7. i \in 1 .. Len(w.input[n]) + Len(more(n))
      BY <1>1, <1>4, <2>5
  <2>8. v.input[n][i] = IF i <= Len(w.input[n]) THEN w.input[n][i] ELSE more(n)[i - Len(w.input[n])]
      BY <1>2, <2>6, <2>7
  <2>9. ~(i <= Len(w.input[n])) => i - Len(w.input[n]) \in 1 .. Occurrences(to, n)
      BY <2>1, <2>5, <2>7
  <2> QED  BY <2>3, <2>8, <2>9
<1> QED  BY <1>1, <1>3, <1>4 DEF v, to

LEMMA SeqWithin ==
    ASSUME NEW T, NEW s \in Seq(T), NEW U, \A x \in T : Contains(s, x) => x \in U
    PROVE  s \in Seq(U)
<1>1. Len(s) \in Nat /\ DOMAIN s = 1 .. Len(s) /\ s \in [1 .. Len(s) -> T]
    BY LenProperties
<1>2. \A i \in 1 .. Len(s) : s[i] \in U
    BY <1>1 DEF Contains
<1>3. s \in [1 .. Len(s) -> U]
    BY <1>1, <1>2
<1> QED  BY <1>1, <1>3, SeqDef

\* Who gives to the nodes that tasks feed, and to those that take all at once
LEMMA TargetTypes ==
    ASSUME graph \in Graphs
    PROVE  /\ \A n \in Nodes : Op(n) # "task" => Out(n) \in Seq(Nodes \ FedByTasks)
           /\ \A n \in Nodes : Stream(n) \in Seq(Nodes \ FedByTasks)
           /\ \A b \in Has("buffer") : Out(b) \in Seq(Nodes \ (FedByTasks \cup QueuedAtOnce))
           /\ \A n \in Has("task") : Out(n) \in Seq(Nodes \ QueuedAtOnce)
<1>1. \A n \in Nodes : Out(n) \in Seq(Nodes) /\ Stream(n) \in Seq(Nodes)
    BY GraphFacts
<1>2. ASSUME NEW n \in Nodes, NEW x, Contains(Out(n), x) \/ Contains(Stream(n), x)
      PROVE  Contains(Out(n) \o Stream(n), x)
    BY <1>1, <1>2, ContainsConcat
<1>3. ASSUME NEW n \in Nodes, Op(n) # "task" PROVE Out(n) \in Seq(Nodes \ FedByTasks)
  <2>1. \A x \in Nodes : Contains(Out(n), x) => x \in Nodes \ FedByTasks
      BY <1>2, <1>3 DEF FedByTasks
  <2> QED  BY <1>1, <2>1, SeqWithin
<1>4. ASSUME NEW n \in Nodes PROVE Stream(n) \in Seq(Nodes \ FedByTasks)
  <2>1. \A x \in Nodes : Contains(Stream(n), x) => x \in Nodes \ FedByTasks
      BY <1>2 DEF FedByTasks
  <2> QED  BY <1>1, <2>1, SeqWithin
<1>5. ASSUME NEW b \in Has("buffer") PROVE Out(b) \in Seq(Nodes \ (FedByTasks \cup QueuedAtOnce))
  <2>1. b \in Nodes /\ Op(b) = "buffer"
      BY DEF Has
  <2>2. \A x \in Nodes : Contains(Out(b), x) => x \in Nodes \ (FedByTasks \cup QueuedAtOnce)
      BY <1>2, <2>1 DEF FedByTasks, QueuedAtOnce
  <2> QED  BY <1>1, <2>1, <2>2, SeqWithin
<1>6. ASSUME NEW n \in Has("task") PROVE Out(n) \in Seq(Nodes \ QueuedAtOnce)
  <2>1. n \in Nodes /\ Op(n) = "task"
      BY DEF Has
  <2>2. \A x \in Nodes : Contains(Out(n), x) => x \in Nodes \ QueuedAtOnce
      BY <2>1 DEF QueuedAtOnce
  <2> QED  BY <1>1, <2>1, <2>2, SeqWithin
<1> QED  BY <1>3, <1>4, <1>5, <1>6

LEMMA OnlyOccurs ==
    ASSUME NEW T, NEW s \in Seq(T), NEW S, NEW x, Occurrences(Only(s, S), x) # 0
    PROVE  Contains(s, x) /\ x \in T
<1>1. s \in Seq({y \in T : Contains(s, y)})
    BY SeqWithin
<1>2. Only(s, S) \in Seq({y \in T : Contains(s, y)})
    BY <1>1, OnlyType
<1> QED  BY <1>2, OccurrencesOutside

LEMMA GiveFeeds ==
    ASSUME graph \in Graphs, NEW w, Sound(w), NEW t, NEW x, NEW m \in Messages,
           NEW targets \in Seq(Nodes \ FedByTasks),
           \A n \in Nodes : Contains(targets, n) => Given(m, n, t, x)
    PROVE  Feeds(w, Give(w, targets, m), t, x)
<1> DEFINE to == Only(targets, Nodes \ Has("sink"))
           v == Give(w, targets, m)
<1>1. targets \in Seq(Nodes)
    BY SeqMonotonic, Nodes \ FedByTasks \subseteq Nodes
<1>2. /\ to \in Seq(Nodes) /\ v.later = w.later /\ v.roster.queue = w.roster.queue \o to
      /\ v.roster.deferred = w.roster.deferred
      /\ \A n \in Nodes :
           /\ Len(v.input[n]) = Len(w.input[n]) + Occurrences(to, n)
           /\ \A i \in 1 .. Len(v.input[n]) :
                v.input[n][i] = IF i <= Len(w.input[n]) THEN w.input[n][i] ELSE m
  <2>1. to \in Seq(Nodes) /\ v.later = w.later
    BY <1>1, GiveInput DEF Sound
  <2>2. v.roster.queue = w.roster.queue \o to
    BY <1>1, GiveInput DEF Sound
  <2>3. v.roster.deferred = w.roster.deferred
    BY <1>1, GiveInput DEF Sound
  <2>4. ASSUME NEW n \in Nodes PROVE Len(v.input[n]) = Len(w.input[n]) + Occurrences(to, n)
    BY <1>1, GiveInput DEF Sound
  <2>5. \A n \in Nodes, i \in Nat :
                    i \in 1 .. Len(v.input[n]) =>
                        /\ i <= Len(w.input[n]) => v.input[n][i] = w.input[n][i]
                        /\ ~(i <= Len(w.input[n])) => v.input[n][i] = m
    BY <1>1, GiveInput DEF Sound
  <2> HIDE DEF to, v
  <2> QED  BY <2>1, <2>2, <2>3, <2>4, <2>5
<1> HIDE DEF to, v
<1>3. \A n \in FedByTasks : Occurrences(to, n) = 0
    BY OnlyOccurs DEF to
<1>4. \A n \in Nodes : Occurrences(to, n) \in Nat /\ (Occurrences(to, n) # 0 => Contains(targets, n))
  <2>1. \A n \in Nodes : Occurrences(to, n) \in Nat
      BY <1>2, OccurrencesType
  <2>2. \A n : Occurrences(to, n) # 0 => Contains(targets, n)
      BY <1>1, OnlyOccurs DEF to
  <2> QED  BY <2>1, <2>2
<1>5. Sound(v)
    BY <1>1, GiveGrows DEF Grows, v
<1>6. to \in Seq(Entries)
    BY <1>2, SeqMonotonic, Nodes \subseteq Entries DEF Entries
<1>7. Extends(w.roster.queue, v.roster.queue, FedByTasks)
    BY <1>2, <1>3, <1>6 DEF Extends
<1>8. Extends(w.later.queue, v.later.queue, FedByTasks \cup QueuedAtOnce)
    BY <1>2, SoundTypes, ExtendsReflexive
<1>9. ASSUME NEW n \in Nodes
      PROVE  /\ Len(w.input[n]) <= Len(v.input[n])
             /\ \A i \in 1 .. Len(v.input[n]) :
                  IF i <= Len(w.input[n]) THEN v.input[n][i] = w.input[n][i]
                  ELSE Given(v.input[n][i], n, t, x)
  <2>1. Len(w.input[n]) \in Nat
      BY SoundTypes
  <2>2. \A i \in 1 .. Len(v.input[n]) : ~(i <= Len(w.input[n])) => Occurrences(to, n) # 0
      BY <1>2, <1>4, <2>1
  <2> QED  BY <1>2, <1>4, <2>1, <2>2
<1> QED  BY <1>2, <1>5, <1>7, <1>8, <1>9 DEF Feeds, v

LEMMA PlainFeeds ==
    ASSUME graph \in Graphs, NEW w, Sound(w), NEW t, NEW x, NEW a \in Keyers \cup {None},
           NEW targets \in Seq(Nodes \ FedByTasks)
    PROVE  /\ Feeds(w, Give(w, targets, Plain), t, x)
           /\ Feeds(w, Give(w, targets, Message(None, FALSE, a)), t, x)
<1>1. Plain \in Messages /\ Message(None, FALSE, a) \in Messages
    BY DEF Plain, Message, Messages
<1>2. \A n : Given(Plain, n, t, x) /\ Given(Message(None, FALSE, a), n, t, x)
    BY DEF Plain, Message, Given
<1> QED  BY <1>1, <1>2, GiveFeeds

LEMMA DisposeFeeds ==
    ASSUME NEW w, Sound(w), NEW n \in Nodes, NEW t, NEW x
    PROVE  Feeds(w, Dispose(w, n), t, x) /\ Dispose(w, n).later = w.later
<1> DEFINE v == Dispose(w, n)
<1>1. Sound(v) /\ v.input = w.input
    BY DisposeGrows DEF Grows
<1>2. v.later = w.later /\ v.roster.queue = w.roster.queue /\ v.roster.deferred = w.roster.deferred
  <2>1. v = [w EXCEPT !.roster = [w.roster EXCEPT !.disposals = Append(@, n)]]
      BY DEF Dispose
  <2>2. w = [input |-> w.input, roster |-> w.roster, later |-> w.later] /\ w.roster \in Rosters
      BY SoundTypes
  <2> HIDE DEF v
  <2>3. v.roster = [w.roster EXCEPT !.disposals = Append(@, n)] /\ v.later = w.later
      BY <2>1, <2>2
  <2> QED  BY <2>2, <2>3 DEF Rosters
<1>3. Feeds(v, v, t, x)
    BY <1>1, FeedsReflexive
<1> HIDE DEF v
<1> QED  BY <1>1, <1>2, <1>3 DEF Feeds, v

LEMMA UpdatedFeeds ==
    ASSUME graph \in Graphs, NEW w, Sound(w), NEW b \in Has("buffer"), NEW a, NEW t, NEW x
    PROVE  Feeds(w, Updated(w, b, a), t, x)
<1> DEFINE v == NotifyLater(w, b, a)
           swapped == [input |-> w.input, roster |-> w.later, later |-> w.roster]
           h == Give(swapped, Listeners(b, a), Plain)
           to == Only(Listeners(b, a), Nodes \ Has("sink"))
           T == Nodes \ (FedByTasks \cup QueuedAtOnce)
<1>1. Sound(swapped) /\ v = [input |-> h.input, roster |-> h.later, later |-> h.roster]
    BY NotifyLaterSwaps
<1>2. Listeners(b, a) \in Seq(T) /\ Listeners(b, a) \in Seq(Nodes)
  <2>1. Out(b) \in Seq(T) /\ T \subseteq Nodes
      BY TargetTypes
  <2>2. Listeners(b, a) \in Seq(T)
      BY <2>1, OnlyType DEF Listeners
  <2> QED  BY <2>1, <2>2, SeqMonotonic
<1>3. Plain \in Messages /\ \A n : Given(Plain, n, t, x)
    BY DEF Plain, Message, Messages, Given
<1>4. /\ swapped.input = w.input /\ swapped.roster = w.later /\ swapped.later = w.roster
      /\ v.input = h.input /\ v.roster = h.later /\ v.later = h.roster
    BY <1>1
<1>5. \A n : Occurrences(to, n) # 0 => n \in T
    BY <1>2, OnlyOccurs
<1>6. /\ to \in Seq(Nodes) /\ h.later = swapped.later
      /\ h.roster.queue = swapped.roster.queue \o to
      /\ h.roster.deferred = swapped.roster.deferred
    BY <1>1, <1>2, <1>3, GiveInput DEF Sound
<1>7. /\ \A n \in Nodes : Len(h.input[n]) = Len(swapped.input[n]) + Occurrences(to, n)
      /\ \A n \in Nodes, i \in Nat :
           i \in 1 .. Len(h.input[n]) =>
               /\ i <= Len(swapped.input[n]) => h.input[n][i] = swapped.input[n][i]
               /\ ~(i <= Len(swapped.input[n])) => h.input[n][i] = Plain
  <2>1. \A n \in Nodes : Len(h.input[n]) = Len(swapped.input[n]) + Occurrences(to, n)
      BY <1>1, <1>2, <1>3, GiveInput DEF Sound
  <2>2. \A n \in Nodes, i \in Nat :
           i \in 1 .. Len(h.input[n]) =>
               /\ i <= Len(swapped.input[n]) => h.input[n][i] = swapped.input[n][i]
               /\ ~(i <= Len(swapped.input[n])) => h.input[n][i] = Plain
    <3>1. swapped \in Worlds
        BY <1>1 DEF Sound
    <3> HIDE DEF swapped
    <3> QED  BY <1>2, <1>3, <3>1, GiveInput
  <2> HIDE DEF h, swapped, to
  <2> QED  BY <2>1, <2>2
<1>8. Sound(v)
  <2>1. b \in Nodes
      BY DEF Has
  <2> QED  BY <2>1, NotifyLaterGrows DEF Grows
<1> HIDE DEF v, swapped, h, to
<1>9. to \in Seq(Entries) /\ w.later.queue \in Seq(Entries) /\ w.roster.queue \in Seq(Entries)
    BY <1>6, SoundTypes, SeqMonotonic, Nodes \subseteq Entries DEF Entries
<1>10. Extends(w.later.queue, v.later.queue, FedByTasks \cup QueuedAtOnce)
    BY <1>4, <1>5, <1>6, <1>9 DEF Extends
<1>11. /\ Extends(w.roster.queue, v.roster.queue, FedByTasks)
       /\ v.roster.deferred = w.roster.deferred /\ v.later.deferred = w.later.deferred
    BY <1>4, <1>6, <1>9, ExtendsReflexive
<1>12. ASSUME NEW n \in Nodes
       PROVE  /\ Len(w.input[n]) <= Len(v.input[n])
              /\ \A i \in 1 .. Len(v.input[n]) :
                   IF i <= Len(w.input[n]) THEN v.input[n][i] = w.input[n][i]
                   ELSE Given(v.input[n][i], n, t, x)
  <2>1. Len(w.input[n]) \in Nat /\ Occurrences(to, n) \in Nat /\ Len(v.input[n]) \in Nat
      BY <1>6, <1>8, SoundTypes, OccurrencesType
  <2>2. \A i \in 1 .. Len(v.input[n]) : i \in Nat
      BY <2>1
  <2> QED  BY <1>3, <1>4, <1>7, <2>1, <2>2
<1>13. Feeds(w, v, t, x)
    BY <1>8, <1>10, <1>11, <1>12 DEF Feeds
<1>14. Feeds(w, w, t, x)
    BY FeedsReflexive
<1> QED  BY <1>13, <1>14 DEF Updated, v

-----------------------------------------------------------------------------
(* What each step feeds.                                                   *)

LEMMA FlattenWithin ==
    ASSUME NEW T, NEW k \in Nat, NEW seqs \in [1 .. k -> Seq(T)]
    PROVE  FlattenSeq(seqs) \in Seq(T)
<1>1. seqs \in Seq(Seq(T))
    BY SeqDef
<1> QED  BY <1>1, FlattenType

LEMMA MessagesFeed ==
    ASSUME OtherTypes, Sound(World), NEW n \in Nodes, IsNext(n),
           Fork(n) \/ Access(n) \/ Listen(n) \/ Branch(n) \/ Filter(n) \/ Finish(n)
    PROVE  \E v : Become(v) /\ Feeds(Taken(n), v, None, None)
<1> DEFINE w == Taken(n)
<1>1. graph \in Graphs /\ Sound(w) /\ Op(n) # "task"
    BY TakenIsSound DEF OtherTypes, Fork, Access, Listen, Branch, Filter, Finish
<1>2. Out(n) \in Seq(Nodes \ FedByTasks)
    BY <1>1, TargetTypes
<1> HIDE DEF w
<1>3. Feeds(w, Give(w, Out(n), Plain), None, None) /\ Feeds(w, w, None, None)
    BY <1>1, <1>2, PlainFeeds, FeedsReflexive
<1>4. CASE Fork(n) \/ Finish(n)
    BY <1>3, <1>4 DEF Fork, Finish, w
<1>5. CASE Access(n) \/ Listen(n)
  <2>1. n \in Keyers \cup {None}
      BY <1>5 DEF Access, Listen, Keyers, Has
  <2>2. Feeds(w, Give(w, Out(n), Message(None, FALSE, n)), None, None)
      BY <1>1, <1>2, <2>1, PlainFeeds
  <2> QED  BY <1>5, <2>2 DEF Access, Listen, Keyed, w
<1>6. CASE Branch(n)
  <2>1. PICK i \in DOMAIN Out(n) : Become(Dispose(Give(w, <<Out(n)[i]>>, Plain), n))
      BY <1>6 DEF Branch, w
  <2> DEFINE g == Give(w, <<Out(n)[i]>>, Plain)
  <2>2. <<Out(n)[i]>> \in Seq(Nodes \ FedByTasks)
      BY <1>2, LenProperties
  <2>3. Feeds(w, g, None, None)
      BY <1>1, <2>2, PlainFeeds
  <2> HIDE DEF g
  <2>4. Feeds(g, Dispose(g, n), None, None)
      BY <2>3, DisposeFeeds DEF Feeds
  <2>5. Feeds(w, Dispose(g, n), None, None)
      BY <1>1, <2>3, <2>4, FeedsTransitive
  <2> QED  BY <2>1, <2>5 DEF g, w
<1>7. CASE Filter(n)
  <2>1. Feeds(w, Dispose(w, n), None, None)
      BY <1>1, DisposeFeeds
  <2> QED  BY <1>3, <1>7, <2>1 DEF Filter, w
<1> QED  BY <1>4, <1>5, <1>6, <1>7

LEMMA StoreFeeds ==
    ASSUME OtherTypes, Sound(World), NEW b \in Nodes, IsNext(b), Store(b)
    PROVE  \E v : Become(v) /\ Feeds(Taken(b), v, None, None)
<1>1. graph \in Graphs /\ Sound(Taken(b)) /\ b \in Has("buffer")
    BY TakenIsSound DEF OtherTypes, Store, Has
<1>2. Feeds(Taken(b), Updated(Taken(b), b, b), None, None)
    BY <1>1, UpdatedFeeds
<1> QED  BY <1>2 DEF Store

LEMMA JoinFeeds ==
    ASSUME OtherTypes, Sound(World), NEW n \in Nodes, IsNext(n), Join(n)
    PROVE  \E v : Become(v) /\ Feeds(Taken(n), v, None, None)
<1> DEFINE outs == [i \in 1 .. Sets(n) |-> Out(n)]
<1>1. graph \in Graphs /\ Sound(Taken(n)) /\ Op(n) = "join"
    BY TakenIsSound DEF OtherTypes, Join
<1>2. Sets(n) \in Nat /\ Out(n) \in Seq(Nodes \ FedByTasks)
    BY <1>1, SetsFacts, TargetTypes
<1>3. outs \in [1 .. Sets(n) -> Seq(Nodes \ FedByTasks)]
    BY <1>2
<1>4. Become(Give(Taken(n), FlattenSeq(outs), Plain))
    BY DEF Join
<1> HIDE DEF outs
<1>5. FlattenSeq(outs) \in Seq(Nodes \ FedByTasks)
    BY <1>2, <1>3, FlattenWithin
<1>6. Feeds(Taken(n), Give(Taken(n), FlattenSeq(outs), Plain), None, None)
    BY <1>1, <1>5, PlainFeeds
<1> QED  BY <1>4, <1>6

LEMMA GateFeeds ==
    ASSUME OtherTypes, Sound(World), NEW n \in Nodes, IsNext(n), Gate(n)
    PROVE  \E v : Become(v) /\ Feeds(Taken(n), v, None, None)
<1> DEFINE w == Taken(n)
           first == Give(w, Woken(n), Plain)
           given == Give(first, Out(n), Plain)
           v == IF graph.node[n].action = "closed" THEN Dispose(given, n) ELSE given
           each == [i \in DOMAIN Buffers(n) |->
                       IF Opens(n, Buffers(n)[i]) THEN Listeners(Buffers(n)[i], None) ELSE <<>>]
           T == Nodes \ FedByTasks
<1>1. graph \in Graphs /\ Sound(w) /\ Op(n) = "gate"
    BY TakenIsSound DEF OtherTypes, Gate
<1>2. Out(n) \in Seq(T)
    BY <1>1, TargetTypes
<1>3. Woken(n) \in Seq(T)
  <2>1. /\ Buffers(n) \in Seq(Has("buffer")) /\ Len(Buffers(n)) \in Nat
        /\ DOMAIN Buffers(n) = 1 .. Len(Buffers(n))
        /\ \A i \in 1 .. Len(Buffers(n)) : Buffers(n)[i] \in Has("buffer")
    <3>1. Buffers(n) \in Seq(Has("buffer"))
        BY <1>1, GraphFacts
    <3> QED  BY <3>1, LenProperties
  <2>2. \A b \in Has("buffer") : Listeners(b, None) \in Seq(T)
    <3> TAKE b \in Has("buffer")
    <3>1. Out(b) \in Seq(T)
        BY <1>1, TargetTypes DEF Has
    <3> QED  BY <3>1, OnlyType DEF Listeners
  <2>3. each \in [1 .. Len(Buffers(n)) -> Seq(T)]
      BY <2>1, <2>2
  <2>4. Woken(n) = FlattenSeq(each)
      BY DEF Woken
  <2> HIDE DEF each
  <2>5. FlattenSeq(each) \in Seq(T)
      BY <2>1, <2>3, FlattenWithin
  <2> QED  BY <2>4, <2>5
<1>4. Become(v)
    BY DEF Gate
<1> HIDE DEF w
<1>5. Feeds(w, first, None, None) /\ Sound(first)
    BY <1>1, <1>3, PlainFeeds DEF Feeds
<1> HIDE DEF first
<1>6. Feeds(first, given, None, None) /\ Sound(given)
  <2>1. Feeds(first, given, None, None)
      BY <1>1, <1>2, <1>5, PlainFeeds
  <2> QED  BY <2>1 DEF Feeds
<1> HIDE DEF given
<1>7. Feeds(given, v, None, None)
    BY <1>6, DisposeFeeds, FeedsReflexive
<1> HIDE DEF v
<1>8. Feeds(w, given, None, None)
    BY <1>1, <1>5, <1>6, FeedsTransitive
<1>9. Feeds(w, v, None, None)
    BY <1>1, <1>7, <1>8, FeedsTransitive
<1> QED  BY <1>4, <1>9 DEF w

\* The conclusion of a collect leaves the deferred roster alone.
LEMMA ConcludeFeeds ==
    ASSUME graph \in Graphs, NEW w, Sound(w), NEW n \in Has("collect"), NEW h, Conclude(w, n, h)
    PROVE  \E v : Become(v) /\ Feeds(w, v, None, None) /\ v.later = w.later
<1> DEFINE g == Give(w, Out(n), Plain)
<1>1. n \in Nodes /\ Op(n) # "task"
    BY DEF Has
<1>2. Out(n) \in Seq(Nodes \ FedByTasks) /\ Out(n) \in Seq(Nodes)
    BY <1>1, TargetTypes, GraphFacts
<1>3. Feeds(w, g, None, None)
    BY <1>2, PlainFeeds
<1>4. g.later = w.later
  <2>1. Plain \in Messages
      BY DEF Plain, Message, Messages
  <2> QED  BY <1>2, <2>1, GiveInput DEF Sound
<1>5. Feeds(w, Dispose(w, n), None, None) /\ Dispose(w, n).later = w.later
    BY <1>1, DisposeFeeds
<1> QED  BY <1>3, <1>4, <1>5 DEF Conclude

LEMMA CollectFeeds ==
    ASSUME OtherTypes, Sound(World), NEW n \in Nodes, IsNext(n), Collect(n)
    PROVE  \E v : Become(v) /\ Feeds(Taken(n), v, None, None)
<1>1. graph \in Graphs /\ Sound(Taken(n)) /\ n \in Has("collect") /\ Op(n) # "task"
    BY TakenIsSound DEF OtherTypes, Collect, Has
<1>2. \/ Become(Give(Taken(n), Out(n), Plain)) \/ Become(Taken(n))
      \/ \E h : Conclude(Taken(n), n, h)
    BY DEF Collect
<1>3. Out(n) \in Seq(Nodes \ FedByTasks)
    BY <1>1, TargetTypes
<1>4. /\ Feeds(Taken(n), Give(Taken(n), Out(n), Plain), None, None)
      /\ Feeds(Taken(n), Taken(n), None, None)
    BY <1>1, <1>3, PlainFeeds, FeedsReflexive
<1> QED  BY <1>1, <1>2, <1>4, ConcludeFeeds

LEMMA QueuedFeeds ==
    ASSUME graph \in Graphs, NEW w, Sound(w), NEW s \in Tasks
    PROVE  Feeds(w, Queued(w, s), None, None)
<1> DEFINE v == Queued(w, s)
<1>1. Sound(v) /\ v.input = w.input /\ v.later = w.later
    BY QueuedIsSound
<1>2. w.roster.queue \in Seq(Entries) /\ s \in Entries /\ w.later.queue \in Seq(Entries)
    BY SoundTypes DEF Entries
<1>3. v.roster.queue = w.roster.queue \o <<s>> /\ v.roster.deferred = w.roster.deferred
  <2>1. v = [w EXCEPT !.roster = [w.roster EXCEPT !.queue = Append(@, s)]]
      BY DEF Queued
  <2>2. w = [input |-> w.input, roster |-> w.roster, later |-> w.later] /\ w.roster \in Rosters
      BY SoundTypes
  <2> HIDE DEF v
  <2>3. v.roster = [w.roster EXCEPT !.queue = Append(@, s)]
      BY <2>1, <2>2
  <2>4. v.roster.queue = Append(w.roster.queue, s) /\ v.roster.deferred = w.roster.deferred
      BY <2>2, <2>3 DEF Rosters
  <2> QED  BY <1>2, <2>4, AppendIsConcat
<1> HIDE DEF v
<1>4. Extends(w.roster.queue, v.roster.queue, FedByTasks)
  <2>1. <<s>> \in Seq(Entries)
      BY <1>2
  <2>2. \A n \in FedByTasks : n # s
      BY GraphFacts DEF FedByTasks
  <2>3. \A n \in FedByTasks : Occurrences(<<s>>, n) = 0
      BY <2>2, OccurrencesOne
  <2> QED  BY <1>3, <2>1, <2>3 DEF Extends
<1>5. Feeds(w, w, None, None)
    BY FeedsReflexive
<1> QED  BY <1>1, <1>3, <1>4, <1>5 DEF Feeds, v

\* A node that executes feeds others, but for the start of a task.
LEMMA ExecuteFeeds ==
    ASSUME OtherTypes, Sound(World), NEW n \in Nodes, Execute(n)
    PROVE  \E v : Become(v) /\ Feeds(Taken(n), v, None, None)
<1>1. IsNext(n) /\ graph \in Graphs
    BY DEF Execute, OtherTypes
<1>2. CASE Serve(n)
  <2>1. PICK s \in Tasks : Become(Queued(Taken(n), s))
      BY <1>2 DEF Serve
  <2>2. Sound(Taken(n))
      BY <1>1, TakenIsSound
  <2> QED  BY <1>1, <2>1, <2>2, QueuedFeeds
<1>3. CASE ~Serve(n)
    BY <1>1, <1>3, MessagesFeed, StoreFeeds, JoinFeeds, GateFeeds, CollectFeeds DEF Execute
<1> QED  BY <1>2, <1>3

-----------------------------------------------------------------------------
(* The invariant.  Where the items of a task are and where its output is,  *)
(* where either is queued at each stage of the flush, and that the output  *)
(* has its place in the line behind all items that wait with it.           *)

Line(w) == w.roster.queue \o w.later.queue

Streaming(t) == {j \in DOMAIN channel : channel[j].kind = "stream" /\ channel[j].from = t}
Underway == {t \in Tasks : Streaming(t) # {}}

Streams(m, t) == m.task = t /\ ~m.final

Orderly(w, busy) ==
    \A n \in FedByTasks : \A k \in 1 .. Occurrences(Line(w), n) :
        LET m == w.input[n][k]
        IN  m.final =>
              /\ m.task \in Tasks \ busy
              /\ \A x \in QueuedAtOnce : \A i \in 1 .. Len(w.input[x]) :
                    Streams(w.input[x][i], m.task) => Before(Line(w), n, k, x, i)

LEMMA LineFacts ==
    ASSUME NEW w, Sound(w)
    PROVE  /\ Line(w) \in Seq(Entries)
           /\ \A x : /\ Occurrences(w.roster.queue, x) \in Nat
                     /\ Occurrences(w.later.queue, x) \in Nat
                     /\ Occurrences(Line(w), x) =
                          Occurrences(w.roster.queue, x) + Occurrences(w.later.queue, x)
           /\ \A n \in Nodes : /\ Occurrences(Line(w), n) \in Nat
                               /\ Occurrences(Line(w), n) <= Len(w.input[n])
<1>1. w.roster.queue \in Seq(Entries) /\ w.later.queue \in Seq(Entries)
    BY SoundTypes
<1>2. \A x : /\ Occurrences(w.roster.queue, x) \in Nat
             /\ Occurrences(w.later.queue, x) \in Nat
             /\ Occurrences(Line(w), x) =
                  Occurrences(w.roster.queue, x) + Occurrences(w.later.queue, x)
    BY <1>1, OccurrencesType, OccurrencesConcat DEF Line
<1>3. ASSUME NEW n \in Nodes
      PROVE  Occurrences(Line(w), n) \in Nat /\ Occurrences(Line(w), n) <= Len(w.input[n])
  <2>1. /\ Occurrences(w.roster.deferred, n) \in Nat /\ Occurrences(w.later.deferred, n) \in Nat
      BY SoundTypes, OccurrencesType
  <2>2. Len(w.input[n]) =
            Occurrences(w.roster.queue, n) + Occurrences(w.roster.deferred, n)
            + Occurrences(w.later.queue, n) + Occurrences(w.later.deferred, n)
      BY DEF Sound, Balanced
  <2> QED  BY <1>2, <2>1, <2>2
<1>4. Line(w) \in Seq(Entries)
    BY <1>1, ConcatProperties DEF Line
<1> QED  BY <1>2, <1>3, <1>4

\* What feeds, and streams for nobody but a task that is busy, keeps the order.
LEMMA OrderlyFed ==
    ASSUME graph \in Graphs, NEW w, Sound(w), NEW v, NEW t, NEW x, NEW busy,
           Feeds(w, v, t, x), t = None \/ t \in busy, Orderly(w, busy)
    PROVE  Orderly(v, busy)
<1> SUFFICES ASSUME NEW n \in FedByTasks, NEW k \in 1 .. Occurrences(Line(v), n), v.input[n][k].final
             PROVE  LET m == v.input[n][k]
                    IN  /\ m.task \in Tasks \ busy
                        /\ \A y \in QueuedAtOnce : \A i \in 1 .. Len(v.input[y]) :
                             Streams(v.input[y][i], m.task) => Before(Line(v), n, k, y, i)
    BY DEF Orderly
<1> DEFINE m == v.input[n][k]
           a == w.roster.queue
           b == w.later.queue
<1>1. /\ Sound(v) /\ n \in Nodes
      /\ a \in Seq(Entries) /\ b \in Seq(Entries)
    BY SoundTypes DEF Feeds, FedByTasks
<1>2. PICK c \in Seq(Entries) : v.roster.queue = a \o c /\ \A y \in FedByTasks : Occurrences(c, y) = 0
    BY DEF Feeds, Extends
<1>3. PICK e \in Seq(Entries) : /\ v.later.queue = b \o e
                                /\ \A y \in FedByTasks \cup QueuedAtOnce : Occurrences(e, y) = 0
    BY DEF Feeds, Extends
<1>4. Line(w) = a \o b /\ Line(v) = (a \o c) \o (b \o e)
    BY <1>2, <1>3 DEF Line
<1>5. Occurrences(Line(v), n) = Occurrences(Line(w), n)
  <2>1. Occurrences(a \o c, n) = Occurrences(a, n) + Occurrences(c, n)
      BY <1>1, <1>2, OccurrencesConcat
  <2>2. Occurrences(b \o e, n) = Occurrences(b, n) + Occurrences(e, n)
      BY <1>1, <1>3, OccurrencesConcat
  <2>3. /\ Occurrences(Line(w), n) = Occurrences(a, n) + Occurrences(b, n)
        /\ Occurrences(Line(v), n) = Occurrences(v.roster.queue, n) + Occurrences(v.later.queue, n)
        /\ Occurrences(a, n) \in Nat /\ Occurrences(b, n) \in Nat
      BY <1>1, LineFacts
  <2>4. Occurrences(c, n) = 0 /\ Occurrences(e, n) = 0
      BY <1>2, <1>3
  <2> HIDE DEF a, b
  <2> QED  BY <1>2, <1>3, <2>1, <2>2, <2>3, <2>4
<1>6. k \in 1 .. Occurrences(Line(w), n) /\ k \in Nat /\ k <= Len(w.input[n]) /\ k <= Len(v.input[n])
  <2>1. Occurrences(Line(w), n) \in Nat /\ Occurrences(Line(w), n) <= Len(w.input[n])
      BY <1>1, LineFacts
  <2>2. Len(w.input[n]) \in Nat /\ Len(v.input[n]) \in Nat /\ Len(w.input[n]) <= Len(v.input[n])
      BY <1>1, SoundTypes DEF Feeds
  <2> QED  BY <1>5, <2>1, <2>2
<1>7. m = w.input[n][k]
  <2>1. k \in 1 .. Len(v.input[n])
      BY <1>1, <1>6, SoundTypes
  <2> QED  BY <1>1, <1>6, <2>1 DEF Feeds
<1> HIDE DEF m, a, b
<1>8. /\ m.task \in Tasks \ busy
      /\ \A y \in QueuedAtOnce : \A i \in 1 .. Len(w.input[y]) :
           Streams(w.input[y][i], m.task) => Before(Line(w), n, k, y, i)
    BY <1>6, <1>7 DEF Orderly, m
<1>9. ASSUME NEW y \in QueuedAtOnce, NEW i \in 1 .. Len(v.input[y]), Streams(v.input[y][i], m.task)
      PROVE  Before(Line(v), n, k, y, i)
  <2>1. y \in Nodes
      BY DEF QueuedAtOnce
  <2>2. i \in Nat /\ Len(w.input[y]) \in Nat
      BY <1>1, <2>1, SoundTypes
  <2>3. i \in 1 .. Len(w.input[y]) /\ v.input[y][i] = w.input[y][i]
    <3>1. CASE i <= Len(w.input[y])
        BY <2>1, <2>2, <3>1 DEF Feeds
    <3>2. CASE ~(i <= Len(w.input[y]))
      <4>1. Given(v.input[y][i], y, t, x)
          BY <2>1, <3>2 DEF Feeds
      <4>2. v.input[y][i].task = m.task /\ m.task # None /\ m.task # t
          BY <1>8, <1>9, GraphFacts DEF Streams
      <4> QED  BY <4>1, <4>2 DEF Given
    <3> QED  BY <3>1, <3>2
  <2>4. Before(a \o b, n, k, y, i)
      BY <1>4, <1>8, <1>9, <2>3
  <2>5. Before((a \o c) \o (b \o e), n, k, y, i)
    <3>1. Occurrences(c, n) = 0 /\ Occurrences(e, n) = 0
        BY <1>2, <1>3
    <3> QED  BY <1>1, <1>2, <1>3, <1>6, <2>2, <2>4, <3>1, BeforeInserted DEF a, b
  <2> QED  BY <1>4, <2>5
<1> QED  BY <1>8, <1>9 DEF m

First(y) == IF y = Head(roster.queue) THEN 1 ELSE 0

\* What has been taken from the head of the queue and of its storage was the
\* first of each, so the rest moves up together.
LEMMA OrderlyRest ==
    ASSUME Sound(World), roster.queue # <<>>, NEW w, Sound(w),
           w.roster.queue = Tail(roster.queue), w.later.queue = later.queue,
           \A y \in Nodes : Len(input[y]) = Len(w.input[y]) + First(y),
           \A y \in Nodes, i \in Nat :
               i \in 1 .. Len(w.input[y]) => w.input[y][i] = input[y][i + First(y)],
           NEW busy, Orderly(World, busy)
    PROVE  Orderly(w, busy)
<1> SUFFICES ASSUME NEW n \in FedByTasks, NEW k \in 1 .. Occurrences(Line(w), n), w.input[n][k].final
             PROVE  LET m == w.input[n][k]
                    IN  /\ m.task \in Tasks \ busy
                        /\ \A y \in QueuedAtOnce : \A i \in 1 .. Len(w.input[y]) :
                             Streams(w.input[y][i], m.task) => Before(Line(w), n, k, y, i)
    BY DEF Orderly
<1> DEFINE m == w.input[n][k]
           a == roster.queue
           b == later.queue
<1>1. /\ n \in Nodes /\ a \in Seq(Entries) /\ b \in Seq(Entries) /\ a # <<>>
      /\ World.input = input /\ World.roster = roster /\ World.later = later
  <2>1. World.input = input /\ World.roster = roster /\ World.later = later
      BY DEF World
  <2> QED  BY <2>1, SoundTypes DEF FedByTasks
<1>2. Line(World) = a \o b /\ Line(w) = Tail(a) \o b
    BY <1>1 DEF Line
<1>3. \A y : First(y) \in Nat
    BY DEF First
<1>4. Occurrences(Line(World), n) = Occurrences(Line(w), n) + First(n)
  <2>1. Occurrences(a, n) = Occurrences(Tail(a), n) + First(n) /\ Occurrences(Tail(a), n) \in Nat
      BY <1>1, OccurrencesTail DEF First
  <2>2. /\ Occurrences(Line(World), n) = Occurrences(a, n) + Occurrences(b, n)
        /\ Occurrences(Line(w), n) = Occurrences(Tail(a), n) + Occurrences(b, n)
        /\ Occurrences(b, n) \in Nat
      BY <1>1, LineFacts
  <2> HIDE DEF a, b
  <2> QED  BY <1>3, <2>1, <2>2
<1>5. /\ k \in Nat /\ k + First(n) \in 1 .. Occurrences(Line(World), n)
      /\ k \in 1 .. Len(w.input[n])
  <2>1. Occurrences(Line(w), n) \in Nat /\ Occurrences(Line(w), n) <= Len(w.input[n])
      BY <1>1, LineFacts
  <2>2. Len(w.input[n]) \in Nat
      BY <1>1, SoundTypes
  <2> QED  BY <1>3, <1>4, <2>1, <2>2
<1>6. m = input[n][k + First(n)]
    BY <1>1, <1>5
<1> HIDE DEF m, a, b
<1>7. /\ m.task \in Tasks \ busy
      /\ \A y \in QueuedAtOnce : \A i \in 1 .. Len(input[y]) :
           Streams(input[y][i], m.task) => Before(Line(World), n, k + First(n), y, i)
  <2>1. m.final
      BY DEF m
  <2> QED  BY <1>1, <1>5, <1>6, <2>1 DEF Orderly
<1>8. ASSUME NEW y \in QueuedAtOnce, NEW i \in 1 .. Len(w.input[y]), Streams(w.input[y][i], m.task)
      PROVE  Before(Line(w), n, k, y, i)
  <2>1. y \in Nodes
      BY DEF QueuedAtOnce
  <2>2. i \in Nat /\ Len(w.input[y]) \in Nat /\ i + First(y) \in 1 .. Len(input[y])
    <3>1. Len(w.input[y]) \in Nat /\ Len(input[y]) = Len(w.input[y]) + First(y)
        BY <2>1, SoundTypes
    <3> QED  BY <1>3, <3>1
  <2>3. w.input[y][i] = input[y][i + First(y)]
      BY <2>1, <2>2
  <2>4. Before(a \o b, n, k + First(n), y, i + First(y))
      BY <1>2, <1>7, <1>8, <2>2, <2>3
  <2>5. Before(a \o b, n, k + (IF n = Head(a) THEN 1 ELSE 0), y, i + (IF y = Head(a) THEN 1 ELSE 0))
      BY <2>4 DEF First, a
  <2>6. Before(Tail(a) \o b, n, k, y, i)
      BY <1>1, <1>5, <2>2, <2>5, BeforeTail
  <2> QED  BY <1>2, <2>6
<1> QED  BY <1>7, <1>8 DEF m

LEMMA TakenFacts ==
    ASSUME graph \in Graphs, Sound(World), NEW n \in Nodes, IsNext(n)
    PROVE  /\ Sound(Taken(n))
           /\ Taken(n).roster.queue = Tail(roster.queue) /\ Taken(n).later = later
           /\ Taken(n).roster.deferred = roster.deferred
           /\ \A y \in Nodes : /\ Len(input[y]) = Len(Taken(n).input[y]) + First(y)
                               /\ Len(Taken(n).input[y]) \in Nat
           /\ \A y \in Nodes, i \in Nat :
                i \in 1 .. Len(Taken(n).input[y]) => Taken(n).input[y][i] = input[y][i + First(y)]
<1> DEFINE w == Taken(n)
<1>1. /\ Sound(w) /\ input[n] # <<>> /\ input[n] \in Seq(Messages) /\ w.later = later
      /\ \A y \in Nodes \ {n} : w.input[y] = input[y]
    BY TakenIsSound
<1>2. World \in Worlds /\ World.input = input /\ World.roster = roster /\ World.later = later
    BY DEF Sound, World
<1>3. Head(roster.queue) = n
    BY DEF IsNext
<1>4. w = [World EXCEPT !.input = [input EXCEPT ![n] = Tail(@)],
                        !.roster = [roster EXCEPT !.queue = Tail(@)]]
    BY <1>2 DEF Taken
<1>5. w.roster.queue = Tail(roster.queue) /\ w.roster.deferred = roster.deferred
  <2> HIDE DEF w
  <2>1. w.roster = [roster EXCEPT !.queue = Tail(@)]
      BY <1>2, <1>4 DEF Worlds
  <2> QED  BY <1>2, <2>1 DEF Worlds, Rosters
<1>6. w.input[n] = Tail(input[n])
  <2> HIDE DEF w
  <2>1. w.input = [input EXCEPT ![n] = Tail(@)]
      BY <1>2, <1>4 DEF Worlds
  <2> QED  BY <1>2, <2>1 DEF Worlds
<1> HIDE DEF w
<1>7. /\ Len(input[n]) \in Nat /\ Len(Tail(input[n])) = Len(input[n]) - 1 /\ Len(input[n]) # 0
      /\ \A i \in 1 .. Len(Tail(input[n])) : Tail(input[n])[i] = input[n][i + 1]
    BY <1>1, HeadTailProperties, LenProperties, EmptySeq
<1>8. ASSUME NEW y \in Nodes
      PROVE  /\ Len(input[y]) = Len(w.input[y]) + First(y) /\ Len(w.input[y]) \in Nat
             /\ \A i \in 1 .. Len(w.input[y]) : w.input[y][i] = input[y][i + First(y)]
  <2>1. Len(w.input[y]) \in Nat
      BY <1>1, SoundTypes
  <2>2. CASE y = n
    <3>1. First(y) = 1
        BY <1>3, <2>2 DEF First
    <3> DEFINE r == Tail(input[n])
    <3>2. w.input[y] = r /\ input[y] = input[n]
        BY <1>6, <2>2
    <3>3. Len(r) = Len(input[n]) - 1 /\ \A i \in 1 .. Len(r) : r[i] = input[n][i + 1]
        BY <1>7
    <3> HIDE DEF r
    <3>4. Len(input[y]) = Len(w.input[y]) + First(y)
        BY <1>7, <3>1, <3>2, <3>3
    <3> QED  BY <2>1, <3>1, <3>2, <3>3, <3>4
  <2>3. CASE y # n
    <3>1. First(y) = 0 /\ w.input[y] = input[y]
        BY <1>1, <1>3, <2>3 DEF First
    <3>2. \A i \in 1 .. Len(w.input[y]) : i + 0 = i
        BY <2>1
    <3> QED  BY <2>1, <3>1, <3>2
  <2> QED  BY <2>2, <2>3
<1> QED  BY <1>1, <1>5, <1>8 DEF w

LEMMA OrderlyTaken ==
    ASSUME graph \in Graphs, Sound(World), NEW n \in Nodes, IsNext(n), NEW busy, Orderly(World, busy)
    PROVE  Orderly(Taken(n), busy)
<1>1. roster.queue # <<>>
    BY DEF IsNext
<1> QED  BY <1>1, TakenFacts, OrderlyRest

LEMMA OrderlyPolled ==
    ASSUME graph \in Graphs, Sound(World), NEW t \in Tasks, IsNext(t),
           NEW w, w = [World EXCEPT !.roster.queue = Tail(@)], NEW busy, Orderly(World, busy)
    PROVE  /\ Orderly(w, busy) /\ Sound(w) /\ w.input = input /\ w.later = later
           /\ w.roster.deferred = roster.deferred
<1>1. /\ Sound(w) /\ w.input = input /\ w.later = later
      /\ w.roster.queue = Tail(roster.queue) /\ w.roster.deferred = roster.deferred
    BY PolledIsSound
<1>2. roster.queue # <<>> /\ Head(roster.queue) = t
    BY DEF IsNext
<1>3. \A y \in Nodes : First(y) = 0
    BY <1>2, GraphFacts DEF First
<1>4. \A y \in Nodes : Len(w.input[y]) \in Nat
    BY <1>1, SoundTypes
<1>5. \A y \in Nodes : Len(input[y]) = Len(w.input[y]) + First(y)
    BY <1>1, <1>3, <1>4
<1>6. \A y \in Nodes, i \in Nat : i \in 1 .. Len(w.input[y]) => w.input[y][i] = input[y][i + First(y)]
    BY <1>1, <1>3
<1> QED  BY <1>1, <1>2, <1>5, <1>6, OrderlyRest

LEMMA OrderlyAwoken ==
    ASSUME Sound(World), roster.awake # <<>>,
           NEW w, w = [World EXCEPT !.roster.awake = Tail(@)], NEW busy, Orderly(World, busy)
    PROVE  /\ Orderly(w, busy) /\ Sound(w) /\ w.input = input /\ w.later = later
           /\ w.roster.deferred = roster.deferred
<1>1. /\ Sound(w) /\ w.input = input /\ w.later = later
      /\ w.roster.queue = roster.queue /\ w.roster.deferred = roster.deferred
    BY AwokenIsSound
<1>2. World.input = input /\ World.roster = roster /\ World.later = later
    BY DEF World
<1>3. Line(w) = Line(World) /\ w.input = World.input
    BY <1>1, <1>2 DEF Line
<1>4. Orderly(w, busy)
    BY <1>3 DEF Orderly
<1> QED  BY <1>1, <1>4

\* The output of a task waits in the storage of its target, in no line yet.
LEMMA DeferFacts ==
    ASSUME graph \in Graphs, NEW w, Sound(w), NEW targets \in Seq(Nodes), NEW m \in Messages
    PROVE  LET v == Defer(w, targets, m)
           IN  /\ Sound(v) /\ v.later = w.later /\ v.roster.queue = w.roster.queue
               /\ v.roster.deferred = w.roster.deferred \o Only(targets, Nodes \ Has("sink"))
               /\ \A n \in Nodes :
                    /\ Len(w.input[n]) <= Len(v.input[n])
                    /\ \A i \in 1 .. Len(v.input[n]) :
                         IF i <= Len(w.input[n]) THEN v.input[n][i] = w.input[n][i]
                         ELSE v.input[n][i] = m /\ Contains(targets, n)
<1> DEFINE v == Defer(w, targets, m)
           u == [w EXCEPT !.roster.queue = <<>>]
           to == Only(targets, Nodes \ Has("sink"))
           g == Give(u, targets, m)
<1>1. Sound(v)
    BY DeferGrows DEF Grows
<1>2. /\ u \in Worlds /\ u.input = w.input /\ to \in Seq(Nodes)
      /\ v.input = g.input /\ v.later = w.later /\ v.roster.queue = w.roster.queue
      /\ v.roster.deferred = w.roster.deferred \o to
      /\ \A n \in Nodes : Len(v.input[n]) = Len(w.input[n]) + Occurrences(to, n)
  <2>1. u \in Worlds /\ u.input = w.input /\ to \in Seq(Nodes)
      BY DeferStep
  <2>2. v.later = w.later
      BY DeferStep
  <2>5. v.input = g.input
    <3>1. v = [g EXCEPT !.roster.queue = w.roster.queue, !.roster.deferred = @ \o g.roster.queue]
        BY DEF Defer
    <3>2. g \in Worlds
        BY <2>1, GiveStep
    <3> HIDE DEF g, v
    <3> QED  BY <3>1, <3>2 DEF Worlds
  <2>3. v.roster.queue = w.roster.queue /\ v.roster.deferred = w.roster.deferred \o to
      BY DeferStep
  <2>4. \A n \in Nodes : Len(v.input[n]) = Len(w.input[n]) + Occurrences(to, n)
      BY DeferStep
  <2> HIDE DEF u, to, v, g
  <2> QED  BY <2>1, <2>2, <2>3, <2>4, <2>5
<1> HIDE DEF u, v
<1>3. \A n \in Nodes, i \in Nat :
           i \in 1 .. Len(g.input[n]) =>
               /\ i <= Len(u.input[n]) => g.input[n][i] = u.input[n][i]
               /\ ~(i <= Len(u.input[n])) => g.input[n][i] = m
    BY <1>2, GiveInput
<1>4. \A n : Occurrences(to, n) # 0 => Contains(targets, n)
    BY OnlyOccurs
<1> HIDE DEF g, to
<1>5. ASSUME NEW n \in Nodes
      PROVE  /\ Len(w.input[n]) <= Len(v.input[n])
             /\ \A i \in 1 .. Len(v.input[n]) :
                  IF i <= Len(w.input[n]) THEN v.input[n][i] = w.input[n][i]
                  ELSE v.input[n][i] = m /\ Contains(targets, n)
  <2>1. Len(w.input[n]) \in Nat /\ Len(v.input[n]) \in Nat /\ Occurrences(to, n) \in Nat
      BY <1>1, <1>2, SoundTypes, OccurrencesType
  <2>2. Len(v.input[n]) = Len(w.input[n]) + Occurrences(to, n)
      BY <1>2
  <2>3. ASSUME NEW i \in 1 .. Len(v.input[n])
        PROVE  IF i <= Len(w.input[n]) THEN v.input[n][i] = w.input[n][i]
               ELSE v.input[n][i] = m /\ Contains(targets, n)
    <3>1. i \in Nat /\ i \in 1 .. Len(g.input[n])
        BY <1>2, <2>1
    <3>2. /\ i <= Len(w.input[n]) => v.input[n][i] = w.input[n][i]
          /\ ~(i <= Len(w.input[n])) => v.input[n][i] = m
        BY <1>2, <1>3, <3>1
    <3>3. ~(i <= Len(w.input[n])) => Occurrences(to, n) # 0
        BY <2>1, <2>2
    <3> QED  BY <1>4, <3>2, <3>3
  <2> QED  BY <2>1, <2>2, <2>3
<1> QED  BY <1>1, <1>2, <1>5 DEF to, v

LEMMA OrderlyDeferred ==
    ASSUME graph \in Graphs, NEW w, Sound(w), NEW targets \in Seq(Nodes), NEW m \in Messages, m.final,
           NEW busy, Orderly(w, busy)
    PROVE  Orderly(Defer(w, targets, m), busy)
<1> DEFINE v == Defer(w, targets, m)
<1>1. Sound(v) /\ Line(v) = Line(w)
    BY DeferFacts DEF Line
<1>2. \A n \in Nodes :
        /\ Len(w.input[n]) <= Len(v.input[n])
        /\ \A i \in 1 .. Len(v.input[n]) :
             IF i <= Len(w.input[n]) THEN v.input[n][i] = w.input[n][i]
             ELSE v.input[n][i] = m /\ Contains(targets, n)
    BY DeferFacts
<1> HIDE DEF v
<1> SUFFICES ASSUME NEW n \in FedByTasks, NEW k \in 1 .. Occurrences(Line(w), n), v.input[n][k].final
             PROVE  LET p == v.input[n][k]
                    IN  /\ p.task \in Tasks \ busy
                        /\ \A y \in QueuedAtOnce : \A i \in 1 .. Len(v.input[y]) :
                             Streams(v.input[y][i], p.task) => Before(Line(w), n, k, y, i)
    BY <1>1 DEF Orderly, v
<1>3. n \in Nodes /\ k \in 1 .. Len(v.input[n]) /\ k <= Len(w.input[n])
  <2>1. n \in Nodes
      BY DEF FedByTasks
  <2>2. Occurrences(Line(w), n) \in Nat /\ Occurrences(Line(w), n) <= Len(w.input[n])
      BY <2>1, LineFacts
  <2>3. Len(w.input[n]) \in Nat /\ Len(v.input[n]) \in Nat /\ Len(w.input[n]) <= Len(v.input[n])
      BY <1>1, <1>2, <2>1, SoundTypes
  <2> QED  BY <2>1, <2>2, <2>3
<1>4. v.input[n][k] = w.input[n][k]
    BY <1>2, <1>3
<1> DEFINE p == w.input[n][k]
<1>5. /\ p.task \in Tasks \ busy
      /\ \A y \in QueuedAtOnce : \A i \in 1 .. Len(w.input[y]) :
           Streams(w.input[y][i], p.task) => Before(Line(w), n, k, y, i)
    BY <1>4 DEF Orderly
<1>6. ASSUME NEW y \in QueuedAtOnce, NEW i \in 1 .. Len(v.input[y]), Streams(v.input[y][i], p.task)
      PROVE  Before(Line(w), n, k, y, i)
  <2>1. y \in Nodes
      BY DEF QueuedAtOnce
  <2>2. Len(w.input[y]) \in Nat /\ Len(v.input[y]) \in Nat
      BY <1>1, <2>1, SoundTypes
  <2>3. i <= Len(w.input[y])
      BY <1>2, <1>6, <2>1 DEF Streams
  <2>4. v.input[y][i] = w.input[y][i] /\ i \in 1 .. Len(w.input[y])
      BY <1>2, <2>1, <2>2, <2>3
  <2> QED  BY <1>5, <1>6, <2>4
<1> QED  BY <1>4, <1>5, <1>6

Held(w, n) == {w.input[n][i] : i \in 1 .. Len(w.input[n])}

\* Where something that t streamed is under way to, or waits
Sites(t) ==
    {x \in Nodes : \/ \E j \in Streaming(t) : channel[j].at = x
                   \/ \E m \in Held(World, x) : Streams(m, t)}

Traced ==
    /\ \A n \in Nodes : \A m \in Held(World, n) :
         m.final => m.task \in Tasks /\ tasks[m.task] = None /\ Sites(m.task) \subseteq StreamedFirst(n)
    /\ \A t \in Tasks : Sites(t) \cap FedByTasks = {}
    /\ \A t \in Tasks : tasks[t] # None => \A x \in Sites(t) : Contains(Stream(tasks[t].node), x)

Staged ==
    /\ stage # "full"
    /\ later.deferred = <<>>
    /\ roster.deferred # <<>> => stage \in {"queue", "awake", "channel"}
    /\ stage \in {"check", "dispose"} => later.queue = <<>>
    /\ stage \notin {"idle", "first"} =>
         \A n \in FedByTasks \cup QueuedAtOnce : Occurrences(later.queue, n) = 0
    /\ \A n \in QueuedAtOnce : Occurrences(roster.deferred, n) = 0

\* While the loop is bounded by nothing but its own limit
LastInv == graph.items = None => Staged /\ Traced /\ Orderly(World, Underway)

LEMMA SameGraph ==
    ASSUME UNCHANGED graph
    PROVE  /\ Nodes' = Nodes /\ FedByTasks' = FedByTasks /\ QueuedAtOnce' = QueuedAtOnce
           /\ \A n \in Nodes : StreamedFirst(n)' = StreamedFirst(n)
BY DEF Nodes, FedByTasks, QueuedAtOnce, StreamedFirst, Stream, Out, Op

LEMMA Became ==
    ASSUME NEW v, Sound(v), Become(v)
    PROVE  World' = v /\ input' = v.input /\ roster' = v.roster /\ later' = v.later
BY SoundTypes DEF World, Become

LEMMA OrderlyBecomes ==
    ASSUME UNCHANGED graph, NEW v, World' = v, NEW busy, Orderly(v, busy), Underway' \subseteq busy
    PROVE  Orderly(World, Underway)'
BY SameGraph DEF Orderly, Line

\* The items of a task only move from the channel to its targets, and what it sends
\* is for them; its output is given when it has ended.
LEMMA TracedKept ==
    ASSUME OtherTypes, UNCHANGED graph, Traced,
           \A t \in Tasks : \A x \in Sites(t)' :
               x \in Sites(t) \/ (tasks[t] # None /\ Contains(Stream(tasks[t].node), x)),
           \A n \in Nodes : \A m \in Held(World, n)' :
               m.final => \/ m \in Held(World, n)
                          \/ /\ m.task \in Tasks /\ tasks[m.task] # None /\ tasks'[m.task] = None
                             /\ Contains(Out(tasks[m.task].node), n),
           \A t \in Tasks :
               \/ tasks'[t] = None
               \/ tasks[t] # None /\ tasks'[t].node = tasks[t].node
               \/ /\ tasks[t] = None /\ Sites(t) = {}
                  /\ \A n \in Nodes : \A m \in Held(World, n) : m.task # t
    PROVE  Traced'
<1>1. /\ Nodes' = Nodes /\ FedByTasks' = FedByTasks
      /\ \A n \in Nodes : StreamedFirst(n)' = StreamedFirst(n)
    BY SameGraph
<1>2. ASSUME NEW n \in Nodes, NEW m \in Held(World, n)', m.final
      PROVE  m.task \in Tasks /\ tasks'[m.task] = None /\ Sites(m.task)' \subseteq StreamedFirst(n)
  <2>1. CASE m \in Held(World, n)
    <3>1. m.task \in Tasks /\ tasks[m.task] = None /\ Sites(m.task) \subseteq StreamedFirst(n)
        BY <1>2, <2>1 DEF Traced
    <3>2. tasks'[m.task] = None
        BY <2>1, <3>1
    <3> QED  BY <3>1, <3>2
  <2>2. CASE /\ m.task \in Tasks /\ tasks[m.task] # None /\ tasks'[m.task] = None
             /\ Contains(Out(tasks[m.task].node), n)
    <3>1. tasks[m.task].node \in Nodes
        BY <2>2, TaskFacts
    <3>2. \A x \in Sites(m.task)' : x \in Nodes /\ Contains(Stream(tasks[m.task].node), x)
        BY <1>1, <2>2 DEF Traced, Sites
    <3> QED  BY <2>2, <3>1, <3>2 DEF StreamedFirst
  <2> QED  BY <1>2, <2>1, <2>2
<1>3. ASSUME NEW t \in Tasks, NEW x \in Sites(t)' PROVE x \notin FedByTasks
  <2>1. CASE x \in Sites(t)
      BY <2>1 DEF Traced
  <2>2. CASE tasks[t] # None /\ Contains(Stream(tasks[t].node), x)
    <3>1. tasks[t].node \in Nodes /\ graph \in Graphs
        BY <2>2, TaskFacts DEF OtherTypes
    <3>2. Stream(tasks[t].node) \in Seq(Nodes \ FedByTasks)
        BY <3>1, TargetTypes
    <3>3. DOMAIN Stream(tasks[t].node) = 1 .. Len(Stream(tasks[t].node))
        BY <3>2, LenProperties
    <3> QED  BY <2>2, <3>2, <3>3, LenProperties DEF Contains
  <2> QED  BY <1>3, <2>1, <2>2
<1>4. ASSUME NEW t \in Tasks, tasks'[t] # None, NEW x \in Sites(t)'
      PROVE  Contains(Stream(tasks[t].node)', x)
  <2>2. CASE tasks[t] # None /\ tasks'[t].node = tasks[t].node
    <3>1. Contains(Stream(tasks[t].node), x)
        BY <1>4, <2>2 DEF Traced
    <3> QED  BY <2>2, <3>1 DEF Stream
  <2>3. CASE tasks[t] = None /\ Sites(t) = {}
      BY <1>4, <2>3
  <2> QED  BY <1>4, <2>2, <2>3
<1> QED  BY <1>1, <1>2, <1>3, <1>4 DEF Traced

LEMMA FedHeld ==
    ASSUME NEW w, Sound(w), NEW v, NEW t, NEW x, Feeds(w, v, t, x), NEW n \in Nodes, NEW m \in Held(v, n)
    PROVE  m \in Held(w, n) \/ Given(m, n, t, x)
<1>1. PICK i \in 1 .. Len(v.input[n]) : m = v.input[n][i]
    BY DEF Held
<1>2. Len(w.input[n]) \in Nat /\ Len(v.input[n]) \in Nat
    BY SoundTypes DEF Feeds
<1>3. IF i <= Len(w.input[n]) THEN v.input[n][i] = w.input[n][i] ELSE Given(v.input[n][i], n, t, x)
    BY DEF Feeds
<1>4. i <= Len(w.input[n]) => i \in 1 .. Len(w.input[n])
    BY <1>2
<1> QED  BY <1>1, <1>3, <1>4 DEF Held

\* Every item that is left was in the channel before.
Fewer == \A j \in DOMAIN channel' : \E i \in DOMAIN channel : channel'[j] = channel[i]

LEMMA FewerUnderway ==
    ASSUME Fewer
    PROVE  Underway' \subseteq Underway
BY DEF Fewer, Underway, Streaming

\* A step that feeds from what w has left of the world.
LEMMA FedTraced ==
    ASSUME graph \in Graphs, UNCHANGED graph, NEW w, Sound(w),
           \A n \in Nodes : Held(w, n) \subseteq Held(World, n),
           NEW v, NEW t, NEW x, Feeds(w, v, t, x), World' = v, Fewer, t = None \/ x \in Sites(t)
    PROVE  /\ \A s \in Tasks : Sites(s)' \subseteq Sites(s)
           /\ \A n \in Nodes : \A m \in Held(World, n)' : m.final => m \in Held(World, n)
<1>1. Nodes' = Nodes /\ \A n \in Nodes : Held(World, n)' = Held(v, n)
    BY SameGraph DEF Held
<1>2. ASSUME NEW s \in Tasks, NEW y \in Sites(s)' PROVE y \in Sites(s)
  <2>1. y \in Nodes
      BY <1>1 DEF Sites
  <2>2. CASE \E j \in Streaming(s)' : channel'[j].at = y
      BY <2>1, <2>2 DEF Fewer, Streaming, Sites
  <2>3. CASE \E m \in Held(v, y) : Streams(m, s)
    <3>1. PICK m \in Held(v, y) : Streams(m, s)
        BY <2>3
    <3>2. m \in Held(w, y) \/ Given(m, y, t, x)
        BY <2>1, FedHeld
    <3>3. s # None
        BY GraphFacts
    <3> QED  BY <2>1, <3>1, <3>2, <3>3 DEF Given, Streams, Sites
  <2>4. (\E j \in Streaming(s)' : channel'[j].at = y) \/ (\E m \in Held(World, y)' : Streams(m, s))
      BY DEF Sites
  <2> QED  BY <1>1, <2>1, <2>2, <2>3, <2>4
<1>3. ASSUME NEW n \in Nodes, NEW m \in Held(World, n)', m.final PROVE m \in Held(World, n)
  <2>1. m \in Held(w, n) \/ Given(m, n, t, x)
      BY <1>1, FedHeld
  <2> QED  BY <1>3, <2>1 DEF Given
<1> QED  BY <1>2, <1>3

LEMMA FedStaged ==
    ASSUME graph \in Graphs, UNCHANGED graph, Staged, NEW w, Sound(w), w.later = later,
           w.roster.deferred = roster.deferred,
           NEW v, NEW t, NEW x, Feeds(w, v, t, x), World' = v,
           stage' = stage \/ (stage = "queue" /\ stage' = "awake"),
           stage = "dispose" => v.later = w.later, stage # "check"
    PROVE  Staged'
<1>1. roster' = v.roster /\ later' = v.later /\ FedByTasks' = FedByTasks /\ QueuedAtOnce' = QueuedAtOnce
    BY SameGraph DEF World
<1>2. /\ v.roster.deferred = roster.deferred /\ v.later.deferred = <<>>
      /\ \A n \in FedByTasks \cup QueuedAtOnce :
           Occurrences(v.later.queue, n) = Occurrences(later.queue, n)
  <2>1. v.roster.deferred = roster.deferred /\ v.later.deferred = <<>>
      BY DEF Feeds, Staged
  <2>2. PICK more \in Seq(Entries) :
            /\ v.later.queue = later.queue \o more
            /\ \A n \in FedByTasks \cup QueuedAtOnce : Occurrences(more, n) = 0
      BY DEF Feeds, Extends
  <2>3. later.queue \in Seq(Entries)
      BY SoundTypes
  <2>4. \A n : Occurrences(later.queue \o more, n) = Occurrences(later.queue, n) + Occurrences(more, n)
      BY <2>3, OccurrencesConcat
  <2>5. \A n : Occurrences(later.queue, n) \in Nat
      BY <2>3, OccurrencesType
  <2> QED  BY <2>1, <2>2, <2>4, <2>5
<1>3. stage' \in {"check", "dispose"} => later'.queue = <<>>
    BY <1>1 DEF Staged
<1> QED  BY <1>1, <1>2, <1>3 DEF Staged

Lasts == Staged /\ Traced /\ Orderly(World, Underway)

\* The tasks that run go on with what they are, and one that starts has nothing
\* that is under way.
SameTasks ==
    \A t \in Tasks :
        \/ tasks'[t] = None
        \/ tasks[t] # None /\ tasks'[t].node = tasks[t].node
        \/ /\ tasks[t] = None /\ Sites(t) = {}
           /\ \A n \in Nodes : \A m \in Held(World, n) : m.task # t

LEMMA FedLasts ==
    ASSUME OtherTypes, UNCHANGED graph, Lasts, NEW w, Sound(w), Orderly(w, Underway),
           w.later = later, w.roster.deferred = roster.deferred,
           \A n \in Nodes : Held(w, n) \subseteq Held(World, n),
           NEW v, NEW t, NEW x, Feeds(w, v, t, x), Become(v),
           Fewer, t = None \/ (t \in Underway /\ x \in Sites(t)), SameTasks,
           stage' = stage \/ (stage = "queue" /\ stage' = "awake"),
           stage = "dispose" => v.later = w.later, stage # "check"
    PROVE  Lasts'
<1>1. graph \in Graphs /\ Sound(v) /\ World' = v
    BY Became DEF OtherTypes, Feeds
<1>2. Staged'
    BY <1>1, FedStaged DEF Lasts
<1>3. Traced'
    BY <1>1, FedTraced, TracedKept DEF Lasts, SameTasks
<1>4. Orderly(v, Underway)
    BY <1>1, OrderlyFed
<1>5. Orderly(World, Underway)'
    BY <1>1, <1>4, FewerUnderway, OrderlyBecomes
<1> QED  BY <1>2, <1>3, <1>5 DEF Lasts

LEMMA ServeStarts ==
    ASSUME OtherTypes, Sound(World), NEW n \in Nodes, Serve(n)
    PROVE  SameTasks
<1> DEFINE free == {t \in Tasks : tasks[t] = None /\ ~InFlight(t)}
           t == CHOOSE t \in free : TRUE
<1>1. /\ free # {} /\ \A s \in Tasks \ {t} : tasks'[s] = tasks[s]
    BY DEF Serve, OtherTypes
<1>2. t \in Tasks /\ tasks[t] = None /\ ~InFlight(t)
    BY <1>1
<1> HIDE DEF free, t
<1>3. \A y \in Nodes : \A m \in Held(World, y) : m.task # t
  <2> SUFFICES ASSUME NEW y \in Nodes, NEW m \in Held(World, y), m.task = t PROVE FALSE
      OBVIOUS
  <2>1. PICK i \in 1 .. Len(input[y]) : m = input[y][i]
      BY DEF Held, World
  <2>2. input[y] \in Seq(Messages)
      BY SoundTypes DEF World
  <2>3. i \in DOMAIN input[y]
      BY <2>2, LenProperties
  <2> QED  BY <1>2, <2>1, <2>3 DEF InFlight
<1>4. Sites(t) = {}
    BY <1>2, <1>3 DEF Sites, Streaming, Streams, InFlight
<1> QED  BY <1>1, <1>2, <1>3, <1>4 DEF SameTasks

LEMMA ExecuteLasts ==
    ASSUME IInv, Lasts, NEW n \in Nodes, Execute(n)
    PROVE  Lasts'
<1>1. /\ OtherTypes /\ Sound(World) /\ graph \in Graphs /\ IsNext(n) /\ UNCHANGED graph
      /\ stage = "queue" /\ stage' \in {"queue", "awake"}
    BY ExecuteKeeps DEF IInv, OtherTypes, Execute, Counted
<1>2. PICK v : Become(v) /\ Feeds(Taken(n), v, None, None)
    BY <1>1, ExecuteFeeds
<1>3. /\ Sound(Taken(n)) /\ Taken(n).later = later /\ Taken(n).roster.deferred = roster.deferred
      /\ Orderly(Taken(n), Underway)
    BY <1>1, TakenFacts, OrderlyTaken DEF Lasts
<1>4. \A y \in Nodes : Held(Taken(n), y) \subseteq Held(World, y)
  <2> SUFFICES ASSUME NEW y \in Nodes, NEW i \in 1 .. Len(Taken(n).input[y])
               PROVE  Taken(n).input[y][i] \in Held(World, y)
      BY DEF Held
  <2>1. /\ Len(input[y]) = Len(Taken(n).input[y]) + First(y) /\ Len(Taken(n).input[y]) \in Nat
        /\ i \in Nat => Taken(n).input[y][i] = input[y][i + First(y)]
      BY <1>1, TakenFacts
  <2>2. First(y) \in Nat
      BY DEF First
  <2>3. i \in Nat /\ i >= 1 /\ i <= Len(Taken(n).input[y])
      BY <2>1
  <2>4. i + First(y) \in 1 .. Len(input[y])
      BY <2>1, <2>2, <2>3
  <2> QED  BY <2>1, <2>3, <2>4 DEF Held, World
<1>5. UNCHANGED channel /\ SameTasks
  <2>1. CASE Serve(n)
      BY <1>1, <2>1, ServeStarts DEF Serve
  <2>2. CASE ~Serve(n)
    <3>1. UNCHANGED <<channel, tasks>>
        BY <2>2 DEF Execute, Fork, Access, Listen, Branch, Filter, Store, Join, Gate, Collect,
                    Finish, OnlyMessages, NoTask
    <3> QED  BY <3>1 DEF SameTasks
  <2> QED  BY <2>1, <2>2
<1>6. Fewer
    BY <1>5 DEF Fewer
<1> QED  BY <1>1, <1>2, <1>3, <1>4, <1>5, <1>6, FedLasts

\* What stays in the channel when its head has been received
LEMMA TailFewer ==
    ASSUME NEW S, channel \in Seq(S), channel # <<>>, channel' = Tail(channel)
    PROVE  Fewer /\ Head(channel) = channel[1] /\ 1 \in DOMAIN channel
<1>1. /\ Len(channel) \in Nat /\ Len(channel) # 0 /\ DOMAIN channel = 1 .. Len(channel)
      /\ Tail(channel) \in Seq(S)
      /\ Len(Tail(channel)) = Len(channel) - 1
      /\ \A i \in 1 .. Len(Tail(channel)) : Tail(channel)[i] = channel[i + 1]
      /\ Head(channel) = channel[1]
    BY HeadTailProperties, LenProperties, EmptySeq
<1>2. DOMAIN Tail(channel) = 1 .. Len(Tail(channel))
    BY <1>1, LenProperties
<1>3. ASSUME NEW j \in DOMAIN Tail(channel)
      PROVE  j + 1 \in DOMAIN channel /\ Tail(channel)[j] = channel[j + 1]
    BY <1>1, <1>2
<1> QED  BY <1>1, <1>3 DEF Fewer

LEMMA ReceiveLasts ==
    ASSUME IInv, Lasts, graph.items = None, Receive
    PROVE  Lasts'
<1>1. /\ OtherTypes /\ Sound(World) /\ graph \in Graphs /\ UNCHANGED graph
      /\ channel \in Seq(Items) /\ channel # <<>> /\ channel' = Tail(channel)
      /\ stage \in {"first", "channel"} /\ stage' = stage /\ UNCHANGED tasks
    BY DEF IInv, OtherTypes, Receive, Quiet
<1> DEFINE item == Head(channel)
<1>2. Fewer /\ item = channel[1] /\ 1 \in DOMAIN channel /\ item \in Items
  <2>1. Head(channel) \in Items
      BY <1>1, HeadTailProperties
  <2> QED  BY <1>1, <2>1, TailFewer
<1>3. SameTasks
    BY <1>1 DEF SameTasks
<1>4. World.later = later /\ World.roster = roster /\ Orderly(World, Underway)
    BY DEF World, Lasts
<1>5. ASSUME NEW v, NEW t, NEW x, Become(v), Feeds(World, v, t, x),
             t = None \/ (t \in Underway /\ x \in Sites(t))
      PROVE  Lasts'
  <2>1. \A n \in Nodes : Held(World, n) \subseteq Held(World, n)
      OBVIOUS
  <2> QED  BY <1>1, <1>2, <1>3, <1>4, <1>5, <2>1, FedLasts
<1>6. CASE item.kind = "stream"
  <2>1. item.from \in Tasks /\ item.at \in Nodes
      BY <1>2, <1>6 DEF Items
  <2>2. item.from \in Underway /\ item.at \in Sites(item.from)
      BY <1>2, <1>6, <2>1 DEF Underway, Streaming, Sites
  <2>3. Become(Give(World, <<item.at>>, Message(item.from, FALSE, None)))
      BY <1>6 DEF Receive
  <2>4. item.at \notin FedByTasks
      BY <2>1, <2>2 DEF Lasts, Traced
  <2>5. /\ <<item.at>> \in Seq(Nodes \ FedByTasks)
        /\ Message(item.from, FALSE, None) \in Messages
      BY <2>1, <2>4 DEF Message, Messages
  <2>6. \A n \in Nodes : Contains(<<item.at>>, n) => Given(Message(item.from, FALSE, None), n, item.from, item.at)
      BY DEF Contains, Given, Message
  <2> HIDE DEF item
  <2>7. Feeds(World, Give(World, <<item.at>>, Message(item.from, FALSE, None)), item.from, item.at)
      BY <1>1, <2>5, <2>6, GiveFeeds
  <2> QED  BY <1>5, <2>2, <2>3, <2>7
<1>7. CASE item.kind = "push"
  <2>1. item.at \in Has("buffer") /\ Become(Updated(World, item.at, item.from))
      BY <1>2, <1>7 DEF Receive, Items
  <2>2. Feeds(World, Updated(World, item.at, item.from), None, None)
      BY <1>1, <2>1, UpdatedFeeds
  <2> QED  BY <1>5, <2>1, <2>2
<1>8. CASE item.kind = "drop"
  <2>1. item.from \in Nodes /\ Become(Dispose(World, item.from))
      BY <1>2, <1>8 DEF Receive, Items, Keyers, Has
  <2>2. Feeds(World, Dispose(World, item.from), None, None)
      BY <1>1, <2>1, DisposeFeeds
  <2> QED  BY <1>5, <2>1, <2>2
<1> QED  BY <1>2, <1>6, <1>7, <1>8 DEF Items

LEMMA HearLasts ==
    ASSUME IInv, Lasts, Hear
    PROVE  Lasts'
<1>1. /\ OtherTypes /\ Sound(World) /\ graph \in Graphs
      /\ stage = "dispose" /\ UNCHANGED <<graph, stage, channel, tasks>>
      /\ heard < Len(Collects) /\ heard \in 0 .. Len(Collects)
    BY DEF IInv, OtherTypes, Hear, NoTask, Quiet
<1> DEFINE n == Collects[heard + 1]
<1>2. n \in Has("collect")
  <2>1. Len(Collects) \in Nat /\ \A i \in 1 .. Len(Collects) : Collects[i] \in Has("collect")
      BY <1>1, CollectsFacts
  <2>2. heard + 1 \in 1 .. Len(Collects)
      BY <1>1, <2>1
  <2> QED  BY <2>1, <2>2
<1>3. PICK v : Become(v) /\ Feeds(World, v, None, None) /\ v.later = World.later
  <2>1. CASE Conclude(World, n, pile)
      BY <1>1, <1>2, <2>1, ConcludeFeeds
  <2>2. CASE Become(World)
      BY <1>1, <2>2, FeedsReflexive
  <2> QED  BY <2>1, <2>2 DEF Hear
<1>4. Fewer /\ SameTasks
    BY <1>1 DEF Fewer, SameTasks
<1>5. World.later = later /\ World.roster = roster /\ Orderly(World, Underway)
    BY DEF World, Lasts
<1>6. \A y \in Nodes : Held(World, y) \subseteq Held(World, y)
    OBVIOUS
<1> QED  BY <1>1, <1>3, <1>4, <1>5, <1>6, FedLasts
LEMMA DeferredTo ==
    ASSUME graph \in Graphs, NEW w, Sound(w), NEW targets \in Seq(Nodes), NEW m \in Messages
    PROVE  Defer(w, targets, m).roster.deferred =
               w.roster.deferred \o Only(targets, Nodes \ Has("sink"))
<1> DEFINE v == Defer(w, targets, m)
           to == Only(targets, Nodes \ Has("sink"))
<1>1. v.roster.queue = w.roster.queue /\ v.roster.deferred = w.roster.deferred \o to
    BY DeferStep
<1> QED  BY <1>1

\* The output of a task that has ended is given to its targets, last of all.
LEMMA PollLasts ==
    ASSUME OtherTypes, UNCHANGED graph, Lasts, NEW t \in Tasks, tasks[t] # None,
           NEW w, Sound(w), Orderly(w, Underway), w.input = input, w.later = later,
           w.roster.deferred = roster.deferred, Poll(t, w),
           stage \in {"queue", "awake"}, stage' = stage \/ stage' = "awake"
    PROVE  Lasts'
<1>1. /\ graph \in Graphs /\ UNCHANGED channel /\ Fewer /\ World.input = input
      /\ tasks \in [Tasks -> ActiveTasks \cup {None}]
      /\ tasks[t] \in ActiveTasks /\ tasks[t].node \in Nodes
    BY TaskFacts DEF Poll, OtherTypes, Fewer, World
<1>2. \A n \in Nodes : Held(w, n) = Held(World, n)
    BY <1>1 DEF Held
<1>3. CASE Become(w) /\ tasks' = [tasks EXCEPT ![t].polled = TRUE]
  <2>1. SameTasks
    <3>1. \A s \in Tasks : tasks[s] # None => tasks'[s].node = tasks[s].node
      <4>1. \A s \in Tasks \ {t} : tasks'[s] = tasks[s]
          BY <1>1, <1>3
      <4>2. tasks'[t].node = tasks[t].node
          BY <1>1, <1>3 DEF ActiveTasks, ActiveTask
      <4> QED  BY <4>1, <4>2
    <3>2. \A s \in Tasks : tasks[s] = None => tasks'[s] = None
        BY <1>1, <1>3
    <3> QED  BY <3>1, <3>2 DEF SameTasks
  <2>2. Feeds(w, w, None, None)
      BY FeedsReflexive
  <2>3. stage' = stage \/ (stage = "queue" /\ stage' = "awake")
      OBVIOUS
  <2> QED  BY <1>1, <1>2, <1>3, <2>1, <2>2, <2>3, FedLasts
<1> DEFINE n == tasks[t].node
           m == Message(t, TRUE, None)
           d == Defer(w, Out(n), m)
           v == EndOfStreams(d, n)
           to == Only(Out(n), Nodes \ Has("sink"))
<1>4. CASE Become(v) /\ tasks' = [tasks EXCEPT ![t] = None]
  <2>1. /\ m \in Messages /\ m.final /\ m.task = t
        /\ n \in Nodes /\ n \in Has("task") /\ Out(n) \in Seq(Nodes)
    <3>1. m \in Messages /\ m.final /\ m.task = t
        BY DEF Message, Messages
    <3>2. n \in Nodes /\ n \in Has("task")
        BY <1>1 DEF ActiveTasks, ActiveTask
    <3> HIDE DEF m, n
    <3> QED  BY <1>1, <3>1, <3>2, GraphFacts
  <2> HIDE DEF m, n
  <2>2. /\ Sound(d) /\ d.later = later /\ Orderly(d, Underway)
        /\ d.roster.deferred = roster.deferred \o to
        /\ \A y \in Nodes :
             /\ Len(w.input[y]) <= Len(d.input[y])
             /\ \A i \in 1 .. Len(d.input[y]) :
                  IF i <= Len(w.input[y]) THEN d.input[y][i] = w.input[y][i]
                  ELSE d.input[y][i] = m /\ Contains(Out(n), y)
    <3>1. Sound(d) /\ d.later = later
        BY <1>1, <2>1, DeferFacts
    <3>2. Orderly(d, Underway)
        BY <1>1, <2>1, OrderlyDeferred
    <3>3. d.roster.deferred = w.roster.deferred \o to
        BY <1>1, <2>1, DeferredTo
    <3>4. \A y \in Nodes :
             /\ Len(w.input[y]) <= Len(d.input[y])
             /\ \A i \in 1 .. Len(d.input[y]) :
                  IF i <= Len(w.input[y]) THEN d.input[y][i] = w.input[y][i]
                  ELSE d.input[y][i] = m /\ Contains(Out(n), y)
        BY <1>1, <2>1, DeferFacts
    <3> HIDE DEF d, to
    <3> QED  BY <3>1, <3>2, <3>3, <3>4
  <2> HIDE DEF d, to
  <2>3. Feeds(d, v, None, None) /\ v.later = d.later /\ Sound(v)
    <3>1. Feeds(d, d, None, None)
        BY <2>2, FeedsReflexive
    <3>2. Feeds(d, Dispose(d, n), None, None) /\ Dispose(d, n).later = d.later
      <4>1. Sound(d) /\ n \in Nodes
          BY <2>1, <2>2
      <4>2. Feeds(d, Dispose(d, n), None, None)
          BY <4>1, DisposeFeeds
      <4>3. Dispose(d, n).later = d.later
          BY <4>1, DisposeFeeds
      <4> QED  BY <4>2, <4>3
    <3>3. v = d \/ v = Dispose(d, n)
        BY DEF EndOfStreams
    <3> HIDE DEF v
    <3> QED  BY <2>2, <3>1, <3>2, <3>3 DEF Feeds
  <2> HIDE DEF v
  <2>4. World' = v /\ roster' = v.roster /\ later' = v.later
      BY <1>4, <2>3, Became
  <2>5. Orderly(World, Underway)'
    <3>1. Orderly(v, Underway)
        BY <1>1, <2>2, <2>3, OrderlyFed
    <3> QED  BY <1>1, <2>4, <3>1, FewerUnderway, OrderlyBecomes
  <2>6. ASSUME NEW y \in Nodes, NEW p \in Held(v, y)
        PROVE  \/ p \in Held(World, y)
               \/ p = m /\ Contains(Out(n), y)
               \/ ~p.final /\ p.task = None
    <3>1. p \in Held(d, y) \/ Given(p, y, None, None)
        BY <2>2, <2>3, FedHeld
    <3>2. CASE Given(p, y, None, None)
        BY <3>2 DEF Given
    <3>3. CASE p \in Held(d, y)
      <4>1. PICK i \in 1 .. Len(d.input[y]) : p = d.input[y][i]
          BY <3>3 DEF Held
      <4>2. Len(d.input[y]) \in Nat /\ Len(w.input[y]) \in Nat
          BY <2>2, SoundTypes
      <4>3. i <= Len(w.input[y]) => i \in 1 .. Len(w.input[y]) /\ p = w.input[y][i]
          BY <2>2, <4>1, <4>2
      <4>4. ~(i <= Len(w.input[y])) => p = m /\ Contains(Out(n), y)
          BY <2>2, <4>1
      <4> QED  BY <1>2, <4>3, <4>4 DEF Held
    <3> QED  BY <3>1, <3>2, <3>3
  <2>7. Nodes' = Nodes /\ QueuedAtOnce' = QueuedAtOnce /\ FedByTasks' = FedByTasks
        /\ \A y \in Nodes : Held(World, y)' = Held(v, y)
      BY <2>4, SameGraph DEF Held
  <2>8. Traced'
    <3>1. ASSUME NEW s \in Tasks, NEW x \in Sites(s)' PROVE x \in Sites(s)
      <4>1. x \in Nodes /\ s # None
          BY <1>1, <2>7, GraphFacts DEF Sites
      <4>2. CASE \E j \in Streaming(s)' : channel'[j].at = x
          BY <1>1, <4>1, <4>2 DEF Streaming, Sites
      <4>3. CASE \E p \in Held(World, x)' : Streams(p, s)
        <5>1. PICK p \in Held(v, x) : Streams(p, s)
            BY <2>7, <4>1, <4>3
        <5>2. p \in Held(World, x)
            BY <2>1, <2>6, <4>1, <5>1 DEF Streams
        <5> QED  BY <4>1, <5>1, <5>2 DEF Sites
      <4> QED  BY <4>2, <4>3 DEF Sites
    <3>2. ASSUME NEW y \in Nodes, NEW p \in Held(World, y)', p.final
          PROVE  \/ p \in Held(World, y)
                 \/ /\ p.task \in Tasks /\ tasks[p.task] # None /\ tasks'[p.task] = None
                    /\ Contains(Out(tasks[p.task].node), y)
      <4>1. p \in Held(World, y) \/ (p = m /\ Contains(Out(n), y))
          BY <2>6, <2>7, <3>2
      <4>2. tasks'[t] = None
          BY <1>1, <1>4
      <4> QED  BY <2>1, <4>1, <4>2 DEF n
    <3>3. \A s \in Tasks : tasks'[s] = None \/ (tasks[s] # None /\ tasks'[s].node = tasks[s].node)
        BY <1>1, <1>4
    <3> QED  BY <3>1, <3>2, <3>3, TracedKept DEF Lasts
  <2>9. Staged'
    <3>1. /\ roster'.deferred = roster.deferred \o to /\ later' = later
          /\ roster.deferred \in Seq(Nodes) /\ to \in Seq(Nodes)
      <4>1. roster.deferred \in Seq(Nodes)
          BY SoundTypes
      <4>2. to \in Seq(Nodes)
          BY <2>1, OnlyType DEF to
      <4> QED  BY <2>2, <2>3, <2>4, <4>1, <4>2 DEF Feeds
    <3>2. ASSUME NEW x \in QueuedAtOnce PROVE Occurrences(to, x) = 0
      <4>1. Out(n) \in Seq(Nodes \ QueuedAtOnce)
          BY <1>1, <2>1, TargetTypes
      <4> QED  BY <3>2, <4>1, OnlyOccurs DEF to
    <3>3. \A x \in QueuedAtOnce : Occurrences(roster'.deferred, x) = 0
        BY <3>1, <3>2, OccurrencesConcat DEF Lasts, Staged
    <3> QED  BY <2>7, <3>1, <3>3 DEF Lasts, Staged
  <2> QED  BY <2>5, <2>8, <2>9 DEF Lasts
<1> QED  BY <1>3, <1>4 DEF Poll

LEMMA FirstPollLasts ==
    ASSUME IInv, Lasts, NEW t \in Tasks, FirstPoll(t)
    PROVE  Lasts'
<1>1. /\ OtherTypes /\ Sound(World) /\ TasksCounted /\ graph \in Graphs /\ UNCHANGED graph
      /\ IsNext(t) /\ stage = "queue" /\ stage' \in {"queue", "awake"}
    BY DEF IInv, OtherTypes, FirstPoll, Quiet, Counted
<1> DEFINE w == [World EXCEPT !.roster.queue = Tail(@)]
<1>2. Poll(t, w) /\ w = [World EXCEPT !.roster.queue = Tail(@)]
    BY DEF FirstPoll
<1> HIDE DEF w
<1>3. /\ Orderly(w, Underway) /\ Sound(w) /\ w.input = input /\ w.later = later
      /\ w.roster.deferred = roster.deferred
    BY <1>1, <1>2, OrderlyPolled DEF Lasts
<1>4. Polls(World, t) = Polls(w, t) + 1 /\ Polls(w, t) \in Nat
    BY <1>1, <1>2, PolledIsSound
<1>5. tasks[t] # None
  <2>1. Polls(World, t) = PollsExpected(t)
      BY <1>1 DEF TasksCounted
  <2> QED  BY <1>4, <2>1 DEF PollsExpected
<1> QED  BY <1>1, <1>2, <1>3, <1>5, PollLasts

LEMMA AwakenLasts ==
    ASSUME IInv, Lasts, NEW t \in Tasks, Awaken(t)
    PROVE  Lasts'
<1>1. /\ OtherTypes /\ Sound(World) /\ TasksCounted /\ graph \in Graphs /\ UNCHANGED graph
      /\ roster.awake # <<>> /\ Head(roster.awake) = t /\ stage = "awake" /\ stage' = "awake"
    BY DEF IInv, OtherTypes, Awaken, Quiet
<1> DEFINE w == [World EXCEPT !.roster.awake = Tail(@)]
<1>2. Poll(t, w) /\ w = [World EXCEPT !.roster.awake = Tail(@)]
    BY DEF Awaken
<1> HIDE DEF w
<1>3. /\ Orderly(w, Underway) /\ Sound(w) /\ w.input = input /\ w.later = later
      /\ w.roster.deferred = roster.deferred
    BY <1>1, <1>2, OrderlyAwoken DEF Lasts
<1>4. tasks[t] # None
  <2>1. Wakes(t) = WakesExpected(t)
      BY <1>1 DEF TasksCounted
  <2>2. roster.awake \in Seq(Tasks) /\ later.awake \in Seq(Tasks) /\ wake \in Seq(Tasks)
      BY <1>1 DEF Sound, World, Worlds, Rosters, OtherTypes
  <2>3. /\ Occurrences(roster.awake, t) = Occurrences(Tail(roster.awake), t) + 1
        /\ Tail(roster.awake) \in Seq(Tasks)
      BY <1>1, <2>2, OccurrencesTail, HeadTailProperties, ZenonT(60)
  <2>4. /\ Occurrences(Tail(roster.awake), t) \in Nat /\ Occurrences(later.awake, t) \in Nat
        /\ Occurrences(wake, t) \in Nat
      BY <2>2, <2>3, OccurrencesType
  <2> QED  BY <2>1, <2>3, <2>4 DEF Wakes, WakesExpected
<1> QED  BY <1>1, <1>2, <1>3, <1>4, PollLasts

\* A task that runs streams to its own targets, and its output is still to come.
Sends(item, t) == item.kind = "stream" => item.from = t /\ Contains(Stream(tasks[t].node), item.at)

LEMMA SentLasts ==
    ASSUME OtherTypes, Sound(World), Lasts, UNCHANGED <<graph, input, roster, later, stage>>,
           NEW t \in Tasks, tasks[t] # None, SameTasks,
           \A s \in Tasks : tasks[s] = None => tasks'[s] = None,
           \A j \in DOMAIN channel' :
               (\E i \in DOMAIN channel : channel'[j] = channel[i]) \/ Sends(channel'[j], t)
    PROVE  Lasts'
<1>1. /\ graph \in Graphs /\ World' = World /\ Nodes' = Nodes
      /\ FedByTasks' = FedByTasks /\ QueuedAtOnce' = QueuedAtOnce
      /\ \A n \in Nodes : Held(World, n)' = Held(World, n)
    BY SameGraph DEF OtherTypes, World, Held
<1>2. Staged'
    BY <1>1 DEF Lasts, Staged
<1>3. ASSUME NEW s \in Tasks, NEW x \in Sites(s)'
      PROVE  x \in Sites(s) \/ (tasks[s] # None /\ Contains(Stream(tasks[s].node), x))
  <2>1. x \in Nodes
      BY <1>1 DEF Sites
  <2>2. CASE \E m \in Held(World, x)' : Streams(m, s)
      BY <1>1, <2>1, <2>2 DEF Sites
  <2>3. CASE \E j \in Streaming(s)' : channel'[j].at = x
    <3>1. PICK j \in DOMAIN channel' :
              channel'[j].kind = "stream" /\ channel'[j].from = s /\ channel'[j].at = x
        BY <2>3 DEF Streaming
    <3>2. CASE Sends(channel'[j], t)
        BY <3>1, <3>2 DEF Sends
    <3>3. CASE \E i \in DOMAIN channel : channel'[j] = channel[i]
        BY <2>1, <3>1, <3>3 DEF Sites, Streaming
    <3> QED  BY <3>2, <3>3
  <2> QED  BY <2>2, <2>3 DEF Sites
<1>4. Traced'
    BY <1>1, <1>3, TracedKept DEF Lasts, SameTasks
<1> DEFINE busy == Underway \cup {t}
<1>5. Underway' \subseteq busy
  <2> SUFFICES ASSUME NEW s \in Tasks, NEW j \in DOMAIN channel',
                      channel'[j].kind = "stream", channel'[j].from = s
               PROVE  s \in busy
      BY DEF Underway, Streaming
  <2>1. CASE Sends(channel'[j], t)
      BY <2>1 DEF Sends
  <2>2. CASE \E i \in DOMAIN channel : channel'[j] = channel[i]
      BY <2>2 DEF Underway, Streaming
  <2> QED  BY <2>1, <2>2
<1>6. Orderly(World, busy)
  <2> SUFFICES ASSUME NEW n \in FedByTasks, NEW k \in 1 .. Occurrences(Line(World), n),
                      World.input[n][k].final
               PROVE  World.input[n][k].task # t
      BY DEF Lasts, Orderly
  <2>1. n \in Nodes
      BY DEF FedByTasks
  <2>2. Occurrences(Line(World), n) \in Nat /\ Occurrences(Line(World), n) <= Len(World.input[n])
      BY <2>1, LineFacts
  <2>3. Len(World.input[n]) \in Nat
      BY <2>1, SoundTypes
  <2>4. k \in 1 .. Len(World.input[n])
      BY <2>2, <2>3
  <2> QED  BY <2>1, <2>4 DEF Lasts, Traced, Held
<1> HIDE DEF busy
<1>7. Orderly(World, Underway)'
    BY <1>1, <1>5, <1>6, OrderlyBecomes
<1> QED  BY <1>2, <1>4, <1>7 DEF Lasts

LEMMA AppendItem ==
    ASSUME OtherTypes, NEW item \in Items, channel' = Append(channel, item)
    PROVE  \A j \in DOMAIN channel' :
               (\E i \in DOMAIN channel : channel'[j] = channel[i]) \/ channel'[j] = item
<1>1. channel \in Seq(Items) /\ Len(channel) \in Nat /\ DOMAIN channel = 1 .. Len(channel)
    BY LenProperties DEF OtherTypes
<1>2. /\ channel' \in Seq(Items) /\ Len(channel') = Len(channel) + 1
      /\ \A j \in 1 .. Len(channel) : channel'[j] = channel[j]
      /\ channel'[Len(channel) + 1] = item
    BY <1>1, AppendProperties
<1>3. DOMAIN channel' = 1 .. Len(channel) + 1
    BY <1>2, LenProperties
<1> QED  BY <1>1, <1>2, <1>3

LEMMA TaskLasts ==
    ASSUME IInv, Lasts, NEW t \in Tasks,
           Send(t) \/ PushWithKey(t) \/ DropKey(t) \/ DropTracker(t) \/ Complete(t)
    PROVE  Lasts'
<1>1. /\ OtherTypes /\ Sound(World) /\ graph \in Graphs /\ tasks[t] # None
      /\ UNCHANGED <<graph, input, roster, later, stage>>
      /\ tasks \in [Tasks -> ActiveTasks \cup {None}] /\ tasks[t] \in ActiveTasks
    BY TaskFacts DEF IInv, OtherTypes, Send, PushWithKey, DropKey, DropTracker, Complete, IsAwake,
                     Unflushed, flush
<1>2. (\A s \in Tasks \ {t} : tasks'[s] = tasks[s]) /\ tasks'[t].node = tasks[t].node /\ t \in DOMAIN tasks
  <2>1. CASE Send(t)
      BY <1>1, <2>1 DEF Send, ActiveTasks, ActiveTask
  <2>2. CASE PushWithKey(t)
      BY <1>1, <2>2 DEF PushWithKey, ActiveTasks, ActiveTask
  <2>3. CASE DropKey(t)
      BY <1>1, <2>3 DEF DropKey, ActiveTasks, ActiveTask
  <2>4. CASE DropTracker(t)
      BY <1>1, <2>4 DEF DropTracker, ActiveTasks, ActiveTask
  <2>5. CASE Complete(t)
      BY <1>1, <2>5 DEF Complete, ActiveTasks, ActiveTask
  <2> QED  BY <2>1, <2>2, <2>3, <2>4, <2>5
<1>3. SameTasks /\ \A s \in Tasks : tasks[s] = None => tasks'[s] = None
    BY <1>1, <1>2 DEF SameTasks
<1>4. \A j \in DOMAIN channel' :
          (\E i \in DOMAIN channel : channel'[j] = channel[i]) \/ Sends(channel'[j], t)
  <2>1. CASE Send(t)
    <3>1. PICK i \in DOMAIN Stream(tasks[t].node) :
              channel' = Append(channel, Sent("stream", t, Stream(tasks[t].node)[i]))
        BY <2>1 DEF Send
    <3> DEFINE x == Stream(tasks[t].node)[i]
    <3>2. x \in Nodes /\ Contains(Stream(tasks[t].node), x)
      <4>1. Stream(tasks[t].node) \in Seq(Nodes)
          BY <1>1, TaskFacts, GraphFacts
      <4> QED  BY <4>1, LenProperties DEF Contains
    <3> HIDE DEF x
    <3>3. Sent("stream", t, x) \in Items /\ Sends(Sent("stream", t, x), t)
        BY <3>2 DEF Sent, Items, Sends
    <3> QED  BY <1>1, <3>1, <3>3, AppendItem DEF x
  <2>2. CASE PushWithKey(t)
    <3>1. PICK i \in DOMAIN Buffers(tasks[t].key) :
              channel' = Append(channel, Sent("push", tasks[t].key, Buffers(tasks[t].key)[i]))
        BY <2>2 DEF PushWithKey
    <3> DEFINE item == Sent("push", tasks[t].key, Buffers(tasks[t].key)[i])
    <3>2. tasks[t].key \in Keyers /\ Buffers(tasks[t].key)[i] \in Has("buffer")
      <4>1. tasks[t].key \in Keyers /\ Buffers(tasks[t].key) \in Seq(Has("buffer"))
          BY <1>1, <2>2, TaskFacts DEF PushWithKey, HoldsKey
      <4> QED  BY <4>1, LenProperties
    <3>3. item \in Items /\ item.kind = "push"
        BY <3>2 DEF Sent, Items
    <3> QED  BY <1>1, <3>1, <3>3, AppendItem DEF Sends
  <2>3. CASE DropKey(t)
    <3> DEFINE item == Sent("drop", tasks[t].key, None)
    <3>1. tasks[t].key \in Keyers
        BY <1>1, <2>3, TaskFacts DEF DropKey, HoldsKey
    <3>2. item \in Items /\ item.kind = "drop" /\ channel' = Append(channel, item)
        BY <2>3, <3>1 DEF Sent, Items, DropKey
    <3> HIDE DEF item
    <3> QED  BY <1>1, <3>2, AppendItem DEF Sends
  <2>4. CASE channel' = channel
      BY <2>4
  <2> QED  BY <2>1, <2>2, <2>3, <2>4 DEF DropTracker, Complete
<1> QED  BY <1>1, <1>3, <1>4, SentLasts

-----------------------------------------------------------------------------
(* The steps of the flush that give nothing.                               *)

LEMMA TracedStays ==
    ASSUME UNCHANGED <<graph, input, channel, tasks>>, Traced
    PROVE  /\ Traced' /\ Underway' = Underway /\ World'.input = World.input
           /\ FedByTasks' = FedByTasks /\ QueuedAtOnce' = QueuedAtOnce
<1>1. /\ Nodes' = Nodes /\ FedByTasks' = FedByTasks /\ QueuedAtOnce' = QueuedAtOnce
      /\ \A n \in Nodes : StreamedFirst(n)' = StreamedFirst(n)
    BY SameGraph
<1>2. \A n : Held(World, n)' = Held(World, n)
    BY DEF Held, World
<1>3. \A t : Streaming(t)' = Streaming(t)
    BY DEF Streaming
<1>4. \A t : Sites(t)' = Sites(t)
    BY <1>1, <1>2, <1>3 DEF Sites
<1>5. \A t \in Tasks : Stream(tasks[t].node)' = Stream(tasks[t].node)
    BY DEF Stream
<1>6. Traced'
    BY <1>1, <1>2, <1>4, <1>5 DEF Traced
<1>7. Underway' = Underway
    BY <1>3 DEF Underway
<1> QED  BY <1>1, <1>6, <1>7 DEF World

LEMMA LineKept ==
    ASSUME UNCHANGED <<graph, input, channel, tasks>>, Lasts, Line(World)' = Line(World), Staged'
    PROVE  Lasts'
<1>1. /\ Traced' /\ Underway' = Underway /\ World'.input = World.input
      /\ FedByTasks' = FedByTasks /\ QueuedAtOnce' = QueuedAtOnce
    BY TracedStays DEF Lasts
<1>2. Orderly(World, Underway)'
    BY <1>1 DEF Lasts, Orderly
<1> QED  BY <1>1, <1>2 DEF Lasts

\* What was deferred comes after all that has come before the channel was empty.
LEMMA SettleLasts ==
    ASSUME IInv, Lasts, Settle
    PROVE  Lasts'
<1> DEFINE a == roster.queue
           d == roster.deferred
           l == later.queue
<1>1. /\ OtherTypes /\ Sound(World) /\ graph \in Graphs /\ roster \in Rosters /\ later \in Rosters
      /\ World.roster = roster /\ World.later = later /\ World.input = input
    BY DEF IInv, OtherTypes, Sound, World, Worlds
<1>2. /\ UNCHANGED <<graph, input, channel, tasks>> /\ later' = NoRoster
      /\ channel = <<>> /\ stage \in {"first", "channel"} /\ stage' \in {"dispose", "check"}
    BY DEF Settle, Quiet, Lasts, Staged
<1>3. a \in Seq(Entries) /\ d \in Seq(Entries) /\ l \in Seq(Entries) /\ d \in Seq(Nodes)
  <2>1. d \in Seq(Nodes) /\ Nodes \subseteq Entries
      BY <1>1 DEF Rosters, Entries
  <2>2. d \in Seq(Entries)
      BY <2>1, SeqMonotonic
  <2> QED  BY <1>1, <2>1, <2>2 DEF Rosters, Entries
<1>4. /\ roster'.queue = (a \o d) \o l /\ roster'.deferred = <<>>
      /\ later'.queue = <<>> /\ later'.deferred = <<>>
  <2> DEFINE processed == [roster EXCEPT !.queue = @ \o roster.deferred, !.deferred = <<>>]
             both == Appended(processed, later)
  <2>1. processed.queue = a \o d /\ processed.deferred = <<>>
      BY <1>1 DEF Rosters
  <2>2. both.queue = processed.queue \o l /\ both.deferred = processed.deferred \o later.deferred
        /\ both = [queue |-> both.queue, deferred |-> both.deferred, awake |-> both.awake,
                   disposals |-> both.disposals, reachable |-> both.reachable]
    <3> HIDE DEF processed
    <3> QED  BY DEF Appended
  <2>3. roster' = [both EXCEPT !.awake = @ \o wake]
      BY DEF Settle
  <2> HIDE DEF processed, both
  <2>4. roster'.queue = both.queue /\ roster'.deferred = both.deferred
      BY <2>2, <2>3
  <2>5. later.deferred = <<>> /\ <<>> \o <<>> = <<>>
      BY EmptySeq, ConcatEmptySeq DEF Lasts, Staged
  <2> QED  BY <1>2, <2>1, <2>2, <2>4, <2>5, EmptyRoster
<1>5. Line(World)' = (a \o d) \o l /\ Line(World) = a \o l
  <2>1. a \o d \in Seq(Entries)
      BY <1>3, ConcatProperties
  <2>2. (a \o d) \o l \in Seq(Entries)
      BY <1>3, <2>1, ConcatProperties
  <2>3. ((a \o d) \o l) \o <<>> = (a \o d) \o l
      BY <2>2, ConcatEmptySeq
  <2> QED  BY <1>1, <1>4, <2>3 DEF Line, World
<1>6. /\ Traced' /\ Underway' = Underway /\ World'.input = World.input
      /\ FedByTasks' = FedByTasks /\ QueuedAtOnce' = QueuedAtOnce
    BY <1>2, TracedStays DEF Lasts
<1>7. Staged'
    BY <1>2, <1>4, <1>6, OccurrencesEmpty DEF Staged
<1>8. Underway = {}
    BY <1>2 DEF Underway, Streaming
<1>9. Sound(World)'
    BY SettleKeeps DEF IInv
<1> HIDE DEF a, d, l
<1>10. Orderly(World, Underway)'
  <2> SUFFICES ASSUME NEW n \in FedByTasks, NEW k \in 1 .. Occurrences(Line(World)', n),
                      input[n][k].final
               PROVE  /\ input[n][k].task \in Tasks
                      /\ \A x \in QueuedAtOnce : \A i \in 1 .. Len(input[x]) :
                           Streams(input[x][i], input[n][k].task) =>
                               Before((a \o d) \o l, n, k, x, i)
      BY <1>1, <1>5, <1>6, <1>8 DEF Orderly
  <2>1. n \in Nodes
      BY DEF FedByTasks
  <2>2. k \in Nat /\ k \in 1 .. Len(input[n])
    <3>2. /\ Occurrences(Line(World)', n) \in Nat
          /\ Occurrences(Line(World)', n) <= Len(input[n])
      <4>1. \A y \in Nodes : Len(input[y]) =
                Occurrences(roster'.queue, y) + Occurrences(roster'.deferred, y)
                + Occurrences(later'.queue, y) + Occurrences(later'.deferred, y)
          BY <1>2, <1>9, SameGraph DEF Sound, Balanced, World
      <4>2. Len(input[n]) = Occurrences(Line(World)', n)
        <5>1. /\ Occurrences(roster'.deferred, n) = 0 /\ Occurrences(later'.queue, n) = 0
              /\ Occurrences(later'.deferred, n) = 0
            BY <1>4, OccurrencesEmpty
        <5>2. roster'.queue = (a \o d) \o l /\ Line(World)' = (a \o d) \o l
            BY <1>4, <1>5
        <5>3. Occurrences((a \o d) \o l, n) \in Nat
          <6>1. (a \o d) \o l \in Seq(Entries)
              BY <1>3, ConcatProperties
          <6> QED  BY <6>1, OccurrencesType
        <5> QED  BY <2>1, <4>1, <5>1, <5>2, <5>3
      <4> QED  BY <1>1, <2>1, <4>2, SoundTypes
    <3>3. Len(input[n]) \in Nat
        BY <1>1, <2>1, SoundTypes
    <3> QED  BY <3>2, <3>3
  <2>3. input[n][k].task \in Tasks
      BY <1>1, <2>1, <2>2 DEF Lasts, Traced, Held
  <2>4. ASSUME NEW x \in QueuedAtOnce, NEW i \in 1 .. Len(input[x]),
               Streams(input[x][i], input[n][k].task)
        PROVE  Before((a \o d) \o l, n, k, x, i)
    <3>1. x \in Nodes /\ i \in Nat /\ Len(input[x]) \in Nat
        BY <1>1, SoundTypes DEF QueuedAtOnce
    <3>2. /\ Occurrences(a, n) \in Nat /\ Occurrences(l, n) \in Nat
          /\ Occurrences(a, x) \in Nat
        BY <1>3, OccurrencesType
    <3>3. Occurrences(a \o l, n) = Occurrences(a, n) + Occurrences(l, n)
        BY <1>3, OccurrencesConcat
    <3>4. k \in 1 .. Occurrences(a \o l, n) => Before(a \o l, n, k, x, i)
        BY <1>1, <1>5, <2>4 DEF Lasts, Orderly
    <3>5. CASE k <= Occurrences(a, n)
      <4>1. k \in 1 .. Occurrences(a \o l, n)
          BY <2>2, <3>2, <3>3, <3>5
      <4> QED  BY <1>3, <2>2, <3>1, <3>4, <3>5, <4>1, BeforeSettled
    <3>6. CASE k > Occurrences(a, n) /\ stage = "first"
      <4>1. d = <<>> /\ a \o d = a
          BY <1>3, <3>6, ConcatEmptySeq DEF Lasts, Staged, d
      <4>2. k \in 1 .. Occurrences(a \o l, n)
          BY <1>5, <4>1
      <4> QED  BY <3>4, <4>1, <4>2
    <3>7. CASE k > Occurrences(a, n) /\ stage = "channel"
      <4>1. Occurrences(d, x) = 0 /\ Occurrences(l, x) = 0 /\ later.deferred = <<>>
          BY <3>7 DEF Lasts, Staged, d, l
      <4>2. Len(input[x]) = Occurrences(a, x) + Occurrences(d, x) + Occurrences(l, x)
                            + Occurrences(later.deferred, x)
          BY <1>1, <3>1 DEF Sound, Balanced, a, d, l
      <4>3. i <= Occurrences(a, x)
          BY <3>1, <3>2, <4>1, <4>2, OccurrencesEmpty
      <4> QED  BY <1>3, <2>2, <3>1, <3>7, <4>3, BeforeSettled
    <3>8. k <= Occurrences(a, n) \/ k > Occurrences(a, n)
        BY <2>2, <3>2
    <3> QED  BY <1>2, <3>5, <3>6, <3>7, <3>8
  <2> QED  BY <2>3, <2>4
<1> QED  BY <1>6, <1>7, <1>10 DEF Lasts

LEMMA CheckLasts ==
    ASSUME IInv, Lasts, Check
    PROVE  Lasts'
<1>1. /\ Sound(World) /\ roster \in Rosters /\ later \in Rosters
      /\ UNCHANGED <<graph, input, channel, tasks>> /\ stage = "check"
    BY DEF IInv, Sound, World, Worlds, Check, NoTask, Nodal, Quiet
<1>2. /\ later.queue = <<>> /\ later.deferred = <<>> /\ roster.deferred = <<>>
      /\ roster.queue \in Seq(Entries)
    BY <1>1 DEF Lasts, Staged, Rosters, Entries
<1>3. FedByTasks' = FedByTasks /\ QueuedAtOnce' = QueuedAtOnce
    BY <1>1, SameGraph
<1>4. CASE UNCHANGED <<roster, later>> /\ stage' \in {"idle", "queue"}
  <2>1. Staged'
      BY <1>2, <1>3, <1>4, OccurrencesEmpty DEF Staged
  <2>2. Line(World)' = Line(World)
      BY <1>4 DEF Line, World
  <2> QED  BY <1>1, <2>1, <2>2, LineKept
<1>5. CASE later' = Appended(later, roster) /\ roster' = NoRoster /\ stage' = "idle"
  <2>1. /\ later'.queue = roster.queue /\ later'.deferred = <<>>
        /\ roster'.queue = <<>> /\ roster'.deferred = <<>>
    <3>1. later'.queue = <<>> \o roster.queue /\ later'.deferred = <<>> \o <<>>
        BY <1>2, <1>5 DEF Appended
    <3> QED  BY <1>2, <1>5, <3>1, EmptyRoster, ConcatEmptySeq, EmptySeq
  <2>2. Staged'
      BY <1>5, <2>1, OccurrencesEmpty DEF Staged
  <2>3. Line(World)' = Line(World)
    <3>1. Line(World)' = <<>> \o roster.queue /\ Line(World) = roster.queue \o <<>>
        BY <1>2, <2>1 DEF Line, World
    <3> QED  BY <1>2, <3>1, ConcatEmptySeq
  <2> QED  BY <1>1, <2>2, <2>3, LineKept
<1> QED  BY <1>4, <1>5 DEF Check

LEMMA RestLasts ==
    ASSUME IInv, Lasts,
           StartFlush \/ EndQueue \/ EndAwake \/ EndHear \/ Validate \/ EndDispose \/ Begin
    PROVE  Lasts'
<1>1. /\ roster \in Rosters /\ UNCHANGED <<graph, input, later, channel, tasks>>
    BY DEF IInv, Sound, World, Worlds, StartFlush, EndQueue, EndAwake, EndHear, Validate, EndDispose,
           Begin, NoTask, Nodal, Quiet
<1>2. roster'.queue = roster.queue /\ roster'.deferred = roster.deferred
    BY <1>1 DEF StartFlush, EndQueue, EndAwake, EndHear, Validate, EndDispose, Begin, Rosters
<1>3. FedByTasks' = FedByTasks /\ QueuedAtOnce' = QueuedAtOnce
    BY <1>1, SameGraph
<1>4. Line(World)' = Line(World)
    BY <1>1, <1>2 DEF Line, World
<1>5. Staged'
  <2>1. \/ stage' = stage
        \/ stage = "idle" /\ stage' = "first"
        \/ stage = "queue" /\ stage' = "awake"
        \/ stage = "awake" /\ stage' = "channel"
        \/ stage = "dispose" /\ stage' = "check"
        \/ stage = "begin" /\ stage' = "queue"
      BY DEF StartFlush, EndQueue, EndAwake, EndHear, Validate, EndDispose, Begin
  <2>2. CASE stage' = stage
      BY <1>1, <1>2, <1>3, <2>2 DEF Lasts, Staged
  <2>3. CASE stage = "idle" /\ stage' = "first"
      BY <1>1, <1>2, <1>3, <2>3 DEF Lasts, Staged
  <2>4. CASE \/ stage = "queue" /\ stage' = "awake"
             \/ stage = "awake" /\ stage' = "channel"
      BY <1>1, <1>2, <1>3, <2>4 DEF Lasts, Staged
  <2>5. CASE stage = "dispose" /\ stage' = "check"
      BY <1>1, <1>2, <1>3, <2>5 DEF Lasts, Staged
  <2>6. CASE stage = "begin" /\ stage' = "queue"
      BY <1>1, <1>2, <1>3, <2>6 DEF Lasts, Staged
  <2> QED  BY <2>1, <2>2, <2>3, <2>4, <2>5, <2>6
<1> QED  BY <1>1, <1>4, <1>5, LineKept

LEMMA InitLast ==
    Init => LastInv
<1> SUFFICES ASSUME Init PROVE Lasts
    BY DEF LastInv, Lasts
<1>1. /\ graph \in Graphs /\ Sound(World)
      /\ roster.deferred = <<>> /\ later = NoRoster /\ stage = "begin" /\ channel = <<>>
      /\ \A t \in Tasks : tasks[t] = None
    BY InitSound DEF IInv, Init, NoRoster
<1>2. \A n \in Nodes : \A i \in 1 .. Len(input[n]) : input[n][i] = Plain
    BY DEF Init
<1>3. Plain.task = None /\ ~Plain.final
    BY DEF Plain, Message
<1>4. \A n \in Nodes : \A m \in Held(World, n) : m.task = None /\ ~m.final
    BY <1>2, <1>3 DEF Held, World
<1>5. \A t \in Tasks : Streaming(t) = {} /\ Sites(t) = {}
  <2>1. \A t \in Tasks : Streaming(t) = {}
      BY <1>1 DEF Streaming
  <2>2. \A t \in Tasks : t # None
      BY <1>1, GraphFacts
  <2> QED  BY <1>4, <2>1, <2>2 DEF Sites, Streams
<1>6. Staged
    BY <1>1, EmptyRoster, OccurrencesEmpty DEF Staged
<1>7. Traced
    BY <1>1, <1>4, <1>5 DEF Traced
<1>8. Orderly(World, Underway)
  <2> SUFFICES ASSUME NEW n \in FedByTasks, NEW k \in 1 .. Occurrences(Line(World), n)
               PROVE  ~World.input[n][k].final
      BY DEF Orderly
  <2>1. n \in Nodes
      BY DEF FedByTasks
  <2>2. Occurrences(Line(World), n) \in Nat /\ Occurrences(Line(World), n) <= Len(World.input[n])
      BY <1>1, <2>1, LineFacts
  <2>3. Len(World.input[n]) \in Nat
      BY <1>1, <2>1, SoundTypes
  <2>4. k \in 1 .. Len(World.input[n])
      BY <2>2, <2>3
  <2> QED  BY <1>4, <2>1, <2>4 DEF Held
<1> QED  BY <1>6, <1>7, <1>8 DEF Lasts

LEMMA StepLast ==
    IInv /\ LastInv /\ [Next]_vars => LastInv'
<1> SUFFICES ASSUME IInv, LastInv, [Next]_vars, graph'.items = None PROVE Lasts'
    BY DEF LastInv, Lasts
<1>1. UNCHANGED graph
  <2>1. CASE Next
      BY <2>1 DEF Next, StartFlush, EndQueue, EndAwake, EndHear, Validate, EndDispose, Begin, Receive,
         Settle, Check, Hear, Execute, FirstPoll, Awaken, Send, PushWithKey, DropKey, DropTracker,
         Complete, Unflushed, Quiet, Fork, Access, Listen, Branch, Filter, Serve, Store, Join, Gate,
         Collect, Finish, OnlyMessages
  <2>2. CASE UNCHANGED vars
      BY <2>2 DEF vars
  <2> QED  BY <2>1, <2>2
<1>2. Lasts /\ graph.items = None
    BY <1>1 DEF LastInv, Lasts
<1>3. CASE StartFlush \/ EndQueue \/ EndAwake \/ EndHear \/ Validate \/ EndDispose \/ Begin
    BY <1>2, <1>3, RestLasts
<1>4. CASE Receive \/ Settle \/ Check \/ Hear
    BY <1>2, <1>4, ReceiveLasts, SettleLasts, CheckLasts, HearLasts
<1>5. CASE \E n \in Nodes : Execute(n)
    BY <1>2, <1>5, ExecuteLasts
<1>6. CASE \E t \in Tasks : FirstPoll(t) \/ Awaken(t)
    BY <1>2, <1>6, FirstPollLasts, AwakenLasts
<1>7. CASE \E t \in Tasks : Send(t) \/ PushWithKey(t) \/ DropKey(t) \/ DropTracker(t) \/ Complete(t)
    BY <1>2, <1>7, TaskLasts
<1>8. CASE UNCHANGED vars
  <2>1. UNCHANGED <<graph, input, roster, later, stage, channel, tasks>>
      BY <1>8 DEF vars, flush
  <2>2. Line(World)' = Line(World)
      BY <2>1 DEF Line, World
  <2>3. Staged'
      BY <1>2, <2>1, SameGraph DEF Lasts, Staged
  <2> QED  BY <1>2, <2>1, <2>2, <2>3, LineKept
<1> QED  BY <1>3, <1>4, <1>5, <1>6, <1>7, <1>8 DEF Next

LEMMA HeadAndRest ==
    ASSUME NEW S, NEW a \in Seq(S), NEW b \in Seq(S), a # <<>>
    PROVE  /\ a \o b = <<Head(a)>> \o (Tail(a) \o b)
           /\ Head(a) \in S /\ <<Head(a)>> \in Seq(S) /\ Tail(a) \o b \in Seq(S)
<1>1. /\ Head(a) \in S /\ Tail(a) \in Seq(S) /\ <<Head(a)>> \in Seq(S)
      /\ a = <<Head(a)>> \o Tail(a)
    BY HeadTailProperties
<1> DEFINE head == <<Head(a)>>
           tail == Tail(a)
<1>2. head \in Seq(S) /\ tail \in Seq(S)
    BY <1>1
<1> HIDE DEF head, tail
<1>3. (head \o tail) \o b = head \o (tail \o b)
    BY <1>2, ConcatAssociative
<1>4. tail \o b \in Seq(S)
    BY <1>2, ConcatProperties
<1> QED  BY <1>1, <1>3, <1>4 DEF head, tail

\* The output of a task that is taken by a node that tasks feed comes after all
\* that the task streamed: its item would be in the line before the output, which
\* is the head of it, or still in the channel.
THEOREM OutputLast ==
    Spec => []TaskOutputIsLast
<1>1. IInv /\ LastInv => TaskOutputIsLast
  <2> DEFINE n == Head(roster.queue)
             m == Head(input[n])
             q == Line(World)
  <2> SUFFICES ASSUME IInv, Lasts, roster.queue # <<>>, n \in FedByTasks,
                      StreamedFirst(n) \subseteq QueuedAtOnce, m.final
               PROVE  StreamsAreDone(m)
      BY DEF LastInv, Lasts, TaskOutputIsLast, OutputIsLast
  <2>1. /\ Sound(World) /\ n \in Nodes /\ World.input = input
        /\ roster.queue \in Seq(Entries) /\ later.queue \in Seq(Entries)
        /\ q = roster.queue \o later.queue
      BY DEF IInv, FedByTasks, World, Sound, Worlds, Rosters, Entries, Line
  <2> DEFINE rest == Tail(roster.queue) \o later.queue
  <2>2. q = <<n>> \o rest /\ <<n>> \in Seq(Entries) /\ rest \in Seq(Entries) /\ n \in Entries
    <3> DEFINE a == roster.queue
               b == later.queue
    <3>1. a \in Seq(Entries) /\ b \in Seq(Entries) /\ a # <<>>
        BY <2>1
    <3> HIDE DEF a, b
    <3>2. /\ a \o b = <<Head(a)>> \o (Tail(a) \o b)
          /\ Head(a) \in Entries /\ <<Head(a)>> \in Seq(Entries) /\ Tail(a) \o b \in Seq(Entries)
        BY <3>1, HeadAndRest
    <3> QED  BY <2>1, <3>2 DEF a, b
  <2>3. input[n] \in Seq(Messages) /\ Len(input[n]) \in Nat
      BY <2>1, SoundTypes
  <2> HIDE DEF n, q, rest
  <2>4. \A y : Occurrences(<<n>>, y) = IF y = n THEN 1 ELSE 0
      BY OccurrencesOne
  <2>5. 1 \in 1 .. Occurrences(q, n)
    <3>1. Occurrences(q, n) = Occurrences(<<n>>, n) + Occurrences(rest, n)
        BY <2>2, OccurrencesConcat
    <3>2. Occurrences(rest, n) \in Nat
        BY <2>2, OccurrencesType
    <3> QED  BY <2>4, <3>1, <3>2
  <2>6. m = input[n][1] /\ 1 \in 1 .. Len(input[n])
    <3>1. Occurrences(q, n) \in Nat /\ Occurrences(q, n) <= Len(input[n])
        BY <2>1, LineFacts DEF q
    <3>2. 1 \in 1 .. Len(input[n])
        BY <2>3, <2>5, <3>1
    <3> QED  BY <2>3, <3>2
  <2> HIDE DEF m
  <2>7. /\ m.task \in Tasks \ Underway
        /\ \A x \in QueuedAtOnce : \A i \in 1 .. Len(input[x]) :
             Streams(input[x][i], m.task) => Before(q, n, 1, x, i)
      BY <2>1, <2>5, <2>6 DEF Lasts, Orderly, q
  <2>8. m \in Held(World, n) /\ Sites(m.task) \subseteq StreamedFirst(n) /\ n \notin Sites(m.task)
      BY <2>1, <2>6, <2>7 DEF Held, Lasts, Traced
  <2>9. \A y : Rank(q, 1, y) = IF y = n THEN 1 ELSE 0
    <3>1. Len(<<n>>) = 1 /\ Len(rest) \in Nat /\ 1 \in 0 .. 1 + Len(rest)
        BY <2>2, LenProperties
    <3> DEFINE u == <<n>>
    <3>2. q = u \o rest /\ u \in Seq(Entries) /\ Len(u) = 1
        BY <2>2, <3>1
    <3> HIDE DEF u
    <3>3. 1 \in 0 .. Len(u) + Len(rest) /\ 1 <= Len(u) /\ 1 \in 0 .. Len(u)
        BY <3>1, <3>2
    <3>4. ASSUME NEW y PROVE Rank(q, 1, y) = Rank(u, 1, y)
        BY <2>2, <3>2, <3>3, RankConcat
    <3>5. ASSUME NEW y PROVE Rank(u, 1, y) = Occurrences(u, y)
      <4>1. Rank(u, Len(u), y) = Occurrences(u, y)
          BY <3>2, <3>3, RankBounds
      <4> QED  BY <3>2, <4>1
    <3> QED  BY <2>4, <3>4, <3>5 DEF u
  <2>10. 1 \in 0 .. Len(q)
    <3>1. Len(q) = Len(<<n>>) + Len(rest) /\ Len(rest) \in Nat /\ Len(<<n>>) = 1
        BY <2>2, ConcatProperties, LenProperties
    <3> QED  BY <3>1
  <2>11. ASSUME NEW x \in Nodes, NEW i \in DOMAIN input[x], input[x][i].task = m.task
         PROVE  input[x][i].final
    <3> SUFFICES ASSUME Streams(input[x][i], m.task) PROVE FALSE
        BY <2>11 DEF Streams
    <3>1. i \in 1 .. Len(input[x]) /\ i \in Nat
      <4>1. input[x] \in Seq(Messages)
          BY <2>1, SoundTypes
      <4> QED  BY <4>1, LenProperties
    <3>2. x \in Sites(m.task)
        BY <2>1, <3>1 DEF Sites, Held
    <3>3. Before(q, n, 1, x, i) /\ x # n
        BY <2>7, <2>8, <3>1, <3>2
    <3>4. Rank(q, 1, n) >= 1 => Rank(q, 1, x) >= i
        BY <2>10, <3>3 DEF Before
    <3> QED  BY <2>9, <3>1, <3>3, <3>4
  <2>12. \A j \in DOMAIN channel : ~(channel[j].kind = "stream" /\ channel[j].from = m.task)
      BY <2>7 DEF Underway, Streaming
  <2> QED  BY <2>11, <2>12 DEF StreamsAreDone
<1>2. Spec => [](IInv /\ LastInv)
    BY InitSound, StepSound, InitLast, StepLast, PTL DEF Spec
<1> QED  BY <1>1, <1>2, PTL

=============================================================================
