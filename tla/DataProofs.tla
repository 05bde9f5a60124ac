----------------------------- MODULE DataProofs -----------------------------
(***************************************************************************)
(* Lemmas about data that the proof modules share: induction over numbers  *)
(* and functions defined by recursion, sequences put one after the other,  *)
(* the sink, and the merge rule as a function.                             *)
(*                                                                         *)
(* The induction principle is the least element of a set of numbers, which *)
(* WFMin of WellFoundedInduction provides; a predicate P is proved for all *)
(* numbers by taking the set of those for which it holds.                  *)
(***************************************************************************)
EXTENDS MergeRule, Sink, SequencesExt, SequenceTheorems, WellFoundedInduction, TLAPS

\* Every set of numbers that is not empty has a least element.
LEMMA LeastNatural ==
  ASSUME NEW T, T \subseteq Nat, T # {}
  PROVE  \E x \in T : \A y \in T : x <= y
<1>1. PICK x \in T : \A y \in T : ~ (<<y, x>> \in OpToRel(<, Nat))
  BY NatLessThanWellFounded, WFMin
<1>2. \A y \in T : ~(y < x)
  BY <1>1 DEF OpToRel
<1>3. \A y \in T : x <= y
  BY <1>2
<1> QED BY <1>3

\* Induction from 0 to n, over the set of the numbers reached.
LEMMA UpTo ==
  ASSUME NEW n \in Nat, NEW T, 0 \in T,
         \A m \in 1..n : m - 1 \in T => m \in T
  PROVE  \A m \in 0..n : m \in T
<1> DEFINE U == {m \in 0..n : m \notin T}
<1> SUFFICES ASSUME U # {} PROVE FALSE
  OBVIOUS
<1>1. U \subseteq Nat
  OBVIOUS
<1>2. PICK x \in U : \A y \in U : x <= y
  <2> HIDE DEF U
  <2> QED BY <1>1, LeastNatural
<1>3. x # 0 /\ x \in 0..n /\ x \notin T
  BY <1>2
<1>4. x - 1 \in 0..n /\ ~(x <= x - 1)
  BY <1>3
<1>5. x - 1 \in T
  BY <1>2, <1>4
<1> QED BY <1>3, <1>5

\* For each of n steps, what it makes of a value.
Steps(n, S) == [1..n -> [S -> S]]

\* g begins with c and goes on by the steps F.
Iterated(g, n, S, c, F) ==
  g \in [0..n -> S] /\ g[0] = c /\ \A m \in 1..n : g[m] = F[m][g[m - 1]]

\* A function on 0..n given by its value at 0 and its steps F exists.
LEMMA Iterates ==
  ASSUME NEW n \in Nat, NEW S, NEW c \in S, NEW F \in Steps(n, S)
  PROVE  \E g : Iterated(g, n, S, c, F)
<1> DEFINE Run(g, k) == Iterated(g, k, S, c, F)
           T == {k \in 0..n : \E g : Run(g, k)}
<1>1. 0 \in T
  <2>1. Run([m \in 0..0 |-> c], 0)
    BY DEF Iterated
  <2> HIDE DEF Run
  <2> QED BY <2>1
<1>2. ASSUME NEW k \in 1..n, k - 1 \in T PROVE k \in T
  <2>1. PICK g : Run(g, k - 1)
    BY <1>2
  <2>6. \A m \in 1..n : F[m] \in [S -> S]
    BY DEF Steps
  <2> DEFINE h == [m \in 0..k |-> IF m = k THEN F[k][g[k - 1]] ELSE g[m]]
  <2>2. g[k - 1] \in S /\ F[k][g[k - 1]] \in S
    BY <2>1, <2>6 DEF Iterated
  <2>3. h \in [0..k -> S] /\ h[0] = c
    BY <2>1, <2>2 DEF Iterated
  <2>4. ASSUME NEW m \in 1..k PROVE h[m] = F[m][h[m - 1]]
    <3>1. h[m - 1] = g[m - 1]
      OBVIOUS
    <3>2. CASE m = k
      BY <3>1, <3>2
    <3>3. CASE m # k
      <4>1. m \in 1..(k - 1) /\ h[m] = g[m]
        BY <3>3
      <4> QED BY <4>1, <3>1, <2>1 DEF Iterated
    <3> QED BY <3>2, <3>3
  <2>5. Run(h, k)
    <3> HIDE DEF h
    <3> QED BY <2>3, <2>4 DEF Iterated
  <2> HIDE DEF h, Run
  <2> QED BY <2>5
<1> HIDE DEF T, Run
<1>3. \A m \in 0..n : m \in T
  BY <1>1, <1>2, UpTo
<1>4. n \in T
  BY <1>3
<1> QED BY <1>4 DEF T, Run

----------------------------------------------------------------------------
(* Sequences of sequences.                                                 *)

\* FlattenSeq of the first m sequences, for every m.
LEMMA FlattenSteps ==
  ASSUME NEW S, NEW ss \in Seq(Seq(S))
  PROVE  \E g \in [0..Len(ss) -> Seq(S)] :
           /\ g[0] = <<>> /\ FlattenSeq(ss) = g[Len(ss)]
           /\ \A m \in 1..Len(ss) : g[m] = g[m - 1] \o ss[m]
<1> DEFINE n == Len(ss)
           F == [m \in 1..n |-> [x \in Seq(S) |-> x \o ss[m]]]
           Eq(f) == f = [i \in 1..n |-> IF i = 1 THEN ss[i] ELSE f[i - 1] \o ss[i]]
           h == CHOOSE f : Eq(f)
<1>1. n \in Nat /\ <<>> \in Seq(S) /\ \A m \in 1..n : ss[m] \in Seq(S)
  OBVIOUS
<1>2. F \in [1..n -> [Seq(S) -> Seq(S)]]
  BY <1>1
<1> HIDE DEF n
<1>3. PICK g \in [0..n -> Seq(S)] : g[0] = <<>> /\ \A m \in 1..n : g[m] = F[m][g[m - 1]]
  <2>1. F \in Steps(n, Seq(S)) /\ <<>> \in Seq(S) /\ n \in Nat
    BY <1>1, <1>2 DEF Steps
  <2> HIDE DEF F
  <2>2. PICK g : Iterated(g, n, Seq(S), <<>>, F)
    BY <2>1, Iterates
  <2> QED BY <2>2 DEF Iterated
<1>4. \A m \in 1..n : g[m - 1] \in Seq(S) /\ g[m] = g[m - 1] \o ss[m]
  <2> TAKE m \in 1..n
  <2>1. m - 1 \in 0..n
    BY <1>1
  <2>2. g[m - 1] \in Seq(S)
    BY <1>3, <2>1
  <2>3. F[m][g[m - 1]] = g[m - 1] \o ss[m]
    BY <2>2
  <2> QED BY <1>3, <2>2, <2>3
<1>5. CASE n = 0
  <2>1. ss = <<>> /\ FlattenSeq(ss) = <<>>
    BY <1>5 DEF FlattenSeq, n
  <2> QED BY <1>3, <1>4, <1>5, <2>1 DEF n
<1>6. CASE n # 0
  <2> DEFINE f == [i \in 1..n |-> g[i]]
  <2>1. ASSUME NEW i \in 1..n
        PROVE  f[i] = IF i = 1 THEN ss[i] ELSE f[i - 1] \o ss[i]
    <3>1. CASE i = 1
      <4>1. g[i - 1] = <<>> /\ g[i] = g[i - 1] \o ss[i]
        <5>1. i - 1 = 0
          BY <3>1
        <5>2. g[i] = g[i - 1] \o ss[i]
          BY <1>4
        <5> QED BY <1>3, <5>1, <5>2
      <4>2. ss[i] \in Seq(S)
        BY <1>1
      <4>3. <<>> \o ss[i] = ss[i]
        BY <4>2, ConcatEmptySeq
      <4> QED BY <3>1, <4>1, <4>3
    <3>2. CASE i # 1
      <4>1. i - 1 \in 1..n
        BY <1>1, <3>2
      <4> QED BY <1>4, <3>2, <4>1
    <3> QED BY <3>1, <3>2
  <2>2. Eq(f)
    BY <2>1
  <2>3. Eq(h)
    <3> HIDE DEF f, Eq
    <3> QED BY <2>2
  <2>4. FlattenSeq(ss) = h[n]
    BY <1>6 DEF FlattenSeq, n
  <2> DEFINE T == {m \in 0..n : m = 0 \/ h[m] = g[m]}
  <2>5. \A m \in 1..n : h[m] = IF m = 1 THEN ss[m] ELSE h[m - 1] \o ss[m]
    <3> HIDE DEF h
    <3> QED BY <2>3
  <2> HIDE DEF h
  <2>6. 0 \in T
    BY <1>1
  <2>7. ASSUME NEW m \in 1..n, m - 1 \in T PROVE m \in T
    <3>1. CASE m = 1
      <4>1. g[m] = ss[m]
        BY <2>1, <3>1
      <4>2. h[m] = ss[m]
        BY <2>5, <3>1
      <4> QED BY <1>1, <4>1, <4>2
    <3>2. CASE m # 1
      <4>1. h[m - 1] = g[m - 1]
        BY <1>1, <2>7, <3>2
      <4>2. h[m] = h[m - 1] \o ss[m] /\ g[m] = g[m - 1] \o ss[m]
        BY <1>4, <2>5, <3>2
      <4>3. h[m] = g[m]
        BY <4>1, <4>2
      <4> QED BY <1>1, <4>3
    <3> QED BY <3>1, <3>2
  <2>8. \A m \in 0..n : m \in T
    <3> HIDE DEF T, n
    <3> QED BY <1>1, <2>6, <2>7, UpTo
  <2>9. h[n] = g[n]
    BY <1>1, <1>6, <2>8
  <2> QED BY <1>3, <1>4, <2>4, <2>9 DEF n
<1> QED BY <1>5, <1>6

LEMMA FlattenEmpty == FlattenSeq(<<>>) = <<>>
  BY DEF FlattenSeq

LEMMA FlattenType ==
  ASSUME NEW S, NEW ss \in Seq(Seq(S))
  PROVE  FlattenSeq(ss) \in Seq(S)
<1>1. Len(ss) \in 0..Len(ss)
  OBVIOUS
<1>2. PICK g \in [0..Len(ss) -> Seq(S)] : FlattenSeq(ss) = g[Len(ss)]
  BY FlattenSteps
<1> QED BY <1>1, <1>2

\* One sequence more is put behind the others.
LEMMA FlattenAppend ==
  ASSUME NEW S, NEW ss \in Seq(Seq(S)), NEW x \in Seq(S)
  PROVE  FlattenSeq(Append(ss, x)) = FlattenSeq(ss) \o x
<1> DEFINE n == Len(ss)
           tt == Append(ss, x)
<1>1. /\ n \in Nat /\ tt \in Seq(Seq(S)) /\ Len(tt) = n + 1 /\ tt[n + 1] = x
      /\ \A m \in 1..n : tt[m] = ss[m]
  OBVIOUS
<1> HIDE DEF tt
<1>2. PICK g \in [0..n -> Seq(S)] :
        /\ g[0] = <<>> /\ FlattenSeq(ss) = g[n]
        /\ \A m \in 1..n : g[m] = g[m - 1] \o ss[m]
  BY FlattenSteps
<1>3. PICK h \in [0..(n + 1) -> Seq(S)] :
        /\ h[0] = <<>> /\ FlattenSeq(tt) = h[n + 1]
        /\ \A m \in 1..(n + 1) : h[m] = h[m - 1] \o tt[m]
  <2>1. PICK h \in [0..Len(tt) -> Seq(S)] :
          /\ h[0] = <<>> /\ FlattenSeq(tt) = h[Len(tt)]
          /\ \A m \in 1..Len(tt) : h[m] = h[m - 1] \o tt[m]
    <3> HIDE DEF n
    <3> QED BY <1>1, FlattenSteps
  <2> QED BY <1>1, <2>1
<1> DEFINE T == {m \in 0..n : h[m] = g[m]}
<1>4. 0 \in T
  BY <1>1, <1>2, <1>3
<1>5. ASSUME NEW m \in 1..n, m - 1 \in T PROVE m \in T
  <2>1. h[m - 1] = g[m - 1] /\ m \in 1..(n + 1) /\ m \in 0..n
    BY <1>1, <1>5
  <2>2. h[m] = h[m - 1] \o tt[m] /\ g[m] = g[m - 1] \o ss[m] /\ tt[m] = ss[m]
    BY <1>1, <1>2, <1>3, <2>1
  <2> QED BY <2>1, <2>2
<1>6. \A m \in 0..n : m \in T
  <2> HIDE DEF T, n
  <2> QED BY <1>1, <1>4, <1>5, UpTo
<1>7. h[n] = g[n]
  BY <1>1, <1>6
<1>8. n + 1 \in 1..(n + 1) /\ (n + 1) - 1 = n
  BY <1>1
<1>9. h[n + 1] = h[n] \o x
  <2>1. h[n + 1] = h[(n + 1) - 1] \o tt[n + 1]
    BY <1>3, <1>8
  <2> QED BY <1>1, <1>8, <2>1
<1> QED BY <1>2, <1>3, <1>7, <1>9 DEF tt

\* Concatenation associates.
LEMMA Associates ==
  ASSUME NEW S, NEW r \in Seq(S), NEW s \in Seq(S), NEW z \in Seq(S)
  PROVE  (r \o s) \o z = r \o (s \o z)
  BY ConcatAssociative

\* Flattening a concatenation.
LEMMA FlattenConcat ==
  ASSUME NEW S, NEW a \in Seq(Seq(S)), NEW b \in Seq(Seq(S))
  PROVE  FlattenSeq(a \o b) = FlattenSeq(a) \o FlattenSeq(b)
<1> DEFINE n == Len(b)
           pre(m) == SubSeq(b, 1, m)
           T == {m \in 0..n : FlattenSeq(a \o pre(m)) = FlattenSeq(a) \o FlattenSeq(pre(m))}
<1>1. n \in Nat /\ FlattenSeq(a) \in Seq(S)
  BY FlattenType
<1>2. 0 \in T
  <2>1. pre(0) = <<>> /\ a \o <<>> = a
    BY SubSeqEmpty
  <2>2. FlattenSeq(a) \o <<>> = FlattenSeq(a)
    BY <1>1
  <2>3. FlattenSeq(pre(0)) = <<>> /\ FlattenSeq(a \o pre(0)) = FlattenSeq(a)
    BY <2>1, FlattenEmpty
  <2> HIDE DEF pre
  <2> QED BY <1>1, <2>2, <2>3
<1>3. ASSUME NEW m \in 1..n, m - 1 \in T PROVE m \in T
  <2> DEFINE p == pre(m - 1)
             x == b[m]
  <2>1. x \in Seq(S) /\ p \in Seq(Seq(S)) /\ pre(m) = Append(p, x)
    <3>1. 1 \in 1..n /\ m \in 1..n /\ b \in Seq(Seq(S))
      BY <1>1
    <3>2. pre(m) = p \o <<x>>
      BY <1>1, <3>1, SubSeqRecursiveSecond
    <3>3. \A k \in 1..(m - 1) : b[k] \in Seq(S)
      BY <1>1
    <3>4. p \in Seq(Seq(S))
      BY <1>1, <3>3, SubSeqProperties
    <3>5. x \in Seq(S)
      BY <3>1
    <3> HIDE DEF p, pre, x
    <3> QED BY <3>2, <3>4, <3>5
  <2>2. FlattenSeq(a \o p) = FlattenSeq(a) \o FlattenSeq(p)
    BY <1>3
  <2> HIDE DEF p, x, pre
  <2>3. a \o Append(p, x) = Append(a \o p, x) /\ a \o p \in Seq(Seq(S))
    <3> DEFINE R == Seq(S)
    <3>1. a \in Seq(R) /\ p \in Seq(R) /\ x \in R
      BY <2>1
    <3> HIDE DEF R
    <3>2. a \o Append(p, x) = Append(a \o p, x) /\ a \o p \in Seq(R)
      BY <3>1
    <3> QED BY <3>2 DEF R
  <2>4. FlattenSeq(Append(a \o p, x)) = FlattenSeq(a \o p) \o x
    BY <2>1, <2>3, FlattenAppend
  <2>5. FlattenSeq(Append(p, x)) = FlattenSeq(p) \o x /\ FlattenSeq(p) \in Seq(S)
    BY <2>1, FlattenAppend, FlattenType
  <2>6. (FlattenSeq(a) \o FlattenSeq(p)) \o x = FlattenSeq(a) \o (FlattenSeq(p) \o x)
    <3> DEFINE u == FlattenSeq(a)
               w == FlattenSeq(p)
    <3>1. u \in Seq(S) /\ w \in Seq(S) /\ x \in Seq(S)
      BY <1>1, <2>1, <2>5
    <3> HIDE DEF u, w
    <3>2. \A r, s, z \in Seq(S) : (r \o s) \o z = r \o (s \o z)
      <4> TAKE r, s, z \in Seq(S)
      <4> HIDE DEF T, n
      <4> QED BY Associates
    <3>3. (u \o w) \o x = u \o (w \o x)
      BY <3>1, <3>2, Zenon
    <3> QED BY <3>3, Zenon DEF u, w
  <2>7. FlattenSeq(a \o pre(m)) = FlattenSeq(a) \o FlattenSeq(pre(m))
    BY <2>1, <2>2, <2>3, <2>4, <2>5, <2>6
  <2> QED BY <2>7
<1>4. n \in T
  <2> HIDE DEF T
  <2>1. \A m \in 0..n : m \in T
    BY <1>1, <1>2, <1>3, UpTo
  <2> QED BY <1>1, <2>1
<1>5. pre(n) = b
  BY SubSeqFull
<1> QED BY <1>4, <1>5

\* What a function makes of the elements of a sequence, one after the other.
Mapped(W, ids) == FlattenSeq([k \in 1..Len(ids) |-> W[ids[k]]])

Maps(D, S) == [D -> Seq(S)]

LEMMA MappedConcat ==
  ASSUME NEW D, NEW S, NEW W \in Maps(D, S), NEW x \in Seq(D), NEW y \in Seq(D)
  PROVE  /\ Mapped(W, x) \in Seq(S)
         /\ Mapped(W, x \o y) = Mapped(W, x) \o Mapped(W, y)
<1> DEFINE each(s) == [k \in 1..Len(s) |-> W[s[k]]]
<1>1. ASSUME NEW s \in Seq(D) PROVE each(s) \in Seq(Seq(S)) /\ Len(each(s)) = Len(s)
  <2>1. \A k \in 1..Len(s) : W[s[k]] \in Seq(S)
    BY DEF Maps
  <2> QED BY <2>1
<1>2. each(x \o y) = each(x) \o each(y)
  <2> DEFINE z == x \o y
             a == each(x)
             b == each(y)
  <2>1. /\ z \in Seq(D) /\ Len(z) = Len(x) + Len(y)
        /\ \A k \in 1..Len(z) : z[k] = IF k <= Len(x) THEN x[k] ELSE y[k - Len(x)]
    OBVIOUS
  <2>2. a \in Seq(Seq(S)) /\ b \in Seq(Seq(S)) /\ Len(a) = Len(x) /\ Len(b) = Len(y)
    BY <1>1
  <2>3. /\ \A k \in 1..Len(x) : a[k] = W[x[k]]
        /\ \A k \in 1..Len(y) : b[k] = W[y[k]]
    OBVIOUS
  <2> HIDE DEF a, b, z
  <2>4. a \o b = [k \in 1..(Len(x) + Len(y)) |-> IF k <= Len(x) THEN a[k] ELSE b[k - Len(x)]]
    <3> DEFINE c == a \o b
    <3>1. /\ c \in Seq(Seq(S)) /\ Len(c) = Len(x) + Len(y) /\ Len(x) \in Nat /\ Len(y) \in Nat
          /\ \A k \in 1..Len(c) : c[k] = IF k <= Len(x) THEN a[k] ELSE b[k - Len(x)]
      <4>1. /\ a \o b \in Seq(Seq(S)) /\ Len(a \o b) = Len(a) + Len(b)
            /\ \A k \in 1..Len(a) + Len(b) :
                 (a \o b)[k] = IF k <= Len(a) THEN a[k] ELSE b[k - Len(a)]
        BY <2>2, ConcatProperties, Zenon
      <4> QED BY <2>2, <4>1
    <3> HIDE DEF c
    <3>2. c = [k \in 1..Len(c) |-> c[k]]
      BY <3>1
    <3>3. c = [k \in 1..(Len(x) + Len(y)) |-> IF k <= Len(x) THEN a[k] ELSE b[k - Len(x)]]
      BY <3>1, <3>2
    <3> QED BY <3>3 DEF c
  <2>5. \A k \in 1..(Len(x) + Len(y)) :
          W[z[k]] = IF k <= Len(x) THEN a[k] ELSE b[k - Len(x)]
    <3> SUFFICES ASSUME NEW k \in 1..(Len(x) + Len(y))
                 PROVE  W[z[k]] = IF k <= Len(x) THEN a[k] ELSE b[k - Len(x)]
      OBVIOUS
    <3>a. Len(x) \in Nat /\ Len(y) \in Nat /\ k \in 1..Len(z)
      BY <2>1
    <3>b. z[k] = IF k <= Len(x) THEN x[k] ELSE y[k - Len(x)]
      BY <2>1, <3>a
    <3>1. CASE k <= Len(x)
      <4>1. k \in 1..Len(x) /\ z[k] = x[k]
        BY <3>a, <3>b, <3>1
      <4> QED BY <2>3, <3>1, <4>1
    <3>2. CASE ~(k <= Len(x))
      <4>1. k - Len(x) \in 1..Len(y) /\ z[k] = y[k - Len(x)]
        BY <3>a, <3>b, <3>2
      <4> QED BY <2>3, <3>2, <4>1
    <3> QED BY <3>1, <3>2
  <2>6. each(z) = a \o b
    BY <2>1, <2>4, <2>5
  <2> QED BY <2>6 DEF a, b, z
<1> HIDE DEF each
<1>3. FlattenSeq(each(x) \o each(y)) = FlattenSeq(each(x)) \o FlattenSeq(each(y))
  BY <1>1, FlattenConcat
<1>4. FlattenSeq(each(x)) \in Seq(S)
  BY <1>1, FlattenType
<1> QED BY <1>2, <1>3, <1>4 DEF Mapped, each

LEMMA MappedEmpty == \A W : Mapped(W, <<>>) = <<>>
<1> TAKE W
<1>1. [k \in 1..Len(<<>>) |-> W[<<>>[k]]] = <<>>
  OBVIOUS
<1> QED BY <1>1, FlattenEmpty DEF Mapped

\* Element by element or list by list, the result is the same.
LEMMA MappedFlatten ==
  ASSUME NEW D, NEW S, NEW W \in Maps(D, S), NEW ss \in Seq(Seq(D))
  PROVE  Mapped(W, FlattenSeq(ss)) = FlattenSeq([n \in 1..Len(ss) |-> Mapped(W, ss[n])])
<1> DEFINE n == Len(ss)
           pre(m) == SubSeq(ss, 1, m)
           each(m) == [k \in 1..m |-> Mapped(W, ss[k])]
           T == {m \in 0..n : Mapped(W, FlattenSeq(pre(m))) = FlattenSeq(each(m))}
<1>1. n \in Nat /\ \A m \in 1..n : ss[m] \in Seq(D) /\ Mapped(W, ss[m]) \in Seq(S)
  <2>1. \A m \in 1..n : ss[m] \in Seq(D)
    OBVIOUS
  <2>2. ASSUME NEW x \in Seq(D) PROVE Mapped(W, x) \in Seq(S)
    BY MappedConcat
  <2> QED BY <2>1, <2>2
<1>2. 0 \in T
  <2>1. pre(0) = <<>>
    BY SubSeqEmpty
  <2>2. each(0) = <<>>
    OBVIOUS
  <2>3. Mapped(W, FlattenSeq(pre(0))) = <<>> /\ FlattenSeq(each(0)) = <<>>
    BY <2>1, <2>2, FlattenEmpty, MappedEmpty
  <2> QED BY <1>1, <2>3
<1>3. ASSUME NEW m \in 1..n, m - 1 \in T PROVE m \in T
  <2> DEFINE p == pre(m - 1)
             x == ss[m]
             e == each(m - 1)
             w == Mapped(W, x)
  <2>1. p \in Seq(Seq(D)) /\ pre(m) = Append(p, x)
    <3>1. pre(m) = p \o <<x>>
      BY <1>1, SubSeqRecursiveSecond
    <3>2. \A k \in 1..(m - 1) : ss[k] \in Seq(D)
      BY <1>1
    <3>3. p \in Seq(Seq(D))
      BY <1>1, <3>2, SubSeqProperties
    <3> HIDE DEF p, pre, x
    <3> QED BY <3>1, <3>3
  <2>2. x \in Seq(D) /\ w \in Seq(S)
    BY <1>1
  <2>3. e \in Seq(Seq(S)) /\ Len(e) = m - 1 /\ \A k \in 1..(m - 1) : e[k] = Mapped(W, ss[k])
    BY <1>1
  <2>4. Mapped(W, FlattenSeq(p)) = FlattenSeq(e)
    BY <1>3
  <2> DEFINE a == Append(e, w)
  <2> HIDE DEF e, w, p, x, pre
  <2>5. /\ a \in Seq(Seq(S)) /\ Len(a) = m /\ a[m] = w
        /\ \A k \in 1..(m - 1) : a[k] = e[k]
    BY <2>2, <2>3, AppendProperties
  <2> HIDE DEF a
  <2>6. \A k \in 1..m : a[k] = Mapped(W, ss[k])
    <3>1. a[m] = Mapped(W, ss[m])
      BY <2>5 DEF w, x
    <3>2. \A k \in 1..(m - 1) : a[k] = Mapped(W, ss[k])
      BY <2>3, <2>5
    <3> QED BY <3>1, <3>2
  <2>7. a = [k \in 1..m |-> a[k]]
    BY <2>5
  <2>8. each(m) = a
    BY <2>6, <2>7, Zenon
  <2>9. FlattenSeq(a) = FlattenSeq(e) \o w
    BY <2>2, <2>3, FlattenAppend DEF a
  <2>10. FlattenSeq(Append(p, x)) = FlattenSeq(p) \o x /\ FlattenSeq(p) \in Seq(D)
    BY <2>1, <2>2, FlattenAppend, FlattenType
  <2>11. Mapped(W, FlattenSeq(p) \o x) = Mapped(W, FlattenSeq(p)) \o w
    <3> DEFINE u == FlattenSeq(p)
    <3>1. u \in Seq(D)
      BY <2>10
    <3> HIDE DEF u
    <3>2. Mapped(W, u \o x) = Mapped(W, u) \o Mapped(W, x)
      BY <2>2, <3>1, MappedConcat
    <3> QED BY <3>2 DEF u, w
  <2>12. Mapped(W, FlattenSeq(pre(m))) = FlattenSeq(each(m))
    BY <2>1, <2>4, <2>8, <2>9, <2>10, <2>11
  <2> QED BY <2>12
<1>4. n \in T
  <2> HIDE DEF T
  <2>1. \A m \in 0..n : m \in T
    BY <1>1, <1>2, <1>3, UpTo
  <2> QED BY <1>1, <2>1
<1>5. pre(n) = ss
  BY SubSeqFull
<1> QED BY <1>4, <1>5

----------------------------------------------------------------------------
(* The sink.                                                               *)

Sinks(S) == [out : Seq(S), cap : Nat, total : Nat]

LEMMA NewSinkHolds ==
  ASSUME NEW S, NEW cap \in Nat
  PROVE  /\ NewSink(cap) \in Sinks(S) /\ NewSink(cap).cap = cap
         /\ Holds(NewSink(cap), <<>>)
<1>1. (IF cap < 0 THEN cap ELSE 0) = 0
  OBVIOUS
<1>2. SubSeq(<<>>, 1, 0) = <<>>
  BY SubSeqEmpty
<1> QED BY <1>1, <1>2 DEF NewSink, Holds, Sinks

\* What a sink holds after more ids were put in it.
LEMMA PutHolds ==
  ASSUME NEW S, NEW s \in Sinks(S), NEW ids \in Seq(S), NEW more \in Seq(S), Holds(s, ids)
  PROVE  /\ Put(s, more) \in Sinks(S) /\ Put(s, more).cap = s.cap
         /\ Holds(Put(s, more), ids \o more)
<1> DEFINE n == Len(ids)
           k == Len(more)
           room == IF s.total < s.cap THEN s.cap - s.total ELSE 0
           fits == IF k < room THEN k ELSE room
           p == Put(s, more)
           kept == IF s.cap < n THEN s.cap ELSE n
           all == IF s.cap < n + k THEN s.cap ELSE n + k
<1>1. n \in Nat /\ k \in Nat /\ s.cap \in Nat /\ s.total = n /\ s.out = SubSeq(ids, 1, kept)
  BY DEF Holds, Sinks
<1> HIDE DEF n, k
<1>2. fits \in 0..k /\ kept \in 0..n /\ all = kept + fits /\ (fits > 0 => kept = n)
  BY <1>1
<1>15. n = Len(ids) /\ k = Len(more)
  BY DEF n, k
<1>3. p = [s EXCEPT !.out = s.out \o SubSeq(more, 1, fits), !.total = s.total + k]
  BY DEF Put, k
<1>4. /\ p.out = s.out \o SubSeq(more, 1, fits) /\ p.total = n + k /\ p.cap = s.cap
      /\ p = [out |-> p.out, cap |-> p.cap, total |-> p.total]
  BY <1>1, <1>3 DEF Sinks
<1> HIDE DEF fits, kept, all, p, room
<1>5. /\ s.out \in Seq(S) /\ Len(s.out) = kept /\ \A i \in 1..kept : s.out[i] = ids[i]
  BY <1>1, <1>2, <1>15
<1> DEFINE head == SubSeq(more, 1, fits)
           whole == ids \o more
           cut == SubSeq(whole, 1, all)
<1>6. head \in Seq(S) /\ Len(head) = fits /\ \A i \in 1..fits : head[i] = more[i]
  BY <1>1, <1>2, <1>15
<1>7. /\ whole \in Seq(S) /\ Len(whole) = n + k
      /\ \A i \in 1..(n + k) : whole[i] = IF i <= n THEN ids[i] ELSE more[i - n]
  BY <1>15, ConcatProperties
<1>8. all \in 0..(n + k)
  BY <1>1, <1>2
<1> HIDE DEF whole
<1>9. cut \in Seq(S) /\ Len(cut) = all /\ \A i \in 1..all : cut[i] = whole[i]
  <2>1. \A i \in 1..all : whole[i] \in S
    BY <1>1, <1>7, <1>8
  <2> QED BY <1>8, <2>1, SubSeqProperties
<1> HIDE DEF cut, head
<1>10. /\ s.out \o head \in Seq(S) /\ Len(s.out \o head) = kept + fits
       /\ \A i \in 1..(kept + fits) :
            (s.out \o head)[i] = IF i <= kept THEN s.out[i] ELSE head[i - kept]
  <2> DEFINE o == s.out
  <2> HIDE DEF o
  <2>1. o \in Seq(S) /\ Len(o) = kept
    BY <1>5 DEF o
  <2>2. /\ o \o head \in Seq(S) /\ Len(o \o head) = kept + fits
        /\ \A i \in 1..(kept + fits) :
            (o \o head)[i] = IF i <= kept THEN o[i] ELSE head[i - kept]
    BY <1>6, <2>1, ConcatProperties
  <2> QED BY <2>2 DEF o
<1>11. \A i \in 1..all : (s.out \o head)[i] = cut[i]
  <2> TAKE i \in 1..all
  <2>1. CASE i <= kept
    BY <1>1, <1>2, <1>5, <1>7, <1>9, <1>10, <2>1
  <2>2. CASE ~(i <= kept)
    <3>1. kept = n /\ i - n \in 1..fits /\ ~(i <= n) /\ i \in 1..(n + k)
      BY <1>1, <1>2, <2>2
    <3>2. (s.out \o head)[i] = head[i - n]
      BY <1>2, <1>10, <2>2, <3>1
    <3>3. cut[i] = more[i - n]
      BY <1>7, <1>9, <3>1
    <3> QED BY <1>6, <3>1, <3>2, <3>3
  <2> QED BY <2>1, <2>2
<1>12. s.out \o head = cut
  BY <1>2, <1>9, <1>10, <1>11, SeqEqual
<1>13. p.out = SubSeq(whole, 1, all) /\ p.out \in Seq(S)
  BY <1>4, <1>9, <1>12 DEF cut, head
<1>14. p \in Sinks(S)
  <2>1. p.out \in Seq(S) /\ p.cap \in Nat /\ p.total \in Nat
    BY <1>1, <1>4, <1>13
  <2>2. [out |-> p.out, cap |-> p.cap, total |-> p.total] \in Sinks(S)
    BY <2>1 DEF Sinks
  <2> QED BY <1>4, <2>2
<1> QED BY <1>4, <1>7, <1>13, <1>14 DEF Holds, whole, all, p

----------------------------------------------------------------------------
(* The merge rule.                                                         *)

\* Of the mergeable positions one is best, and no other.
LEMMA BestExists ==
  ASSUME NEW Tok, NEW v, IsTableOver(Tok, v), NEW s \in Seq(Tok), Mergeable(v, s) # {}
  PROVE  \E i \in Mergeable(v, s) : IsBest(v, s, i)
<1> DEFINE M == Mergeable(v, s)
           R == {RankAt(v, s, i) : i \in M}
<1>1. \A i \in M : i \in Nat /\ RankAt(v, s, i) \in Nat
  BY DEF Mergeable, RankAt, IsTableOver
<1> HIDE DEF M
<1>2. R \subseteq Nat /\ R # {}
  BY <1>1 DEF M
<1>3. PICK low \in R : \A r \in R : low <= r
  <2> HIDE DEF R
  <2> QED BY <1>2, LeastNatural
<1> DEFINE L == {i \in M : RankAt(v, s, i) = low}
<1>4. L \subseteq Nat /\ L # {}
  BY <1>1, <1>3
<1>5. PICK i \in L : \A k \in L : i <= k
  <2> HIDE DEF L
  <2> QED BY <1>4, LeastNatural
<1>6. ASSUME NEW k \in M
      PROVE  RankAt(v, s, i) < RankAt(v, s, k) \/ (RankAt(v, s, i) = RankAt(v, s, k) /\ i <= k)
  <2>1. low <= RankAt(v, s, k) /\ RankAt(v, s, i) = low /\ low \in Nat /\ RankAt(v, s, k) \in Nat
    BY <1>1, <1>3, <1>5
  <2>2. CASE RankAt(v, s, k) = low
    BY <1>5, <2>1, <2>2
  <2>3. CASE RankAt(v, s, k) # low
    BY <2>1, <2>3
  <2> QED BY <2>2, <2>3
<1> QED BY <1>5, <1>6 DEF IsBest, M

LEMMA BestUnique ==
  ASSUME NEW Tok, NEW v, IsTableOver(Tok, v), NEW s \in Seq(Tok),
         NEW i, NEW k, IsBest(v, s, i), IsBest(v, s, k)
  PROVE  i = k
<1>1. \A x \in Mergeable(v, s) : x \in Nat /\ RankAt(v, s, x) \in Nat
  BY DEF Mergeable, RankAt, IsTableOver
<1> QED BY <1>1 DEF IsBest

\* A merge makes one token of two.
LEMMA MergedType ==
  ASSUME NEW Tok, NEW v, IsTableOver(Tok, v), NEW s \in Seq(Tok), NEW i \in Mergeable(v, s)
  PROVE  MergedAt(v, s, i) \in Seq(Tok) /\ Len(MergedAt(v, s, i)) = Len(s) - 1
<1> DEFINE n == Len(s)
<1>1. n \in Nat /\ i \in 1..(n - 1) /\ v[<<s[i], s[i + 1]>>].id \in Tok
  BY DEF Mergeable, IsTableOver
<1>2. \A k \in 1..n : s[k] \in Tok
  OBVIOUS
<1>3. MergedAt(v, s, i) \in [1..(n - 1) -> Tok]
  <2> HIDE DEF n
  <2>1. ASSUME NEW k \in 1..(n - 1)
        PROVE  (IF k < i THEN s[k] ELSE IF k = i THEN v[<<s[i], s[i + 1]>>].id ELSE s[k + 1]) \in Tok
    BY <1>1, <1>2
  <2> QED BY <2>1 DEF MergedAt, n
<1>4. n - 1 \in Nat
  BY <1>1
<1> QED BY <1>3, <1>4

LEMMA RewrittenType ==
  ASSUME NEW Tok, NEW v, IsTableOver(Tok, v), NEW s \in Seq(Tok)
  PROVE  Rewritten(v, s) \in Seq(Tok)
<1>1. CASE Mergeable(v, s) = {}
  BY <1>1 DEF Rewritten
<1>2. CASE Mergeable(v, s) # {}
  <2> DEFINE i == CHOOSE k \in Mergeable(v, s) : IsBest(v, s, k)
  <2>1. i \in Mergeable(v, s)
    BY <1>2, BestExists
  <2> HIDE DEF i
  <2>2. MergedAt(v, s, i) \in Seq(Tok)
    BY <2>1, MergedType
  <2> QED BY <1>2, <2>2 DEF Rewritten, i
<1> QED BY <1>1, <1>2

\* The rule applied where it applies.
LEMMA RewrittenAt ==
  ASSUME NEW Tok, NEW v, IsTableOver(Tok, v), NEW s \in Seq(Tok), NEW i, IsBest(v, s, i)
  PROVE  Rewritten(v, s) = MergedAt(v, s, i)
<1> DEFINE c == CHOOSE k \in Mergeable(v, s) : IsBest(v, s, k)
<1>1. i \in Mergeable(v, s)
  BY DEF IsBest
<1>2. IsBest(v, s, c)
  BY <1>1
<1> HIDE DEF c
<1>3. c = i
  BY <1>2, BestUnique
<1> QED BY <1>1, <1>3 DEF Rewritten, c

\* What the recursive definition of Rewritings defines.
LEMMA RewritingsSteps ==
  ASSUME NEW Tok, NEW v, IsTableOver(Tok, v), NEW s \in Seq(Tok)
  PROVE  /\ Rewritings(v, s) \in [0..Len(s) -> Seq(Tok)]
         /\ Rewritings(v, s)[0] = s
         /\ \A m \in 1..Len(s) : Rewritings(v, s)[m] = Rewritten(v, Rewritings(v, s)[m - 1])
<1> DEFINE n == Len(s)
           Eq(f) == f = [m \in 0..n |-> IF m = 0 THEN s ELSE Rewritten(v, f[m - 1])]
           F == [m \in 1..n |-> [x \in Seq(Tok) |-> Rewritten(v, x)]]
           h == Rewritings(v, s)
<1>1. n \in Nat
  OBVIOUS
<1>2. F \in Steps(n, Seq(Tok))
  <2>1. [x \in Seq(Tok) |-> Rewritten(v, x)] \in [Seq(Tok) -> Seq(Tok)]
    BY RewrittenType
  <2> QED BY <2>1 DEF Steps
<1>3. h = CHOOSE f : Eq(f)
  BY DEF Rewritings
<1> HIDE DEF n, h
<1>4. PICK g : Iterated(g, n, Seq(Tok), s, F)
  <2> HIDE DEF F
  <2> QED BY <1>1, <1>2, Iterates
<1>5. Eq(g)
  <2>1. g \in [0..n -> Seq(Tok)] /\ g[0] = s
    BY <1>4 DEF Iterated
  <2>2. ASSUME NEW m \in 1..n PROVE g[m] = Rewritten(v, g[m - 1])
    <3>1. g[m] = F[m][g[m - 1]]
      BY <1>4 DEF Iterated
    <3>2. g[m - 1] \in Seq(Tok)
      BY <1>1, <2>1
    <3> QED BY <3>1, <3>2
  <2> HIDE DEF F
  <2>3. ASSUME NEW m \in 0..n PROVE g[m] = IF m = 0 THEN s ELSE Rewritten(v, g[m - 1])
    BY <2>1, <2>2
  <2> QED BY <2>1, <2>3
<1>6. Eq(h)
  <2> HIDE DEF Eq
  <2> QED BY <1>3, <1>5
<1>7. h[0] = s /\ \A m \in 1..n : h[m] = Rewritten(v, h[m - 1])
  BY <1>1, <1>6
<1> DEFINE T == {m \in 0..n : h[m] \in Seq(Tok)}
<1>8. 0 \in T
  BY <1>1, <1>7
<1>9. ASSUME NEW m \in 1..n, m - 1 \in T PROVE m \in T
  <2>1. h[m - 1] \in Seq(Tok)
    BY <1>9
  <2>2. Rewritten(v, h[m - 1]) \in Seq(Tok)
    BY <2>1, RewrittenType
  <2>3. h[m] \in Seq(Tok) /\ m \in 0..n
    BY <1>1, <1>7, <2>2
  <2> QED BY <2>3
<1>10. \A m \in 0..n : m \in T
  <2> HIDE DEF T
  <2> QED BY <1>1, <1>8, <1>9, UpTo
<1>11. \A m \in 0..n : h[m] \in Seq(Tok)
  BY <1>10
<1>12. h \in [0..n -> Seq(Tok)]
  BY <1>6, <1>11
<1> QED BY <1>7, <1>12 DEF n, h

LEMMA GreedyType ==
  ASSUME NEW Tok, NEW v, IsTableOver(Tok, v), NEW s \in Seq(Tok)
  PROVE  Greedy(v, s) \in Seq(Tok)
<1>1. Len(s) \in 0..Len(s)
  OBVIOUS
<1> QED BY <1>1, RewritingsSteps DEF Greedy

\* Once nothing merges, nothing changes.
LEMMA GreedyFixpoint ==
  ASSUME NEW Tok, NEW v, IsTableOver(Tok, v), NEW s \in Seq(Tok),
         NEW k \in 0..Len(s), Mergeable(v, Rewritings(v, s)[k]) = {}
  PROVE  Greedy(v, s) = Rewritings(v, s)[k]
<1> DEFINE n == Len(s)
           h == Rewritings(v, s)
           T == {m \in 0..n : k <= m => h[m] = h[k]}
<1>1. n \in Nat /\ \A m \in 1..n : h[m] = Rewritten(v, h[m - 1])
  BY RewritingsSteps
<1> HIDE DEF n, h
<1>2. k \in 0..n /\ Mergeable(v, h[k]) = {}
  BY DEF n, h
<1>3. 0 \in T
  BY <1>1, <1>2
<1>4. ASSUME NEW m \in 1..n, m - 1 \in T PROVE m \in T
  <2>1. CASE k = m
    BY <1>1, <2>1
  <2>2. CASE m < k
    BY <1>1, <1>2, <2>2
  <2>3. CASE k < m
    <3>1. k <= m - 1
      BY <1>1, <1>2, <2>3
    <3>2. h[m - 1] = h[k]
      BY <1>4, <3>1
    <3>3. h[m] = h[k]
      BY <1>1, <1>2, <3>2 DEF Rewritten
    <3> QED BY <1>1, <3>3
  <2> QED BY <1>1, <1>2, <2>1, <2>2, <2>3
<1>5. \A m \in 0..n : m \in T
  <2> HIDE DEF T
  <2> QED BY <1>1, <1>3, <1>4, UpTo
<1>6. h[n] = h[k]
  BY <1>1, <1>2, <1>5
<1> QED BY <1>6 DEF Greedy, h, n

\* One token stays what it is; two are merged if the table has them.
LEMMA GreedyOne ==
  ASSUME NEW Tok, NEW v, IsTableOver(Tok, v), NEW s \in Seq(Tok), Len(s) = 1
  PROVE  Greedy(v, s) = s
<1>1. Rewritings(v, s)[0] = s
  BY RewritingsSteps
<1>2. Mergeable(v, s) = {}
  BY DEF Mergeable
<1> QED BY <1>1, <1>2, GreedyFixpoint

LEMMA GreedyTwo ==
  ASSUME NEW Tok, NEW v, IsTableOver(Tok, v), NEW s \in Seq(Tok), Len(s) = 2
  PROVE  Greedy(v, s) = IF s \in DOMAIN v THEN <<v[s].id>> ELSE s
<1> DEFINE h == Rewritings(v, s)
<1>1. h[0] = s /\ \A m \in 1..2 : h[m] = Rewritten(v, h[m - 1])
  BY RewritingsSteps
<1>2. s = <<s[1], s[2]>>
  OBVIOUS
<1> HIDE DEF h
<1>3. CASE s \in DOMAIN v
  <2>1. 1 \in Mergeable(v, s)
    BY <1>2, <1>3 DEF Mergeable
  <2>2. \A k \in Mergeable(v, s) : k = 1
    BY DEF Mergeable
  <2>3. IsBest(v, s, 1)
    BY <2>1, <2>2 DEF IsBest
  <2>4. Rewritten(v, s) = MergedAt(v, s, 1)
    BY <2>3, RewrittenAt
  <2>5. MergedAt(v, s, 1) = <<v[s].id>>
    BY <1>2 DEF MergedAt
  <2>6. h[1] = <<v[s].id>>
    <3>1. h[1] = Rewritten(v, h[1 - 1])
      BY <1>1
    <3> QED BY <1>1, <2>4, <2>5, <3>1
  <2>7. Mergeable(v, h[1]) = {}
    BY <2>6 DEF Mergeable
  <2>8. Greedy(v, s) = h[1]
    BY <2>7, GreedyFixpoint DEF h
  <2> QED BY <1>3, <2>6, <2>8
<1>4. CASE s \notin DOMAIN v
  <2>1. Mergeable(v, s) = {}
    BY <1>2, <1>4 DEF Mergeable
  <2>2. Mergeable(v, h[0]) = {}
    BY <1>1, <2>1
  <2>3. Greedy(v, s) = h[0]
    BY <2>2, GreedyFixpoint DEF h
  <2> QED BY <1>1, <1>4, <2>3
<1> QED BY <1>3, <1>4
=============================================================================
