---------------------------- MODULE CensusProofs ----------------------------
(***************************************************************************)
(* The boundary lemma of the census, and the census itself: for every      *)
(* vocabulary, encoder and job, that a merge-order verdict is final and    *)
(* that a report says what the tokens were found to be.                    *)
(*                                                                         *)
(* The boundary lemma is an induction over the applications of the rule.   *)
(* The tokens made so far are blocks of the string's tokens, and a block   *)
(* of them is what the rule makes of its part of the string alone, after   *)
(* as many applications as tokens have gone from it: the next merge, where *)
(* it is inside the block, is the best one there too, and elsewhere it is  *)
(* none of the block's.  So a token, a block by itself, is all that its    *)
(* part of the string gives; and as merged tokens spell what their parts   *)
(* spell, that part is the token's own bytes.                              *)
(***************************************************************************)
EXTENDS Census, DataProofs, FiniteSetTheorems

\* The tokens of u have been made of the blocks of s between the cuts c, and a block of
\* several blocks gives by itself, after as many applications of the rule as tokens have
\* gone, the tokens it has given in s.
DerivesBy(v, s, u, c) ==
  /\ c \in [0..Len(u) -> 0..Len(s)]
  /\ \A a, b \in 0..Len(u) : a <= b => b - a <= c[b] - c[a]
  /\ \A a, b \in 0..Len(u) :
       a < b => Rewritings(v, SubSeq(s, c[a] + 1, c[b]))[(c[b] - c[a]) - (b - a)] = SubSeq(u, a + 1, b)

Derives(v, s, u) == \E c : DerivesBy(v, s, u, c)

\* A part of a sequence.
LEMMA PartOf ==
  ASSUME NEW Tok, NEW s \in Seq(Tok), NEW a \in 0..Len(s), NEW b \in 0..Len(s), a <= b
  PROVE  /\ SubSeq(s, a + 1, b) \in Seq(Tok) /\ Len(SubSeq(s, a + 1, b)) = b - a /\ b - a \in Nat
         /\ \A k \in 1..(b - a) : SubSeq(s, a + 1, b)[k] = s[a + k]
<1> DEFINE n == Len(s)
           x == SubSeq(s, a + 1, b)
<1>1. n \in Nat /\ a \in Nat /\ b \in Nat /\ b <= n /\ b - a \in Nat
  OBVIOUS
<1>2. \A k \in (a + 1)..b : s[k] \in Tok
  <2>1. \A k \in (a + 1)..b : k \in 1..n
    BY <1>1
  <2> QED BY <2>1
<1>3. x \in Seq(Tok) /\ Len(x) = b - a
  BY <1>1, <1>2
<1>4. ASSUME NEW k \in 1..(b - a) PROVE x[k] = s[a + k]
  <2>1. k \in 1..Len(x) /\ (a + 1) + k - 1 = a + k
    BY <1>1, <1>3
  <2> QED BY <2>1, <1>1, <1>3
<1> QED BY <1>1, <1>3, <1>4

\* Nothing has been made yet.
LEMMA DerivesItself ==
  ASSUME NEW Tok, NEW v, IsTableOver(Tok, v), NEW s \in Seq(Tok)
  PROVE  Derives(v, s, s)
<1> DEFINE n == Len(s)
           c == [k \in 0..n |-> k]
<1>1. n \in Nat /\ c \in [0..n -> 0..n] /\ \A k \in 0..n : c[k] = k
  OBVIOUS
<1> HIDE DEF c
<1>2. ASSUME NEW a \in 0..n, NEW b \in 0..n, a < b
      PROVE  Rewritings(v, SubSeq(s, c[a] + 1, c[b]))[(c[b] - c[a]) - (b - a)] = SubSeq(s, a + 1, b)
  <2> DEFINE x == SubSeq(s, a + 1, b)
  <2>1. x \in Seq(Tok)
    BY <1>1, <1>2, PartOf
  <2> HIDE DEF x
  <2>2. Rewritings(v, x)[0] = x
    BY <2>1, RewritingsSteps
  <2>3. c[a] = a /\ c[b] = b /\ (c[b] - c[a]) - (b - a) = 0
    BY <1>1
  <2> QED BY <2>2, <2>3 DEF x
<1>3. \A a, b \in 0..n : a <= b => b - a <= c[b] - c[a]
  BY <1>1
<1>4. DerivesBy(v, s, s, c)
  BY <1>1, <1>2, <1>3, Zenon DEF DerivesBy
<1> QED BY <1>4 DEF Derives

\* The best place of all is the best in every part it is in.
LEMMA BestInPart ==
  ASSUME NEW Tok, NEW v, IsTableOver(Tok, v), NEW u \in Seq(Tok), NEW p, IsBest(v, u, p),
         NEW a \in 0..Len(u), NEW b \in 0..Len(u), a < p, p < b
  PROVE  IsBest(v, SubSeq(u, a + 1, b), p - a)
<1> DEFINE n == Len(u)
           x == SubSeq(u, a + 1, b)
<1>1. p \in Mergeable(v, u) /\ p \in 1..(n - 1) /\ n \in Nat /\ a < b /\ a <= b
  BY DEF IsBest, Mergeable
<1>2. x \in Seq(Tok) /\ Len(x) = b - a /\ b - a \in Nat /\ \A k \in 1..(b - a) : x[k] = u[a + k]
  BY <1>1, PartOf
<1> HIDE DEF x
<1>3. ASSUME NEW k \in 1..((b - a) - 1) PROVE x[k] = u[a + k] /\ x[k + 1] = u[(a + k) + 1] /\ a + k \in 1..(n - 1)
  <2>1. k \in 1..(b - a) /\ k + 1 \in 1..(b - a) /\ a + (k + 1) = (a + k) + 1 /\ a + k \in 1..(n - 1)
    BY <1>1
  <2>2. x[k + 1] = u[a + (k + 1)]
    BY <1>2, <2>1
  <2> QED BY <1>2, <2>1, <2>2
<1>4. ASSUME NEW k \in Mergeable(v, x)
      PROVE  a + k \in Mergeable(v, u) /\ RankAt(v, x, k) = RankAt(v, u, a + k) /\ k \in Nat
  <2>1. k \in 1..((b - a) - 1) /\ <<x[k], x[k + 1]>> \in DOMAIN v
    BY <1>2 DEF Mergeable
  <2>2. <<x[k], x[k + 1]>> = <<u[a + k], u[(a + k) + 1]>> /\ a + k \in 1..(n - 1)
    BY <1>3, <2>1
  <2> QED BY <2>1, <2>2 DEF Mergeable, RankAt
<1>5. p - a \in Mergeable(v, x) /\ a + (p - a) = p
  <2>1. p - a \in 1..((b - a) - 1) /\ a + (p - a) = p
    BY <1>1
  <2>2. <<x[p - a], x[(p - a) + 1]>> = <<u[p], u[p + 1]>>
    BY <1>3, <2>1
  <2>3. <<u[p], u[p + 1]>> \in DOMAIN v
    BY <1>1 DEF Mergeable
  <2> QED BY <1>2, <2>1, <2>2, <2>3 DEF Mergeable
<1>6. RankAt(v, x, p - a) = RankAt(v, u, p)
  BY <1>4, <1>5
<1>7. ASSUME NEW k \in Mergeable(v, x)
      PROVE  \/ RankAt(v, x, p - a) < RankAt(v, x, k)
             \/ RankAt(v, x, p - a) = RankAt(v, x, k) /\ p - a <= k
  <2>1. a + k \in Mergeable(v, u) /\ RankAt(v, x, k) = RankAt(v, u, a + k) /\ k \in Nat
    BY <1>4
  <2>2. \/ RankAt(v, u, p) < RankAt(v, u, a + k)
        \/ RankAt(v, u, p) = RankAt(v, u, a + k) /\ p <= a + k
    BY <2>1 DEF IsBest
  <2>3. p <= a + k => p - a <= k
    BY <1>1, <2>1
  <2> QED BY <1>6, <2>1, <2>2, <2>3
<1> QED BY <1>5, <1>7 DEF IsBest, x

\* To merge in a part is to take that part of what was merged.
LEMMA MergedPart ==
  ASSUME NEW Tok, NEW v, IsTableOver(Tok, v), NEW u \in Seq(Tok), NEW p \in Mergeable(v, u),
         NEW a \in 0..Len(u), NEW b \in 0..Len(u), a < p, p < b
  PROVE  MergedAt(v, SubSeq(u, a + 1, b), p - a) = SubSeq(MergedAt(v, u, p), a + 1, b - 1)
<1> DEFINE n == Len(u)
           x == SubSeq(u, a + 1, b)
           w == MergedAt(v, u, p)
           y == MergedAt(v, x, p - a)
           z == SubSeq(w, a + 1, b - 1)
<1>1. p \in 1..(n - 1) /\ n \in Nat /\ a \in Nat /\ b \in Nat /\ b <= n /\ a <= b
  BY DEF Mergeable
<1>2. x \in Seq(Tok) /\ Len(x) = b - a /\ b - a \in Nat /\ \A k \in 1..(b - a) : x[k] = u[a + k]
  BY <1>1, PartOf
<1>3. w \in Seq(Tok) /\ Len(w) = n - 1
  BY MergedType
<1>4. \A k \in 1..(n - 1) :
        w[k] = IF k < p THEN u[k] ELSE IF k = p THEN v[<<u[p], u[p + 1]>>].id ELSE u[k + 1]
  BY DEF MergedAt
<1> HIDE DEF w
<1>5. a \in 0..Len(w) /\ b - 1 \in 0..Len(w) /\ a <= b - 1 /\ (b - 1) - a = (b - a) - 1
  BY <1>1, <1>3
<1>6. /\ Len(z) = (b - a) - 1 /\ z \in Seq(Tok)
      /\ \A k \in 1..((b - a) - 1) : z[k] = w[a + k]
  <2>1. /\ z \in Seq(Tok) /\ Len(z) = (b - 1) - a
        /\ \A k \in 1..((b - 1) - a) : z[k] = w[a + k]
    BY <1>3, <1>5, PartOf
  <2> QED BY <1>5, <2>1
<1> HIDE DEF x, z
<1>7. x[p - a] = u[p] /\ x[(p - a) + 1] = u[p + 1]
  <2>1. p - a \in 1..(b - a) /\ (p - a) + 1 \in 1..(b - a) /\ a + (p - a) = p /\ a + ((p - a) + 1) = p + 1
    BY <1>1
  <2>2. x[p - a] = u[a + (p - a)] /\ x[(p - a) + 1] = u[a + ((p - a) + 1)]
    BY <1>2, <2>1
  <2> QED BY <2>1, <2>2
<1>8. y = [k \in 1..((b - a) - 1) |->
             IF k < p - a THEN x[k]
             ELSE IF k = p - a THEN v[<<x[p - a], x[(p - a) + 1]>>].id ELSE x[k + 1]]
  BY <1>2 DEF MergedAt
<1> HIDE DEF y
<1>9. ASSUME NEW k \in 1..((b - a) - 1) PROVE y[k] = z[k]
  <2>1. /\ k \in 1..(b - a) /\ k + 1 \in 1..(b - a) /\ a + k \in 1..(n - 1)
        /\ a + (k + 1) = (a + k) + 1 /\ (k < p - a <=> a + k < p) /\ (k = p - a <=> a + k = p)
    BY <1>1
  <2>2. x[k] = u[a + k] /\ x[k + 1] = u[(a + k) + 1]
    BY <1>2, <2>1
  <2>3. w[a + k] = IF a + k < p THEN u[a + k]
                   ELSE IF a + k = p THEN v[<<u[p], u[p + 1]>>].id ELSE u[(a + k) + 1]
    BY <1>4, <2>1
  <2>4. y[k] = IF k < p - a THEN x[k]
               ELSE IF k = p - a THEN v[<<u[p], u[p + 1]>>].id ELSE x[k + 1]
    BY <1>7, <1>8
  <2>5. z[k] = w[a + k]
    BY <1>6
  <2> QED BY <2>1, <2>2, <2>3, <2>4, <2>5
<1>10. z = [k \in 1..((b - a) - 1) |-> z[k]]
  BY <1>6
<1>11. y = [k \in 1..((b - a) - 1) |-> y[k]]
  BY <1>8
<1>12. y = z
  BY <1>9, <1>10, <1>11
<1> QED BY <1>12 DEF y, z, x, w

\* A part that the merge is not in stays what it is.
LEMMA UnmergedPart ==
  ASSUME NEW Tok, NEW v, IsTableOver(Tok, v), NEW u \in Seq(Tok), NEW p \in Mergeable(v, u),
         NEW a \in 0..(Len(u) - 1), NEW b \in 0..(Len(u) - 1), a < b, b < p \/ p <= a
  PROVE  SubSeq(MergedAt(v, u, p), a + 1, b) =
           IF b < p THEN SubSeq(u, a + 1, b) ELSE SubSeq(u, (a + 1) + 1, b + 1)
<1> DEFINE n == Len(u)
           w == MergedAt(v, u, p)
           d == IF b < p THEN 0 ELSE 1
           x == SubSeq(u, (a + d) + 1, b + d)
           z == SubSeq(w, a + 1, b)
<1>1. p \in 1..(n - 1) /\ n \in Nat /\ a \in Nat /\ b \in Nat /\ a <= b /\ d \in {0, 1}
  BY DEF Mergeable
<1>2. w \in Seq(Tok) /\ Len(w) = n - 1
  BY MergedType
<1>3. \A k \in 1..(n - 1) :
        w[k] = IF k < p THEN u[k] ELSE IF k = p THEN v[<<u[p], u[p + 1]>>].id ELSE u[k + 1]
  BY DEF MergedAt
<1> HIDE DEF w
<1>4. z \in Seq(Tok) /\ Len(z) = b - a /\ \A k \in 1..(b - a) : z[k] = w[a + k]
  BY <1>2, PartOf
<1>5. x \in Seq(Tok) /\ Len(x) = b - a /\ \A k \in 1..(b - a) : x[k] = u[(a + d) + k]
  <2>1. a + d \in 0..n /\ b + d \in 0..n /\ a + d <= b + d /\ (b + d) - (a + d) = b - a
    BY <1>1
  <2> HIDE DEF d, n
  <2>2. /\ x \in Seq(Tok) /\ Len(x) = (b + d) - (a + d)
        /\ \A k \in 1..((b + d) - (a + d)) : x[k] = u[(a + d) + k]
    BY <2>1, PartOf DEF n
  <2> QED BY <2>1, <2>2
<1> HIDE DEF x, z
<1>6. ASSUME NEW k \in 1..(b - a) PROVE z[k] = x[k]
  <2>1. a + k \in 1..(n - 1) /\ (d = 0 => a + k < p) /\ (d = 1 => p < a + k)
    BY <1>1
  <2>2. (a + d) + k = IF d = 0 THEN a + k ELSE (a + k) + 1
    BY <1>1
  <2>3. z[k] = w[a + k] /\ x[k] = u[(a + d) + k]
    BY <1>4, <1>5
  <2>4. w[a + k] = IF a + k < p THEN u[a + k]
                   ELSE IF a + k = p THEN v[<<u[p], u[p + 1]>>].id ELSE u[(a + k) + 1]
    BY <1>3, <2>1
  <2> HIDE DEF d
  <2> QED BY <1>1, <2>1, <2>2, <2>3, <2>4
<1>7. z = x
  <2>1. z = [k \in 1..(b - a) |-> z[k]]
    BY <1>4
  <2>2. x = [k \in 1..(b - a) |-> x[k]]
    BY <1>5
  <2> QED BY <1>6, <2>1, <2>2
<1>8. CASE b < p
  BY <1>7, <1>8 DEF x, z, w
<1>9. CASE ~(b < p)
  BY <1>7, <1>9 DEF x, z, w
<1> QED BY <1>8, <1>9

\* The rule applied once more keeps it so: the cut inside the merged pair goes.
LEMMA DerivesStep ==
  ASSUME NEW Tok, NEW v, IsTableOver(Tok, v), NEW s \in Seq(Tok), NEW u \in Seq(Tok),
         NEW p, IsBest(v, u, p), Derives(v, s, u)
  PROVE  Derives(v, s, MergedAt(v, u, p))
<1> DEFINE n == Len(u)
           l == Len(s)
           w == MergedAt(v, u, p)
           At(k) == IF k < p THEN k ELSE k + 1
           R(a, b) == Rewritings(v, SubSeq(s, a + 1, b))
<1>1. PICK c : DerivesBy(v, s, u, c)
  BY DEF Derives
<1>2. p \in Mergeable(v, u) /\ p \in 1..(n - 1) /\ n \in Nat /\ l \in Nat
  BY DEF IsBest, Mergeable
<1>3. w \in Seq(Tok) /\ Len(w) = n - 1
  BY <1>2, MergedType
<1>4. /\ c \in [0..n -> 0..l]
      /\ \A a, b \in 0..n : a <= b => b - a <= c[b] - c[a]
      /\ \A a, b \in 0..n : a < b => R(c[a], c[b])[(c[b] - c[a]) - (b - a)] = SubSeq(u, a + 1, b)
  BY <1>1, Zenon DEF DerivesBy
<1> DEFINE e == [k \in 0..(n - 1) |-> c[At(k)]]
<1>5. \A k \in 0..(n - 1) : e[k] = c[At(k)] /\ At(k) \in 0..n /\ c[At(k)] \in 0..l
  <2> SUFFICES ASSUME NEW k \in 0..(n - 1)
               PROVE  e[k] = c[At(k)] /\ At(k) \in 0..n /\ c[At(k)] \in 0..l
    OBVIOUS
  <2>1. At(k) \in 0..n
    BY <1>2
  <2>2. e[k] = c[At(k)]
    OBVIOUS
  <2> HIDE DEF At, n, l, e
  <2> QED BY <1>4, <2>1, <2>2
<1>6. e \in [0..(n - 1) -> 0..l]
  BY <1>5
<1> HIDE DEF e, w, R
<1>7. ASSUME NEW a \in 0..(n - 1), NEW b \in 0..(n - 1), a <= b PROVE b - a <= e[b] - e[a]
  <2>1. At(a) <= At(b) /\ b - a <= At(b) - At(a) /\ At(a) \in 0..n /\ At(b) \in 0..n
    BY <1>2, <1>7
  <2> HIDE DEF At
  <2>2. At(b) - At(a) <= c[At(b)] - c[At(a)] /\ c[At(b)] \in 0..l /\ c[At(a)] \in 0..l
    BY <1>4, <2>1
  <2>3. e[b] = c[At(b)] /\ e[a] = c[At(a)]
    BY <1>5
  <2> QED BY <2>1, <2>2, <2>3
<1>8. ASSUME NEW a \in 0..(n - 1), NEW b \in 0..(n - 1), a < b
      PROVE  R(e[a], e[b])[(e[b] - e[a]) - (b - a)] = SubSeq(w, a + 1, b)
  <2>1. e[b] = c[At(b)] /\ e[a] = c[At(a)] /\ At(a) \in 0..n /\ At(b) \in 0..n /\ At(a) < At(b)
    <3>1. e[b] = c[At(b)] /\ e[a] = c[At(a)]
      BY <1>5
    <3>2. At(a) \in 0..n /\ At(b) \in 0..n /\ At(a) < At(b)
      BY <1>2, <1>8
    <3> QED BY <3>1, <3>2
  <2>2. R(e[a], e[b])[(e[b] - e[a]) - (At(b) - At(a))] = SubSeq(u, At(a) + 1, At(b))
    <3> HIDE DEF At
    <3> QED BY <1>4, <2>1
  <2>3. CASE b < p \/ p <= a
    <3>1. At(b) - At(a) = b - a
      BY <1>2, <1>8, <2>3
    <3>2. SubSeq(w, a + 1, b) = SubSeq(u, At(a) + 1, At(b))
      <4>1. SubSeq(w, a + 1, b) =
              IF b < p THEN SubSeq(u, a + 1, b) ELSE SubSeq(u, (a + 1) + 1, b + 1)
        BY <1>2, <1>8, <2>3, UnmergedPart DEF w
      <4>2. CASE b < p
        <5>1. At(a) = a /\ At(b) = b
          BY <1>2, <1>8, <4>2
        <5> QED BY <4>1, <4>2, <5>1
      <4>3. CASE ~(b < p)
        <5>1. At(a) = a + 1 /\ At(b) = b + 1
          BY <1>2, <1>8, <2>3, <4>3
        <5> QED BY <4>1, <4>3, <5>1
      <4> QED BY <4>2, <4>3
    <3> HIDE DEF At
    <3> QED BY <2>2, <3>1, <3>2
  <2>4. CASE a < p /\ p <= b
    <3> DEFINE b1 == b + 1
               x == SubSeq(s, e[a] + 1, e[b])
               q == SubSeq(u, a + 1, b1)
               m == (e[b] - e[a]) - (b - a)
    <3>1. At(a) = a /\ At(b) = b1 /\ a < p /\ p < b1 /\ a \in 0..n /\ b1 \in 0..n /\ b1 - 1 = b
      BY <1>2, <1>8, <2>4
    <3>2. IsBest(v, q, p - a)
      <4> HIDE DEF At, b1
      <4> QED BY <3>1, BestInPart
    <3>3. MergedAt(v, q, p - a) = SubSeq(w, a + 1, b)
      <4>1. MergedAt(v, q, p - a) = SubSeq(MergedAt(v, u, p), a + 1, b1 - 1)
        <5> HIDE DEF At, b1
        <5> QED BY <1>2, <3>1, MergedPart
      <4> QED BY <3>1, <4>1 DEF w
    <3>4. q \in Seq(Tok)
      <4>1. a <= b1
        BY <1>2, <1>8
      <4> HIDE DEF At, b1
      <4> QED BY <3>1, <4>1, PartOf
    <3>5. Rewritten(v, q) = SubSeq(w, a + 1, b)
      <4> HIDE DEF q
      <4> QED BY <3>2, <3>3, <3>4, RewrittenAt
    <3>6. x \in Seq(Tok) /\ Len(x) = e[b] - e[a] /\ m \in 1..Len(x) /\ b - a \in Nat
      <4>1. e[a] \in 0..l /\ e[b] \in 0..l /\ b1 - a <= e[b] - e[a]
        <5>1. b1 - a <= c[b1] - c[a]
          <6>1. a <= b1
            BY <1>2, <1>8
          <6> HIDE DEF b1
          <6> QED BY <1>4, <3>1, <6>1
        <5>2. e[a] = c[a] /\ e[b] = c[b1]
          <6> HIDE DEF At, b1
          <6> QED BY <2>1, <3>1
        <5> QED BY <1>6, <5>1, <5>2
      <4>2. e[a] <= e[b] /\ b - a \in 1..n
        BY <1>2, <1>8, <4>1
      <4>3. x \in Seq(Tok) /\ Len(x) = e[b] - e[a]
        BY <4>1, <4>2, PartOf
      <4> HIDE DEF x
      <4> QED BY <1>2, <4>1, <4>2, <4>3
    <3> HIDE DEF x
    <3>7. Rewritings(v, x)[m] = Rewritten(v, Rewritings(v, x)[m - 1])
      <4> HIDE DEF m
      <4> QED BY <3>6, RewritingsSteps
    <3>8. Rewritings(v, x)[m - 1] = q
      <4>1. m - 1 = (e[b] - e[a]) - (At(b) - At(a))
        <5>1. a \in Int /\ b \in Int /\ e[a] \in Int /\ e[b] \in Int
          BY <1>2, <1>6
        <5>2. At(b) - At(a) = (b - a) + 1
          <6> HIDE DEF At
          <6> QED BY ONLY <3>1, <5>1
        <5> HIDE DEF At
        <5> QED BY ONLY <5>1, <5>2 DEF m
      <4> HIDE DEF m, At, b1
      <4> QED BY <2>2, <3>1, <4>1 DEF R, x
    <3>9. Rewritings(v, x)[m] = SubSeq(w, a + 1, b)
      <4> HIDE DEF m, q
      <4> QED BY <3>5, <3>7, <3>8
    <3> QED BY <3>9 DEF R, x
  <2>5. (a < p /\ p <= b) \/ (b < p \/ p <= a)
    BY <1>2
  <2> QED BY ONLY <2>3, <2>4, <2>5, Zenon
<1>9. DerivesBy(v, s, w, e)
  <2> HIDE DEF n, l
  <2> QED BY <1>3, <1>6, <1>7, <1>8, Zenon DEF DerivesBy, R, n, l
<1> QED BY <1>9 DEF Derives, w

\* What the rule has made after any number of applications.
LEMMA AllDerive ==
  ASSUME NEW Tok, NEW v, IsTableOver(Tok, v), NEW s \in Seq(Tok)
  PROVE  \A m \in 0..Len(s) : Derives(v, s, Rewritings(v, s)[m])
<1> DEFINE n == Len(s)
           h == Rewritings(v, s)
           T == {m \in 0..n : Derives(v, s, h[m])}
<1>1. n \in Nat /\ h \in [0..n -> Seq(Tok)] /\ h[0] = s /\ \A m \in 1..n : h[m] = Rewritten(v, h[m - 1])
  BY RewritingsSteps
<1> HIDE DEF n, h
<1>2. 0 \in T
  BY <1>1, DerivesItself
<1>3. ASSUME NEW m \in 1..n, m - 1 \in T PROVE m \in T
  <2> DEFINE u == h[m - 1]
  <2>1. u \in Seq(Tok) /\ Derives(v, s, u) /\ h[m] = Rewritten(v, u) /\ m \in 0..n
    BY <1>1, <1>3
  <2> HIDE DEF u
  <2>2. CASE Mergeable(v, u) = {}
    BY <2>1, <2>2 DEF Rewritten
  <2>3. CASE Mergeable(v, u) # {}
    <3>1. PICK p : IsBest(v, u, p)
      BY <2>1, <2>3, BestExists
    <3>2. h[m] = MergedAt(v, u, p)
      BY <2>1, <3>1, RewrittenAt
    <3>3. Derives(v, s, h[m])
      BY <2>1, <3>1, <3>2, DerivesStep
    <3> QED BY <2>1, <3>3
  <2> QED BY <2>2, <2>3
<1>4. \A m \in 0..n : m \in T
  <2> HIDE DEF T
  <2> QED BY <1>1, <1>2, <1>3, UpTo
<1> QED BY <1>4 DEF n, h

\* The boundary lemma (bp_census.c 13-18): each token of an encoding is, of the part of
\* the string it was made of, the whole encoding, for any table: what surrounds the part
\* only takes away from it or leaves it alone.
THEOREM Boundary ==
  ASSUME NEW Tok, NEW v, IsTableOver(Tok, v), NEW s \in Seq(Tok), NEW k \in 1..Len(Greedy(v, s))
  PROVE  \E a, b \in 0..Len(s) : a < b /\ Greedy(v, SubSeq(s, a + 1, b)) = <<Greedy(v, s)[k]>>
<1> DEFINE u == Greedy(v, s)
           n == Len(u)
<1>1. u \in Seq(Tok) /\ Derives(v, s, u)
  <2>1. Len(s) \in 0..Len(s)
    OBVIOUS
  <2> QED BY <2>1, AllDerive, GreedyType DEF Greedy
<1> HIDE DEF u
<1>2. PICK c : DerivesBy(v, s, u, c)
  BY <1>1 DEF Derives
<1>3. n \in Nat /\ k \in 1..n /\ k - 1 \in 0..n /\ k \in 0..n /\ k - 1 < k /\ k - (k - 1) = 1
  BY <1>1 DEF u
<1>4. /\ c \in [0..n -> 0..Len(s)]
      /\ \A a, b \in 0..n : a <= b => b - a <= c[b] - c[a]
      /\ \A a, b \in 0..n :
           a < b => Rewritings(v, SubSeq(s, c[a] + 1, c[b]))[(c[b] - c[a]) - (b - a)] = SubSeq(u, a + 1, b)
  BY <1>2, Zenon DEF DerivesBy
<1> DEFINE a == c[k - 1]
           b == c[k]
           x == SubSeq(s, a + 1, b)
           m == (b - a) - 1
<1>5. a \in 0..Len(s) /\ b \in 0..Len(s) /\ 1 <= b - a /\ a <= b
  <2>1. a \in 0..Len(s) /\ b \in 0..Len(s)
    BY <1>3, <1>4
  <2>2. k - (k - 1) <= b - a
    <3>1. k - 1 <= k
      BY <1>3
    <3> HIDE DEF n
    <3> QED BY <1>3, <1>4, <3>1
  <2> HIDE DEF a, b
  <2> QED BY <1>3, <2>1, <2>2
<1>6. Rewritings(v, x)[m] = SubSeq(u, (k - 1) + 1, k)
  BY <1>3, <1>4
<1>7. SubSeq(u, (k - 1) + 1, k) = <<u[k]>>
  <2> DEFINE y == SubSeq(u, (k - 1) + 1, k)
  <2>1. y \in Seq(Tok) /\ Len(y) = k - (k - 1) /\ \A q \in 1..(k - (k - 1)) : y[q] = u[(k - 1) + q]
    <3> HIDE DEF n
    <3> QED BY <1>1, <1>3, PartOf DEF n
  <2> HIDE DEF y
  <2>2. Len(y) = 1 /\ y[1] = u[k]
    <3>1. k - (k - 1) = 1 /\ (k - 1) + 1 = k /\ 1 \in 1..1
      BY <1>3
    <3>2. Len(y) = 1 /\ \A q \in 1..1 : y[q] = u[(k - 1) + q]
      BY ONLY <2>1, <3>1
    <3>3. y[1] = u[(k - 1) + 1]
      BY <3>1, <3>2
    <3> QED BY <3>1, <3>2, <3>3
  <2>3. y = <<u[k]>>
    BY <2>1, <2>2
  <2> QED BY <2>3 DEF y
<1>8. x \in Seq(Tok) /\ m \in 0..Len(x)
  <2>1. x \in Seq(Tok) /\ Len(x) = b - a
    <3> HIDE DEF a, b
    <3> QED BY <1>5, PartOf
  <2> QED BY <1>5, <2>1
<1> HIDE DEF x, m
<1>9. Mergeable(v, Rewritings(v, x)[m]) = {}
  BY <1>6, <1>7 DEF Mergeable
<1>10. Greedy(v, x) = <<u[k]>>
  BY <1>6, <1>7, <1>8, <1>9, GreedyFixpoint
<1>11. a < b
  <2> HIDE DEF a, b
  <2> QED BY <1>5
<1> HIDE DEF a, b
<1> QED BY <1>5, <1>10, <1>11 DEF u, x

----------------------------------------------------------------------------
(* What an encoding spells.                                                *)

\* What one token spells, and two.
LEMMA MappedOne ==
  ASSUME NEW D, NEW S, NEW W \in Maps(D, S), NEW x \in D
  PROVE  Mapped(W, <<x>>) = W[x]
<1>1. W[x] \in Seq(S) /\ <<>> \in Seq(Seq(S))
  BY DEF Maps
<1>2. [k \in 1..Len(<<x>>) |-> W[<<x>>[k]]] = Append(<<>>, W[x])
  OBVIOUS
<1>3. FlattenSeq(Append(<<>>, W[x])) = FlattenSeq(<<>>) \o W[x]
  BY <1>1, FlattenAppend
<1>4. <<>> \o W[x] = W[x]
  BY <1>1
<1> QED BY <1>2, <1>3, <1>4, FlattenEmpty DEF Mapped

LEMMA MappedTwo ==
  ASSUME NEW D, NEW S, NEW W \in Maps(D, S), NEW x \in D, NEW y \in D
  PROVE  Mapped(W, <<x, y>>) = W[x] \o W[y]
<1> DEFINE u == <<x>>
           w == <<y>>
<1>1. u \in Seq(D) /\ w \in Seq(D) /\ Len(u) = 1 /\ Len(w) = 1 /\ u[1] = x /\ w[1] = y
  OBVIOUS
<1>2. Mapped(W, u) = W[x] /\ Mapped(W, w) = W[y]
  BY MappedOne
<1> HIDE DEF u, w
<1>3. Mapped(W, u \o w) = Mapped(W, u) \o Mapped(W, w)
  BY <1>1, MappedConcat
<1>4. u \o w = <<x, y>>
  <2> DEFINE z == u \o w
  <2>0. /\ z \in Seq(D) /\ Len(z) = Len(u) + Len(w)
        /\ \A k \in 1..(Len(u) + Len(w)) : z[k] = IF k <= Len(u) THEN u[k] ELSE w[k - Len(u)]
    BY <1>1, ConcatProperties
  <2>1. z \in Seq(D) /\ Len(z) = 2 /\ z[1] = x /\ z[2] = y
    <3> HIDE DEF z
    <3>1. Len(u) + Len(w) = 2 /\ 1 \in 1..2 /\ 2 \in 1..2 /\ 1 <= Len(u) /\ ~(2 <= Len(u)) /\ 2 - Len(u) = 1
      BY <1>1
    <3>2. z[1] = u[1] /\ z[2] = w[1]
      BY <2>0, <3>1
    <3> QED BY <1>1, <2>0, <3>1, <3>2
  <2> HIDE DEF z
  <2>2. z = <<z[1], z[2]>>
    BY <2>1
  <2> QED BY <2>1, <2>2 DEF z
<1> QED BY <1>2, <1>3, <1>4

\* A sequence that is three others, one after the other.
LEMMA InThree ==
  ASSUME NEW S, NEW a \in Seq(S), NEW b \in Seq(S), NEW c \in Seq(S), NEW s \in Seq(S),
         Len(s) = (Len(a) + Len(b)) + Len(c),
         \A k \in 1..Len(a) : s[k] = a[k],
         \A k \in 1..Len(b) : s[Len(a) + k] = b[k],
         \A k \in 1..Len(c) : s[(Len(a) + Len(b)) + k] = c[k]
  PROVE  s = (a \o b) \o c
<1> DEFINE i == Len(a)
           j == Len(b)
           ab == a \o b
           z == ab \o c
           n == (i + j) + Len(c)
<1>1. /\ i \in Nat /\ j \in Nat /\ Len(c) \in Nat /\ n \in Nat
      /\ ab \in Seq(S) /\ Len(ab) = i + j
      /\ \A k \in 1..(i + j) : ab[k] = IF k <= i THEN a[k] ELSE b[k - i]
  BY ConcatProperties
<1> HIDE DEF ab
<1>2. /\ z \in Seq(S) /\ Len(z) = n
      /\ \A k \in 1..n : z[k] = IF k <= i + j THEN ab[k] ELSE c[k - (i + j)]
  <2>1. /\ z \in Seq(S) /\ Len(z) = Len(ab) + Len(c)
        /\ \A k \in 1..(Len(ab) + Len(c)) : z[k] = IF k <= Len(ab) THEN ab[k] ELSE c[k - Len(ab)]
    BY <1>1, ConcatProperties
  <2> QED BY <1>1, <2>1
<1> HIDE DEF z
<1>3. ASSUME NEW k \in 1..n PROVE s[k] = z[k]
  <2>1. CASE k <= i
    <3>1. k \in 1..(i + j) /\ k <= i + j /\ k \in 1..i
      BY <1>1, <2>1
    <3> QED BY <1>1, <1>2, <2>1, <3>1
  <2>2. CASE i < k /\ k <= i + j
    <3>1. k \in 1..(i + j) /\ k - i \in 1..j /\ i + (k - i) = k /\ ~(k <= i)
      BY <1>1, <2>2
    <3>2. s[i + (k - i)] = b[k - i]
      BY <3>1
    <3>3. z[k] = b[k - i]
      BY <1>1, <1>2, <2>2, <3>1
    <3> QED BY <3>1, <3>2, <3>3
  <2>3. CASE i + j < k
    <3>1. k - (i + j) \in 1..Len(c) /\ (i + j) + (k - (i + j)) = k /\ ~(k <= i + j)
      BY <1>1, <2>3
    <3>2. s[(i + j) + (k - (i + j))] = c[k - (i + j)]
      BY <3>1
    <3> QED BY <1>2, <3>1, <3>2
  <2> QED BY <1>1, <2>1, <2>2, <2>3
<1>4. s = [k \in 1..n |-> s[k]]
  OBVIOUS
<1>5. z = [k \in 1..n |-> z[k]]
  BY <1>2
<1>6. s = z
  BY <1>3, <1>4, <1>5
<1> QED BY <1>6 DEF z, ab

\* w spells three parts in a row as it spells each.
SpellsInThree(D, w) == \A x, y, z \in Seq(D) :
  Mapped(w, (x \o y) \o z) = (Mapped(w, x) \o Mapped(w, y)) \o Mapped(w, z)

LEMMA MappedThree ==
  ASSUME NEW D, NEW S, NEW W \in Maps(D, S)
  PROVE  SpellsInThree(D, W)
<1> SUFFICES ASSUME NEW x \in Seq(D), NEW y \in Seq(D), NEW z \in Seq(D)
             PROVE  Mapped(W, (x \o y) \o z) = (Mapped(W, x) \o Mapped(W, y)) \o Mapped(W, z)
  BY DEF SpellsInThree
<1> DEFINE u == x \o y
<1>1. u \in Seq(D)
  OBVIOUS
<1>2. Mapped(W, u) = Mapped(W, x) \o Mapped(W, y)
  BY MappedConcat
<1> HIDE DEF u
<1>3. Mapped(W, u \o z) = Mapped(W, u) \o Mapped(W, z)
  BY <1>1, MappedConcat
<1> QED BY <1>2, <1>3 DEF u

\* A merge does not change what is spelled.
LEMMA MergedSpells ==
  ASSUME NEW Tok, NEW v, IsTableOver(Tok, v), NEW S, NEW W \in Maps(Tok, S), Spells(W, v),
         NEW s \in Seq(Tok), NEW i \in Mergeable(v, s)
  PROVE  Mapped(W, MergedAt(v, s, i)) = Mapped(W, s)
<1> DEFINE n == Len(s)
           pr == <<s[i], s[i + 1]>>
           x == v[pr].id
           a == SubSeq(s, 0 + 1, i - 1)
           c == SubSeq(s, (i + 1) + 1, n)
           z == MergedAt(v, s, i)
<1>1. n \in Nat /\ i \in 1..(n - 1) /\ pr \in DOMAIN v /\ s[i] \in Tok /\ s[i + 1] \in Tok /\ x \in Tok
  BY DEF Mergeable, IsTableOver
<1>2. a \in Seq(Tok) /\ Len(a) = i - 1 /\ \A k \in 1..(i - 1) : a[k] = s[k]
  <2>1. 0 \in 0..n /\ i - 1 \in 0..n /\ 0 <= i - 1 /\ (i - 1) - 0 = i - 1
    BY <1>1
  <2>2. a \in Seq(Tok) /\ Len(a) = (i - 1) - 0 /\ \A k \in 1..((i - 1) - 0) : a[k] = s[0 + k]
    BY <2>1, PartOf
  <2> HIDE DEF a, n
  <2>3. \A k \in 1..(i - 1) : 0 + k = k
    BY <1>1
  <2> QED BY <2>1, <2>2, <2>3
<1>3. c \in Seq(Tok) /\ Len(c) = n - (i + 1) /\ \A k \in 1..(n - (i + 1)) : c[k] = s[(i + 1) + k]
  <2>1. i + 1 \in 0..n /\ n \in 0..n /\ i + 1 <= n
    BY <1>1
  <2> QED BY <2>1, PartOf
<1>4. z \in Seq(Tok) /\ Len(z) = n - 1
  BY MergedType
<1>5. \A k \in 1..(n - 1) :
        z[k] = IF k < i THEN s[k] ELSE IF k = i THEN x ELSE s[k + 1]
  BY DEF MergedAt
<1> HIDE DEF z, a, c, x
<1> DEFINE b == <<s[i], s[i + 1]>>
           y == <<x>>
<1>6. b \in Seq(Tok) /\ Len(b) = 2 /\ b[1] = s[i] /\ b[2] = s[i + 1]
  BY <1>1
<1>7. y \in Seq(Tok) /\ Len(y) = 1 /\ y[1] = x
  BY <1>1
<1> HIDE DEF b, y
<1>8. s = (a \o b) \o c
  <2>1. n = ((i - 1) + 2) + (n - (i + 1)) /\ (i - 1) + 2 = i + 1
    BY <1>1
  <2>2. \A k \in 1..2 : s[(i - 1) + k] = b[k]
    <3>1. (i - 1) + 1 = i /\ (i - 1) + 2 = i + 1
      BY <1>1
    <3>2. \A k \in 1..2 : k = 1 \/ k = 2
      OBVIOUS
    <3> QED BY <1>6, <3>1, <3>2
  <2>3. Len(s) = (Len(a) + Len(b)) + Len(c) /\ Len(a) = i - 1 /\ Len(b) = 2 /\ Len(a) + Len(b) = i + 1
    BY <1>1, <1>2, <1>3, <1>6, <2>1
  <2>4. /\ \A k \in 1..Len(a) : s[k] = a[k]
        /\ \A k \in 1..Len(b) : s[Len(a) + k] = b[k]
        /\ \A k \in 1..Len(c) : s[(Len(a) + Len(b)) + k] = c[k]
    BY <1>2, <1>3, <2>2, <2>3
  <2> HIDE DEF n
  <2> QED BY <1>2, <1>3, <1>6, <2>3, <2>4, InThree
<1>9. z = (a \o y) \o c
  <2>1. n - 1 = ((i - 1) + 1) + (n - (i + 1)) /\ (i - 1) + 1 = i
    BY <1>1
  <2>2. \A k \in 1..(i - 1) : z[k] = a[k]
    <3>1. \A k \in 1..(i - 1) : k \in 1..(n - 1) /\ k < i
      BY <1>1
    <3> QED BY <1>2, <1>5, <3>1
  <2>3. \A k \in 1..1 : z[(i - 1) + k] = y[k]
    <3>1. (i - 1) + 1 = i /\ i \in 1..(n - 1) /\ \A k \in 1..1 : k = 1
      BY <1>1
    <3>2. z[i] = x
      BY <1>5, <3>1
    <3> QED BY <1>7, <3>1, <3>2
  <2>4. \A k \in 1..(n - (i + 1)) : z[((i - 1) + 1) + k] = c[k]
    <3> SUFFICES ASSUME NEW k \in 1..(n - (i + 1)) PROVE z[((i - 1) + 1) + k] = c[k]
      OBVIOUS
    <3>1. ((i - 1) + 1) + k = i + k /\ i + k \in 1..(n - 1) /\ ~(i + k < i) /\ i + k # i
          /\ (i + k) + 1 = (i + 1) + k
      BY <1>1
    <3>2. z[i + k] = s[(i + k) + 1]
      BY <1>5, <3>1
    <3> QED BY <1>3, <3>1, <3>2
  <2>5. Len(z) = (Len(a) + Len(y)) + Len(c) /\ Len(a) = i - 1 /\ Len(y) = 1
    BY <1>1, <1>2, <1>3, <1>4, <1>7, <2>1
  <2>6. /\ \A k \in 1..Len(a) : z[k] = a[k]
        /\ \A k \in 1..Len(y) : z[Len(a) + k] = y[k]
        /\ \A k \in 1..Len(c) : z[(Len(a) + Len(y)) + k] = c[k]
    BY <1>3, <2>2, <2>3, <2>4, <2>5
  <2> HIDE DEF n
  <2> QED BY <1>2, <1>3, <1>4, <1>7, <2>5, <2>6, InThree
<1>10. Mapped(W, b) = Mapped(W, y)
  <2>1. Mapped(W, b) = W[s[i]] \o W[s[i + 1]]
    BY <1>1, MappedTwo DEF b
  <2>2. Mapped(W, y) = W[x]
    BY <1>1, MappedOne DEF y
  <2>3. W[x] = W[pr[1]] \o W[pr[2]]
    BY <1>1 DEF Spells, x
  <2> QED BY <2>1, <2>2, <2>3
<1>11. ASSUME NEW u \in Seq(Tok)
       PROVE  Mapped(W, (a \o u) \o c) = (Mapped(W, a) \o Mapped(W, u)) \o Mapped(W, c)
  <2>1. SpellsInThree(Tok, W)
    BY MappedThree
  <2> QED BY ONLY <1>2, <1>3, <1>11, <2>1, Zenon DEF SpellsInThree
<1>12. Mapped(W, s) = (Mapped(W, a) \o Mapped(W, b)) \o Mapped(W, c)
  <2>1. Mapped(W, (a \o b) \o c) = (Mapped(W, a) \o Mapped(W, b)) \o Mapped(W, c)
    BY <1>6, <1>11
  <2> QED BY ONLY <1>8, <2>1, Zenon
<1>13. Mapped(W, z) = (Mapped(W, a) \o Mapped(W, y)) \o Mapped(W, c)
  <2>1. Mapped(W, (a \o y) \o c) = (Mapped(W, a) \o Mapped(W, y)) \o Mapped(W, c)
    BY <1>7, <1>11
  <2> QED BY ONLY <1>9, <2>1, Zenon
<1> QED BY <1>10, <1>12, <1>13 DEF z

\* An encoding spells what it encodes.
LEMMA GreedySpells ==
  ASSUME NEW Tok, NEW v, IsTableOver(Tok, v), NEW S, NEW W \in Maps(Tok, S), Spells(W, v),
         NEW s \in Seq(Tok)
  PROVE  Mapped(W, Greedy(v, s)) = Mapped(W, s)
<1> DEFINE n == Len(s)
           h == Rewritings(v, s)
           T == {m \in 0..n : Mapped(W, h[m]) = Mapped(W, s)}
<1>1. n \in Nat /\ h \in [0..n -> Seq(Tok)] /\ h[0] = s /\ \A m \in 1..n : h[m] = Rewritten(v, h[m - 1])
  BY RewritingsSteps
<1> HIDE DEF n, h
<1>2. 0 \in T
  BY <1>1
<1>3. ASSUME NEW m \in 1..n, m - 1 \in T PROVE m \in T
  <2> DEFINE u == h[m - 1]
  <2>1. u \in Seq(Tok) /\ Mapped(W, u) = Mapped(W, s) /\ h[m] = Rewritten(v, u) /\ m \in 0..n
    BY <1>1, <1>3
  <2> HIDE DEF u
  <2>2. CASE Mergeable(v, u) = {}
    BY <2>1, <2>2 DEF Rewritten
  <2>3. CASE Mergeable(v, u) # {}
    <3>1. PICK p : IsBest(v, u, p)
      BY <2>1, <2>3, BestExists
    <3>2. h[m] = MergedAt(v, u, p) /\ p \in Mergeable(v, u)
      BY <2>1, <3>1, RewrittenAt DEF IsBest
    <3>3. Mapped(W, h[m]) = Mapped(W, u)
      BY <2>1, <3>2, MergedSpells
    <3> QED BY <2>1, <3>3
  <2> QED BY <2>2, <2>3
<1>4. \A m \in 0..n : m \in T
  <2> HIDE DEF T
  <2> QED BY <1>1, <1>2, <1>3, UpTo
<1>5. n \in 0..n
  BY <1>1
<1> QED BY <1>4, <1>5 DEF Greedy, n, h

\* The one-byte tokens of a string spell it.
LEMMA BytesSpell ==
  ASSUME NEW D, NEW S, NEW W \in Maps(D, S), NEW base,
         \A b \in S : base[b] \in D /\ W[base[b]] = <<b>>,
         NEW x \in Seq(S)
  PROVE  Mapped(W, BaseOf(base, x)) = x
<1> DEFINE n == Len(x)
           pre(m) == SubSeq(x, 1, m)
           T == {m \in 0..n : Mapped(W, BaseOf(base, pre(m))) = pre(m)}
<1>1. n \in Nat /\ \A m \in 1..n : x[m] \in S
  OBVIOUS
<1>2. ASSUME NEW y \in Seq(S) PROVE BaseOf(base, y) \in Seq(D) /\ Len(BaseOf(base, y)) = Len(y)
  <2>1. \A k \in 1..Len(y) : base[y[k]] \in D
    OBVIOUS
  <2> QED BY <2>1 DEF BaseOf
<1>3. ASSUME NEW y \in Seq(S), NEW b \in S PROVE BaseOf(base, Append(y, b)) = BaseOf(base, y) \o <<base[b]>>
  <2> DEFINE z == Append(y, b)
             u == BaseOf(base, y)
             l == Len(y)
  <2>1. /\ z \in Seq(S) /\ Len(z) = l + 1 /\ l \in Nat /\ z[l + 1] = b
        /\ \A k \in 1..l : z[k] = y[k]
    OBVIOUS
  <2>2. u \in Seq(D) /\ Len(u) = l /\ \A k \in 1..l : u[k] = base[y[k]]
    BY <1>2 DEF BaseOf
  <2>3. base[b] \in D
    OBVIOUS
  <2> HIDE DEF z, u
  <2>4. u \o <<base[b]>> = [k \in 1..(l + 1) |-> IF k <= l THEN u[k] ELSE base[b]]
    BY <2>1, <2>2, <2>3
  <2>5. ASSUME NEW k \in 1..(l + 1) PROVE base[z[k]] = IF k <= l THEN u[k] ELSE base[b]
    <3>1. CASE k <= l
      <4>1. k \in 1..l
        BY <2>1, <3>1
      <4> QED BY <2>1, <2>2, <3>1, <4>1
    <3>2. CASE ~(k <= l)
      <4>1. k = l + 1
        BY <2>1, <3>2
      <4> QED BY <2>1, <3>2, <4>1
    <3> QED BY <3>1, <3>2
  <2>6. [k \in 1..Len(z) |-> base[z[k]]] = u \o <<base[b]>>
    BY <2>1, <2>4, <2>5
  <2> QED BY <2>6 DEF z, u, BaseOf
<1>4. 0 \in T
  <2>1. pre(0) = <<>>
    BY SubSeqEmpty
  <2>2. BaseOf(base, <<>>) = <<>>
    BY DEF BaseOf
  <2> HIDE DEF pre
  <2>3. Mapped(W, <<>>) = <<>>
    BY MappedEmpty
  <2>4. Mapped(W, BaseOf(base, pre(0))) = pre(0) /\ 0 \in 0..n
    BY <1>1, <2>1, <2>2, <2>3
  <2> QED BY <2>4
<1>5. ASSUME NEW m \in 1..n, m - 1 \in T PROVE m \in T
  <2>1. pre(m - 1) \in Seq(S) /\ pre(m) = Append(pre(m - 1), x[m]) /\ x[m] \in S /\ m \in 0..n
    <3>1. m - 1 \in Nat /\ m - 1 <= n /\ m \in 0..n /\ x[m] \in S /\ m \in Nat /\ m <= n
      BY <1>1
    <3>2. \A k \in 1..(m - 1) : k \in 1..n
      BY <1>1
    <3>3. pre(m - 1) \in Seq(S) /\ Len(pre(m - 1)) = m - 1 /\ \A k \in 1..(m - 1) : pre(m - 1)[k] = x[k]
      BY <1>1, <3>1, <3>2
    <3>4. pre(m) = [k \in 1..m |-> x[k]]
      BY <1>1, <3>1
    <3> HIDE DEF pre
    <3>5. Append(pre(m - 1), x[m]) = [k \in 1..m |-> x[k]]
      <4> DEFINE w == pre(m - 1)
      <4>1. w \in Seq(S) /\ Len(w) = m - 1 /\ \A k \in 1..(m - 1) : w[k] = x[k]
        BY <3>3
      <4> HIDE DEF w
      <4>2. Append(w, x[m]) = [k \in 1..m |-> IF k <= m - 1 THEN w[k] ELSE x[m]]
        BY <3>1, <4>1
      <4>3. ASSUME NEW k \in 1..m PROVE (IF k <= m - 1 THEN w[k] ELSE x[m]) = x[k]
        BY <3>1, <4>1
      <4>4. Append(w, x[m]) = [k \in 1..m |-> x[k]]
        BY <4>2, <4>3
      <4> QED BY <4>4 DEF w
    <3> QED BY <3>1, <3>3, <3>4, <3>5
  <2>2. Mapped(W, BaseOf(base, pre(m - 1))) = pre(m - 1)
    BY <1>5
  <2> DEFINE y == pre(m - 1)
  <2> HIDE DEF pre
  <2>3. BaseOf(base, y) \in Seq(D) /\ BaseOf(base, pre(m)) = BaseOf(base, y) \o <<base[x[m]]>> /\ base[x[m]] \in D
    BY <1>2, <1>3, <2>1
  <2>4. Mapped(W, BaseOf(base, pre(m))) = Mapped(W, BaseOf(base, y)) \o Mapped(W, <<base[x[m]]>>)
    <3> DEFINE u == BaseOf(base, y)
               w == <<base[x[m]]>>
    <3>1. u \in Seq(D) /\ w \in Seq(D)
      BY <2>3
    <3>0. BaseOf(base, pre(m)) = u \o w
      BY <2>3
    <3> HIDE DEF u, w
    <3>2. Mapped(W, u \o w) = Mapped(W, u) \o Mapped(W, w)
      BY <3>1, MappedConcat
    <3> QED BY <3>0, <3>2 DEF u, w
  <2>5. Mapped(W, <<base[x[m]]>>) = <<x[m]>>
    <3> DEFINE d == base[x[m]]
    <3>1. d \in D /\ W[d] = <<x[m]>>
      BY <2>1, <2>3
    <3> HIDE DEF d
    <3>2. Mapped(W, <<d>>) = W[d]
      BY <3>1, MappedOne
    <3> QED BY <3>1, <3>2 DEF d
  <2>6. Append(y, x[m]) = y \o <<x[m]>>
    BY <2>1, AppendIsConcat
  <2> QED BY <2>1, <2>2, <2>4, <2>5, <2>6
<1>6. \A m \in 0..n : m \in T
  <2> HIDE DEF T, n
  <2> QED BY <1>1, <1>4, <1>5, UpTo
<1>7. pre(n) = x
  BY SubSeqFull
<1>8. n \in 0..n
  BY <1>1
<1> HIDE DEF pre
<1> QED BY <1>6, <1>7, <1>8

\* A token whose bytes do not give the token alone is in no encoding: the merge-order
\* proof of bp_census.c, where the merge engines are the greedy rule and merged tokens
\* spell their parts.
THEOREM MergeOrderIsFinal ==
  ASSUME NEW v, NEW toks, NEW table, NEW base, NEW spell, NEW id,
         IsGreedy(v, toks, table, base, spell, id, Seq(Byte)),
         NEW x \in Seq(Byte), NEW k \in DOMAIN Pure(v, x),
         Pure(v, x)[k] \in 0..(Len(v.bytes) - 1)
  PROVE  Pure(v, v.bytes[Pure(v, x)[k] + 1]) = <<Pure(v, x)[k]>>
<1> DEFINE s == BaseOf(base, x)
           g == Greedy(table, s)
<1>1. /\ IsTableOver(toks, table) /\ Spells(spell, table)
      /\ base \in [Byte -> toks] /\ spell \in Maps(toks, Byte)
      /\ \A b \in Byte : spell[base[b]] = <<b>>
  BY DEF IsGreedy, Maps
<1>2. \A z \in Seq(Byte) :
        Pure(v, z) = [n \in 1..Len(Greedy(table, BaseOf(base, z))) |-> id[Greedy(table, BaseOf(base, z))[n]]]
  BY DEF IsGreedy
<1>3. \A n \in toks : id[n] \in 0..(Len(v.bytes) - 1) => v.bytes[id[n] + 1] = spell[n]
  BY DEF IsGreedy
<1>4. ASSUME NEW z \in Seq(Byte) PROVE BaseOf(base, z) \in Seq(toks) /\ Len(BaseOf(base, z)) = Len(z)
  <2>1. \A n \in 1..Len(z) : base[z[n]] \in toks
    BY <1>1
  <2> QED BY <2>1 DEF BaseOf
<1>5. s \in Seq(toks) /\ Len(s) = Len(x)
  BY <1>4
<1>6. g \in Seq(toks)
  <2> HIDE DEF s
  <2> QED BY <1>1, <1>5, GreedyType
<1>7. k \in 1..Len(g) /\ Pure(v, x)[k] = id[g[k]] /\ g[k] \in toks
  <2>1. Pure(v, x) = [n \in 1..Len(g) |-> id[g[n]]]
    BY <1>2
  <2> HIDE DEF g
  <2>2. k \in 1..Len(g)
    BY <2>1
  <2> QED BY <1>6, <2>1, <2>2
<1>8. PICK a \in 0..Len(s), b \in 0..Len(s) : a < b /\ Greedy(table, SubSeq(s, a + 1, b)) = <<g[k]>>
  <2> HIDE DEF s
  <2> QED BY <1>1, <1>5, <1>7, Boundary
<1> DEFINE z == SubSeq(x, a + 1, b)
           y == BaseOf(base, z)
<1>9. a \in 0..Len(x) /\ b \in 0..Len(x) /\ a <= b
  BY <1>5, <1>8
<1>10. z \in Seq(Byte) /\ Len(z) = b - a /\ b - a \in Nat /\ \A n \in 1..(b - a) : z[n] = x[a + n]
  BY <1>9, PartOf
<1>11. y = SubSeq(s, a + 1, b)
  <2> DEFINE q == SubSeq(s, a + 1, b)
  <2>1. q \in Seq(toks) /\ Len(q) = b - a /\ \A n \in 1..(b - a) : q[n] = s[a + n]
    <3> HIDE DEF s
    <3>1. a \in 0..Len(s) /\ b \in 0..Len(s) /\ a <= b
      BY <1>5, <1>9
    <3> QED BY <1>5, <3>1, PartOf
  <2> HIDE DEF q, z
  <2>2. y = [n \in 1..(b - a) |-> base[z[n]]]
    BY <1>10 DEF BaseOf
  <2>3. ASSUME NEW n \in 1..(b - a) PROVE q[n] = base[z[n]]
    <3>1. a + n \in 1..Len(x)
      BY <1>9
    <3>2. s[a + n] = base[x[a + n]]
      BY <3>1 DEF BaseOf
    <3> HIDE DEF s
    <3> QED BY <1>10, <2>1, <3>2
  <2>4. q = [n \in 1..(b - a) |-> q[n]]
    BY <2>1
  <2> HIDE DEF y
  <2>5. y = q
    BY <2>2, <2>3, <2>4
  <2> QED BY <2>5 DEF q
<1>12. Greedy(table, y) = <<g[k]>>
  BY <1>8, <1>11
<1> HIDE DEF g, s, z
<1>13. z = spell[g[k]]
  <2>1. y \in Seq(toks)
    BY <1>4, <1>10
  <2>2. Mapped(spell, y) = z
    <3>1. \A q \in Byte : base[q] \in toks /\ spell[base[q]] = <<q>>
      BY <1>1
    <3> QED BY <1>1, <1>10, <3>1, BytesSpell
  <2> HIDE DEF y
  <2>3. Mapped(spell, Greedy(table, y)) = Mapped(spell, y)
    BY <1>1, <2>1, GreedySpells
  <2>4. Mapped(spell, <<g[k]>>) = spell[g[k]]
    BY <1>1, <1>7, MappedOne
  <2> QED BY <1>12, <2>2, <2>3, <2>4
<1>14. v.bytes[Pure(v, x)[k] + 1] = z
  BY <1>3, <1>7, <1>13
<1>15. Pure(v, z) = <<id[g[k]]>>
  <2> DEFINE c == Greedy(table, y)
  <2>1. Pure(v, z) = [n \in 1..Len(c) |-> id[c[n]]]
    BY <1>2, <1>10
  <2>2. c = <<g[k]>>
    BY <1>12
  <2> HIDE DEF c
  <2>3. Len(c) = 1 /\ c[1] = g[k]
    BY <2>2
  <2>4. \A n \in 1..1 : id[c[n]] = id[g[k]]
    BY <2>3
  <2>5. Pure(v, z) = [n \in 1..1 |-> id[g[k]]]
    BY <2>1, <2>3, <2>4
  <2> QED BY <2>5
<1> QED BY <1>7, <1>14, <1>15

----------------------------------------------------------------------------
(* The verdict.                                                            *)

Tests == {"pure", "self", "prove", "glue", "affixes", "fragments"}

\* What the encoder is taken for.
Encodes(v) ==
  /\ \E toks, table, base, spell, id : IsGreedy(v, toks, table, base, spell, id, Seq(Byte))
  /\ FromPretokens(v, Seq(Byte), Seq(Byte))

\* A token found to be impossible for its merge order.
Refused == pc = "report" /\ r.reason = "merge-order" /\ ~oom

OrderInv ==
  /\ vocab \in Vocabs /\ job \in Jobs /\ t \in Nat
  /\ pc \in Tests \cup {"token", "report"} => t < N
  /\ pc = "pure" => t \notin vocab.added
  /\ Refused => t \notin vocab.added /\ Pure(vocab, Spelled(t)) # <<t>>

\* The ids there are, and their bytes.
LEMMA VocabTyped ==
  ASSUME vocab \in Vocabs
  PROVE  N \in Nat /\ \A k \in Nat : k < N => Spelled(k) \in Seq(Byte) /\ k + 1 \in 1..N
<1>1. vocab.bytes \in Seq(Seq(Byte))
  BY JobsAssumption
<1>2. N \in Nat
  BY <1>1 DEF N
<1>3. ASSUME NEW k \in Nat, k < N PROVE Spelled(k) \in Seq(Byte) /\ k + 1 \in 1..N
  <2>1. k + 1 \in 1..N
    BY <1>2, <1>3
  <2> QED BY <1>1, <2>1 DEF Spelled, N
<1> QED BY <1>2, <1>3

\* How far the ids go.
LEMMA UptoRange ==
  ASSUME vocab \in Vocabs, job \in Jobs
  PROVE  Upto \in Nat /\ Upto <= N
<1>1. N \in Nat /\ job.limit \in Nat
  BY VocabTyped, JobsAssumption
<1> QED BY <1>1 DEF Upto

\* What the prover can say.
LEMMA ProofIsOther ==
  ASSUME NEW b
  PROVE  Proof(b) \in {"none", "contraction", "nfc-excluded", "pretoken-shape", "invalid-utf8"}
<1> DEFINE aligned == {a \in {Alignment(b, k) : k \in Leads(b)} : IsAlignment(a)}
           fitting == {a \in aligned : Fits(a)}
           short == Len(b) <= 3 /\ \A i \in 1..Len(b) : IsCont(b[i])
           rest == IF short THEN "none" ELSE IF aligned # {} THEN "pretoken-shape" ELSE "invalid-utf8"
<1>1. Proof(b) = CASE Blocked(b) -> "contraction"
                   [] ~Blocked(b) /\ \E a \in fitting : ~NeverNormal(a) -> "none"
                   [] ~Blocked(b) /\ fitting # {} /\ \A a \in fitting : NeverNormal(a) -> "nfc-excluded"
                   [] OTHER -> rest
  BY DEF Proof
<1>2. rest \in {"none", "pretoken-shape", "invalid-utf8"}
  OBVIOUS
<1> HIDE DEF aligned, fitting, rest
<1> DEFINE P == Blocked(b)
           Q == \E a \in fitting : ~NeverNormal(a)
           R == fitting # {}
           S == \A a \in fitting : NeverNormal(a)
<1>3. Proof(b) = CASE P -> "contraction" [] ~P /\ Q -> "none" [] ~P /\ R /\ S -> "nfc-excluded" [] OTHER -> rest
  BY <1>1
<1>4. ~(Q /\ S)
  OBVIOUS
<1> HIDE DEF P, Q, R, S
<1> QED BY <1>2, <1>3, <1>4

LEMMA OrderInit == Init => OrderInv
<1> SUFFICES ASSUME Init PROVE OrderInv
  OBVIOUS
<1>1. vocab \in Vocabs /\ job \in Jobs /\ t = 0 /\ pc = "begin"
  BY DEF Init
<1> QED BY <1>1 DEF OrderInv, Refused, Tests

\* A search settles for no other reason than none, or goes on.
LEMMA SearchOrder ==
  ASSUME NEW tries, NEW verdict, NEW next, NEW Q,
         Search(tries, verdict, Q), Q => pc' \notin {"pure", "token"} /\ (pc' = "report" => r'.reason # "merge-order")
  PROVE  pc' \notin {"pure", "token"} /\ (pc' = "report" => r'.reason # "merge-order")
<1>1. \/ \E w : Settle(verdict, "none", w)
      \/ Q
  BY Zenon DEF Search
<1>2. ASSUME NEW w, Settle(verdict, "none", w) PROVE pc' = "report" /\ r'.reason = "none"
  BY <1>2 DEF Settle
<1> QED BY <1>1, <1>2

LEMMA OrderStep == OrderInv /\ [Next]_vars => OrderInv'
<1> SUFFICES ASSUME OrderInv, [Next]_vars PROVE OrderInv'
  OBVIOUS
<1>1. /\ vocab \in Vocabs /\ job \in Jobs /\ t \in Nat
      /\ pc \in Tests \cup {"token", "report"} => t < N
      /\ pc = "pure" => t \notin vocab.added
      /\ Refused => t \notin vocab.added /\ Pure(vocab, Spelled(t)) # <<t>>
  BY DEF OrderInv
<1>2. N \in Nat /\ Upto \in Nat /\ Upto <= N
  BY <1>1, VocabTyped, UptoRange
<1>3. vocab' = vocab /\ job' = job
  <2>1. CASE Begin
    BY <2>1 DEF Begin
  <2>2. CASE NextToken
    BY <2>2 DEF NextToken
  <2>3. CASE Classify
    BY <2>3 DEF Classify
  <2>4. CASE PureTest
    BY <2>4 DEF PureTest
  <2>5. CASE SelfTest
    BY <2>5 DEF SelfTest
  <2>6. CASE Prove
    BY <2>6 DEF Prove
  <2>7. CASE TryGlue
    BY <2>7 DEF TryGlue
  <2>8. CASE TryAffixes
    BY <2>8 DEF TryAffixes
  <2>9. CASE TryFragments
    BY <2>9 DEF TryFragments
  <2>10. CASE Report
    BY <2>10 DEF Report
  <2>11. CASE Show
    BY <2>11 DEF Show
  <2>12. CASE UNCHANGED vars
    BY <2>12 DEF vars
  <2> QED BY <2>1, <2>2, <2>3, <2>4, <2>5, <2>6, <2>7, <2>8, <2>9, <2>10, <2>11, <2>12 DEF Next
<1>4. N' = N /\ Spelled(t)' = vocab.bytes[t' + 1]
  BY <1>3 DEF N, Spelled
\* A step that keeps the id and does not give the verdict.
<1>5. ASSUME t' = t, t < N, pc' # "pure", pc' = "report" => r'.reason # "merge-order"
      PROVE  OrderInv'
  BY <1>1, <1>3, <1>4, <1>5 DEF OrderInv, Refused
<1>6. CASE Begin
  <2>1. pc' \notin Tests \cup {"report"} /\ t' \in Nat /\ (pc' = "token" => t' < N)
    <3>1. CASE job.op = "run" /\ pc' = "next" /\ UNCHANGED <<t, rc>>
      BY <1>1, <3>1 DEF Tests
    <3>2. CASE job.op = "witness" /\ job.id < N /\ t' = job.id /\ pc' = "token" /\ UNCHANGED rc
      BY <1>1, <3>2, JobsAssumption DEF Tests
    <3>3. CASE job.op = "witness" /\ job.id >= N /\ rc' = 1 /\ pc' = "done" /\ UNCHANGED t
      BY <1>1, <3>3 DEF Tests
    <3> QED BY <1>6, <3>1, <3>2, <3>3 DEF Begin
  <2> QED BY <1>1, <1>3, <1>4, <2>1 DEF OrderInv, Refused, Tests
<1>7. CASE NextToken
  <2>1. pc' \notin Tests \cup {"report"} /\ t' \in Nat /\ (pc' = "token" => t' < N)
    <3>1. CASE t >= Upto
      BY <1>1, <1>7, <3>1 DEF NextToken, Tests
    <3>2. CASE ~(t >= Upto) /\ Spelled(t) = <<>>
      BY <1>1, <1>7, <3>2 DEF NextToken, Tests
    <3>3. CASE ~(t >= Upto) /\ Spelled(t) # <<>>
      BY <1>1, <1>2, <1>7, <3>3 DEF NextToken, Tests
    <3> QED BY <3>1, <3>2, <3>3
  <2> QED BY <1>1, <1>3, <1>4, <2>1 DEF OrderInv, Refused, Tests
<1>8. CASE Classify
  <2>1. t' = t /\ t < N
    BY <1>1, <1>8 DEF Classify
  <2>2. CASE t \in vocab.added
    <3>1. pc' = "report" /\ r'.reason = "none"
      BY <1>8, <2>2 DEF Classify, Settle
    <3> QED BY <1>5, <2>1, <3>1
  <2>3. CASE t \notin vocab.added /\ Len(Spelled(t)) > WMax
    <3>1. pc' = "report" /\ r'.reason = "none"
      BY <1>8, <2>3 DEF Classify, Settle
    <3> QED BY <1>5, <2>1, <3>1
  <2>4. CASE t \notin vocab.added /\ ~(Len(Spelled(t)) > WMax)
    <3>1. pc' = "pure"
      BY <1>8, <2>4 DEF Classify, Go
    <3> QED BY <1>1, <1>3, <1>4, <2>1, <2>4, <3>1 DEF OrderInv, Refused
  <2> QED BY <2>2, <2>3, <2>4
<1>9. CASE PureTest
  <2>1. t' = t /\ t < N /\ t \notin vocab.added
    BY <1>1, <1>9 DEF PureTest, Tests
  <2>2. CASE oom' = oom /\ Pure(vocab, Spelled(t)) = <<t>> /\ Go("self")
    <3>1. pc' = "self"
      BY <2>2 DEF Go
    <3> QED BY <1>5, <2>1, <3>1
  <2>3. CASE oom' = oom /\ Pure(vocab, Spelled(t)) # <<t>> /\ Settle("impossible", "merge-order", <<>>)
    <3>1. pc' = "report"
      BY <2>3 DEF Settle
    <3>2. Spelled(t)' = Spelled(t)
      BY <1>4, <2>1 DEF Spelled
    <3> QED BY <1>1, <1>3, <1>4, <2>1, <2>3, <3>1, <3>2 DEF OrderInv, Refused
  <2>4. CASE oom' = TRUE /\ Settle("impossible", "merge-order", <<>>)
    <3>1. pc' = "report"
      BY <2>4 DEF Settle
    <3> QED BY <1>1, <1>3, <1>4, <2>1, <2>4, <3>1 DEF OrderInv, Refused
  <2> QED BY <1>9, <2>2, <2>3, <2>4 DEF PureTest
<1>10. CASE SelfTest
  <2>1. t' = t /\ t < N
    BY <1>1, <1>10 DEF SelfTest, Tests
  <2>2. Go("prove") => pc' = "prove"
    BY DEF Go
  <2>3. pc' # "pure" /\ (pc' = "report" => r'.reason # "merge-order")
    BY <1>10, <2>2, SearchOrder DEF SelfTest
  <2> QED BY <1>5, <2>1, <2>3
<1>11. CASE Prove
  <2>1. t' = t /\ t < N
    BY <1>1, <1>11 DEF Prove, Tests
  <2>2. pc' # "pure" /\ (pc' = "report" => r'.reason # "merge-order")
    <3>1. CASE Settle("impossible", Proof(Spelled(t)), <<>>)
      <4>1. pc' = "report" /\ r'.reason = Proof(Spelled(t))
        BY <3>1 DEF Settle
      <4> QED BY <4>1, ProofIsOther
    <3>2. CASE Go("glue")
      BY <3>2 DEF Go
    <3> QED BY <1>11, <3>1, <3>2 DEF Prove
  <2> QED BY <1>5, <2>1, <2>2
<1>12. CASE TryGlue
  <2>1. t' = t /\ t < N
    BY <1>1, <1>12 DEF TryGlue, Tests
  <2>2. Go("affixes") => pc' = "affixes"
    BY DEF Go
  <2>3. pc' # "pure" /\ (pc' = "report" => r'.reason # "merge-order")
    BY <1>12, <2>2, SearchOrder DEF TryGlue
  <2> QED BY <1>5, <2>1, <2>3
<1>13. ASSUME Unresolved PROVE pc' = "report" /\ r'.reason = "none"
  BY <1>13 DEF Unresolved, Settle
<1>14. CASE TryAffixes
  <2>1. t' = t /\ t < N
    BY <1>1, <1>14 DEF TryAffixes, Tests
  <2> DEFINE Q == IF Deep THEN Go("fragments") ELSE Unresolved
  <2>2. Q => pc' # "pure" /\ (pc' = "report" => r'.reason # "merge-order")
    BY <1>13 DEF Go
  <2>3. pc' # "pure" /\ (pc' = "report" => r'.reason # "merge-order")
    <3>1. Search((Affixes(Deep) \X Affixes(Deep)) \ {<<<<>>, <<>>>>}, "context", Q)
      BY <1>14 DEF TryAffixes
    <3> HIDE DEF Q
    <3> QED BY <2>2, <3>1, SearchOrder
  <2> QED BY <1>5, <2>1, <2>3
<1>15. CASE TryFragments
  <2>1. t' = t /\ t < N
    BY <1>1, <1>15 DEF TryFragments, Tests
  <2>2. pc' # "pure" /\ (pc' = "report" => r'.reason # "merge-order")
    BY <1>13, <1>15, SearchOrder DEF TryFragments
  <2> QED BY <1>5, <2>1, <2>2
<1>16. CASE Report
  <2>1. pc' = "next" /\ t' = t + 1
    BY <1>16 DEF Report
  <2> QED BY <1>1, <1>3, <1>4, <2>1 DEF OrderInv, Refused, Tests
<1>17. CASE Show
  <2>1. pc' = "done" /\ t' = t
    BY <1>17 DEF Show
  <2> QED BY <1>1, <1>3, <1>4, <2>1 DEF OrderInv, Refused, Tests
<1>18. CASE UNCHANGED vars
  <2>1. pc' = pc /\ t' = t /\ oom' = oom /\ r' = r
    BY <1>18 DEF vars
  <2>2. Spelled(t)' = Spelled(t)
    BY <1>4, <2>1 DEF Spelled
  <2> QED BY <1>1, <1>3, <1>4, <2>1, <2>2 DEF OrderInv, Refused
<1> QED BY <1>6, <1>7, <1>8, <1>9, <1>10, <1>11, <1>12, <1>14, <1>15, <1>16, <1>17, <1>18 DEF Next

\* No text has a token that is impossible for its merge order, unless it was memory that
\* was wanting (bp_census.c 19-20, pure_is_single).
THEOREM MergeOrderSound ==
  ASSUME \A v \in Vocabs : Encodes(v)
  PROVE  Spec => [](Refused => \A w \in Seq(Byte) : t \notin Ids(vocab, w))
<1>1. ASSUME OrderInv, Refused, NEW w \in Seq(Byte), t \in Ids(vocab, w) PROVE FALSE
  <2>1. /\ vocab \in Vocabs /\ t \in Nat /\ t < N /\ t \notin vocab.added
        /\ Pure(vocab, Spelled(t)) # <<t>>
    BY <1>1 DEF OrderInv, Refused
  <2>2. Encodes(vocab) /\ N \in Nat
    BY <2>1, VocabTyped
  <2>3. PICK x \in Seq(Byte) : \E k \in DOMAIN Pure(vocab, x) : Pure(vocab, x)[k] = t
    BY <1>1, <2>1, <2>2 DEF Encodes, FromPretokens
  <2>4. PICK toks, table, base, spell, id : IsGreedy(vocab, toks, table, base, spell, id, Seq(Byte))
    BY <2>2 DEF Encodes
  <2>5. t \in 0..(Len(vocab.bytes) - 1)
    BY <2>1, <2>2 DEF N
  <2>6. Pure(vocab, vocab.bytes[t + 1]) = <<t>>
    BY <2>3, <2>4, <2>5, MergeOrderIsFinal
  <2> QED BY <2>1, <2>6 DEF Spelled
<1>2. OrderInv => (Refused => \A w \in Seq(Byte) : t \notin Ids(vocab, w))
  BY <1>1
<1> QED BY <1>2, OrderInit, OrderStep, PTL DEF Spec

----------------------------------------------------------------------------
(* The report.                                                             *)

Record == [id : Nat, verdict : Verdicts, comma : BOOLEAN]

ReasonSum(f) ==
  f["merge-order"] + f["invalid-utf8"] + f["pretoken-shape"] + f["contraction"] + f["nfc-excluded"]

Of(recs, verdict) == {k \in DOMAIN recs : recs[k].verdict = verdict}

\* One record more is one more of its verdict.
LEMMA CountAppend ==
  ASSUME NEW recs \in Seq(Record), NEW e \in Record, NEW verdict
  PROVE  /\ Cardinality(Of(recs, verdict)) \in Nat
         /\ Cardinality(Of(Append(recs, e), verdict)) =
              Cardinality(Of(recs, verdict)) + IF e.verdict = verdict THEN 1 ELSE 0
<1> DEFINE n == Len(recs)
           A == Of(recs, verdict)
           B == Of(Append(recs, e), verdict)
           more == Append(recs, e)
<1>1. /\ n \in Nat /\ Len(more) = n + 1 /\ DOMAIN more = 1..(n + 1) /\ DOMAIN recs = 1..n
      /\ more[n + 1] = e /\ \A k \in 1..n : more[k] = recs[k]
  OBVIOUS
<1> HIDE DEF more
<1>2. IsFiniteSet(1..n) /\ A \subseteq 1..n
  BY <1>1, FS_Interval DEF Of
<1>3. IsFiniteSet(A) /\ Cardinality(A) \in Nat /\ n + 1 \notin A
  <2>1. IsFiniteSet(A)
    BY <1>2, FS_Subset
  <2>2. n + 1 \notin 1..n
    BY <1>1
  <2> QED BY <1>2, <2>1, <2>2, FS_CardinalityType
<1>4. B = A \cup IF e.verdict = verdict THEN {n + 1} ELSE {}
  <2>1. B = {k \in 1..(n + 1) : more[k].verdict = verdict}
    BY <1>1 DEF Of, more
  <2>2. A = {k \in 1..n : recs[k].verdict = verdict}
    BY <1>1 DEF Of
  <2>3. \A k : k \in 1..(n + 1) <=> (k \in 1..n \/ k = n + 1)
    BY <1>1
  <2> HIDE DEF A, B, n
  <2> QED BY <1>1, <2>1, <2>2, <2>3
<1> HIDE DEF A, B
<1>5. CASE e.verdict = verdict
  <2>1. B = A \cup {n + 1}
    BY <1>4, <1>5
  <2>2. Cardinality(B) = Cardinality(A) + 1
    BY <1>3, <2>1, FS_AddElement
  <2> QED BY <1>3, <1>5, <2>2 DEF A, B
<1>6. CASE e.verdict # verdict
  BY <1>3, <1>4, <1>6 DEF A, B
<1> QED BY <1>5, <1>6

\* One more under one reason is one more in all.
LEMMA ReasonMore ==
  ASSUME NEW f \in [Reasons -> Nat], NEW x \in Reasons
  PROVE  /\ [f EXCEPT ![x] = @ + 1] \in [Reasons -> Nat]
         /\ ReasonSum([f EXCEPT ![x] = @ + 1]) = ReasonSum(f) + 1
         /\ ReasonSum(f) \in Nat
<1> DEFINE g == [f EXCEPT ![x] = @ + 1]
<1>1. \A y \in Reasons : f[y] \in Nat /\ g[y] = (IF y = x THEN f[y] + 1 ELSE f[y])
  OBVIOUS
<1>2. g \in [Reasons -> Nat]
  BY <1>1
<1>3. /\ "merge-order" \in Reasons /\ "invalid-utf8" \in Reasons /\ "pretoken-shape" \in Reasons
      /\ "contraction" \in Reasons /\ "nfc-excluded" \in Reasons
      /\ x \in {"merge-order", "invalid-utf8", "pretoken-shape", "contraction", "nfc-excluded"}
  BY DEF Reasons
<1> HIDE DEF g
<1>4. ReasonSum(g) = ReasonSum(f) + 1 /\ ReasonSum(f) \in Nat
  BY <1>1, <1>3 DEF ReasonSum
<1> QED BY <1>2, <1>4 DEF g

\* What a verdict says of the token.
Settled ==
  /\ r.verdict \in Verdicts /\ (r.verdict = "impossible" => r.reason \in Reasons)
  /\ r.verdict \in {"self", "context"} =>
       Valid(r.witness) /\ Len(r.witness) <= WMax /\ t \in Ids(vocab, r.witness)

UsedIn(v, i) == v.bytes[i + 1] # <<>>

\* The records of a run are those of the used ids below t, in their order.
Accounted ==
  /\ t <= Upto
  /\ \A k \in DOMAIN json :
       json[k].id < t /\ UsedIn(vocab, json[k].id) /\ (json[k].comma <=> json[k].id + 1 < Upto)
  /\ \A k, l \in DOMAIN json : k < l => json[k].id < json[l].id
  /\ \A i \in Nat : i < t /\ UsedIn(vocab, i) => \E k \in DOMAIN json : json[k].id = i
  /\ pc \in Tests \cup {"token", "report"} => t < Upto /\ UsedIn(vocab, t)
  /\ pc = "done" => t >= Upto

Counted ==
  /\ \A v \in Verdicts : counts[v] = Cardinality(Of(json, v))
  /\ ReasonSum(reasons) = counts["impossible"]

CensusTyped ==
  /\ vocab \in Vocabs /\ job \in Jobs /\ t \in Nat /\ oom \in BOOLEAN /\ refuted \in Nat
  /\ json \in Seq(Record) /\ counts \in [Verdicts -> Nat] /\ reasons \in [Reasons -> Nat]

ReportInv ==
  /\ CensusTyped /\ Counted
  /\ refuted > 0 => oom
  /\ pc = "report" => Settled
  /\ job.op = "run" => Accounted

LEMMA ReportInit == Init => ReportInv
<1> SUFFICES ASSUME Init PROVE ReportInv
  OBVIOUS
<1>1. /\ vocab \in Vocabs /\ job \in Jobs /\ pc = "begin" /\ t = 0 /\ oom = FALSE /\ refuted = 0 /\ json = <<>>
      /\ counts = [v \in Verdicts |-> 0] /\ reasons = [x \in Reasons |-> 0]
  BY DEF Init
<1>2. CensusTyped
  <2>1. counts \in [Verdicts -> Nat] /\ reasons \in [Reasons -> Nat]
    BY <1>1
  <2>2. json \in Seq(Record)
    BY <1>1
  <2> QED BY <1>1, <2>1, <2>2 DEF CensusTyped
<1>3. Counted
  <2>1. \A v \in Verdicts : Of(json, v) = {}
    BY <1>1 DEF Of
  <2>2. \A v \in Verdicts : counts[v] = Cardinality(Of(json, v))
    BY <1>1, <2>1, FS_EmptySet
  <2>3. \A x \in Reasons : reasons[x] = 0
    BY <1>1
  <2>4. "impossible" \in Verdicts
    BY DEF Verdicts
  <2>5. ReasonSum(reasons) = 0
    BY <2>3 DEF Reasons, ReasonSum
  <2>6. counts["impossible"] = 0
    BY <1>1, <2>4
  <2> QED BY <2>2, <2>5, <2>6 DEF Counted
<1>4. Accounted
  <2>1. Upto \in Nat /\ DOMAIN json = {}
    BY <1>1, UptoRange
  <2> QED BY <1>1, <2>1 DEF Accounted, Tests
<1> QED BY <1>1, <1>2, <1>3, <1>4 DEF ReportInv

\* A test keeps the totals, and settles what it may settle.
LEMMA TestKeeps ==
  ASSUME ReportInv, UNCHANGED <<vocab, job, t, counts, reasons, refuted, json>>,
         oom' = oom \/ oom' = TRUE, pc \in Tests \cup {"token"}, pc' \in Tests \cup {"report"},
         pc' = "report" => Settled'
  PROVE  ReportInv'
<1>1. CensusTyped'
  BY DEF ReportInv, CensusTyped
<1>2. Counted'
  BY DEF ReportInv, Counted
<1>3. ASSUME job'.op = "run" PROVE Accounted'
  <2>1. Accounted /\ Upto' = Upto
    BY <1>3 DEF ReportInv, Upto, N
  <2> QED BY <2>1 DEF Accounted, Tests
<1>4. refuted' > 0 => oom'
  BY DEF ReportInv
<1> QED BY <1>1, <1>2, <1>3, <1>4 DEF ReportInv

\* A search settles for a witness, or goes on as Q does.
LEMMA SearchSettles ==
  ASSUME NEW tries, NEW verdict \in {"self", "context"}, NEW Q, Search(tries, verdict, Q),
         t' = t, vocab' = vocab, Q => pc' \in Tests \cup {"report"} /\ (pc' = "report" => Settled')
  PROVE  /\ oom' = oom \/ oom' = TRUE
         /\ pc' \in Tests \cup {"report"} /\ (pc' = "report" => Settled')
<1>1. \/ UNCHANGED oom /\ \E w : Witnesses(w) /\ Settle(verdict, "none", w)
      \/ UNCHANGED oom /\ Q
      \/ oom' = TRUE /\ Q
  <2> DEFINE hits == {w \in {x[1] \o Spelled(t) \o x[2] : x \in tries} : Witnesses(w)}
  <2>1. \/ UNCHANGED oom /\ \E w \in hits : Settle(verdict, "none", w)
        \/ hits = {} /\ UNCHANGED oom /\ Q
        \/ hits # {} /\ oom' = TRUE /\ Q
    BY Zenon DEF Search
  <2>2. \A w \in hits : Witnesses(w)
    OBVIOUS
  <2> HIDE DEF hits
  <2> QED BY <2>1, <2>2
<1>2. ASSUME NEW w, Witnesses(w), Settle(verdict, "none", w) PROVE pc' = "report" /\ Settled'
  <2>1. pc' = "report" /\ r'.verdict = verdict /\ r'.witness = w
    BY <1>2 DEF Settle
  <2>2. Valid(w) /\ Len(w) <= WMax /\ t \in Ids(vocab, w)
    BY <1>2 DEF Witnesses
  <2>3. verdict \in Verdicts /\ verdict # "impossible"
    BY DEF Verdicts
  <2> QED BY <2>1, <2>2, <2>3 DEF Settled
<1> QED BY <1>1, <1>2

\* Verdicts without a witness.
LEMMA SettleOther ==
  ASSUME NEW verdict \in Verdicts \ {"self", "context"}, NEW reason, NEW w,
         verdict = "impossible" => reason \in Reasons, Settle(verdict, reason, w)
  PROVE  pc' = "report" /\ Settled'
<1>1. pc' = "report" /\ r'.verdict = verdict /\ r'.reason = reason
  BY DEF Settle
<1> QED BY <1>1 DEF Settled

\* The next id: unused ones are passed over.
LEMMA NextKeeps ==
  ASSUME ReportInv, NextToken
  PROVE  ReportInv'
<1>1. /\ pc = "next" /\ UNCHANGED <<vocab, job, oom, counts, reasons, refuted, json>>
      /\ t \in Nat /\ vocab \in Vocabs /\ job \in Jobs
  BY DEF NextToken, ReportInv, CensusTyped
<1>2. N \in Nat /\ Upto \in Nat /\ Upto <= N
  BY <1>1, VocabTyped, UptoRange
<1>3. Upto' = Upto
  BY <1>1 DEF Upto, N
<1>4. \/ t >= Upto /\ pc' = "done" /\ t' = t
      \/ t < Upto /\ ~UsedIn(vocab, t) /\ t' = t + 1 /\ pc' = "next"
      \/ t < Upto /\ UsedIn(vocab, t) /\ t' = t /\ pc' = "token"
  <2>1. CASE t >= Upto
    BY <2>1 DEF NextToken
  <2>2. CASE t < Upto
    <3>1. ~(t >= Upto)
      BY <1>1, <1>2, <2>2
    <3>2. CASE UsedIn(vocab, t)
      BY <1>1, <2>2, <3>1, <3>2 DEF NextToken, UsedIn, Spelled
    <3>3. CASE ~UsedIn(vocab, t)
      BY <1>1, <2>2, <3>1, <3>3 DEF NextToken, UsedIn, Spelled
    <3> QED BY <3>2, <3>3
  <2> QED BY <1>1, <1>2, <2>1, <2>2
<1>5. CensusTyped' /\ Counted'
  BY <1>1, <1>4 DEF ReportInv, CensusTyped, Counted
<1>6. ASSUME job'.op = "run" PROVE Accounted'
  <2>1. Accounted
    BY <1>1, <1>6 DEF ReportInv
  <2>2. t' <= Upto' /\ (pc' \in Tests \cup {"token", "report"} => t' < Upto' /\ UsedIn(vocab, t'))
        /\ (pc' = "done" => t' >= Upto')
    <3>1. t <= Upto
      BY <2>1 DEF Accounted
    <3> QED BY <1>1, <1>2, <1>3, <1>4, <3>1 DEF Tests
  <2>3. \A k \in DOMAIN json : json[k].id \in Nat
    <3>1. json \in Seq(Record)
      BY DEF ReportInv, CensusTyped
    <3>2. \A k \in DOMAIN json : json[k] \in Record
      BY <3>1
    <3> QED BY <3>2 DEF Record
  <2>4. ASSUME NEW k \in DOMAIN json' PROVE json'[k].id < t'
    BY <1>1, <1>4, <2>1, <2>3, <2>4 DEF Accounted
  <2>5. ASSUME NEW i \in Nat, i < t', UsedIn(vocab, i) PROVE \E k \in DOMAIN json' : json'[k].id = i
    <3>1. i < t
      BY <1>1, <1>4, <2>5
    <3> QED BY <1>1, <2>1, <2>5, <3>1 DEF Accounted
  <2>6. /\ \A k \in DOMAIN json' : UsedIn(vocab, json'[k].id) /\ (json'[k].comma <=> json'[k].id + 1 < Upto')
        /\ \A k, l \in DOMAIN json' : k < l => json'[k].id < json'[l].id
    BY <1>1, <1>3, <2>1 DEF Accounted
  <2> QED BY <1>1, <1>3, <2>2, <2>4, <2>5, <2>6 DEF Accounted
<1>7. pc' # "report" /\ (refuted' > 0 => oom')
  BY <1>1, <1>4 DEF ReportInv
<1> QED BY <1>5, <1>6, <1>7 DEF ReportInv

\* A verdict is counted and recorded.
LEMMA ReportKeeps ==
  ASSUME ReportInv, Report
  PROVE  ReportInv'
<1> DEFINE e == [id |-> t, verdict |-> r.verdict, comma |-> t + 1 < Upto]
<1>1. /\ pc = "report" /\ job.op = "run" /\ UNCHANGED <<vocab, job, r>> /\ pc' = "next" /\ t' = t + 1
      /\ counts' = [counts EXCEPT ![r.verdict] = @ + 1]
      /\ reasons' = IF r.verdict = "impossible" THEN [reasons EXCEPT ![r.reason] = @ + 1] ELSE reasons
      /\ json' = Append(json, e)
  BY DEF Report
<1>2. /\ vocab \in Vocabs /\ job \in Jobs /\ t \in Nat /\ oom \in BOOLEAN /\ refuted \in Nat
      /\ json \in Seq(Record) /\ counts \in [Verdicts -> Nat] /\ reasons \in [Reasons -> Nat]
  BY DEF ReportInv, CensusTyped
<1>3. Settled /\ Accounted /\ Counted /\ (refuted > 0 => oom)
  BY <1>1 DEF ReportInv
<1>4. N \in Nat /\ Upto \in Nat /\ Upto <= N
  BY <1>2, VocabTyped, UptoRange
<1>5. Upto' = Upto
  BY <1>1 DEF Upto, N
<1>6. r.verdict \in Verdicts /\ e \in Record
  BY <1>2, <1>3 DEF Settled, Record
<1>7. refuted' \in Nat /\ oom' \in BOOLEAN /\ (refuted' > 0 => oom')
  <2>1. CASE r.verdict \in {"self", "context"} /\ oom' = TRUE /\ refuted' = refuted + 1
    BY <1>2, <2>1
  <2>2. CASE /\ UNCHANGED oom
             /\ refuted' = refuted + IF r.verdict \in {"self", "context"} /\ t \notin Ids(vocab, r.witness)
                                     THEN 1 ELSE 0
    <3>1. ~(r.verdict \in {"self", "context"} /\ t \notin Ids(vocab, r.witness))
      BY <1>3 DEF Settled
    <3>2. refuted' = refuted
      BY <1>2, <2>2, <3>1
    <3> QED BY <1>2, <1>3, <2>2, <3>2
  <2> QED BY <2>1, <2>2 DEF Report
<1>8. CensusTyped'
  <2>1. counts' \in [Verdicts -> Nat]
    BY <1>1, <1>2, <1>6
  <2>2. reasons' \in [Reasons -> Nat]
    <3>1. CASE r.verdict = "impossible"
      BY <1>1, <1>2, <1>3, <3>1, ReasonMore DEF Settled
    <3>2. CASE r.verdict # "impossible"
      BY <1>1, <1>2, <3>2
    <3> QED BY <3>1, <3>2
  <2>3. json' \in Seq(Record)
    <3> HIDE DEF e
    <3> QED BY <1>1, <1>2, <1>6
  <2> QED BY <1>1, <1>2, <1>7, <2>1, <2>2, <2>3 DEF CensusTyped
<1>9. Counted'
  <2>1. ASSUME NEW v \in Verdicts PROVE counts'[v] = Cardinality(Of(json', v))
    <3>1. counts[v] = Cardinality(Of(json, v)) /\ counts[v] \in Nat
      BY <1>2, <1>3 DEF Counted
    <3>2. Cardinality(Of(json', v)) = Cardinality(Of(json, v)) + IF r.verdict = v THEN 1 ELSE 0
      <4>1. e.verdict = r.verdict
        OBVIOUS
      <4> HIDE DEF e
      <4>2. Cardinality(Of(Append(json, e), v)) = Cardinality(Of(json, v)) + IF e.verdict = v THEN 1 ELSE 0
        BY <1>2, <1>6, CountAppend
      <4> QED BY <1>1, <4>1, <4>2
    <3>3. counts'[v] = IF r.verdict = v THEN counts[v] + 1 ELSE counts[v]
      BY <1>1, <1>2
    <3> QED BY <3>1, <3>2, <3>3
  <2>2. ReasonSum(reasons') = counts'["impossible"]
    <3>1. ReasonSum(reasons) = counts["impossible"] /\ "impossible" \in Verdicts
      BY <1>3 DEF Counted, Verdicts
    <3>2. CASE r.verdict = "impossible"
      <4>1. ReasonSum(reasons') = ReasonSum(reasons) + 1
        BY <1>1, <1>2, <1>3, <3>2, ReasonMore DEF Settled
      <4> QED BY <1>1, <1>2, <3>1, <3>2, <4>1
    <3>3. CASE r.verdict # "impossible"
      BY <1>1, <1>2, <3>1, <3>3
    <3> QED BY <3>2, <3>3
  <2> QED BY <2>1, <2>2 DEF Counted
<1>10. Accounted'
  <2> DEFINE n == Len(json)
  <2>1. /\ n \in Nat /\ DOMAIN json = 1..n /\ DOMAIN json' = 1..(n + 1) /\ json'[n + 1] = e
        /\ \A k \in 1..n : json'[k] = json[k] /\ json[k] \in Record
    BY <1>1, <1>2
  <2>2. e.id = t /\ (e.comma <=> t + 1 < Upto) /\ t < Upto /\ UsedIn(vocab, t)
    BY <1>1, <1>3 DEF Accounted, Tests
  <2>3. \A k \in 1..n : json[k].id \in Nat /\ json[k].id < t /\ UsedIn(vocab, json[k].id) /\ (json[k].comma <=> json[k].id + 1 < Upto)
    BY <1>3, <2>1 DEF Accounted, Record
  <2>4. \A k \in 1..(n + 1) : k \in 1..n \/ k = n + 1
    BY <2>1
  <2> HIDE DEF e, n
  <2>5. ASSUME NEW k \in DOMAIN json'
        PROVE  json'[k].id < t' /\ UsedIn(vocab, json'[k].id) /\ (json'[k].comma <=> json'[k].id + 1 < Upto')
    <3>1. CASE k \in 1..n
      BY <1>1, <1>2, <1>5, <2>1, <2>3, <3>1
    <3>2. CASE k = n + 1
      BY <1>1, <1>2, <1>5, <2>1, <2>2, <3>2
    <3> QED BY <2>1, <2>4, <3>1, <3>2
  <2>6. ASSUME NEW k \in DOMAIN json', NEW l \in DOMAIN json', k < l PROVE json'[k].id < json'[l].id
    <3>1. k \in 1..n
      BY <2>1, <2>6
    <3>2. CASE l \in 1..n
      <4>1. json[k].id < json[l].id
        BY <1>3, <2>1, <2>6, <3>1, <3>2 DEF Accounted
      <4> QED BY <2>1, <3>1, <3>2, <4>1
    <3>3. CASE l = n + 1
      BY <2>1, <2>2, <2>3, <3>1, <3>3
    <3> QED BY <2>1, <2>4, <3>2, <3>3
  <2>7. ASSUME NEW i \in Nat, i < t', UsedIn(vocab, i) PROVE \E k \in DOMAIN json' : json'[k].id = i
    <3>1. CASE i < t
      <4>1. PICK k \in DOMAIN json : json[k].id = i
        BY <1>3, <2>7, <3>1 DEF Accounted
      <4>2. k \in 1..n /\ k \in 1..(n + 1)
        BY <2>1, <4>1
      <4> QED BY <2>1, <4>1, <4>2
    <3>2. CASE i = t
      <4>1. n + 1 \in 1..(n + 1)
        BY <2>1
      <4> QED BY <2>1, <2>2, <3>2, <4>1
    <3> QED BY <1>1, <1>2, <2>7, <3>1, <3>2
  <2>8. t' <= Upto' /\ pc' \notin Tests \cup {"token", "report", "done"}
    BY <1>1, <1>2, <1>4, <1>5, <2>2 DEF Tests
  <2> QED BY <1>1, <1>5, <2>5, <2>6, <2>7, <2>8 DEF Accounted
<1> QED BY <1>1, <1>7, <1>8, <1>9, <1>10 DEF ReportInv

LEMMA ReportStep == ReportInv /\ [Next]_vars => ReportInv'
<1> SUFFICES ASSUME ReportInv, [Next]_vars PROVE ReportInv'
  OBVIOUS
<1>1. vocab \in Vocabs /\ job \in Jobs /\ t \in Nat
  BY DEF ReportInv, CensusTyped
<1>2. N \in Nat /\ Upto \in Nat
  BY <1>1, VocabTyped, UptoRange
\* What a test makes of a verdict.
<1>3. ASSUME NEW x \in Tests, Go(x) PROVE pc' \in Tests \cup {"report"} /\ pc' # "report"
  BY <1>3 DEF Go, Tests
<1>4. ASSUME Unresolved PROVE pc' \in Tests \cup {"report"} /\ (pc' = "report" => Settled')
  <2>1. "unresolved" \in Verdicts \ {"self", "context"} /\ "unresolved" # "impossible"
    BY DEF Verdicts
  <2> QED BY <1>4, <2>1, SettleOther DEF Unresolved
<1>5. ASSUME NEW reason \in Reasons, Settle("impossible", reason, <<>>)
      PROVE  pc' \in Tests \cup {"report"} /\ (pc' = "report" => Settled')
  <2>1. "impossible" \in Verdicts \ {"self", "context"}
    BY DEF Verdicts
  <2> QED BY <1>5, <2>1, SettleOther
<1>6. CASE Begin
  <2>1. /\ UNCHANGED <<vocab, job, r, oom, counts, reasons, refuted, json>>
        /\ \/ job.op = "run" /\ pc' = "next" /\ t' = t
           \/ job.op = "witness" /\ job.id < N /\ t' = job.id /\ pc' = "token"
           \/ job.op = "witness" /\ t' = t /\ pc' = "done"
    BY <1>6 DEF Begin
  <2>2. CensusTyped' /\ Counted' /\ pc' # "report"
    <3>1. job.id \in Nat
      BY <1>1, JobsAssumption
    <3> QED BY <2>1, <3>1 DEF ReportInv, CensusTyped, Counted
  <2>3. ASSUME job'.op = "run" PROVE Accounted'
    <3>1. Accounted /\ pc' = "next" /\ t' = t /\ Upto' = Upto
      BY <2>1, <2>3 DEF ReportInv, Upto, N
    <3> QED BY <2>1, <3>1 DEF Accounted, Tests
  <2> QED BY <2>1, <2>2, <2>3 DEF ReportInv
<1>7. CASE NextToken
  BY <1>7, NextKeeps
<1>8. CASE Classify
  <2>1. UNCHANGED <<vocab, job, t, counts, reasons, refuted, json>> /\ oom' = oom /\ pc = "token"
    BY <1>8 DEF Classify, Totals
  <2>2. pc' \in Tests \cup {"report"} /\ (pc' = "report" => Settled')
    <3>1. CASE t \in vocab.added
      <4>1. \E w : Settle("added", "none", w)
        BY <1>8, <3>1 DEF Classify
      <4>2. "added" \in Verdicts \ {"self", "context"} /\ "added" # "impossible"
        BY DEF Verdicts
      <4> QED BY <4>1, <4>2, SettleOther
    <3>2. CASE t \notin vocab.added /\ Len(Spelled(t)) > WMax
      <4>1. Unresolved
        BY <1>8, <3>2 DEF Classify, Unresolved
      <4> QED BY <1>4, <4>1
    <3>3. CASE t \notin vocab.added /\ ~(Len(Spelled(t)) > WMax)
      <4>1. Go("pure") /\ "pure" \in Tests
        BY <1>8, <3>3 DEF Classify, Tests
      <4> QED BY <1>3, <4>1
    <3> QED BY <3>1, <3>2, <3>3
  <2> QED BY <2>1, <2>2, TestKeeps
<1>9. CASE PureTest
  <2>1. UNCHANGED <<vocab, job, t, counts, reasons, refuted, json>> /\ pc \in Tests
    BY <1>9 DEF PureTest, Totals, Tests
  <2>2. /\ oom' = oom \/ oom' = TRUE
        /\ Go("self") \/ Settle("impossible", "merge-order", <<>>)
    BY <1>9 DEF PureTest
  <2>3. pc' \in Tests \cup {"report"} /\ (pc' = "report" => Settled')
    <3>1. "self" \in Tests /\ "merge-order" \in Reasons
      BY DEF Tests, Reasons
    <3> QED BY <1>3, <1>5, <2>2, <3>1
  <2> QED BY <2>1, <2>2, <2>3, TestKeeps
<1>10. CASE SelfTest
  <2>1. UNCHANGED <<vocab, job, t, counts, reasons, refuted, json>> /\ pc \in Tests
    BY <1>10 DEF SelfTest, Totals, Tests
  <2>2. Go("prove") => pc' \in Tests \cup {"report"} /\ (pc' = "report" => Settled')
    BY <1>3 DEF Tests
  <2>3. /\ oom' = oom \/ oom' = TRUE
        /\ pc' \in Tests \cup {"report"} /\ (pc' = "report" => Settled')
    BY <1>10, <2>1, <2>2, SearchSettles DEF SelfTest
  <2> QED BY <2>1, <2>3, TestKeeps
<1>11. CASE Prove
  <2>1. UNCHANGED <<vocab, job, t, counts, reasons, refuted, json>> /\ oom' = oom /\ pc \in Tests
    BY <1>11 DEF Prove, Totals, Tests
  <2>2. pc' \in Tests \cup {"report"} /\ (pc' = "report" => Settled')
    <3>1. CASE Proof(Spelled(t)) # "none"
      <4>1. Settle("impossible", Proof(Spelled(t)), <<>>)
        BY <1>11, <3>1 DEF Prove
      <4>2. Proof(Spelled(t)) \in Reasons
        BY <3>1, ProofIsOther DEF Reasons
      <4> QED BY <1>5, <4>1, <4>2
    <3>2. CASE Proof(Spelled(t)) = "none"
      <4>1. Go("glue") /\ "glue" \in Tests
        BY <1>11, <3>2 DEF Prove, Tests
      <4> QED BY <1>3, <4>1
    <3> QED BY <3>1, <3>2
  <2> QED BY <2>1, <2>2, TestKeeps
<1>12. CASE TryGlue
  <2>1. UNCHANGED <<vocab, job, t, counts, reasons, refuted, json>> /\ pc \in Tests
    BY <1>12 DEF TryGlue, Totals, Tests
  <2>2. Go("affixes") => pc' \in Tests \cup {"report"} /\ (pc' = "report" => Settled')
    BY <1>3 DEF Tests
  <2>3. /\ oom' = oom \/ oom' = TRUE
        /\ pc' \in Tests \cup {"report"} /\ (pc' = "report" => Settled')
    BY <1>12, <2>1, <2>2, SearchSettles DEF TryGlue
  <2> QED BY <2>1, <2>3, TestKeeps
<1>13. CASE TryAffixes
  <2> DEFINE Q == IF Deep THEN Go("fragments") ELSE Unresolved
  <2>1. UNCHANGED <<vocab, job, t, counts, reasons, refuted, json>> /\ pc \in Tests
    BY <1>13 DEF TryAffixes, Totals, Tests
  <2>2. Q => pc' \in Tests \cup {"report"} /\ (pc' = "report" => Settled')
    BY <1>3, <1>4 DEF Tests
  <2>3. Search((Affixes(Deep) \X Affixes(Deep)) \ {<<<<>>, <<>>>>}, "context", Q)
    BY <1>13 DEF TryAffixes
  <2> HIDE DEF Q
  <2>4. /\ oom' = oom \/ oom' = TRUE
        /\ pc' \in Tests \cup {"report"} /\ (pc' = "report" => Settled')
    BY <2>1, <2>2, <2>3, SearchSettles
  <2> QED BY <2>1, <2>4, TestKeeps
<1>14. CASE TryFragments
  <2>1. UNCHANGED <<vocab, job, t, counts, reasons, refuted, json>> /\ pc \in Tests
    BY <1>14 DEF TryFragments, Totals, Tests
  <2>2. /\ oom' = oom \/ oom' = TRUE
        /\ pc' \in Tests \cup {"report"} /\ (pc' = "report" => Settled')
    BY <1>4, <1>14, <2>1, SearchSettles DEF TryFragments
  <2> QED BY <2>1, <2>2, TestKeeps
<1>15. CASE Report
  BY <1>15, ReportKeeps
<1>16. CASE Show
  <2>1. pc' = "done" /\ job.op = "witness" /\ UNCHANGED <<vocab, job, t, oom, counts, reasons, refuted, json>>
    BY <1>16 DEF Show, Totals
  <2> QED BY <2>1 DEF ReportInv, CensusTyped, Counted
<1>17. CASE UNCHANGED vars
  <2>1. UNCHANGED <<vocab, job, pc, t, r, oom, counts, reasons, refuted, json>>
    BY <1>17 DEF vars
  <2>2. CensusTyped' /\ Counted' /\ (Settled' <=> Settled)
    BY <2>1 DEF ReportInv, CensusTyped, Counted, Settled
  <2>3. Accounted' <=> Accounted
    <3>1. Upto' = Upto
      BY <2>1 DEF Upto, N
    <3> QED BY <2>1, <3>1 DEF Accounted
  <2> QED BY <2>1, <2>2, <2>3 DEF ReportInv
<1> QED BY <1>6, <1>7, <1>8, <1>9, <1>10, <1>11, <1>12, <1>13, <1>14, <1>15, <1>16, <1>17 DEF Next

\* The verdicts with a witness have one, every used id below the limit has its one record,
\* in order and counted once, and the commas of the report are between the records
\* (bp_census_run), for every vocabulary, encoder and job.
THEOREM ReportCorrect == Spec => []Reported
<1>1. ReportInv => Reported
  <2> SUFFICES ASSUME ReportInv PROVE Reported
    OBVIOUS
  <2>1. CensusTyped /\ Counted /\ (refuted > 0 => oom) /\ (pc = "report" => Settled)
    BY DEF ReportInv
  <2>2. pc = "report" /\ r.verdict \in {"self", "context"} =>
          Valid(r.witness) /\ Len(r.witness) <= WMax /\ t \in Ids(vocab, r.witness)
    BY <2>1 DEF Settled
  <2>3. ASSUME job.op = "run", pc = "done"
        PROVE  /\ {json[k].id : k \in DOMAIN json} = {i \in 0..(Upto - 1) : Spelled(i) # <<>>}
               /\ \A k, l \in DOMAIN json : k < l => json[k].id < json[l].id
               /\ \A v \in Verdicts : counts[v] = Cardinality({k \in DOMAIN json : json[k].verdict = v})
               /\ ReasonSum(reasons) = counts["impossible"]
               /\ Spelled(Upto - 1) # <<>> => \A k \in DOMAIN json : json[k].comma <=> k < Len(json)
    <3>1. vocab \in Vocabs /\ job \in Jobs /\ t \in Nat /\ json \in Seq(Record)
      BY <2>1 DEF CensusTyped
    <3>2. Upto \in Nat
      BY <3>1, UptoRange
    <3>3. Accounted /\ t = Upto
      <4>1. Accounted
        BY <2>3 DEF ReportInv
      <4> QED BY <2>3, <3>1, <3>2, <4>1 DEF Accounted
    <3>4. \A i : Spelled(i) # <<>> <=> UsedIn(vocab, i)
      BY DEF Spelled, UsedIn
    <3>5. DOMAIN json = 1..Len(json) /\ Len(json) \in Nat /\ \A k \in DOMAIN json : json[k].id \in Nat
      <4>1. \A k \in DOMAIN json : json[k] \in Record
        BY <3>1
      <4> QED BY <3>1, <4>1 DEF Record
    <3>6. \A k \in DOMAIN json : json[k].id < Upto /\ UsedIn(vocab, json[k].id) /\ (json[k].comma <=> json[k].id + 1 < Upto)
      BY <3>3 DEF Accounted
    <3>7. \A i \in Nat : i < Upto /\ UsedIn(vocab, i) => \E k \in DOMAIN json : json[k].id = i
      BY <3>3 DEF Accounted
    <3>8. \A k, l \in DOMAIN json : k < l => json[k].id < json[l].id
      BY <3>3 DEF Accounted
    <3>9. {json[k].id : k \in DOMAIN json} = {i \in 0..(Upto - 1) : Spelled(i) # <<>>}
      <4>1. ASSUME NEW k \in DOMAIN json PROVE json[k].id \in 0..(Upto - 1) /\ Spelled(json[k].id) # <<>>
        BY <3>2, <3>4, <3>5, <3>6
      <4>2. ASSUME NEW i \in 0..(Upto - 1), Spelled(i) # <<>> PROVE \E k \in DOMAIN json : json[k].id = i
        <5>1. i \in Nat /\ i < Upto /\ UsedIn(vocab, i)
          BY <3>2, <3>4, <4>2
        <5> QED BY <3>7, <5>1
      <4> QED BY <4>1, <4>2
    <3>10. \A v \in Verdicts : counts[v] = Cardinality({k \in DOMAIN json : json[k].verdict = v})
      BY <2>1 DEF Counted, Of
    <3>11. ReasonSum(reasons) = counts["impossible"]
      BY <2>1 DEF Counted
    <3>12. ASSUME Spelled(Upto - 1) # <<>>, NEW k \in DOMAIN json PROVE json[k].comma <=> k < Len(json)
      <4>1. 0 < Upto /\ Upto - 1 \in Nat /\ Upto - 1 < Upto
        BY <3>2, <3>5, <3>6, <3>12
      <4>2. PICK l \in DOMAIN json : json[l].id = Upto - 1
        BY <3>4, <3>7, <3>12, <4>1
      <4>3. l = Len(json)
        <5>1. Len(json) \in DOMAIN json /\ l <= Len(json)
          BY <3>5, <4>2
        <5>2. ~(l < Len(json))
          <6>1. json[Len(json)].id < Upto /\ json[Len(json)].id \in Nat
            BY <3>5, <3>6, <5>1
          <6> QED BY <3>2, <3>8, <4>2, <5>1, <6>1
        <5> QED BY <3>5, <5>1, <5>2
      <4>4. CASE k < Len(json)
        <5>1. json[k].id < Upto - 1
          BY <3>8, <4>2, <4>3, <4>4
        <5> QED BY <3>2, <3>5, <3>6, <4>4, <5>1
      <4>5. CASE ~(k < Len(json))
        <5>1. k = l
          BY <3>5, <4>3, <4>5
        <5> QED BY <3>2, <3>6, <4>2, <4>5, <5>1
      <4> QED BY <4>4, <4>5
    <3> QED BY <3>8, <3>9, <3>10, <3>11, <3>12
  <2> QED BY <2>1, <2>2, <2>3 DEF Reported, ReasonSum
<1> QED BY <1>1, ReportInit, ReportStep, PTL DEF Spec
=============================================================================
