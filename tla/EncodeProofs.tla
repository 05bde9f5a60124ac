---------------------------- MODULE EncodeProofs ----------------------------
(***************************************************************************)
(* For every set of added tokens, every text and every encoding of         *)
(* segments: bp_encode cuts the text at the leftmost, longest added        *)
(* tokens, and the cuts cover the text.  The argument has two halves: the  *)
(* insertion sort leaves the tokens longest first, lower ids first among   *)
(* equals, so that the first that matches is the one wanted; and no token  *)
(* begins between seg_start and the position the scan has reached.  The    *)
(* sink has counted the ids of these cuts.                                 *)
(*                                                                         *)
(* For every vocabulary and list of ids, bp_decode writes the bytes of the *)
(* ids; what is looked for among the added tokens is among those left of   *)
(* the bisection, or nowhere.  Both together give the text back, if the    *)
(* ids of each segment spell it.                                           *)
(***************************************************************************)
EXTENDS RoundTrip, DataProofs

\* The tokens sorted so far, each once.
Sorted ==
  /\ order \in Seq(Nat) /\ Len(order) <= Len(added)
  /\ \A n \in 1..Len(order) : order[n] \in 1..Len(order)
  /\ \A k \in 1..Len(order) : \E n \in 1..Len(order) : order[n] = k
  /\ \A m, n \in 1..Len(order) :
       m < n => \/ LenOf(order[m]) > LenOf(order[n])
                \/ LenOf(order[m]) = LenOf(order[n]) /\ order[m] < order[n]

Passed ==
  pc = "scan" =>
    /\ Len(order) = Len(added) /\ rc = "ok"
    /\ seg <= i
    /\ ~call.raw => \A p \in seg..(i - 1) : ~TokenAt(p)
    /\ NoTokens => spans = <<>>

IInv ==
  /\ added \in Added /\ call \in Calls
  /\ pc = "index" => spans = <<>> /\ seg = 1 /\ i = 1 /\ rc = "ok"
  /\ TypeOK /\ Sorted /\ Passed /\ LeftmostLongest /\ Covered

LEMMA Types ==
  ASSUME added \in Added, call \in Calls
  PROVE  /\ text \in Seq(Symbol) /\ Len(text) \in Nat
         /\ Len(added) \in Nat
         /\ \A k \in 1..Len(added) :
              LenOf(k) \in Nat /\ LenOf(k) > 0 /\ added[k].bytes \in Seq(Symbol)
         /\ call.raw \in BOOLEAN
<1>1. text \in Seq(Symbol) /\ call.raw \in BOOLEAN
  BY CallsAssumption DEF text
<1>2. /\ added \in Seq([bytes : Seq(Symbol), id : Nat])
      /\ \A k \in 1..Len(added) : Len(added[k].bytes) > 0
  BY AddedAssumption
<1>3. ASSUME NEW k \in 1..Len(added)
      PROVE  LenOf(k) \in Nat /\ LenOf(k) > 0 /\ added[k].bytes \in Seq(Symbol)
  <2> DEFINE R == [bytes : Seq(Symbol), id : Nat]
  <2>1. added[k] \in R
    <3>1. added \in Seq(R) /\ k \in 1..Len(added)
      BY <1>2
    <3> HIDE DEF R
    <3> QED BY <3>1
  <2> QED BY <1>2, <2>1 DEF LenOf
<1> QED BY <1>1, <1>2, <1>3

LEMMA InitHolds == Init => IInv
<1> SUFFICES ASSUME Init PROVE IInv
  OBVIOUS
<1>1. added \in Added /\ call \in Calls
  BY DEF Init
<1>2. Len(text) \in Nat /\ Len(added) \in Nat
  BY <1>1, Types
<1>3. TypeOK
  BY <1>2 DEF Init, TypeOK
<1>4. Sorted
  BY <1>2 DEF Init, Sorted
<1>5. Passed /\ LeftmostLongest /\ Covered
  BY DEF Init, Passed, LeftmostLongest, Covered, Chained, EndOf
<1> QED BY <1>1, <1>3, <1>4, <1>5 DEF IInv, Init

\* The insertion sort keeps its tokens sorted, with the new one among them.
LEMMA IndexKeeps == IInv /\ Index => IInv'
<1> SUFFICES ASSUME IInv, Index PROVE IInv'
  OBVIOUS
<1> DEFINE k == Len(order) + 1
<1>1. PICK p \in 1..k : IsPlace(k, p) /\ order' = Inserted(order, p, k)
  BY DEF Index
<1>2. /\ order \in Seq(Nat) /\ Len(order) \in Nat /\ Len(added) \in Nat
      /\ Len(order) < Len(added) /\ p \in Nat /\ p <= k /\ p >= 1
      /\ \A n \in 1..Len(added) : LenOf(n) \in Nat
      /\ added' = added /\ call' = call /\ pc' = pc /\ i' = i /\ seg' = seg
      /\ spans' = spans /\ sink' = sink /\ rc' = rc /\ pc = "index"
  BY <1>1, Types DEF IInv, Sorted, Index
<1>3. /\ order' = [n \in 1..k |-> IF n < p THEN order[n] ELSE IF n = p THEN k ELSE order[n - 1]]
      /\ order' \in Seq(Nat) /\ Len(order') = k
  <2>1. order' = [n \in 1..k |-> IF n < p THEN order[n] ELSE IF n = p THEN k ELSE order[n - 1]]
    BY <1>1 DEF Inserted
  <2>2. ASSUME NEW n \in 1..k PROVE order'[n] \in Nat
    BY <1>2, <2>1, <2>2
  <2> QED BY <1>2, <2>1, <2>2
<1>4. /\ \A n \in 1..k : n < p => n \in 1..Len(order) /\ order'[n] = order[n]
      /\ order'[p] = k
      /\ \A n \in 1..k : n > p => n - 1 \in 1..Len(order) /\ order'[n] = order[n - 1]
  BY <1>2, <1>3
<1>5. /\ \A n \in 1..Len(order) : order[n] \in 1..Len(order)
      /\ \A x \in 1..Len(order) : \E n \in 1..Len(order) : order[n] = x
      /\ \A m, n \in 1..Len(order) :
           m < n => \/ LenOf(order[m]) > LenOf(order[n])
                    \/ LenOf(order[m]) = LenOf(order[n]) /\ order[m] < order[n]
  BY DEF IInv, Sorted
<1>6. ASSUME NEW n \in 1..k PROVE order'[n] \in 1..k
  <2>1. ASSUME NEW x \in 1..Len(order) PROVE order[x] \in 1..k
    <3>1. order[x] \in 1..Len(order)
      BY <1>5
    <3> QED BY <1>2, <3>1
  <2>2. CASE n < p
    BY <1>4, <2>1, <2>2
  <2>3. CASE n = p
    BY <1>2, <1>4, <2>3
  <2>4. CASE n > p
    BY <1>4, <2>1, <2>4
  <2> QED BY <1>2, <2>2, <2>3, <2>4
<1>7. ASSUME NEW x \in 1..k PROVE \E n \in 1..k : order'[n] = x
  <2>1. CASE x = k
    BY <1>2, <1>4, <2>1
  <2>2. CASE x # k
    <3>1. PICK n \in 1..Len(order) : order[n] = x
      BY <1>2, <1>5, <2>2
    <3>2. CASE n < p
      <4>1. n \in 1..k /\ order'[n] = x
        BY <1>2, <1>4, <3>1, <3>2
      <4> QED BY <4>1
    <3>3. CASE n >= p
      <4>1. n + 1 \in 1..k /\ n + 1 > p /\ (n + 1) - 1 = n
        BY <1>2, <3>1, <3>3
      <4>2. order'[n + 1] = order[(n + 1) - 1]
        BY <1>4, <4>1
      <4> QED BY <3>1, <4>1, <4>2
    <3> QED BY <1>2, <3>2, <3>3
  <2> QED BY <2>1, <2>2
<1>8. ASSUME NEW m \in 1..k, NEW n \in 1..k, m < n
      PROVE  \/ LenOf(order'[m]) > LenOf(order'[n])
             \/ LenOf(order'[m]) = LenOf(order'[n]) /\ order'[m] < order'[n]
  <2>1. CASE m # p /\ n # p
    <3>1. PICK u \in 1..Len(order), w \in 1..Len(order) :
            u < w /\ order'[m] = order[u] /\ order'[n] = order[w]
      BY <1>2, <1>4, <1>8, <2>1, SMTT(30)
    <3> QED BY <1>5, <3>1
  <2>2. CASE n = p
    <3>1. m \in 1..(p - 1) /\ order'[m] = order[m] /\ m \in 1..Len(order) /\ order'[n] = k
      BY <1>2, <1>4, <1>8, <2>2
    <3>2. LenOf(order[m]) >= LenOf(k)
      BY <1>1, <3>1 DEF IsPlace
    <3>3. order[m] < k /\ order[m] \in 1..Len(added) /\ k \in 1..Len(added)
      <4>1. order[m] \in 1..Len(order)
        BY <1>5, <3>1
      <4> QED BY <1>2, <4>1
    <3> QED BY <1>2, <3>1, <3>2, <3>3
  <2>3. CASE m = p
    <3>1. /\ n - 1 \in p..Len(order) /\ order'[n] = order[n - 1]
          /\ n - 1 \in 1..Len(order) /\ order'[m] = k
      BY <1>2, <1>4, <1>8, <2>3
    <3>2. LenOf(order[n - 1]) < LenOf(k)
      BY <1>1, <3>1 DEF IsPlace
    <3>3. order[n - 1] \in 1..Len(added) /\ k \in 1..Len(added)
      <4>1. order[n - 1] \in 1..Len(order)
        BY <1>5, <3>1
      <4> QED BY <1>2, <4>1
    <3> QED BY <1>2, <3>1, <3>2, <3>3
  <2> QED BY <2>1, <2>2, <2>3
<1>10. Sorted'
  <2>1. k <= Len(added')
    BY <1>2
  <2>2. \A m, n \in 1..Len(order') :
          m < n => \/ LenOf(order[m])' > LenOf(order[n])'
                   \/ LenOf(order[m])' = LenOf(order[n])' /\ order'[m] < order'[n]
    BY <1>2, <1>3, <1>8 DEF LenOf
  <2> QED BY <1>3, <1>6, <1>7, <2>1, <2>2 DEF Sorted
<1>11. TypeOK'
  <2>1. order' \in Seq(1..Len(added))
    <3>1. \A n \in 1..k : order'[n] \in 1..Len(added)
      BY <1>2, <1>6
    <3> QED BY <1>3, <3>1
  <2>2. text' = text /\ i' = i /\ seg' = seg /\ spans' = spans /\ Len(order') <= Len(added)
    BY <1>2, <1>3 DEF text
  <2> QED BY <1>2, <2>1, <2>2 DEF IInv, TypeOK
<1>12. Passed' /\ LeftmostLongest' /\ Covered'
  <2>1. spans = <<>> /\ Len(spans) = 0 /\ seg = 1
    BY <1>2 DEF IInv
  <2> QED BY <1>2, <2>1 DEF Passed, LeftmostLongest, Covered, Chained, EndOf
<1> QED BY <1>2, <1>10, <1>11, <1>12 DEF IInv

\* With all tokens sorted, the first in order that is there is the longest.
LEMMA FirstIsLongest ==
  ASSUME IInv, pc = "scan", NEW k \in 1..Len(added), NEW p \in Nat, Matched(k, p)
  PROVE  Longest(k, p)
<1>1. PICK n \in 1..Len(order) :
        order[n] = k /\ OccursAt(k, p) /\ \A m \in 1..(n - 1) : ~OccursAt(order[m], p)
  BY DEF Matched
<1>2. /\ Len(order) = Len(added) /\ Len(order) \in Nat
      /\ \A x \in 1..Len(added) : LenOf(x) \in Nat
  BY Types DEF IInv, Passed, Sorted
<1>3. /\ \A x \in 1..Len(order) : \E m \in 1..Len(order) : order[m] = x
      /\ \A m, x \in 1..Len(order) :
           m < x => \/ LenOf(order[m]) > LenOf(order[x])
                    \/ LenOf(order[m]) = LenOf(order[x]) /\ order[m] < order[x]
  BY DEF IInv, Sorted
<1>4. ASSUME NEW x \in 1..Len(added), OccursAt(x, p)
      PROVE  LenOf(x) < LenOf(k) \/ (LenOf(x) = LenOf(k) /\ k <= x)
  <2>1. PICK m \in 1..Len(order) : order[m] = x
    BY <1>2, <1>3
  <2>2. CASE m < n
    <3>1. m \in 1..(n - 1)
      BY <1>2, <2>2
    <3> QED BY <1>1, <1>4, <2>1, <3>1
  <2>3. CASE m = n
    BY <1>1, <1>2, <2>1, <2>3
  <2>4. CASE n < m
    <3>1. \/ LenOf(k) > LenOf(x)
          \/ LenOf(k) = LenOf(x) /\ k < x
      BY <1>1, <1>3, <2>1, <2>4
    <3> QED BY <1>2, <3>1
  <2> QED BY <1>2, <2>2, <2>3, <2>4
<1> QED BY <1>1, <1>4 DEF Longest

\* Where no token in order is found, none is there.
LEMMA NoMatchNoToken ==
  ASSUME IInv, pc = "scan", NEW p \in Nat, NoMatch(p)
  PROVE  ~TokenAt(p)
<1>1. Len(order) = Len(added) /\ \A x \in 1..Len(order) : \E m \in 1..Len(order) : order[m] = x
  BY DEF IInv, Passed, Sorted
<1> QED BY <1>1 DEF NoMatch, TokenAt

\* No token begins with a byte that is not a first byte.
LEMMA FirstByteNeeded ==
  ASSUME added \in Added, call \in Calls, NEW p \in 1..Len(text), text[p] \notin FirstBytes
  PROVE  ~TokenAt(p)
<1>1. SUFFICES ASSUME NEW k \in 1..Len(added), OccursAt(k, p) PROVE FALSE
  BY DEF TokenAt
<1>2. LenOf(k) \in Nat /\ LenOf(k) > 0 /\ Len(text) \in Nat
  BY Types
<1>3. 1 \in 1..LenOf(k) /\ p + 1 - 1 = p
  BY <1>2
<1>4. text[p] = added[k].bytes[1]
  BY <1>1, <1>3 DEF OccursAt
<1> QED BY <1>1, <1>4 DEF FirstBytes

\* What appending a good span that begins where the last one ended keeps.
LEMMA AppendSpan ==
  ASSUME NEW ss \in Seq(SpanSet), Chained(ss), \A n \in 1..Len(ss) : SpanOK(ss[n]),
         NEW s \in SpanSet, s.from = EndOf(ss), SpanOK(s)
  PROVE  /\ Append(ss, s) \in Seq(SpanSet)
         /\ Chained(Append(ss, s)) /\ \A n \in 1..Len(Append(ss, s)) : SpanOK(Append(ss, s)[n])
         /\ EndOf(Append(ss, s)) = s.to /\ Append(ss, s) # <<>>
<1> DEFINE aa == Append(ss, s)
<1>1. /\ aa \in Seq(SpanSet) /\ Len(aa) = Len(ss) + 1 /\ Len(ss) \in Nat
      /\ \A n \in 1..Len(ss) : aa[n] = ss[n]
      /\ aa[Len(ss) + 1] = s
  OBVIOUS
<1> HIDE DEF aa
<1>2. ASSUME NEW n \in 1..Len(aa)
      PROVE  SpanOK(aa[n]) /\ aa[n].from = IF n = 1 THEN 1 ELSE aa[n - 1].to
  <2>1. CASE n \in 1..Len(ss)
    <3>1. aa[n] = ss[n] /\ (n # 1 => n - 1 \in 1..Len(ss))
      BY <1>1, <2>1
    <3>2. n # 1 => aa[n - 1] = ss[n - 1]
      BY <1>1, <3>1
    <3> QED BY <2>1, <3>1, <3>2 DEF Chained
  <2>2. CASE n = Len(ss) + 1
    <3>1. aa[n] = s
      BY <1>1, <2>2
    <3>2. CASE ss = <<>>
      <4>1. n = 1
        BY <1>1, <2>2, <3>2
      <4> QED BY <3>1, <3>2, <4>1 DEF EndOf
    <3>3. CASE ss # <<>>
      <4>1. Len(ss) >= 1
        BY <1>1, <3>3
      <4>2. n # 1 /\ n - 1 = Len(ss) /\ aa[n - 1] = ss[Len(ss)]
        BY <1>1, <2>2, <4>1
      <4> QED BY <3>1, <3>3, <4>2 DEF EndOf
    <3> QED BY <3>2, <3>3
  <2> QED BY <1>1, <2>1, <2>2
<1>3. aa # <<>> /\ EndOf(aa) = s.to
  BY <1>1 DEF EndOf
<1> QED BY <1>1, <1>2, <1>3 DEF aa, Chained

LEMMA Facts ==
  ASSUME IInv
  PROVE  /\ text \in Seq(Symbol) /\ Len(text) \in Nat /\ Len(added) \in Nat
         /\ i \in 1..(Len(text) + 1) /\ seg \in 1..(Len(text) + 1)
         /\ spans \in Seq(SpanSet) /\ Chained(spans)
         /\ \A n \in 1..Len(spans) : SpanOK(spans[n])
         /\ added \in Added /\ call \in Calls
  BY Types DEF IInv, TypeOK, Covered, LeftmostLongest

\* A step of the scan leaves the tables and the call alone, so what the spans
\* are required to be is the same before and after it.
LEMMA SameMeaning ==
  ASSUME Stay
  PROVE  /\ text' = text /\ SpanSet' = SpanSet /\ NoTokens' = NoTokens
         /\ \A n : LenOf(n)' = LenOf(n)
         /\ \A p : TokenAt(p)' = TokenAt(p)
         /\ \A s : SpanOK(s)' = SpanOK(s)
  BY DEF Stay, text, SpanSet, NoTokens, LenOf, TokenAt, OccursAt, SpanOK, Longest

\* The segment before position p, if there is one, extends the spans.
LEMMA SegmentSpan ==
  ASSUME IInv, NEW from \in 1..(Len(text) + 1), NEW to \in 1..(Len(text) + 1),
         from = EndOf(spans), from <= to,
         call.raw \/ \A p \in from..(to - 1) : ~TokenAt(p)
  PROVE  LET ss == WithSegment(spans, from, to)
         IN /\ ss \in Seq(SpanSet) /\ Chained(ss) /\ \A n \in 1..Len(ss) : SpanOK(ss[n])
            /\ EndOf(ss) = to
<1>1. /\ spans \in Seq(SpanSet) /\ Chained(spans) /\ \A n \in 1..Len(spans) : SpanOK(spans[n])
      /\ Len(text) \in Nat /\ Len(added) \in Nat
  BY Facts
<1>2. CASE from = to
  BY <1>1, <1>2 DEF WithSegment
<1>3. CASE from # to
  <2> DEFINE s == Span(from, to, 0)
  <2>1. s \in SpanSet /\ s.from = from /\ s.to = to /\ s.tok = 0
    BY <1>1 DEF Span, SpanSet
  <2>2. SpanOK(s)
    BY <1>1, <1>3, <2>1 DEF SpanOK
  <2> HIDE DEF s
  <2>3. /\ Append(spans, s) \in Seq(SpanSet) /\ Chained(Append(spans, s))
        /\ \A n \in 1..Len(Append(spans, s)) : SpanOK(Append(spans, s)[n])
        /\ EndOf(Append(spans, s)) = s.to
    BY <1>1, <2>1, <2>2, AppendSpan
  <2>4. WithSegment(spans, from, to) = Append(spans, s)
    BY <1>3 DEF WithSegment, s
  <2> QED BY <2>1, <2>3, <2>4
<1> QED BY <1>2, <1>3

\* What the tables keep when a step leaves them alone.
LEMMA TablesKeep ==
  ASSUME IInv, Stay
  PROVE  /\ added' \in Added /\ call' \in Calls /\ Sorted'
         /\ order' \in Seq(1..Len(added)) /\ Len(order') <= Len(added)
         /\ added' = added /\ call' = call /\ Len(order') = Len(order)
<1>1. added' = added /\ call' = call /\ order' = order
  BY DEF Stay
<1>2. Sorted'
  BY <1>1 DEF IInv, Sorted, LenOf
<1> QED BY <1>1, <1>2 DEF IInv, TypeOK

\* The scan's position moves over a byte at which no token begins.
LEMMA SkipKeeps ==
  ASSUME IInv, InScan, ~NoTokens, i <= Len(text), ~TokenAt(i), i' = i + 1,
         UNCHANGED <<pc, seg, spans, sink, rc>>, Stay
  PROVE  IInv'
<1>1. /\ Len(text) \in Nat /\ i \in 1..(Len(text) + 1) /\ seg \in 1..(Len(text) + 1)
      /\ seg <= i /\ Len(order) = Len(added) /\ pc = "scan" /\ rc = "ok"
      /\ ~call.raw => \A p \in seg..(i - 1) : ~TokenAt(p)
  BY Facts DEF IInv, Passed, InScan
<1>2. /\ pc' = "scan" /\ rc' = "ok" /\ seg' = seg /\ spans' = spans /\ i' = i + 1
  BY <1>1
<1>3. \A p \in seg..i : ~call.raw => ~TokenAt(p)
  BY <1>1
<1>4. TypeOK'
  BY <1>1, <1>2, SameMeaning, TablesKeep DEF IInv, TypeOK
<1>5. Passed'
  <2>1. ~NoTokens'
    BY SameMeaning
  <2>2. ~call.raw => \A p \in seg..i : ~TokenAt(p)'
    BY <1>3, SameMeaning
  <2>3. seg' <= i' /\ i' - 1 = i
    BY <1>1, <1>2
  <2> QED BY <1>1, <1>2, <2>1, <2>2, <2>3, TablesKeep DEF Passed
<1>6. LeftmostLongest'
  BY <1>2, SameMeaning DEF IInv, LeftmostLongest
<1>7. Covered'
  BY <1>1, <1>2 DEF IInv, Covered
<1> QED BY <1>2, <1>4, <1>5, <1>6, <1>7, TablesKeep DEF IInv

LEMMA MatchKeeps == IInv /\ Match => IInv'
<1> SUFFICES ASSUME IInv, Match PROVE IInv'
  OBVIOUS
<1>1. PICK k \in 1..Len(added) :
        /\ Matched(k, i) /\ i' = i + LenOf(k)
        /\ spans' = Append(WithSegment(spans, seg, i), Span(i, i + LenOf(k), k))
  BY DEF Match
<1>2. /\ Len(text) \in Nat /\ Len(added) \in Nat /\ i \in 1..Len(text)
      /\ seg \in 1..(Len(text) + 1) /\ seg <= i /\ Len(order) = Len(added)
      /\ pc = "scan" /\ rc = "ok" /\ ~NoTokens /\ seg = EndOf(spans)
      /\ ~call.raw /\ \A p \in seg..(i - 1) : ~TokenAt(p)
  BY Facts DEF IInv, Passed, InScan, Match, Covered, NoTokens
<1>3. pc' = "scan" /\ rc' = "ok" /\ seg' = i' /\ Stay
  BY <1>2 DEF Match
<1>4. Longest(k, i) /\ LenOf(k) \in Nat /\ LenOf(k) > 0 /\ i + LenOf(k) <= Len(text) + 1
  <2>1. Longest(k, i)
    BY <1>1, <1>2, FirstIsLongest
  <2>2. LenOf(k) \in Nat /\ LenOf(k) > 0
    BY Types, Facts
  <2>3. i + LenOf(k) - 1 <= Len(text)
    BY <2>1 DEF Longest, OccursAt
  <2>4. i \in Nat /\ Len(text) \in Nat
    BY <1>2
  <2> HIDE DEF text
  <2> QED BY <2>1, <2>2, <2>3, <2>4
<1> DEFINE ss == WithSegment(spans, seg, i)
           s == Span(i, i + LenOf(k), k)
<1>5. /\ ss \in Seq(SpanSet) /\ Chained(ss) /\ EndOf(ss) = i
      /\ \A n \in 1..Len(ss) : SpanOK(ss[n])
  <2>1. i \in 1..(Len(text) + 1) /\ seg \in 1..(Len(text) + 1) /\ seg <= i
    BY <1>2
  <2>2. seg = EndOf(spans) /\ (call.raw \/ \A p \in seg..(i - 1) : ~TokenAt(p))
    BY <1>2
  <2> HIDE DEF text
  <2> QED BY <2>1, <2>2, SegmentSpan
<1>6. /\ s \in SpanSet /\ s.from = i /\ s.to = i + LenOf(k) /\ s.tok = k
  BY <1>2, <1>4 DEF Span, SpanSet
<1>7. SpanOK(s)
  <2>1. k # 0
    BY <1>2
  <2> QED BY <1>2, <1>4, <1>6, <2>1 DEF SpanOK
<1>8. /\ spans' \in Seq(SpanSet) /\ Chained(spans')
      /\ \A n \in 1..Len(spans') : SpanOK(spans'[n])
      /\ EndOf(spans') = i'
  <2> HIDE DEF ss, s
  <2>1. spans' = Append(ss, s) /\ i' = i + LenOf(k)
    BY <1>1 DEF ss, s
  <2>2. /\ Append(ss, s) \in Seq(SpanSet) /\ Chained(Append(ss, s))
        /\ \A n \in 1..Len(Append(ss, s)) : SpanOK(Append(ss, s)[n])
        /\ EndOf(Append(ss, s)) = s.to
    BY <1>5, <1>6, <1>7, AppendSpan
  <2> QED BY <1>6, <2>1, <2>2
<1>9. TypeOK'
  <2>1. i' \in 1..(Len(text) + 1)
    BY <1>1, <1>2, <1>4
  <2> QED BY <1>3, <1>8, <2>1, SameMeaning, TablesKeep DEF TypeOK
<1>10. Passed'
  <2>1. i' \in Nat /\ seg' <= i' /\ \A p \in seg'..(i' - 1) : FALSE
    BY <1>1, <1>2, <1>3, <1>4
  <2>2. ~NoTokens'
    BY <1>2, <1>3, SameMeaning
  <2> QED BY <1>2, <1>3, <2>1, <2>2, TablesKeep DEF Passed
<1>11. LeftmostLongest'
  BY <1>3, <1>8, SameMeaning DEF LeftmostLongest
<1>12. Covered'
  BY <1>3, <1>8 DEF Covered, Chained, EndOf
<1> QED BY <1>3, <1>9, <1>10, <1>11, <1>12, TablesKeep DEF IInv

\* The call ends with the segment from..Len(text), or with no more spans.
LEMMA EndKeeps ==
  ASSUME IInv, pc = "scan", Stay, pc' = "done", UNCHANGED <<i, seg>>,
         rc' \in {"ok", "arg", "nomem"},
         \/ rc' # "ok" /\ spans' = spans
         \/ /\ spans' = WithSegment(spans, seg, Len(text) + 1)
            /\ call.raw \/ \A p \in seg..Len(text) : ~TokenAt(p)
  PROVE  IInv'
<1>1. /\ Len(text) \in Nat /\ seg \in 1..(Len(text) + 1) /\ i' = i /\ seg' = seg
      /\ i \in 1..(Len(text) + 1) /\ seg = EndOf(spans)
  BY Facts DEF IInv, Covered
<1>2. /\ spans' \in Seq(SpanSet) /\ Chained(spans')
      /\ \A n \in 1..Len(spans') : SpanOK(spans'[n])
      /\ rc' = "ok" => EndOf(spans') = Len(text) + 1
  <2>1. CASE rc' # "ok" /\ spans' = spans
    BY <2>1, Facts
  <2>2. CASE /\ spans' = WithSegment(spans, seg, Len(text) + 1)
             /\ call.raw \/ \A p \in seg..Len(text) : ~TokenAt(p)
    <3> DEFINE to == Len(text) + 1
    <3>1. to \in 1..(Len(text) + 1) /\ to - 1 = Len(text) /\ seg <= to
      BY <1>1
    <3>2. call.raw \/ \A p \in seg..(to - 1) : ~TokenAt(p)
      BY <2>2, <3>1
    <3>3. spans' = WithSegment(spans, seg, to)
      BY <2>2
    <3> HIDE DEF to
    <3>4. LET ss == WithSegment(spans, seg, to)
          IN /\ ss \in Seq(SpanSet) /\ Chained(ss) /\ \A n \in 1..Len(ss) : SpanOK(ss[n])
             /\ EndOf(ss) = to
      BY <1>1, <3>1, <3>2, SegmentSpan
    <3> QED BY <3>3, <3>4 DEF to
  <2> QED BY <2>1, <2>2
<1>3. TypeOK'
  BY <1>1, <1>2, SameMeaning, TablesKeep DEF TypeOK
<1>4. LeftmostLongest'
  BY <1>2, SameMeaning DEF LeftmostLongest
<1>5. Covered'
  BY <1>2, SameMeaning DEF Covered, Chained, EndOf
<1>6. Passed'
  BY DEF Passed
<1> QED BY <1>3, <1>4, <1>5, <1>6, TablesKeep DEF IInv

\* From the opened file to the scan, which has passed nothing yet.
LEMMA EnterKeeps == IInv /\ Enter => IInv'
<1> SUFFICES ASSUME IInv, Enter PROVE IInv'
  OBVIOUS
<1>1. /\ Stay /\ i' = 1 /\ seg' = 1 /\ spans' = spans /\ spans = <<>>
      /\ Len(order) = Len(added) /\ rc = "ok" /\ pc = "index"
      /\ (pc' = "scan" /\ rc' = "ok") \/ (pc' = "done" /\ rc' = "arg")
  BY DEF IInv, Enter, Stay
<1>2. TypeOK'
  BY <1>1, Facts, SameMeaning, TablesKeep DEF TypeOK
<1>3. Passed'
  <2>1. i' - 1 = 0 /\ \A p \in 1..0 : FALSE
    BY <1>1
  <2> QED BY <1>1, <2>1, TablesKeep DEF Passed
<1>4. LeftmostLongest' /\ Covered'
  BY <1>1 DEF LeftmostLongest, Covered, Chained, EndOf
<1> QED BY <1>1, <1>2, <1>3, <1>4, TablesKeep DEF IInv

LEMMA WholeKeeps == IInv /\ Whole => IInv'
<1> SUFFICES ASSUME IInv, Whole PROVE IInv'
  OBVIOUS
<1>1. /\ pc = "scan" /\ Stay /\ pc' = "done" /\ i' = i /\ seg' = seg /\ rc' = "ok"
      /\ NoTokens /\ spans' = WithSegment(spans, 1, Len(text) + 1)
  BY DEF Whole, InScan
<1>2. seg = 1
  BY <1>1 DEF IInv, Passed, Covered, EndOf
<1>3. call.raw \/ \A p \in seg..Len(text) : ~TokenAt(p)
  BY <1>1 DEF NoTokens, TokenAt
<1> QED BY <1>1, <1>2, <1>3, EndKeeps

LEMMA FinishKeeps == IInv /\ Finish => IInv'
<1> SUFFICES ASSUME IInv, Finish PROVE IInv'
  OBVIOUS
<1>1. /\ pc = "scan" /\ Stay /\ pc' = "done" /\ i' = i /\ seg' = seg /\ rc' = "ok"
      /\ i > Len(text) /\ spans' = WithSegment(spans, seg, Len(text) + 1)
  BY DEF Finish, InScan
<1>2. Len(text) \in Nat /\ i - 1 = Len(text)
  BY <1>1, Facts
<1>3. call.raw \/ \A p \in seg..Len(text) : ~TokenAt(p)
  BY <1>1, <1>2, Facts DEF IInv, Passed
<1> QED BY <1>1, <1>3, EndKeeps

LEMMA FailKeeps == IInv /\ SegmentFails => IInv'
<1> SUFFICES ASSUME IInv, SegmentFails PROVE IInv'
  OBVIOUS
<1>1. /\ pc = "scan" /\ Stay /\ pc' = "done" /\ i' = i /\ seg' = seg /\ spans' = spans
      /\ rc' = "nomem"
  BY DEF SegmentFails, FailsAfter, InScan
<1> QED BY <1>1, EndKeeps

LEMMA SeekKeeps == IInv /\ Seek => IInv'
<1> SUFFICES ASSUME IInv, Seek PROVE IInv'
  OBVIOUS
<1>1. i \in 1..Len(text)
  BY Facts DEF Seek
<1>2. ~TokenAt(i)
  BY <1>1, Facts, FirstByteNeeded DEF Seek
<1> QED BY <1>2, SkipKeeps DEF Seek

LEMMA MissKeeps == IInv /\ Miss => IInv'
<1> SUFFICES ASSUME IInv, Miss PROVE IInv'
  OBVIOUS
<1>1. i \in Nat
  BY Facts
<1>2. ~TokenAt(i)
  BY <1>1, NoMatchNoToken DEF Miss, InScan
<1> QED BY <1>2, SkipKeeps DEF Miss

LEMMA StepKeeps == IInv /\ [Next]_vars => IInv'
<1> SUFFICES ASSUME IInv, [Next]_vars PROVE IInv'
  OBVIOUS
<1>1. CASE Next
  BY <1>1, IndexKeeps, EnterKeeps, WholeKeeps, SeekKeeps, MissKeeps, MatchKeeps,
     FinishKeeps, FailKeeps DEF Next
<1>2. CASE UNCHANGED vars
  <2>1. /\ Stay /\ pc' = pc /\ i' = i /\ seg' = seg /\ spans' = spans /\ rc' = rc
    BY <1>2 DEF vars, Stay
  <2>2. TypeOK'
    BY <2>1, SameMeaning, TablesKeep DEF IInv, TypeOK
  <2>3. Passed'
    BY <2>1, SameMeaning, TablesKeep DEF IInv, Passed
  <2>4. LeftmostLongest' /\ Covered'
    BY <2>1, SameMeaning DEF IInv, LeftmostLongest, Covered, Chained, EndOf
  <2> QED BY <2>1, <2>2, <2>3, <2>4, TablesKeep DEF IInv
<1> QED BY <1>1, <1>2

LEMMA Invariance == Spec => []IInv
BY InitHolds, StepKeeps, PTL DEF Spec

\* Every cut bp_encode makes for an added token is at the longest token there,
\* and no segment it encodes as text has a token beginning in it.
THEOREM TokensLeftmostLongest == Spec => []LeftmostLongest
<1>1. IInv => LeftmostLongest
  BY DEF IInv
<1> QED BY <1>1, Invariance, PTL

\* The cuts follow one another and, when bp_encode succeeds, end with the text.
THEOREM TextCovered == Spec => []Covered
<1>1. IInv => Covered
  BY DEF IInv
<1> QED BY <1>1, Invariance, PTL

\* Positions stay within the text and the token order within its array.
THEOREM EncodeTyped == Spec => []TypeOK
<1>1. IInv => TypeOK
  BY DEF IInv
<1> QED BY <1>1, Invariance, PTL

----------------------------------------------------------------------------
(* What the sink has got.                                                  *)

\* The ids of a list of spans.
IdsOfAll(ss) == FlattenSeq([n \in 1..Len(ss) |-> IdsOf(ss[n])])

LEMMA SpanIds ==
  ASSUME added \in Added, call \in Calls, NEW s \in SpanSet
  PROVE  IdsOf(s) \in Seq(Nat)
<1>1. CASE s.tok = 0
  <2>1. s.from \in 1..(Len(text) + 1) /\ s.to \in 1..(Len(text) + 1)
    BY DEF SpanSet
  <2> QED BY <1>1, <2>1, EncodingAssumption DEF IdsOf, text
<1>2. CASE s.tok # 0
  <2>1. s.tok \in 1..Len(added)
    BY <1>2, Types DEF SpanSet
  <2>2. added[s.tok].id \in Nat
    <3> DEFINE R == [bytes : Seq(Symbol), id : Nat]
    <3>1. added \in Seq(R)
      BY AddedAssumption
    <3>2. added[s.tok] \in R
      <4> HIDE DEF R
      <4> QED BY <2>1, <3>1
    <3> QED BY <3>2
  <2> QED BY <1>2, <2>2 DEF IdsOf
<1> QED BY <1>1, <1>2

\* A span more puts its ids behind the others.
LEMMA SpanAdds ==
  ASSUME added \in Added, call \in Calls, NEW ss \in Seq(SpanSet), NEW s \in SpanSet
  PROVE  /\ IdsOfAll(ss) \in Seq(Nat)
         /\ IdsOfAll(Append(ss, s)) = IdsOfAll(ss) \o IdsOf(s)
<1> DEFINE n == Len(ss)
           x == IdsOf(s)
           lists == [m \in 1..n |-> IdsOf(ss[m])]
           aa == Append(ss, s)
           a == Append(lists, x)
<1>1. n \in Nat /\ \A m \in 1..n : ss[m] \in SpanSet
  OBVIOUS
<1>2. x \in Seq(Nat) /\ \A m \in 1..n : IdsOf(ss[m]) \in Seq(Nat)
  BY <1>1, SpanIds
<1>3. aa[n + 1] = s /\ Len(aa) = n + 1 /\ \A m \in 1..n : aa[m] = ss[m]
  OBVIOUS
<1> HIDE DEF aa, n, x
<1>4. lists \in Seq(Seq(Nat)) /\ Len(lists) = n /\ \A m \in 1..n : lists[m] = IdsOf(ss[m])
  BY <1>1, <1>2
<1> HIDE DEF lists
<1>5. /\ a \in Seq(Seq(Nat)) /\ Len(a) = n + 1 /\ a[n + 1] = x
      /\ \A m \in 1..n : a[m] = lists[m]
  BY <1>1, <1>2, <1>4, AppendProperties
<1>6. FlattenSeq(a) = FlattenSeq(lists) \o x /\ FlattenSeq(lists) \in Seq(Nat)
  BY <1>2, <1>4, FlattenAppend, FlattenType
<1> HIDE DEF a
<1>7. \A m \in 1..(n + 1) : a[m] = IdsOf(aa[m])
  <2>1. a[n + 1] = IdsOf(aa[n + 1])
    BY <1>3, <1>5 DEF x
  <2>2. \A m \in 1..n : a[m] = IdsOf(aa[m])
    BY <1>3, <1>4, <1>5
  <2> QED BY <1>1, <2>1, <2>2
<1>8. a = [m \in 1..(n + 1) |-> a[m]]
  BY <1>1, <1>5
<1>9. a = [m \in 1..(n + 1) |-> IdsOf(aa[m])]
  BY <1>7, <1>8, Zenon
<1>10. IdsOfAll(aa) = FlattenSeq(a)
  BY <1>3, <1>9 DEF IdsOfAll
<1>11. IdsOfAll(ss) = FlattenSeq(lists)
  BY DEF IdsOfAll, lists, n
<1> QED BY <1>6, <1>10, <1>11 DEF aa, x

\* The sink before and after a span.
Got(s, ss) == s \in Sinks(Nat) /\ s.cap = call.cap /\ Holds(s, IdsOfAll(ss))

LEMMA SpanGot ==
  ASSUME added \in Added, call \in Calls, NEW ss \in Seq(SpanSet), NEW x \in SpanSet,
         NEW s, Got(s, ss)
  PROVE  Got(Put(s, IdsOf(x)), Append(ss, x))
<1>1. IdsOf(x) \in Seq(Nat) /\ IdsOfAll(ss) \in Seq(Nat)
      /\ IdsOfAll(Append(ss, x)) = IdsOfAll(ss) \o IdsOf(x)
  BY SpanIds, SpanAdds
<1> QED BY <1>1, PutHolds DEF Got

LEMMA SegmentGot ==
  ASSUME added \in Added, call \in Calls, NEW ss \in Seq(SpanSet), NEW s, Got(s, ss),
         NEW from \in 1..(Len(text) + 1), NEW to \in 1..(Len(text) + 1)
  PROVE  /\ Got(SegmentPut(s, from, to), WithSegment(ss, from, to))
         /\ WithSegment(ss, from, to) \in Seq(SpanSet)
<1>1. CASE from = to
  BY <1>1 DEF SegmentPut, WithSegment
<1>2. CASE from # to
  <2> DEFINE x == Span(from, to, 0)
  <2>1. 0 \in 0..Len(added)
    BY Types
  <2>2. x \in SpanSet
    BY <2>1 DEF Span, SpanSet
  <2>3. x.tok = 0 /\ x.from = from /\ x.to = to
    BY DEF Span
  <2>4. IdsOf(x) = Encoding(SubSeq(text, from, to - 1))
    BY <2>3 DEF IdsOf
  <2>5. /\ SegmentPut(s, from, to) = Put(s, IdsOf(x))
        /\ WithSegment(ss, from, to) = Append(ss, x)
    BY <1>2, <2>4 DEF SegmentPut, WithSegment
  <2> HIDE DEF x
  <2> QED BY <2>2, <2>5, SpanGot, AppendProperties
<1> QED BY <1>1, <1>2

SInv == rc # "nomem" => Got(sink, spans)

LEMMA SinkInit == Init => SInv
<1> SUFFICES ASSUME Init PROVE SInv
  OBVIOUS
<1>1. call.cap \in Nat /\ sink = NewSink(call.cap) /\ spans = <<>>
  BY CallsAssumption DEF Init
<1>2. IdsOfAll(spans) = <<>>
  <2>1. [n \in 1..Len(spans) |-> IdsOf(spans[n])] = <<>>
    BY <1>1
  <2> QED BY <2>1, FlattenEmpty DEF IdsOfAll
<1> QED BY <1>1, <1>2, NewSinkHolds DEF SInv, Got

LEMMA SinkStep == IInv /\ SInv /\ [Next]_vars => SInv'
<1> SUFFICES ASSUME IInv, SInv, [Next]_vars PROVE SInv'
  OBVIOUS
<1>1. /\ added \in Added /\ call \in Calls /\ spans \in Seq(SpanSet)
      /\ Len(text) \in Nat /\ Len(added) \in Nat
      /\ i \in 1..(Len(text) + 1) /\ seg \in 1..(Len(text) + 1)
  BY Facts
<1>2. ASSUME added' = added, call' = call
      PROVE  \A s, ss : Got(s, ss)' <=> Got(s, ss)
  BY <1>2 DEF Got, IdsOfAll, IdsOf, text
<1>3. CASE Index \/ Enter \/ Seek \/ Miss \/ UNCHANGED vars
  <2>1. /\ added' = added /\ call' = call /\ sink' = sink /\ spans' = spans
        /\ rc = "nomem" => rc' = "nomem"
    BY <1>3 DEF Index, Enter, Seek, Miss, vars, Stay, InScan, IInv
  <2> QED BY <1>2, <2>1 DEF SInv
<1>4. CASE Whole \/ Finish
  <2>1. PICK from \in 1..(Len(text) + 1) :
          /\ spans' = WithSegment(spans, from, Len(text) + 1)
          /\ sink' = SegmentPut(sink, from, Len(text) + 1)
    BY <1>1, <1>4 DEF Whole, Finish
  <2>2. added' = added /\ call' = call /\ rc # "nomem"
    BY <1>4 DEF Whole, Finish, Stay, InScan
  <2>3. Len(text) + 1 \in 1..(Len(text) + 1)
    BY <1>1
  <2>4. Got(sink', spans')
    BY <1>1, <2>1, <2>2, <2>3, SegmentGot DEF SInv
  <2> QED BY <1>2, <2>2, <2>4 DEF SInv
<1>5. CASE Match
  <2>1. PICK k \in 1..Len(added) :
          /\ Matched(k, i)
          /\ spans' = Append(WithSegment(spans, seg, i), Span(i, i + LenOf(k), k))
          /\ sink' = Put(SegmentPut(sink, seg, i), <<added[k].id>>)
    BY <1>5 DEF Match
  <2> DEFINE x == Span(i, i + LenOf(k), k)
             ss == WithSegment(spans, seg, i)
             s == SegmentPut(sink, seg, i)
  <2>2. added' = added /\ call' = call /\ rc # "nomem"
    BY <1>5 DEF Match, Stay, InScan
  <2>3. Got(s, ss) /\ ss \in Seq(SpanSet)
    BY <1>1, <2>2, SegmentGot DEF SInv
  <2>4. i + LenOf(k) \in 1..(Len(text) + 1)
    <3>1. OccursAt(k, i) /\ LenOf(k) \in Nat
      BY <1>1, <2>1, Types DEF Matched
    <3>2. i + LenOf(k) - 1 <= Len(text)
      BY <3>1 DEF OccursAt
    <3> QED BY <1>1, <3>1, <3>2
  <2>5. x \in SpanSet
    BY <1>1, <2>4 DEF Span, SpanSet
  <2>6. IdsOf(x) = <<added[k].id>>
    BY <1>1 DEF IdsOf, Span
  <2> HIDE DEF x, ss, s
  <2>7. Got(Put(s, IdsOf(x)), Append(ss, x))
    BY <1>1, <2>3, <2>5, SpanGot
  <2>8. Got(sink', spans')
    BY <2>1, <2>6, <2>7 DEF x, ss, s
  <2> QED BY <1>2, <2>2, <2>8 DEF SInv
<1>6. CASE SegmentFails
  BY <1>6 DEF SegmentFails, FailsAfter, SInv
<1> QED BY <1>3, <1>4, <1>5, <1>6 DEF Next

\* The sink has counted the ids of every token and segment found so far and
\* holds as many as fit, unless memory ran out in the middle of a segment.
THEOREM EncodeCounts == Spec => []SinkOK
<1>1. SInv => SinkOK
  BY DEF SInv, Got, SinkOK, AllIds, IdsOfAll
<1>2. IInv /\ SInv /\ [Next]_vars => (IInv /\ SInv)'
  BY SinkStep, StepKeeps
<1> QED BY <1>1, <1>2, InitHolds, SinkInit, PTL DEF Spec

----------------------------------------------------------------------------
(* bp_decode.                                                              *)

\* What the first n ids contribute.
Output(n) == FlattenSeq([k \in 1..n |-> D!Shown(dcall.ids[k])])

\* The inductive invariant of a decode call.
DInv ==
  /\ dcall.ids \in Seq(Nat) /\ dcall.skipSpecial \in BOOLEAN
  /\ D!TypeOK
  /\ dpc = "search" => dcall.skipSpecial
  /\ D!SearchSound
  /\ dpc = "copy" /\ dcall.skipSpecial => ~D!Special(dcall.ids[di])
  /\ \A k \in 1..(di - 1) : ~D!Bad(dcall.ids[k])
  /\ drc # "ok" => dpc = "done"
  /\ drc = "arg" => D!BadCall
  /\ drc = "range" => di <= Len(dcall.ids) /\ D!Bad(dcall.ids[di])
  /\ dpc = "done" /\ drc = "ok" => di = Len(dcall.ids) + 1
  /\ dsink \in Sinks(Symbol) /\ Holds(dsink, Output(di - 1))

\* What bp_vocab_open guarantees of a vocabulary.
LEMMA ViewFacts ==
  ASSUME dvocab \in Views
  PROVE  /\ dvocab.bytes \in Seq(Seq(Symbol)) /\ Len(dvocab.bytes) \in Nat
         /\ Len(dvocab.added) \in Nat
         /\ \A k \in 1..Len(dvocab.added) :
              /\ dvocab.added[k].id \in Nat /\ dvocab.added[k].special \in BOOLEAN
              /\ ~D!Bad(dvocab.added[k].id)
         /\ \A j, k \in 1..Len(dvocab.added) : j < k => dvocab.added[j].id < dvocab.added[k].id
<1> DEFINE R == [id : 0..(Len(dvocab.bytes) - 1), special : BOOLEAN]
<1>1. /\ dvocab.bytes \in Seq(Seq(Symbol))
      /\ dvocab.added \in Seq(R)
      /\ \A j, k \in 1..Len(dvocab.added) : j < k => dvocab.added[j].id < dvocab.added[k].id
      /\ \A k \in 1..Len(dvocab.added) : Len(dvocab.bytes[dvocab.added[k].id + 1]) > 0
  BY ViewsAssumption DEF D!VocabsTyped
<1>2. Len(dvocab.bytes) \in Nat /\ Len(dvocab.added) \in Nat
  BY <1>1
<1>3. \A k \in 1..Len(dvocab.added) : dvocab.added[k] \in R
  <2> HIDE DEF R
  <2> QED BY <1>1
<1>4. ASSUME NEW k \in 1..Len(dvocab.added)
      PROVE  /\ dvocab.added[k].id \in Nat /\ dvocab.added[k].special \in BOOLEAN
             /\ ~D!Bad(dvocab.added[k].id)
  <2>1. /\ dvocab.added[k].id \in 0..(Len(dvocab.bytes) - 1)
        /\ dvocab.added[k].special \in BOOLEAN
    BY <1>3
  <2>2. dvocab.bytes[dvocab.added[k].id + 1] # <<>>
    <3>1. Len(dvocab.bytes[dvocab.added[k].id + 1]) > 0
      BY <1>1, Zenon
    <3>2. Len(<<>>) = 0
      OBVIOUS
    <3> QED BY <3>1, <3>2
  <2> QED BY <1>2, <2>1, <2>2 DEF D!Bad, D!BytesOf
<1> QED BY <1>1, <1>2, <1>4

\* The vocabulary and the call stay what they are.
LEMMA SameCall ==
  ASSUME dvocab' = dvocab, dcall' = dcall
  PROVE  /\ \A n : Output(n)' = Output(n)
         /\ \A id : D!Bad(id)' = D!Bad(id) /\ D!Special(id)' = D!Special(id)
        /\ D!BadCall' = D!BadCall
  BY DEF D!BadCall, Output, D!Shown, D!Bad, D!Special, D!BytesOf

LEMMA OutputNext ==
  ASSUME dvocab \in Views, dcall.ids \in Seq(Nat), NEW n \in Nat, n + 1 <= Len(dcall.ids),
         \A k \in 1..(n + 1) : dcall.ids[k] < Len(dvocab.bytes)
  PROVE  /\ Output(n) \in Seq(Symbol) /\ D!Shown(dcall.ids[n + 1]) \in Seq(Symbol)
         /\ Output(n + 1) = Output(n) \o D!Shown(dcall.ids[n + 1])
<1> DEFINE W(k) == D!Shown(dcall.ids[k])
           a == [k \in 1..n |-> W(k)]
           x == W(n + 1)
<1>1. ASSUME NEW k \in 1..(n + 1) PROVE W(k) \in Seq(Symbol)
  <2>1. dcall.ids[k] \in Nat /\ dcall.ids[k] < Len(dvocab.bytes)
    OBVIOUS
  <2>2. D!BytesOf(dcall.ids[k]) \in Seq(Symbol)
    <3>1. dcall.ids[k] + 1 \in 1..Len(dvocab.bytes) /\ dvocab.bytes \in Seq(Seq(Symbol))
      BY <2>1, ViewFacts
    <3> DEFINE S == Seq(Symbol)
    <3> HIDE DEF S
    <3>2. dvocab.bytes \in Seq(S)
      BY <3>1 DEF S
    <3>3. dvocab.bytes[dcall.ids[k] + 1] \in S
      BY <3>1, <3>2
    <3> QED BY <3>3 DEF S, D!BytesOf
  <2> QED BY <2>2 DEF D!Shown
<1> HIDE DEF W
<1>2. a \in Seq(Seq(Symbol)) /\ x \in Seq(Symbol) /\ Len(a) = n
  BY <1>1
<1>3. Append(a, x) = [k \in 1..(n + 1) |-> W(k)]
  <2> DEFINE b == Append(a, x)
  <2>1. b \in Seq(Seq(Symbol)) /\ Len(b) = n + 1 /\ b[n + 1] = x /\ \A k \in 1..n : b[k] = a[k]
    BY <1>2, AppendProperties
  <2> HIDE DEF b
  <2>2. b = [k \in 1..(n + 1) |-> b[k]]
    BY <2>1
  <2>3. \A k \in 1..(n + 1) : b[k] = W(k)
    BY <2>1
  <2> QED BY <2>2, <2>3, Zenon DEF b
<1>4. FlattenSeq(Append(a, x)) = FlattenSeq(a) \o x /\ FlattenSeq(a) \in Seq(Symbol)
  <2> HIDE DEF a, x
  <2> QED BY <1>2, FlattenAppend, FlattenType
<1> QED BY <1>2, <1>3, <1>4 DEF Output, W

LEMMA DecodeStepKeeps ==
  ASSUME dvocab \in Views, DInv, [D!Next]_dvars
  PROVE  DInv' /\ dvocab' \in Views
<1>1. dvocab' = dvocab /\ dcall' = dcall
  BY DEF D!Next, dvars, D!Enter, D!Finish, D!OutOfRange, D!Begin, D!HalveLeft, D!HalveRight,
         D!Found, D!NotFound, D!Unused, D!Copy, D!Return
<1> DEFINE id == dcall.ids[di]
           n == Len(dcall.ids)
           t == dvocab.added
           m == (lo + hi) \div 2
<1>2. /\ dcall.ids \in Seq(Nat) /\ n \in Nat /\ di \in 1..(n + 1)
      /\ dcall.skipSpecial \in BOOLEAN /\ drc \in {"ok", "arg", "range"}
      /\ dpc \in {"enter", "next", "search", "copy", "done"}
      /\ lo \in 0..Len(t) /\ hi \in 0..Len(t) /\ lo <= hi /\ Len(t) \in Nat
      /\ dpc \in {"search", "copy"} => di <= n /\ id < Len(dvocab.bytes)
      /\ di <= n => id \in Nat
  BY ViewFacts DEF DInv, D!TypeOK
<1>3. /\ dpc = "search" => dcall.skipSpecial
      /\ dpc = "search" => \A k \in 1..Len(t) : t[k].id = id => k \in (lo + 1)..hi
      /\ dpc = "copy" /\ dcall.skipSpecial => ~D!Special(id)
      /\ \A k \in 1..(di - 1) : ~D!Bad(dcall.ids[k])
      /\ drc # "ok" => dpc = "done"
      /\ dsink \in Sinks(Symbol) /\ Holds(dsink, Output(di - 1))
  BY DEF DInv, D!SearchSound
<1>4. \A k \in 1..(di - 1) : k \in 1..n /\ dcall.ids[k] < Len(dvocab.bytes)
  <2> SUFFICES ASSUME NEW k \in 1..(di - 1) PROVE k \in 1..n /\ dcall.ids[k] < Len(dvocab.bytes)
    OBVIOUS
  <2>1. k \in 1..n
    BY <1>2
  <2>2. ~D!Bad(dcall.ids[k])
    BY <1>3, Zenon
  <2>3. ~(dcall.ids[k] >= Len(dvocab.bytes))
    BY <2>2, Zenon DEF D!Bad
  <2>4. dcall.ids[k] \in Nat
    BY <1>2, <2>1
  <2>5. Len(dvocab.bytes) \in Nat
    BY ViewFacts
  <2> HIDE DEF n
  <2> QED BY <2>1, <2>3, <2>4, <2>5
\* A step back to the loop, after an id that is not bad.
<1>5. ASSUME di <= n, ~D!Bad(id), di' = di + 1, dpc' = "next", drc' = drc, drc = "ok",
             UNCHANGED <<lo, hi>>, dsink' \in Sinks(Symbol), Holds(dsink', Output(di))
      PROVE  DInv'
  <2>1. di' \in 1..(n + 1) /\ di' - 1 = di
    BY <1>2, <1>5
  <2>2. \A k \in 1..(di' - 1) : ~D!Bad(dcall.ids[k])
    <3> SUFFICES ASSUME NEW k \in 1..(di' - 1) PROVE ~D!Bad(dcall.ids[k])
      OBVIOUS
    <3>1. k = di \/ k \in 1..(di - 1)
      <4>1. di \in Nat
        <5>1. di \in 1..(n + 1) /\ n \in Nat
          BY <1>2, Zenon
        <5> HIDE DEF n
        <5> QED BY <5>1
      <4>2. k \in 1..di
        BY <2>1
      <4> QED BY <4>1, <4>2
    <3>2. CASE k = di
      BY <1>5, <3>2, Zenon
    <3>3. CASE k \in 1..(di - 1)
      BY <1>3, <3>3, Zenon
    <3> QED BY <3>1, <3>2, <3>3
  <2> QED BY <1>1, <1>2, <1>3, <1>5, <2>1, <2>2, SameCall DEF DInv, D!TypeOK, D!SearchSound
\* A step that looks at the same id.
<1>6. ASSUME UNCHANGED <<di, dsink>>, lo' \in 0..Len(t), hi' \in 0..Len(t), lo' <= hi',
             dpc' \in {"next", "search", "copy", "done"}, drc' \in {"ok", "arg", "range"},
             dpc' \in {"search", "copy"} => di <= n /\ id < Len(dvocab.bytes),
             dpc' = "search" => dcall.skipSpecial,
             dpc' = "search" => \A k \in 1..Len(t) : t[k].id = id => k \in (lo' + 1)..hi',
             dpc' = "copy" /\ dcall.skipSpecial => ~D!Special(id),
             drc' # "ok" => dpc' = "done",
             drc' = "arg" => D!BadCall,
             drc' = "range" => di <= n /\ D!Bad(id),
             dpc' = "done" /\ drc' = "ok" => di = n + 1
      PROVE  DInv'
  BY <1>1, <1>2, <1>3, <1>6, SameCall DEF DInv, D!TypeOK, D!SearchSound
<1>7. CASE D!Enter
  BY <1>2, <1>3, <1>6, <1>7 DEF D!Enter, D!Return
<1>8. CASE D!Finish
  BY <1>2, <1>3, <1>6, <1>8 DEF D!Finish, D!Return
<1>9. CASE D!OutOfRange
  <2>1. D!Bad(id)
    BY <1>9 DEF D!OutOfRange, D!Bad
  <2> QED BY <1>2, <1>3, <1>6, <1>9, <2>1 DEF D!OutOfRange, D!Return
<1>10. CASE D!Begin
  <2>1. dpc' = "search" => \A k \in 1..Len(t) : t[k].id = id => k \in (lo' + 1)..hi'
    BY <1>10 DEF D!Begin
  <2> QED BY <1>2, <1>3, <1>6, <1>10, <2>1 DEF D!Begin
<1>11. ASSUME dpc = "search", lo < hi
       PROVE  /\ m \in lo..(hi - 1) /\ m + 1 \in 1..Len(t) /\ D!Mid = t[m + 1]
              /\ t[m + 1].id \in Nat
              /\ \A k \in 1..Len(t) : /\ k < m + 1 => t[k].id < t[m + 1].id
                                      /\ k > m + 1 => t[k].id > t[m + 1].id
              /\ \A k \in 1..Len(t) : t[k].id \in Nat
  <2>1. m \in lo..(hi - 1) /\ m + 1 \in 1..Len(t)
    BY <1>2, <1>11
  <2> HIDE DEF m
  <2>2. \A k \in 1..Len(t) : t[k].id \in Nat
    BY ViewFacts
  <2>3. \A k \in 1..Len(t) : /\ k < m + 1 => t[k].id < t[m + 1].id
                             /\ k > m + 1 => t[k].id > t[m + 1].id
    <3> SUFFICES ASSUME NEW k \in 1..Len(t)
                 PROVE  /\ k < m + 1 => t[k].id < t[m + 1].id
                        /\ k > m + 1 => t[k].id > t[m + 1].id
      OBVIOUS
    <3>1. k < m + 1 => t[k].id < t[m + 1].id
      BY <2>1, ViewFacts
    <3>2. m + 1 < k => t[m + 1].id < t[k].id
      BY <2>1, ViewFacts
    <3> QED BY <2>1, <2>2, <3>1, <3>2
  <2> QED BY <2>1, <2>2, <2>3 DEF D!Mid, m
<1>12. CASE D!HalveLeft
  <2>1. dpc = "search" /\ lo < hi /\ D!Mid.id > id /\ hi' = m /\ lo' = lo
    BY <1>12 DEF D!HalveLeft
  <2>2. m \in lo..(hi - 1) /\ t[m + 1].id > id /\ t[m + 1].id \in Nat
    BY <1>11, <2>1
  <2>3. ASSUME NEW k \in 1..Len(t), t[k].id = id PROVE k \in (lo' + 1)..hi'
    <3>1. k \in (lo + 1)..hi
      BY <1>3, <2>1, <2>3
    <3>2. /\ k \in Nat /\ id \in Nat /\ t[m + 1].id > t[k].id
          /\ k > m + 1 => t[k].id > t[m + 1].id
      BY <1>2, <1>11, <2>1, <2>2, <2>3
    <3>3. t[k].id \in Nat
      BY <1>11, <2>1
    <3>4. k # m + 1
      <4> DEFINE x == t[k].id
                 y == t[m + 1].id
      <4>1. x \in Nat /\ y > x /\ (k = m + 1 => y = x)
        BY <3>2, <3>3
      <4> HIDE DEF x, y
      <4> QED BY <4>1
    <3>5. ~(k > m + 1)
      <4> DEFINE x == t[k].id
                 y == t[m + 1].id
      <4>1. x \in Nat /\ y \in Nat /\ y > x /\ (k > m + 1 => x > y)
        BY <2>2, <3>2, <3>3
      <4> HIDE DEF x, y
      <4> QED BY <4>1
    <3> HIDE DEF m
    <3> QED BY <1>2, <2>1, <2>2, <3>1, <3>2, <3>4, <3>5
  <2> HIDE DEF m
  <2>4. lo' \in 0..Len(t) /\ hi' \in 0..Len(t) /\ lo' <= hi'
    BY <1>2, <2>1, <2>2
  <2> QED BY <1>2, <1>3, <1>6, <1>12, <2>1, <2>3, <2>4 DEF D!HalveLeft
<1>13. CASE D!HalveRight
  <2>1. dpc = "search" /\ lo < hi /\ D!Mid.id < id /\ lo' = m + 1 /\ hi' = hi
    BY <1>13 DEF D!HalveRight
  <2>2. m \in lo..(hi - 1) /\ t[m + 1].id < id /\ t[m + 1].id \in Nat
    BY <1>11, <2>1
  <2>3. ASSUME NEW k \in 1..Len(t), t[k].id = id PROVE k \in (lo' + 1)..hi'
    <3>1. k \in (lo + 1)..hi
      BY <1>3, <2>1, <2>3
    <3>2. /\ k \in Nat /\ id \in Nat /\ t[m + 1].id < t[k].id
          /\ k < m + 1 => t[k].id < t[m + 1].id
      BY <1>2, <1>11, <2>1, <2>2, <2>3
    <3>3. t[k].id \in Nat
      BY <1>11, <2>1
    <3>4. k # m + 1
      <4> DEFINE x == t[k].id
                 y == t[m + 1].id
      <4>1. x \in Nat /\ y < x /\ (k = m + 1 => y = x)
        BY <3>2, <3>3
      <4> HIDE DEF x, y
      <4> QED BY <4>1
    <3>5. ~(k < m + 1)
      <4> DEFINE x == t[k].id
                 y == t[m + 1].id
      <4>1. x \in Nat /\ y \in Nat /\ y < x /\ (k < m + 1 => x < y)
        BY <2>2, <3>2, <3>3
      <4> HIDE DEF x, y
      <4> QED BY <4>1
    <3> HIDE DEF m
    <3> QED BY <1>2, <2>1, <2>2, <3>1, <3>2, <3>4, <3>5
  <2> HIDE DEF m
  <2>4. lo' \in 0..Len(t) /\ hi' \in 0..Len(t) /\ lo' <= hi'
    <3>1. /\ lo \in 0..Len(t) /\ hi \in 0..Len(t) /\ lo <= hi /\ Len(t) \in Nat
          /\ m \in lo..(hi - 1) /\ lo' = m + 1 /\ hi' = hi
      BY <1>2, <2>1, <2>2, Zenon
    <3> HIDE DEF t
    <3> QED BY <3>1
  <2> QED BY <1>2, <1>3, <1>6, <1>13, <2>1, <2>3, <2>4 DEF D!HalveRight
<1>14. CASE D!Found
  <2>1. dpc = "search" /\ lo < hi /\ D!Mid.id = id /\ drc = "ok"
    BY <1>3, <1>14 DEF D!Found
  <2>2. m + 1 \in 1..Len(t) /\ D!Mid = t[m + 1] /\ t[m + 1].id = id
    BY <1>11, <2>1
  <2>3. \A k \in 1..Len(t) : t[k].id = id => k = m + 1
    BY <1>2, <1>11, <2>1, <2>2
  <2>4. D!Special(id) <=> D!Mid.special
    BY <2>2, <2>3, ViewFacts DEF D!Special
  <2>5. ~D!Bad(id)
    BY <2>2, ViewFacts
  <2>6. CASE D!Mid.special
    <3>1. D!Shown(id) = <<>>
      BY <1>3, <2>1, <2>4, <2>6 DEF D!Shown
    <3>2. Output(di) = Output(di - 1)
      <4>1. di - 1 \in Nat /\ (di - 1) + 1 = di /\ di <= n
        BY <1>2, <2>1
      <4>2. \A k \in 1..di : dcall.ids[k] < Len(dvocab.bytes)
        BY <1>2, <1>4, <2>1
      <4>3. Output(di) = Output(di - 1) \o <<>> /\ Output(di - 1) \in Seq(Symbol)
        BY <1>2, <3>1, <4>1, <4>2, OutputNext
      <4> DEFINE o == Output(di - 1)
      <4> HIDE DEF o
      <4>4. o \in Seq(Symbol) => o \o <<>> = o
        OBVIOUS
      <4> QED BY <4>3, <4>4 DEF o
    <3> QED BY <1>2, <1>3, <1>5, <1>14, <2>1, <2>5, <2>6, <3>2 DEF D!Found
  <2>7. CASE ~D!Mid.special
    BY <1>2, <1>3, <1>6, <1>14, <2>1, <2>4, <2>7 DEF D!Found
  <2> QED BY <2>6, <2>7
<1>15. CASE D!NotFound
  <2>1. dpc = "search" /\ lo >= hi /\ dpc' = "copy"
    BY <1>15 DEF D!NotFound
  <2>2. ~D!Special(id)
    <3>1. \A k \in 1..Len(t) : t[k].id = id => k \in (lo + 1)..hi
      BY <1>3, <2>1
    <3>2. \A k : k \notin (lo + 1)..hi
      BY <1>2, <2>1
    <3>3. \A k \in 1..Len(t) : t[k].id # id
      BY <3>1, <3>2, Zenon
    <3> QED BY <3>3, Zenon DEF D!Special
  <2> QED BY <1>2, <1>3, <1>6, <1>15, <2>1, <2>2 DEF D!NotFound
<1>16. CASE D!Unused
  <2>1. D!Bad(id)
    BY <1>16 DEF D!Unused, D!Bad
  <2> QED BY <1>2, <1>3, <1>6, <1>16, <2>1 DEF D!Unused, D!Return
<1>17. CASE D!Copy
  <2>1. dpc = "copy" /\ di <= n /\ id < Len(dvocab.bytes) /\ drc = "ok" /\ id \in Nat
    BY <1>2, <1>3, <1>17 DEF D!Copy
  <2>2. ~D!Bad(id)
    BY <1>17, <2>1, ViewFacts DEF D!Copy, D!Bad
  <2>3. D!Shown(id) = D!BytesOf(id)
    BY <1>3, <2>1 DEF D!Shown
  <2>4. /\ Output(di - 1) \in Seq(Symbol) /\ D!BytesOf(id) \in Seq(Symbol)
        /\ Output(di) = Output(di - 1) \o D!BytesOf(id)
    <3>1. di - 1 \in Nat /\ (di - 1) + 1 = di
      BY <1>2
    <3>2. \A k \in 1..di : dcall.ids[k] < Len(dvocab.bytes)
      BY <1>2, <1>4, <2>1
    <3> QED BY <1>2, <2>1, <2>3, <3>1, <3>2, OutputNext
  <2>5. dsink' = Put(dsink, D!BytesOf(id))
    BY <1>17 DEF D!Copy, D!Put, Put
  <2>6. dsink' \in Sinks(Symbol) /\ Holds(dsink', Output(di))
    <3> DEFINE x == D!BytesOf(id)
               o == Output(di - 1)
    <3>1. x \in Seq(Symbol) /\ o \in Seq(Symbol) /\ Holds(dsink, o) /\ dsink' = Put(dsink, x)
          /\ Output(di) = o \o x /\ dsink \in Sinks(Symbol)
      BY <1>3, <2>4, <2>5
    <3> HIDE DEF x, o
    <3> QED BY <3>1, PutHolds
  <2> QED BY <1>2, <1>3, <1>5, <1>17, <2>1, <2>2, <2>6 DEF D!Copy
<1>18. CASE UNCHANGED dvars
  <2>1. UNCHANGED <<dpc, di, lo, hi, dsink, drc>>
    BY <1>18 DEF dvars
  <2> QED BY <1>1, <2>1, SameCall DEF DInv, D!TypeOK, D!SearchSound
<1> QED
  BY <1>1, <1>7, <1>8, <1>9, <1>10, <1>12, <1>13, <1>14, <1>15, <1>16, <1>17, <1>18 DEF D!Next

----------------------------------------------------------------------------
(* One call after the other.                                               *)

\* No call of bp_encode was made, or it is under way or has returned.
EncodeSide ==
  \/ pc = "idle" /\ spans = <<>> /\ seg = 1 /\ rc = "ok" /\ sink = NewSink(0)
  \/ IInv /\ SInv /\ Agrees(dvocab, added)

\* No call of bp_decode was made yet, or it is under way or has returned.
DecodeSide ==
  \/ /\ dpc = "idle" /\ pc # "idle" /\ di = 1 /\ lo = 0 /\ hi = 0 /\ drc = "ok"
     /\ dsink = NewSink(Room) /\ dcall = Request(<<>>, FALSE)
  \/ dpc # "idle" /\ DInv

\* What was encoded is what is decoded.
Handed ==
  dpc # "idle" /\ pc # "idle" =>
    pc = "done" /\ (rc = "ok" => \E skip \in BOOLEAN : dcall = Request(sink.out, skip))

RInv == dvocab \in Views /\ EncodeSide /\ DecodeSide /\ Handed

LEMMA OutputZero == Output(0) = <<>>
<1>1. [k \in 1..0 |-> D!Shown(dcall.ids[k])] = <<>>
  OBVIOUS
<1> QED BY <1>1, FlattenEmpty DEF Output

\* A call of bp_decode begins, or is never made.
Starting ==
  /\ dvocab \in Views /\ dcall.ids \in Seq(Nat) /\ dcall.skipSpecial \in BOOLEAN
  /\ dpc = "enter" \/ (dpc = "done" /\ dcall.ids = <<>>)
  /\ di = 1 /\ lo = 0 /\ hi = 0 /\ drc = "ok"
  /\ \E cap \in Nat : dsink = NewSink(cap)

LEMMA DecodeStarts == Starting => DInv
<1> SUFFICES ASSUME Starting PROVE DInv
  OBVIOUS
<1> USE DEF Starting
<1>1. D!TypeOK
  <2>1. Len(dcall.ids) \in Nat /\ 1 \in 1..(Len(dcall.ids) + 1)
    OBVIOUS
  <2>2. 0 \in 0..Len(dvocab.added)
    BY ViewFacts
  <2> QED BY <2>1, <2>2 DEF D!TypeOK
<1>2. dsink \in Sinks(Symbol) /\ Holds(dsink, Output(di - 1))
  <2>1. di - 1 = 0
    OBVIOUS
  <2> QED BY <2>1, OutputZero, NewSinkHolds
<1> QED BY <1>1, <1>2 DEF DInv, D!SearchSound

LEMMA SessionInit == RoundTripInit => RInv
<1> SUFFICES ASSUME RoundTripInit PROVE RInv
  OBVIOUS
<1>1. CASE EncodeFirst
  <2>1. IInv /\ SInv
    BY <1>1, InitHolds, SinkInit DEF EncodeFirst
  <2> QED BY <1>1, <2>1 DEF EncodeFirst, RInv, EncodeSide, DecodeSide, Handed, Init
<1>2. CASE DecodeOnly
  <2>1. /\ dvocab \in Views /\ dcall \in Requests /\ dpc = "enter" /\ di = 1 /\ lo = 0
        /\ hi = 0 /\ dsink = NewSink(dcall.cap) /\ drc = "ok"
    BY <1>2 DEF DecodeOnly, D!Init, D!NewSink, NewSink
  <2>2. dcall.ids \in Seq(Nat) /\ dcall.skipSpecial \in BOOLEAN /\ dcall.cap \in Nat
    BY <2>1, RequestsAssumption DEF D!CallsTyped
  <2>3. DInv
    BY <2>1, <2>2, DecodeStarts DEF Starting
  <2> QED BY <1>2, <2>1, <2>3 DEF DecodeOnly, RInv, EncodeSide, DecodeSide, Handed
<1> QED BY <1>1, <1>2 DEF RoundTripInit

LEMMA SessionStep == RInv /\ [RoundTripNext]_allVars => RInv'
<1> SUFFICES ASSUME RInv, [RoundTripNext]_allVars PROVE RInv'
  OBVIOUS
<1>1. CASE EncodeStep
  <2>1. pc \notin {"idle", "done"} /\ added' = added
    BY <1>1 DEF EncodeStep, Next, Index, Enter, Whole, Seek, Miss, Match, Finish, SegmentFails,
                InScan, Stay, FailsAfter
  <2>2. dpc = "idle" /\ dpc' = "idle" /\ UNCHANGED dvars
    BY <1>1, <2>1 DEF RInv, Handed, EncodeStep, dvars
  <2>3. IInv /\ SInv /\ Agrees(dvocab, added)
    BY <2>1 DEF RInv, EncodeSide
  <2>4. IInv' /\ SInv'
    BY <1>1, <2>3, StepKeeps, SinkStep DEF EncodeStep
  <2>5. Agrees(dvocab, added)'
    BY <2>1, <2>2, <2>3 DEF Agrees, dvars
  <2>6. pc' # "idle"
    BY <2>4 DEF IInv, TypeOK
  <2>7. DecodeSide'
    BY <2>2, <2>6 DEF RInv, DecodeSide, DInv, D!TypeOK, Request, dvars
  <2> QED BY <2>2, <2>4, <2>5, <2>7 DEF RInv, EncodeSide, Handed, dvars
<1>2. CASE HandOver
  <2>1. /\ pc = "done" /\ rc = "ok" /\ dpc = "idle" /\ dpc' = "enter" /\ UNCHANGED vars
        /\ UNCHANGED <<dvocab, di, lo, hi, dsink, drc>>
    BY <1>2 DEF HandOver
  <2>2. PICK skip \in BOOLEAN : dcall' = Request(sink.out, skip)
    BY <1>2 DEF HandOver
  <2>3. IInv /\ SInv /\ Agrees(dvocab, added)
    BY <2>1 DEF RInv, EncodeSide
  <2>4. sink.out \in Seq(Nat)
    BY <2>1, <2>3 DEF SInv, Got, Sinks
  <2>5. dcall'.ids \in Seq(Nat) /\ dcall'.skipSpecial \in BOOLEAN
    BY <2>2, <2>4 DEF Request
  <2>6. /\ dvocab \in Views /\ di = 1 /\ lo = 0 /\ hi = 0 /\ drc = "ok" /\ dsink = NewSink(Room)
    BY <2>1 DEF RInv, DecodeSide
  <2>7. DInv'
    <3>1. /\ dvocab' \in Views /\ di' = 1 /\ lo' = 0 /\ hi' = 0 /\ drc' = "ok"
          /\ dsink' = NewSink(Room)
      BY <2>1, <2>6
    <3>2. Starting'
      BY <2>1, <2>5, <3>1, RoomAssumption DEF Starting
    <3> QED BY <3>2, DecodeStarts, PTL
  <2>8. EncodeSide'
    BY <2>1, <2>3, StepKeeps, SinkStep DEF EncodeSide, Agrees, vars
  <2>9. Handed'
    BY <2>1, <2>2 DEF Handed, vars
  <2> QED BY <2>1, <2>6, <2>7, <2>8, <2>9 DEF RInv, DecodeSide
<1>3. CASE GiveUp
  <2>1. /\ pc = "done" /\ rc # "ok" /\ dpc = "idle" /\ dpc' = "done" /\ UNCHANGED vars
        /\ UNCHANGED <<dvocab, dcall, di, lo, hi, dsink, drc>>
    BY <1>3 DEF GiveUp
  <2>2. /\ dvocab \in Views /\ di = 1 /\ lo = 0 /\ hi = 0 /\ drc = "ok" /\ dsink = NewSink(Room)
        /\ dcall = Request(<<>>, FALSE)
    BY <2>1 DEF RInv, DecodeSide
  <2>3. dcall.ids = <<>> /\ dcall.skipSpecial = FALSE
    BY <2>2 DEF Request
  <2>4. DInv'
    <3>1. dcall.ids \in Seq(Nat) /\ dcall.skipSpecial \in BOOLEAN
      <4>1. <<>> \in Seq(Nat) /\ FALSE \in BOOLEAN
        OBVIOUS
      <4> QED BY <2>3, <4>1, Zenon
    <3>2. Starting'
      BY <2>1, <2>2, <2>3, <3>1, RoomAssumption DEF Starting
    <3> QED BY <3>2, DecodeStarts, PTL
  <2>5. EncodeSide'
    <3>1. IInv /\ SInv /\ Agrees(dvocab, added)
      BY <2>1 DEF RInv, EncodeSide
    <3> QED BY <2>1, <3>1, StepKeeps, SinkStep DEF EncodeSide, Agrees, vars
  <2> QED BY <2>1, <2>2, <2>4, <2>5 DEF RInv, DecodeSide, Handed, vars
<1>4. CASE DecodeStep
  <2>1. dpc # "idle" /\ dcall' = dcall /\ dvocab' = dvocab /\ UNCHANGED vars
    BY <1>4 DEF DecodeStep, D!Next, D!Enter, D!Finish, D!OutOfRange, D!Begin, D!HalveLeft,
                D!HalveRight, D!Found, D!NotFound, D!Unused, D!Copy, D!Return
  <2>2. DInv' /\ dvocab' \in Views
    BY <1>4, <2>1, DecodeStepKeeps DEF RInv, DecodeSide, DecodeStep
  <2>3. dpc' # "idle"
    BY <2>2 DEF DInv, D!TypeOK
  <2>4. EncodeSide'
    <3>1. CASE pc = "idle"
      BY <2>1, <3>1 DEF RInv, EncodeSide, vars, IInv, TypeOK
    <3>2. CASE pc # "idle"
      BY <2>1, <3>2, StepKeeps, SinkStep DEF RInv, EncodeSide, Agrees, vars
    <3> QED BY <3>1, <3>2
  <2>5. Handed'
    BY <2>1 DEF RInv, Handed, vars
  <2> QED BY <2>2, <2>3, <2>4, <2>5 DEF RInv, DecodeSide
<1>5. CASE UNCHANGED allVars
  <2>1. UNCHANGED vars /\ UNCHANGED dvars
    BY <1>5 DEF allVars
  <2>2. EncodeSide'
    <3>1. CASE pc = "idle"
      BY <2>1, <3>1 DEF RInv, EncodeSide, vars, IInv, TypeOK
    <3>2. CASE pc # "idle"
      BY <2>1, <3>2, StepKeeps, SinkStep DEF RInv, EncodeSide, Agrees, vars, dvars
    <3> QED BY <3>1, <3>2
  <2>3. DecodeSide'
    <3>1. CASE dpc = "idle"
      BY <2>1, <3>1 DEF RInv, DecodeSide, vars, dvars, Request, DInv, D!TypeOK
    <3>2. CASE dpc # "idle"
      BY <2>1, <3>2, DecodeStepKeeps DEF RInv, DecodeSide, dvars
    <3> QED BY <3>1, <3>2
  <2> QED BY <2>1, <2>2, <2>3 DEF RInv, Handed, vars, dvars
<1> QED BY <1>1, <1>2, <1>3, <1>4, <1>5 DEF RoundTripNext

LEMMA SessionHolds == RoundTripSpec => []RInv
BY SessionInit, SessionStep, PTL DEF RoundTripSpec

\* bp_decode writes the bytes of the ids so far, in order, as far as the buffer
\* goes and counts the rest; it refuses a call for an id the vocabulary does not
\* have or use, and only for one.
THEOREM DecodeCorrect == RoundTripSpec => []Decoded
<1>1. RInv => Decoded
  <2> SUFFICES ASSUME RInv PROVE Decoded
    OBVIOUS
  <2>1. CASE dpc = "idle"
    <3>1. /\ di = 1 /\ drc = "ok" /\ dsink = NewSink(Room) /\ dpc # "done"
      BY <2>1 DEF RInv, DecodeSide, DInv, D!TypeOK
    <3>2. Holds(dsink, Output(di - 1))
      <4>1. di - 1 = 0
        BY <3>1
      <4> QED BY <3>1, <4>1, OutputZero, NewSinkHolds, RoomAssumption
    <3>3. D!Refused
      BY <3>1 DEF D!Refused
    <3> QED BY <3>2, <3>3 DEF Decoded, D!Decoded, Holds, D!Holds, Output, FlattenSeq, D!FlattenSeq
  <2>2. CASE DInv
    <3>1. D!Refused
      BY <2>2 DEF DInv, D!Refused
    <3>2. Holds(dsink, Output(di - 1))
      BY <2>2 DEF DInv
    <3> QED BY <3>1, <3>2 DEF Decoded, D!Decoded, Holds, D!Holds, Output, FlattenSeq, D!FlattenSeq
  <2> QED BY <2>1, <2>2 DEF RInv, DecodeSide
<1> QED BY <1>1, SessionHolds, PTL

\* What the matcher and the sink promise also holds while ids are decoded.
THEOREM EncodeInSession == RoundTripSpec => [](LeftmostLongest /\ Covered /\ SinkOK)
<1>1. RInv => LeftmostLongest /\ Covered /\ SinkOK
  <2> SUFFICES ASSUME RInv PROVE LeftmostLongest /\ Covered /\ SinkOK
    OBVIOUS
  <2>1. CASE IInv /\ SInv
    BY <2>1 DEF IInv, SInv, Got, SinkOK, AllIds, IdsOfAll
  <2>2. CASE pc = "idle" /\ spans = <<>> /\ seg = 1 /\ rc = "ok" /\ sink = NewSink(0)
    <3>1. [n \in 1..Len(spans) |-> IdsOf(spans[n])] = <<>>
      BY <2>2
    <3>2. AllIds = <<>>
      BY <3>1, FlattenEmpty DEF AllIds
    <3>3. SinkOK
      BY <2>2, <3>2, NewSinkHolds DEF SinkOK
    <3> QED BY <2>2, <3>3 DEF LeftmostLongest, Covered, Chained, EndOf
  <2> QED BY <2>1, <2>2 DEF RInv, EncodeSide
<1> QED BY <1>1, SessionHolds, PTL

----------------------------------------------------------------------------
(* There and back.                                                         *)

\* The ids that decode to something.
Good == {id \in Nat : ~D!Bad(id)}
Says == [id \in Good |-> D!Shown(id)]

LEMMA SaysMaps == ASSUME dvocab \in Views PROVE Says \in Maps(Good, Symbol)
<1>1. ASSUME NEW id \in Good PROVE D!Shown(id) \in Seq(Symbol)
  <2>1. id \in Nat /\ ~(id >= Len(dvocab.bytes)) /\ Len(dvocab.bytes) \in Nat
    BY <1>1, ViewFacts DEF Good, D!Bad
  <2>2. id + 1 \in 1..Len(dvocab.bytes)
    BY <2>1
  <2> DEFINE S == Seq(Symbol)
  <2> HIDE DEF S
  <2>3. dvocab.bytes \in Seq(S)
    BY ViewFacts DEF S
  <2>4. dvocab.bytes[id + 1] \in S
    BY <2>2, <2>3
  <2>5. <<>> \in S
    BY DEF S
  <2> QED BY <2>4, <2>5 DEF S, D!Shown, D!BytesOf
<1> QED BY <1>1 DEF Says, Maps

\* A span's ids decode to its text.
LEMMA SpanReturns ==
  ASSUME EncodingSpells, dvocab \in Views, IInv, Agrees(dvocab, added),
         NEW s \in SpanSet, SpanOK(s)
  PROVE  IdsOf(s) \in Seq(Good) /\ Mapped(Says, IdsOf(s)) = Returned(s)
<1>1. /\ added \in Added /\ call \in Calls /\ s.from \in 1..(Len(call.text) + 1)
      /\ s.to \in 1..(Len(call.text) + 1) /\ s.tok \in 0..Len(added)
  BY DEF IInv, SpanSet, text
<1> DEFINE part == SubSeq(text, s.from, s.to - 1)
           ids == IdsOf(s)
<1>2. CASE s.tok = 0
  <2>1. ids = Encoding(part)
    BY <1>2 DEF IdsOf
  <2>2. /\ \A k \in 1..Len(ids) :
             /\ ids[k] < Len(dvocab.bytes) /\ dvocab.bytes[ids[k] + 1] # <<>>
             /\ \A j \in 1..Len(dvocab.added) :
                  dvocab.added[j].special => dvocab.added[j].id # ids[k]
        /\ FlattenSeq([k \in 1..Len(ids) |-> dvocab.bytes[ids[k] + 1]]) = part
    <3>1. dvocab \in Views /\ added \in Added /\ call \in Calls /\ Agrees(dvocab, added)
      BY <1>1
    <3>2. /\ \A k \in 1..Len(Encoding(part)) :
               /\ Encoding(part)[k] < Len(dvocab.bytes)
               /\ dvocab.bytes[Encoding(part)[k] + 1] # <<>>
               /\ \A j \in 1..Len(dvocab.added) :
                    dvocab.added[j].special => dvocab.added[j].id # Encoding(part)[k]
          /\ FlattenSeq([k \in 1..Len(Encoding(part)) |-> dvocab.bytes[Encoding(part)[k] + 1]])
               = part
      <4>1. \A from, to \in 1..(Len(call.text) + 1) :
              LET p == SubSeq(call.text, from, to - 1)
                  e == Encoding(p)
              IN /\ \A k \in 1..Len(e) :
                      /\ e[k] < Len(dvocab.bytes) /\ dvocab.bytes[e[k] + 1] # <<>>
                      /\ \A j \in 1..Len(dvocab.added) :
                           dvocab.added[j].special => dvocab.added[j].id # e[k]
                 /\ FlattenSeq([k \in 1..Len(e) |-> dvocab.bytes[e[k] + 1]]) = p
        BY <3>1, Zenon DEF EncodingSpells
      <4>2. part = SubSeq(call.text, s.from, s.to - 1)
        BY DEF text
      <4> HIDE DEF part
      <4> QED BY <1>1, <4>1, <4>2, Zenon
    <3> HIDE DEF part, ids
    <3> QED BY <2>1, <3>2
  <2>3. ids \in Seq(Nat)
    BY <1>1, <2>1, EncodingAssumption DEF text
  <2> HIDE DEF ids, part
  <2>4. ASSUME NEW k \in 1..Len(ids)
        PROVE  ids[k] \in Good /\ Says[ids[k]] = dvocab.bytes[ids[k] + 1]
    <3>1. ids[k] \in Nat /\ Len(dvocab.bytes) \in Nat
      BY <2>3, ViewFacts
    <3>2. ~D!Bad(ids[k])
      BY <2>2, <3>1 DEF D!Bad, D!BytesOf
    <3>3. ~D!Special(ids[k])
      BY <2>2 DEF D!Special
    <3> QED BY <3>1, <3>2, <3>3 DEF Good, Says, D!Shown, D!BytesOf
  <2>5. ids \in Seq(Good)
    BY <2>3, <2>4
  <2>6. [k \in 1..Len(ids) |-> Says[ids[k]]] = [k \in 1..Len(ids) |-> dvocab.bytes[ids[k] + 1]]
    BY <2>4
  <2>7. Mapped(Says, ids) = part
    BY <2>2, <2>6 DEF Mapped
  <2>8. Returned(s) = part
    BY <1>2 DEF Returned, part
  <2> QED BY <2>5, <2>7, <2>8 DEF ids
<1>3. CASE s.tok # 0
  <2> DEFINE k == s.tok
             id == added[k].id
  <2>1. k \in 1..Len(added) /\ ids = <<id>>
    BY <1>1, <1>3, Types DEF IdsOf
  <2>2. /\ Len(dvocab.added) = Len(added) /\ dvocab.added[k].id = id
        /\ dvocab.bytes[id + 1] = added[k].bytes
    BY <2>1 DEF Agrees
  <2>3. id \in Nat /\ ~D!Bad(id)
    BY <2>1, <2>2, ViewFacts
  <2>4. part = added[k].bytes
    <3>1. s.to = s.from + LenOf(k) /\ OccursAt(k, s.from)
      BY <1>3 DEF SpanOK, Longest
    <3>2. /\ LenOf(k) \in Nat /\ added[k].bytes \in Seq(Symbol) /\ text \in Seq(Symbol)
          /\ Len(text) \in Nat /\ LenOf(k) = Len(added[k].bytes)
      BY <1>1, <2>1, Types DEF LenOf
    <3> DEFINE b == added[k].bytes
               f == s.from
               n == LenOf(k)
    <3>3. f \in Nat /\ f >= 1 /\ f + n - 1 <= Len(text)
          /\ \A d \in 1..n : text[f + d - 1] = b[d]
      BY <1>1, <3>1 DEF OccursAt, text
    <3>4. part = SubSeq(text, f, f + n - 1)
      <4>1. s.to = f + n /\ f \in Nat /\ n \in Nat
        BY <3>1, <3>2, <3>3
      <4> HIDE DEF f, n
      <4>2. s.to - 1 = f + n - 1
        BY <4>1
      <4> QED BY <4>2 DEF f
    <3> HIDE DEF b, f, n, part
    <3>5. b \in Seq(Symbol) /\ Len(b) = n /\ n \in Nat /\ text \in Seq(Symbol)
      BY <3>2 DEF b, n
    <3> DEFINE c == SubSeq(text, f, f + n - 1)
    <3>6. /\ c \in Seq(Symbol) /\ Len(c) = n /\ \A d \in 1..n : c[d] = text[f + d - 1]
      BY <3>3, <3>5
    <3> HIDE DEF c
    <3>7. c = b
      <4>1. \A d \in 1..n : c[d] = b[d]
        BY <3>3, <3>6
      <4>2. c = [d \in 1..n |-> c[d]] /\ b = [d \in 1..n |-> b[d]]
        BY <3>5, <3>6
      <4> QED BY <4>1, <4>2, Zenon
    <3> QED BY <3>4, <3>7 DEF b, c
  <2>5. ids \in Seq(Good) /\ Mapped(Says, ids) = Says[id]
    <3>1. id \in Good
      BY <2>3 DEF Good
    <3>2. Says[id] \in Seq(Symbol)
      BY <3>1, SaysMaps DEF Maps
    <3> DEFINE x == Says[id]
               e == [n \in 1..Len(ids) |-> Says[ids[n]]]
    <3>3. e = <<x>>
      BY <2>1
    <3> HIDE DEF x, e
    <3>4. <<>> \in Seq(Seq(Symbol)) /\ Append(<<>>, x) = <<x>> /\ <<>> \o x = x
      BY <3>2 DEF x
    <3>5. FlattenSeq(<<x>>) = x
      BY <3>2, <3>4, FlattenAppend, FlattenEmpty DEF x
    <3>6. <<id>> \in Seq(Good)
      BY <3>1
    <3> QED BY <2>1, <3>3, <3>5, <3>6 DEF Mapped, e, x
  <2>6. Says[id] = D!Shown(id)
    BY <2>3 DEF Says, Good
  <2>7. D!Shown(id) = Returned(s)
    <3>1. dcall.skipSpecial /\ D!Special(id) => D!Shown(id) = <<>> /\ Returned(s) = <<>>
      BY <1>3 DEF D!Shown, Returned
    <3>2. ~(dcall.skipSpecial /\ D!Special(id)) => D!Shown(id) = D!BytesOf(id) /\ Returned(s) = part
      BY <1>3 DEF D!Shown, Returned
    <3>3. D!BytesOf(id) = part
      BY <2>2, <2>4 DEF D!BytesOf
    <3> HIDE DEF part
    <3> QED BY <3>1, <3>2, <3>3
  <2> QED BY <2>5, <2>6, <2>7
<1> QED BY <1>2, <1>3

\* The ids of all spans decode to what the spans return.
LEMMA AllReturns ==
  ASSUME EncodingSpells, dvocab \in Views, IInv, Agrees(dvocab, added)
  PROVE  /\ AllIds \in Seq(Good)
         /\ Mapped(Says, AllIds) = FlattenSeq([n \in 1..Len(spans) |-> Returned(spans[n])])
<1> DEFINE N == Len(spans)
           ss == [n \in 1..N |-> IdsOf(spans[n])]
<1>1. spans \in Seq(SpanSet) /\ N \in Nat /\ \A n \in 1..N : SpanOK(spans[n])
  BY DEF IInv, TypeOK, LeftmostLongest
<1>2. \A n \in 1..N : IdsOf(spans[n]) \in Seq(Good) /\ Mapped(Says, IdsOf(spans[n])) = Returned(spans[n])
  <2> TAKE n \in 1..N
  <2>1. spans[n] \in SpanSet
    <3> DEFINE S == SpanSet
    <3> HIDE DEF S
    <3>1. spans \in Seq(S)
      BY <1>1 DEF S
    <3>2. spans[n] \in S
      BY <3>1
    <3> QED BY <3>2 DEF S
  <2> QED BY <1>1, <2>1, SpanReturns
<1>3. ss \in Seq(Seq(Good)) /\ Len(ss) = N
  BY <1>1, <1>2
<1>4. \A n \in 1..N : Mapped(Says, ss[n]) = Returned(spans[n])
  <2> TAKE n \in 1..N
  <2>1. ss[n] = IdsOf(spans[n])
    <3> HIDE DEF N
    <3> QED OBVIOUS
  <2> QED BY <1>2, <2>1, Zenon
<1> HIDE DEF ss, N
<1>5. Mapped(Says, FlattenSeq(ss)) = FlattenSeq([n \in 1..N |-> Mapped(Says, ss[n])])
  BY <1>3, SaysMaps, MappedFlatten
<1>6. [n \in 1..N |-> Mapped(Says, ss[n])] = [n \in 1..N |-> Returned(spans[n])]
  BY <1>4
<1>7. FlattenSeq(ss) \in Seq(Good)
  BY <1>3, FlattenType
<1>8. AllIds = FlattenSeq(ss)
  BY DEF AllIds, ss, N
<1> QED BY <1>5, <1>6, <1>7, <1>8 DEF N

\* The ids a call of bp_encode wrote, if there was room for all of them, decode to
\* the text, less its special tokens if those are skipped, for every vocabulary in
\* which the ids of each segment spell the segment.
THEOREM TextRestored == ASSUME EncodingSpells PROVE RoundTripSpec => []Restored
<1>1. RInv => Restored
  <2> SUFFICES ASSUME RInv, pc = "done", rc = "ok", sink.total <= call.cap, dpc = "done"
               PROVE  /\ drc = "ok"
                      /\ Holds(dsink, FlattenSeq([n \in 1..Len(spans) |-> Returned(spans[n])]))
    BY DEF Restored
  <2>1. dvocab \in Views /\ IInv /\ SInv /\ Agrees(dvocab, added) /\ DInv
    BY DEF RInv, EncodeSide, DecodeSide
  <2>2. PICK skip \in BOOLEAN : dcall = Request(sink.out, skip)
    BY DEF RInv, Handed
  <2>3. AllIds \in Seq(Good)
        /\ Mapped(Says, AllIds) = FlattenSeq([n \in 1..Len(spans) |-> Returned(spans[n])])
    BY <2>1, AllReturns
  <2>4. sink.out = AllIds
    <3> DEFINE a == AllIds
    <3>1. a \in Seq(Good) /\ Holds(sink, a) /\ sink.cap = call.cap /\ sink \in Sinks(Nat)
      BY <2>1, <2>3 DEF SInv, Got, AllIds, IdsOfAll
    <3> HIDE DEF a
    <3>2. sink.total = Len(a) /\ Len(a) \in Nat /\ ~(sink.cap < Len(a))
      BY <3>1 DEF Holds, Sinks
    <3>3. sink.out = SubSeq(a, 1, Len(a))
      BY <3>1, <3>2 DEF Holds
    <3>4. sink.out = a
      BY <3>1, <3>3
    <3> QED BY <3>4 DEF a
  <2> DEFINE ids == dcall.ids
  <2>5. ids = AllIds /\ ~D!BadCall
    <3>1. dcall.hasIds /\ dcall.hasOut /\ dcall.ids = sink.out
      BY <2>2 DEF Request
    <3> QED BY <2>4, <3>1 DEF D!BadCall
  <2> HIDE DEF ids
  <2>6. ids \in Seq(Good) /\ Len(ids) \in Nat
    BY <2>3, <2>5
  <2>7. drc = "ok"
    <3>1. drc # "arg"
      BY <2>1, <2>5 DEF DInv
    <3>2. drc # "range"
      <4>1. drc = "range" => di \in 1..Len(ids) /\ D!Bad(ids[di])
        BY <2>1, <2>6 DEF DInv, D!TypeOK, ids
      <4>2. \A k \in 1..Len(ids) : ids[k] \in Good
        BY <2>6
      <4> QED BY <4>1, <4>2 DEF Good
    <3> QED BY <2>1, <3>1, <3>2 DEF DInv, D!TypeOK
  <2>8. Holds(dsink, Output(Len(ids)))
    <3>1. di = Len(ids) + 1
      BY <2>1, <2>7 DEF DInv, ids
    <3>2. di - 1 = Len(ids)
      BY <2>6, <3>1
    <3> QED BY <2>1, <3>2 DEF DInv
  <2>9. Output(Len(ids)) = Mapped(Says, ids)
    <3>1. \A k \in 1..Len(ids) : Says[ids[k]] = D!Shown(ids[k])
      <4>1. \A k \in 1..Len(ids) : ids[k] \in Good
        BY <2>6
      <4> QED BY <4>1 DEF Says
    <3>2. [k \in 1..Len(ids) |-> D!Shown(ids[k])] = [k \in 1..Len(ids) |-> Says[ids[k]]]
      BY <3>1
    <3> QED BY <3>2 DEF Output, Mapped, ids
  <2> QED BY <2>3, <2>5, <2>7, <2>8, <2>9
<1> QED BY <1>1, SessionHolds, PTL
=============================================================================
