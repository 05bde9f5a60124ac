----------------------------- MODULE MCPairTable -----------------------------
(***************************************************************************)
(* Instances of PairTable.  Pairs are abstract: three share the last slot, *)
(* so that probes cross and wrap round; the pair "far" is of an id out of  *)
(* range, as is the id 9.                                                  *)
(***************************************************************************)
EXTENDS PairTable

Pairs == {"p", "q", "r", "s"}
AllPairs == Pairs \cup {"far"}
Ids == {1, 9}
KnownIds == {1}
MemberOf(x, p) == x = IF p = "far" THEN 9 ELSE 1

Powers == {1, 2, 4, 8}

\* p, q and r collide in the last slot, s in the first.
HomeOf(p, m) == IF p \in {"p", "q", "r"} THEN m - 1 ELSE 0

\* Every list of up to four merges, one of which may be bad.
Good(p) == [pair |-> p, id |-> 1, known |-> TRUE, spells |-> TRUE]
Bad == {[Good("p") EXCEPT !.known = FALSE], [Good("p") EXCEPT !.spells = FALSE]}
Lists ==
  LET Of(len) == [1..len -> {Good(p) : p \in Pairs}]
  IN UNION {Of(len) : len \in 0..4} \cup {Append(l, b) : l \in Of(2), b \in Bad}
       \cup {<<b, Good("s")>> : b \in Bad}

\* Every table of up to four slots, of three pairs, all in range or with one
\* merged id out of range.
Tables ==
  UNION {
    { [n |-> m, keys |-> k,
       values |-> [s \in 0..(m - 1) |-> [rank |-> s, id |-> IF s = x THEN 9 ELSE 1]]]
      : k \in [0..(m - 1) -> {"p", "r", "far", Absent}], x \in {0, m} }
    : m \in {1, 2, 4} }

=============================================================================
