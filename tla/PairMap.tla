------------------------------- MODULE PairMap -------------------------------
(***************************************************************************)
(* What the pair table of a vocabulary file promises: it is a map from     *)
(* pairs of token ids to a rank and the id of the merged token, whatever   *)
(* the file holds at first.  The converter adds each pair once; a question *)
(* for a pair is always answered with what the map holds for it, or with   *)
(* Absent.                                                                 *)
(***************************************************************************)
CONSTANTS
  Pair, Val,
  Absent    \* the answer for a pair the table does not hold

VARIABLES
  map,      \* what the table holds
  asked,    \* the pair asked for, or Absent
  answer    \* the last answer

vars == <<map, asked, answer>>

Init ==
  /\ DOMAIN map \subseteq Pair /\ \A p \in DOMAIN map : map[p] \in Val
  /\ asked = Absent /\ answer = Absent

Add(p) ==
  /\ p \notin DOMAIN map
  /\ DOMAIN map' = DOMAIN map \cup {p}
  /\ map'[p] \in Val /\ \A q \in DOMAIN map : map'[q] = map[q]
  /\ UNCHANGED <<asked, answer>>

Ask(p) ==
  /\ asked = Absent
  /\ asked' = p
  /\ UNCHANGED <<map, answer>>

Reply ==
  /\ asked # Absent
  /\ answer' = IF asked \in DOMAIN map THEN map[asked] ELSE Absent
  /\ asked' = Absent
  /\ UNCHANGED map

Next == (\E p \in Pair : Add(p) \/ Ask(p)) \/ Reply

Spec == Init /\ [][Next]_vars
=============================================================================
