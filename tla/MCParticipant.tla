--------------------------- MODULE MCParticipant ---------------------------
(* Instances of Participant for TLC: one coordinator whose restart gave it *)
(* a second session, two assignments that need the same resource.          *)
EXTENDS Participant, TLC

CONSTANTS a1, a2, c1, i1, i2, r1, l1, l2

NeedsOne    == [c \in {c1} |-> {r1}]
OneIssuer   == [l \in {l1, l2} |-> i1]
Symmetry    == Permutations({a1, a2}) \cup Permutations({l1, l2})
TwoIssuers  == (l1 :> i1) @@ (l2 :> i2)
=============================================================================
