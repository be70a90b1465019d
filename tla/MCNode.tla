-------------------------------- MODULE MCNode --------------------------------
(* Instances of Node for TLC.                                              *)
EXTENDS Node

CONSTANTS l1, i1, i2, cap, c1, c2, p1, a1

MCTerms == {[issuer |-> i1, capabilities |-> {cap}, issued |-> 0, expires |-> 3,
             uncertainty |-> 1],
            [issuer |-> i2, capabilities |-> {cap}, issued |-> 0, expires |-> 2,
             uncertainty |-> 0]}

MCValidFrom  == [c \in {c1, c2, p1} |-> IF c = c2 THEN 1 ELSE 0]
MCValidUntil == [c \in {c1, c2, p1} |-> IF c = c1 THEN 2 ELSE 3]

MCRequest == [a \in {a1} |-> [issuer |-> i1, lease |-> l1, capability |-> cap, cert |-> p1]]
=============================================================================
