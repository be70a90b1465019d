--------------------------- MODULE MCCoordinator ---------------------------
(* Instances of Coordinator for TLC.                                       *)
EXTENDS Coordinator, TLC

CONSTANTS p1, p2, s1, s2, s3, s4, r1, r2

(* One plan of two steps, the second after the first, on one robot.        *)
OneFirst   == [p \in {p1} |-> NoPlan]
ChainPlan  == [s \in {s1, s2} |-> p1]
ChainDeps  == (s1 :> {}) @@ (s2 :> {s1})
ChainRobot == [s \in {s1, s2} |-> r1]

(* Two independent steps of two robots.                                    *)
FreeDeps  == [s \in {s1, s2} |-> {}]
FreeRobot == (s1 :> r1) @@ (s2 :> r2)

(* A plan whose third step joins two steps of different robots, and its    *)
(* revision with a single step.                                            *)
Revision  == (p1 :> NoPlan) @@ (p2 :> p1)
JoinPlan  == (s1 :> p1) @@ (s2 :> p1) @@ (s3 :> p1) @@ (s4 :> p2)
JoinDeps  == (s1 :> {}) @@ (s2 :> {}) @@ (s3 :> {s1, s2}) @@ (s4 :> {})
JoinRobot == (s1 :> r1) @@ (s2 :> r2) @@ (s3 :> r1) @@ (s4 :> r2)
=============================================================================
