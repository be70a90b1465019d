----------------------------- MODULE MCDelivery -----------------------------
(* Instances of Delivery for TLC.                                          *)
EXTENDS Delivery

CONSTANTS p1, t1, t2

(* Publishers are interchangeable.                                         *)
PublisherSymmetry == Permutations(Publishers)
=============================================================================
