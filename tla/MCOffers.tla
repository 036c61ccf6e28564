------------------------------ MODULE MCOffers ------------------------------
(* Instances of Hints for TLC; the bounds are in the .cfg files. *)
EXTENDS Hints

CONSTANTS o1, o2

(* The first offer costs a fee more than the second. *)
Recorded == [x \in {o1, o2} \X {1} |-> IF x[1] = o1 THEN <<12, 1>> ELSE <<12, 0>>]
=============================================================================
