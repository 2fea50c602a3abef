---------------------------- MODULE MCRetrieval ----------------------------
(* Values of Retrieval's constants for TLC. *)
EXTENDS Retrieval, TLC

CONSTANTS p1, p2

(* A rewrite of p1 takes it from the query, one of p2 brings it in. *)
MCNamed == {<<p1, 0>>, <<p2, 1>>, <<p2, 2>>}
MCSimilar == {<<p1, 0>>, <<p2, 0>>, <<p2, 2>>}

MCSymmetry == Permutations(Jobs)
=============================================================================
