--------------------------- MODULE MCReviewQueue ---------------------------
(* Values of ReviewQueue's constants for TLC. *)
EXTENDS ReviewQueue, TLC

MCSymmetry == Permutations(Fetches)
=============================================================================
