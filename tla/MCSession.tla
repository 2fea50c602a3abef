----------------------------- MODULE MCSession ------------------------------
(* Values of Session's constants for TLC. *)
EXTENDS Session, TLC

(* One for the row, one for the storage and one for each of two calls.     *)
MCTokens == 1..5

(* Requests are interchangeable, and so are tabs and calls. *)
MCSymmetry == Permutations(Requests) \cup Permutations(Tabs) \cup Permutations(Calls)

(* Either calls overlap or there is a fault; an expiry comes with both.    *)
MCBound == "overlap" \notin excuses \/ faults = 0

=============================================================================
