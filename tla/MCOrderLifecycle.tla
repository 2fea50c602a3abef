-------------------------- MODULE MCOrderLifecycle --------------------------
(* Values of OrderLifecycle's constants for TLC. *)
EXTENDS OrderLifecycle, TLC

CONSTANTS p1, d1, d2, c1

MCCustomerOf == [d \in Drafts |-> c1]
MCInitialStock == [p \in Products |-> 2]

Of(line, product, quantity) == [line |-> line, product |-> product, quantity |-> quantity]

(* Two lines of one product that each fit the stock but not together, and  *)
(* a single unit.                                                          *)
MCItemLists == { {Of(1, p1, 1)}, {Of(1, p1, 1), Of(2, p1, 2)} }

(* With a line the AI could not match. *)
MCUnmatchedLists == MCItemLists \cup { {Of(1, p1, 1), Of(2, NoProduct, 1)} }

(* Orders, requests and drafts are interchangeable: one customer, and no    *)
(* list names a draft.                                                     *)
MCSymmetry == Permutations(Requests) \cup Permutations(Drafts)

=============================================================================
