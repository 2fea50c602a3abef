--------------------------- MODULE MCConversation ---------------------------
(* Values of Conversation's constants for TLC. *)
EXTENDS Conversation, TLC

Order(missing, confidence, alternatives) ==
  [order |-> TRUE, missing |-> missing, confidence |-> confidence, alternatives |-> alternatives]

(* One order that lacks a product or quantity, at a confidence that would   *)
(* pass, and one that is complete: the shortest way through every stage.   *)
MCFewResults == {Order("required", 85, FALSE), Order("none", 90, FALSE)}

(* Also one that scores low and one that scores high without an optional    *)
(* field; the shop has close alternatives for the first.                   *)
MCResults ==
  MCFewResults \cup {Order("optional", 50, TRUE), Order("optional", 85, FALSE)}

(* Deliveries are interchangeable. *)
MCSymmetry == Permutations(Handlers)

=============================================================================
