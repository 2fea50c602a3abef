---------------------------- MODULE MCCatalogue ----------------------------
(* Values of Catalogue's constants for TLC. *)
EXTENDS Catalogue, TLC

Size(style) == [name |-> "size", value |-> "L", style |-> style]

(* No options, a size, and the same size written another way with an       *)
(* option left empty.                                                      *)
MCOffers == {{}, {Size("plain")},
             {Size("shouted"), [name |-> "colour", value |-> "", style |-> "plain"]}}

(* A stock other than 1 is written only by a change of a variant's stock;  *)
(* while the dialog is open no synchronisation runs, the other writers of  *)
(* the default row do.                                                     *)
MCBound ==
  /\ \A p \in Products : product[p].stock # 2
  /\ \A c \in Calls :
       /\ ~Does(c, "set") => call[c].stock # 2
       /\ \A p \in Products : call[c].todo[p] # 2
       /\ dialog # Closed => call[c].op # "sync"

(* Calls are interchangeable, and so are products. *)
MCSymmetry == Permutations(Calls) \cup Permutations(Products)

=============================================================================
