---------------------------- MODULE OrderContract ----------------------------
(***************************************************************************)
(* What the review and the synchronisation of orders promise to the rest   *)
(* of the platform, without requests, transactions, events or a store: a   *)
(* draft gives at most one order, an order is settled once, and the stock  *)
(* falls by an order's quantities exactly when that order becomes SYNCED   *)
(* (BR-14 of the repository's business rules).                             *)
(***************************************************************************)
EXTENDS Integers

CONSTANTS
  OrderIds,   (* identities of orders                      *)
  Drafts,     (* AI draft orders                           *)
  NoDraft,    (* the source of an order that does not exist *)
  Products    (* the tenant's catalogue                    *)

VARIABLES
  status,     (* NONE, APPROVED, SYNCED or FAILED, per order *)
  source,     (* the draft an order was made from            *)
  bought,     (* units of each product, per order            *)
  stock       (* units on hand, per product                  *)

contractVars == <<status, source, bought, stock>>

(* A tenant starts with drafts to review, no order and some stock. *)
ContractInit ==
  /\ status = [o \in OrderIds |-> "NONE"]
  /\ source = [o \in OrderIds |-> NoDraft]
  /\ bought = [o \in OrderIds |-> [p \in Products |-> 0]]
  /\ stock \in [Products -> Int]

(* A draft that has no order yet becomes one. *)
Place(o, d) ==
  /\ status[o] = "NONE"
  /\ \A other \in OrderIds : source[other] # d
  /\ bought' \in [OrderIds -> [Products -> Nat]]
  /\ \A other \in OrderIds \ {o} : bought'[other] = bought[other]
  /\ status' = [status EXCEPT ![o] = "APPROVED"]
  /\ source' = [source EXCEPT ![o] = d]
  /\ UNCHANGED stock

(* The order reached the store: its units leave the stock in the same step. *)
Settle(o) ==
  /\ status[o] = "APPROVED"
  /\ status' = [status EXCEPT ![o] = "SYNCED"]
  /\ stock' = [p \in Products |-> stock[p] - bought[o][p]]
  /\ UNCHANGED <<source, bought>>

(* The order did not reach the store: the stock stays as it is. *)
GiveUp(o) ==
  /\ status[o] = "APPROVED"
  /\ status' = [status EXCEPT ![o] = "FAILED"]
  /\ UNCHANGED <<source, bought, stock>>

ContractNext ==
  \E o \in OrderIds :
    \/ \E d \in Drafts : Place(o, d)
    \/ Settle(o)
    \/ GiveUp(o)

ContractSpec == ContractInit /\ [][ContractNext]_contractVars

=============================================================================
