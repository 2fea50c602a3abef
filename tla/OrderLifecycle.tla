--------------------------- MODULE OrderLifecycle ---------------------------
(***************************************************************************)
(* Review of AI drafts and synchronisation of the orders they become, for  *)
(* one tenant.                                                             *)
(*                                                                         *)
(* A request is one call of OrdersService (approveDraft, rejectDraft,      *)
(* saveDraftCorrections), made by the owner or, for approveDraft, by the   *)
(* draft.auto_approve event.  It takes one step per awaited database       *)
(* access, so requests interleave at every await.  A $transaction is one   *)
(* step at its commit: PostgreSQL runs it at READ COMMITTED, the           *)
(* statements inside write unconditionally, and the reads that happen on   *)
(* another connection or in an earlier statement are steps of their own.   *)
(*                                                                         *)
(* The order a request creates has an id made by that request (uuidv4), so *)
(* an order is identified with the request that made it.  The handler of   *)
(* order.approved (OrderSyncService) is the process of that order.         *)
(***************************************************************************)
EXTENDS Integers, FiniteSets

CONSTANTS
  Requests,      (* calls of OrdersService; also the ids of the orders they create *)
  Drafts,        (* AI draft orders                                                *)
  Customers,     (* customers of the tenant                                        *)
  CustomerOf,    (* the customer of each draft                                     *)
  Products,      (* the tenant's catalogue                                         *)
  Lines,         (* positions of an item in a list                                 *)
  MaxQuantity,   (* the largest quantity of one item                               *)
  ItemLists,     (* the item lists the AI or the owner may write                   *)
  InitialStock,  (* units on hand, per product                                     *)
  MaxCrashes,    (* bound on server restarts                                       *)
  AI,            (* the writer of a draft's first items                            *)
  NoDraft,       (* the draft of a request or order that has none                  *)
  NoProduct      (* productId = null: the AI found no product for the line         *)

Writers == Requests \cup {AI}

(* AIDraftOrderItem: what the code's decisions depend on. *)
Item == [line : Lines, product : Products \cup {NoProduct}, quantity : 1..MaxQuantity]

(* A stored item row remembers who inserted it. *)
Row == Writers \X Item
RowSets == {S \in SUBSET Row : IsFiniteSet(S)}

ASSUME OrderAssumption ==
  /\ IsFiniteSet(Requests)
  /\ AI \notin Requests
  /\ NoDraft \notin Drafts
  /\ NoProduct \notin Products
  /\ MaxQuantity \in Nat
  /\ MaxCrashes \in Nat
  /\ CustomerOf \in [Drafts -> Customers]
  /\ InitialStock \in [Products -> Nat]
  /\ \A list \in ItemLists : list \subseteq Item /\ IsFiniteSet(list)

VARIABLES
  draft,        (* ai_draft_orders with their items                                 *)
  request,      (* where each call is and what it has read                          *)
  order,        (* orders, by the request that created them                         *)
  sync,         (* where the handler of an order's order.approved event is          *)
  inStore,      (* orders created in the external store for an order                *)
  stock,        (* products.stockQuantity                                           *)
  totalOrders,  (* customers.totalOrders                                            *)
  told,         (* order.approved / order.rejected events emitted, per draft        *)
  audit,        (* audit_logs entries, by action and request                        *)
  crashes       (* restarts so far: a bound                                         *)

vars == <<draft, request, order, sync, inStore, stock, totalOrders, told, audit, crashes>>

draftVars == <<draft, told>>
orderVars == <<order, totalOrders>>
syncVars  == <<sync, inStore, stock>>

DraftStatus   == {"ABSENT", "PENDING", "REVIEWED", "APPROVED", "REJECTED"}
OrderStatus   == {"NONE", "APPROVED", "SYNCED", "FAILED"}
RequestState  == {"idle", "called", "read", "validated", "numbered", "committed",
                  "rejecting", "rejected", "correcting", "deleting", "done"}
SyncState     == {"none", "emitted", "creating", "created", "failing", "done", "lost"}
AuditAction   == {"ORDER_APPROVED", "ORDER_REJECTED", "AI_CORRECTION_RECORDED",
                  "ORDER_SYNCED", "ORDER_SYNC_FAILED"}

DraftRow == [status : DraftStatus, rows : RowSets, auto : BOOLEAN]
Call     == [pc : RequestState, draft : Drafts \cup {NoDraft}, rows : RowSets, known : SUBSET Requests]
OrderRow == [status : OrderStatus, draft : Drafts \cup {NoDraft}, rows : RowSets,
             known : SUBSET Requests, external : BOOLEAN]

NewRequest == [pc |-> "idle", draft |-> NoDraft, rows |-> {}, known |-> {}]
NewOrder   == [status |-> "NONE", draft |-> NoDraft, rows |-> {}, known |-> {}, external |-> FALSE]

Init ==
  /\ draft       = [d \in Drafts |-> [status |-> "ABSENT", rows |-> {}, auto |-> FALSE]]
  /\ request     = [r \in Requests |-> NewRequest]
  /\ order       = [r \in Requests |-> NewOrder]
  /\ sync        = [r \in Requests |-> "none"]
  /\ inStore     = [r \in Requests |-> 0]
  /\ stock       = InitialStock
  /\ totalOrders = [c \in Customers |-> 0]
  /\ told        = [d \in Drafts |-> {}]
  /\ audit       = {}
  /\ crashes     = 0

-----------------------------------------------------------------------------
(* Helpers *)

(* status: { in: [PENDING, REVIEWED] } *)
Reviewable(d) == draft[d].status \in {"PENDING", "REVIEWED"}

(* The orders that exist in the table. *)
Placed == {o \in Requests : order[o].status # "NONE"}

(* Moves request r to state pc. *)
Goto(r, pc) == request' = [request EXCEPT ![r].pc = pc]

Log(action, r) == audit' = audit \cup {<<action, r>>}

(* Fault (TypeOK): a missing quantity is stored as 0 instead of 1. *)
RowsOfZero(writer, list) == {writer} \X {[item EXCEPT !.quantity = @ - 1] : item \in list}

(* The rows the writer inserts for an item list. *)
RowsOf(writer, list) == {writer} \X list

(* validateStock: every line that has a product is compared, alone, with   *)
(* the stock on hand.                                                      *)
StockCovers(rows) ==
  \A row \in rows : row[2].product # NoProduct => row[2].quantity <= stock[row[2].product]

(* The units of product p that the rows ask for, and those of order o. *)
Units(rows, p) ==
  {u \in rows \X (1..MaxQuantity) : u[1][2].product = p /\ u[2] <= u[1][2].quantity}
UnitsOf(o, p) == {o} \X Units(order[o].rows, p)

-----------------------------------------------------------------------------
(* Plausible faults: each is one of the definitions below as a bug would   *)
(* have it, and the property named breaks with it.                         *)

(* OneOrderPerDraft: aiDraftOrderId without its unique index. *)
InsertIgnoresDraft(r) == \E row \in request[r].rows : row[2].product = NoProduct

(* ApprovedDraftHasOrder: the draft is marked before the transaction. *)
ValidateMarksDraft(r) ==
  /\ request[r].pc = "read"
  /\ StockCovers(request[r].rows)
  /\ Goto(r, "validated")
  /\ draft' = [draft EXCEPT ![request[r].draft].status = "APPROVED"]
  /\ UNCHANGED <<told, orderVars, syncVars, audit, crashes>>

(* DecisionsAreRecorded: order.approved is emitted before the transaction. *)
NumberEmits(r) ==
  /\ request[r].pc = "validated"
  /\ request' = [request EXCEPT ![r] = [@ EXCEPT !.pc = "numbered", !.known = Placed]]
  /\ told' = [told EXCEPT ![request[r].draft] = @ \cup {"order.approved"}]
  /\ UNCHANGED <<draft, orderVars, syncVars, audit, crashes>>

(* OrdersAreFrozen: a correction also rewrites the order already made. *)
CorrectRewritesOrder(r, list) ==
  LET d == request[r].draft IN
  /\ request[r].pc = "deleting"
  /\ draft' = [draft EXCEPT ![d].rows = (@ \ request[r].rows) \cup RowsOf(r, list),
                            ![d].status = "REVIEWED"]
  /\ order' = [o \in Requests |-> IF order[o].draft = d
                                  THEN [order[o] EXCEPT !.rows = RowsOf(r, list)] ELSE order[o]]
  /\ Log("AI_CORRECTION_RECORDED", r)
  /\ Goto(r, "done")
  /\ UNCHANGED <<told, totalOrders, syncVars, crashes>>

(* StockAccounting: the stock is reserved as soon as the store answers, and *)
(* again in the success transaction (the double decrement of CHANGELOG.md). *)
StoreReserves(o) ==
  /\ sync[o] = "creating"
  /\ inStore' = [inStore EXCEPT ![o] = @ + 1]
  /\ stock' = [p \in Products |-> stock[p] - Cardinality(UnitsOf(o, p))]
  /\ sync' = [sync EXCEPT ![o] = "created"]
  /\ UNCHANGED <<draftVars, request, orderVars, audit, crashes>>

(* StoreAgrees: a failed creation is tried again without asking the store. *)
FailureRetries(o) ==
  /\ sync[o] = "creating"
  /\ \E created \in {0, 1} : inStore' = [inStore EXCEPT ![o] = @ + created]
  /\ sync' = [sync EXCEPT ![o] = IF inStore[o] < 2 THEN "creating" ELSE "failing"]
  /\ UNCHANGED <<draftVars, request, orderVars, stock, audit, crashes>>

(* SyncSettles: an unmapped product makes the handler return early. *)
StartGivesUp(o) ==
  /\ sync[o] = "emitted"
  /\ sync' = [sync EXCEPT ![o] = "done"]
  /\ UNCHANGED <<draftVars, request, orderVars, inStore, stock, audit, crashes>>

(* ImplementsContract: the catch block gives back units it never took. *)
FailureRestocks(o) ==
  /\ sync[o] = "failing"
  /\ order' = [order EXCEPT ![o].status = "FAILED"]
  /\ stock' = [p \in Products |-> stock[p] + Cardinality(UnitsOf(o, p))]
  /\ Log("ORDER_SYNC_FAILED", o)
  /\ sync' = [sync EXCEPT ![o] = "done"]
  /\ UNCHANGED <<draftVars, request, inStore, totalOrders, crashes>>

(* NumbersFollowCommits: the count leaves out the orders not yet synced. *)
NumberOfSynced(o) == Cardinality({k \in order[o].known : order[k].status = "SYNCED"}) + 1

(* generateOrderNumber: one more than the orders that were counted. *)
NumberOf(o) == Cardinality(order[o].known) + 1

-----------------------------------------------------------------------------
(* The AI pipeline *)

(* createDraftOrder: a draft appears, PENDING, with the extracted items;   *)
(* routing auto_approve leaves an event to emit.                           *)
CreateDraft(d, list, auto) ==
  /\ draft[d].status = "ABSENT"
  /\ draft' = [draft EXCEPT ![d] = [status |-> "PENDING", rows |-> RowsOf(AI, list), auto |-> auto]]
  /\ UNCHANGED <<request, orderVars, syncVars, told, audit, crashes>>

(* draft.auto_approve: approveDraft is called as SYSTEM. *)
AutoApprove(r, d) ==
  /\ draft[d].auto
  /\ request[r].pc = "idle"
  /\ draft' = [draft EXCEPT ![d].auto = FALSE]
  /\ request' = [request EXCEPT ![r] = [NewRequest EXCEPT !.pc = "called", !.draft = d]]
  /\ UNCHANGED <<orderVars, syncVars, told, audit, crashes>>

-----------------------------------------------------------------------------
(* approveDraft *)

(* findFirst of a reviewable draft with its items.  The two SELECTs of the *)
(* include are one step: what a correction puts between them could also be *)
(* read by a single SELECT just after it.                                  *)
ApproveRead(r, d) ==
  /\ \/ request[r].pc = "idle"
     \/ request[r].pc = "called" /\ request[r].draft = d
  /\ Reviewable(d)
  /\ request' = [request EXCEPT ![r] =
                   [NewRequest EXCEPT !.pc = "read", !.draft = d, !.rows = draft[d].rows]]
  /\ UNCHANGED <<draftVars, orderVars, syncVars, audit, crashes>>

(* "not found or already reviewed": the automatic approval came too late.  *)
ApproveNotFound(r) ==
  /\ request[r].pc = "called"
  /\ ~Reviewable(request[r].draft)
  /\ Goto(r, "done")
  /\ UNCHANGED <<draftVars, orderVars, syncVars, audit, crashes>>

(* validateStock accepts or throws. *)
ApproveValidate(r) ==
  /\ request[r].pc = "read"
  /\ Goto(r, IF StockCovers(request[r].rows) THEN "validated" ELSE "done")
  /\ UNCHANGED <<draftVars, orderVars, syncVars, audit, crashes>>

(* generateOrderNumber counts the committed orders; it runs on the root    *)
(* client, outside the transaction that will insert the order.             *)
ApproveNumber(r) ==
  /\ request[r].pc = "validated"
  /\ request' = [request EXCEPT ![r] = [@ EXCEPT !.pc = "numbered", !.known = Placed]]
  /\ UNCHANGED <<draftVars, orderVars, syncVars, audit, crashes>>

(* The insert violates the unique index on aiDraftOrderId, or an item has  *)
(* no productId: the transaction rolls back and the call throws.           *)
InsertFails(r) ==
  \/ \E o \in Placed : order[o].draft = request[r].draft
  \/ \E row \in request[r].rows : row[2].product = NoProduct

(* The transaction: order with its items, draft status, customer counter   *)
(* and audit entry, together.                                              *)
ApproveCommit(r) ==
  LET d == request[r].draft IN
  /\ request[r].pc = "numbered"
  /\ ~InsertFails(r)
  /\ order' = [order EXCEPT ![r] = [status |-> "APPROVED", draft |-> d, rows |-> request[r].rows,
                                    known |-> request[r].known, external |-> FALSE]]
  /\ draft' = [draft EXCEPT ![d].status = "APPROVED"]
  /\ totalOrders' = [totalOrders EXCEPT ![CustomerOf[d]] = @ + 1]
  /\ Log("ORDER_APPROVED", r)
  /\ Goto(r, "committed")
  /\ UNCHANGED <<syncVars, told, crashes>>

ApproveRollback(r) ==
  /\ request[r].pc = "numbered"
  /\ InsertFails(r)
  /\ Goto(r, "done")
  /\ UNCHANGED <<draftVars, orderVars, syncVars, audit, crashes>>

(* order.approved is emitted in memory, after the commit. *)
ApproveEmit(r) ==
  /\ request[r].pc = "committed"
  /\ Goto(r, "done")
  /\ sync' = [sync EXCEPT ![r] = "emitted"]
  /\ told' = [told EXCEPT ![request[r].draft] = @ \cup {"order.approved"}]
  /\ UNCHANGED <<draft, orderVars, inStore, stock, audit, crashes>>

-----------------------------------------------------------------------------
(* rejectDraft *)

RejectRead(r, d) ==
  /\ request[r].pc = "idle"
  /\ Reviewable(d)
  /\ request' = [request EXCEPT ![r] = [@ EXCEPT !.pc = "rejecting", !.draft = d]]
  /\ UNCHANGED <<draftVars, orderVars, syncVars, audit, crashes>>

(* The update names the draft by id only: it does not look at its status.  *)
RejectCommit(r) ==
  /\ request[r].pc = "rejecting"
  /\ draft' = [draft EXCEPT ![request[r].draft].status = "REJECTED"]
  /\ Log("ORDER_REJECTED", r)
  /\ Goto(r, "rejected")
  /\ UNCHANGED <<told, orderVars, syncVars, crashes>>

RejectEmit(r) ==
  /\ request[r].pc = "rejected"
  /\ Goto(r, "done")
  /\ told' = [told EXCEPT ![request[r].draft] = @ \cup {"order.rejected"}]
  /\ UNCHANGED <<draft, orderVars, syncVars, audit, crashes>>

-----------------------------------------------------------------------------
(* saveDraftCorrections *)

CorrectRead(r, d) ==
  /\ request[r].pc = "idle"
  /\ Reviewable(d)
  /\ request' = [request EXCEPT ![r] = [@ EXCEPT !.pc = "correcting", !.draft = d]]
  /\ UNCHANGED <<draftVars, orderVars, syncVars, audit, crashes>>

(* deleteMany sees the rows committed when the statement starts; rows that *)
(* another correction commits while it waits for their locks are not its.  *)
CorrectDelete(r) ==
  /\ request[r].pc = "correcting"
  /\ request' = [request EXCEPT ![r] = [@ EXCEPT !.pc = "deleting", !.rows = draft[request[r].draft].rows]]
  /\ UNCHANGED <<draftVars, orderVars, syncVars, audit, crashes>>

(* The rest of the transaction: the new rows, status REVIEWED whatever the *)
(* status is by now, and the audit entry.                                  *)
CorrectCommit(r, list) ==
  LET d == request[r].draft IN
  /\ request[r].pc = "deleting"
  /\ draft' = [draft EXCEPT ![d].rows = (@ \ request[r].rows) \cup RowsOf(r, list),
                            ![d].status = "REVIEWED"]
  /\ Log("AI_CORRECTION_RECORDED", r)
  /\ Goto(r, "done")
  /\ UNCHANGED <<told, orderVars, syncVars, crashes>>

-----------------------------------------------------------------------------
(* OrderSyncService.handleOrderApproved, for the order that request o made *)

(* Read the order, pass the idempotency guard, initialise a client.        *)
SyncStart(o) ==
  /\ sync[o] = "emitted"
  /\ order[o].status # "SYNCED" /\ ~order[o].external
  /\ sync' = [sync EXCEPT ![o] = "creating"]
  /\ UNCHANGED <<draftVars, request, orderVars, inStore, stock, audit, crashes>>

(* The client cannot be initialised, or an item's product has no external  *)
(* id at a real provider.                                                  *)
SyncStartThrows(o) ==
  /\ sync[o] = "emitted"
  /\ order[o].status # "SYNCED" /\ ~order[o].external
  /\ sync' = [sync EXCEPT ![o] = "failing"]
  /\ UNCHANGED <<draftVars, request, orderVars, inStore, stock, audit, crashes>>

(* adapter.createOrder: the store creates the order and answers.           *)
StoreCreates(o) ==
  /\ sync[o] = "creating"
  /\ inStore' = [inStore EXCEPT ![o] = @ + 1]
  /\ sync' = [sync EXCEPT ![o] = "created"]
  /\ UNCHANGED <<draftVars, request, orderVars, stock, audit, crashes>>

(* adapter.createOrder returns success: false, and the store may or may    *)
(* not have created the order before the answer was lost.                  *)
StoreFails(o) ==
  /\ sync[o] = "creating"
  /\ \E created \in {0, 1} : inStore' = [inStore EXCEPT ![o] = @ + created]
  /\ sync' = [sync EXCEPT ![o] = "failing"]
  /\ UNCHANGED <<draftVars, request, orderVars, stock, audit, crashes>>

(* The success transaction: status and external id, one decrement per      *)
(* item, audit entry.                                                      *)
SyncCommit(o) ==
  /\ sync[o] = "created"
  /\ order' = [order EXCEPT ![o].status = "SYNCED", ![o].external = TRUE]
  /\ stock' = [p \in Products |-> stock[p] - Cardinality(UnitsOf(o, p))]
  /\ Log("ORDER_SYNCED", o)
  /\ sync' = [sync EXCEPT ![o] = "done"]
  /\ UNCHANGED <<draftVars, request, inStore, totalOrders, crashes>>

(* The success transaction fails in the database and rolls back.           *)
SyncRollback(o) ==
  /\ sync[o] = "created"
  /\ sync' = [sync EXCEPT ![o] = "failing"]
  /\ UNCHANGED <<draftVars, request, orderVars, inStore, stock, audit, crashes>>

(* The catch block: FAILED, audited, and a notification row for the owner. *)
SyncMarkFailed(o) ==
  /\ sync[o] = "failing"
  /\ order' = [order EXCEPT ![o].status = "FAILED"]
  /\ Log("ORDER_SYNC_FAILED", o)
  /\ sync' = [sync EXCEPT ![o] = "done"]
  /\ UNCHANGED <<draftVars, request, inStore, stock, totalOrders, crashes>>

(* The database fails where nothing catches it: in the read before the try *)
(* block or in the catch block's own transaction.  The event is consumed.  *)
HandlerLost(o) ==
  /\ sync[o] \in {"emitted", "failing"}
  /\ sync' = [sync EXCEPT ![o] = "lost"]
  /\ UNCHANGED <<draftVars, request, orderVars, inStore, stock, audit, crashes>>

-----------------------------------------------------------------------------
(* The process stops and restarts: calls, open transactions and in-memory  *)
(* events are gone, what was committed stays.  Nothing on start-up looks   *)
(* for orders whose event was lost.                                        *)
Crash ==
  /\ crashes < MaxCrashes
  /\ crashes' = crashes + 1
  /\ request' = [r \in Requests |->
                   IF request[r].pc = "idle" THEN request[r] ELSE [request[r] EXCEPT !.pc = "done"]]
  /\ sync' = [o \in Requests |->
                IF order[o].status # "NONE" /\ sync[o] # "done" THEN "lost" ELSE sync[o]]
  /\ draft' = [d \in Drafts |-> [draft[d] EXCEPT !.auto = FALSE]]
  /\ UNCHANGED <<told, orderVars, inStore, stock, audit>>

-----------------------------------------------------------------------------
(* An order's own steps, from the commit of the approval on. *)
OrderStep(o) ==
  \/ ApproveEmit(o)
  \/ SyncStart(o)
  \/ SyncStartThrows(o)
  \/ StoreCreates(o)
  \/ StoreFails(o)
  \/ SyncCommit(o)
  \/ SyncRollback(o)
  \/ SyncMarkFailed(o)
  \/ HandlerLost(o)

ReviewStep(r) ==
  \/ \E d \in Drafts : AutoApprove(r, d)
  \/ \E d \in Drafts : ApproveRead(r, d)
  \/ ApproveNotFound(r)
  \/ ApproveValidate(r)
  \/ ApproveNumber(r)
  \/ ApproveCommit(r)
  \/ ApproveRollback(r)
  \/ \E d \in Drafts : RejectRead(r, d)
  \/ RejectCommit(r)
  \/ RejectEmit(r)
  \/ \E d \in Drafts : CorrectRead(r, d)
  \/ CorrectDelete(r)
  \/ \E list \in ItemLists : CorrectCommit(r, list)

Next ==
  \/ \E d \in Drafts, list \in ItemLists, auto \in BOOLEAN : CreateDraft(d, list, auto)
  \/ \E r \in Requests : ReviewStep(r)
  \/ \E o \in Requests : OrderStep(o)
  \/ Crash

Spec == Init /\ [][Next]_vars

(* The event loop resumes a handler whose await is over, and the store's   *)
(* HTTP client answers or fails: an order's own steps do not wait forever. *)
FairSpec == Spec /\ \A o \in Requests : WF_vars(OrderStep(o))

-----------------------------------------------------------------------------
(* Properties *)

(* Every variable has its type. *)
TypeOK ==
  /\ draft \in [Drafts -> DraftRow]
  /\ request \in [Requests -> Call]
  /\ order \in [Requests -> OrderRow]
  /\ sync \in [Requests -> SyncState]
  /\ inStore \in [Requests -> Nat]
  /\ stock \in [Products -> Int]
  /\ totalOrders \in [Customers -> Nat]
  /\ told \in [Drafts -> SUBSET {"order.approved", "order.rejected"}]
  /\ audit \subseteq AuditAction \X Requests
  /\ crashes \in 0..MaxCrashes

(* However many approvals of a draft run at once, it gives at most one     *)
(* order (approveDraft reads the status before its transaction).           *)
OneOrderPerDraft ==
  \A o1, o2 \in Placed : order[o1].draft = order[o2].draft => o1 = o2

(* A draft shown as APPROVED has its order: no crash or rollback leaves    *)
(* the one without the other.                                              *)
ApprovedDraftHasOrder ==
  \A d \in Drafts : draft[d].status = "APPROVED" => \E o \in Placed : order[o].draft = d

(* BR-14: the stock is the initial stock less the units of the orders that *)
(* are SYNCED, each counted once; an approved or failed order took none.   *)
Synced == {o \in Requests : order[o].status = "SYNCED"}
SoldUnits(p) == UNION {UnitsOf(o, p) : o \in Synced}
StockAccounting ==
  \A p \in Products : stock[p] = InitialStock[p] - Cardinality(SoldUnits(p))

(* BR-15 / BR-18: no order is created twice in the store, and an order     *)
(* carries an external id exactly when it is SYNCED and the store has it.  *)
StoreAgrees ==
  \A o \in Requests :
    /\ inStore[o] <= 1
    /\ order[o].external <=> order[o].status = "SYNCED"
    /\ order[o].external => inStore[o] = 1

(* Order numbers (generateOrderNumber) may repeat, but only for approvals  *)
(* that each counted before the other committed: one that counts after     *)
(* another's commit gets a larger number.                                  *)
NumbersFollowCommits ==
  \A o1, o2 \in Placed : o1 \in order[o2].known => NumberOf(o1) < NumberOf(o2)

(* Only a stored decision is announced to the customer, and every order    *)
(* outcome is in the audit log exactly when it happened.                   *)
DecisionsAreRecorded ==
  /\ \A d \in Drafts :
       /\ "order.approved" \in told[d] => \E o \in Placed : order[o].draft = d
       /\ "order.rejected" \in told[d] =>
            \E r \in Requests : request[r].draft = d /\ <<"ORDER_REJECTED", r>> \in audit
  /\ \A o \in Requests :
       /\ <<"ORDER_APPROVED", o>> \in audit <=> order[o].status # "NONE"
       /\ <<"ORDER_SYNCED", o>> \in audit <=> order[o].status = "SYNCED"
       /\ <<"ORDER_SYNC_FAILED", o>> \in audit <=> order[o].status = "FAILED"

(* An order is settled once, and what it was made from never changes after *)
(* the approval: a later correction of the draft does not reach it.        *)
OrdersAreFrozen ==
  [][\A o \in Placed :
       /\ order[o].status # "APPROVED" => order'[o] = order[o]
       /\ order'[o].draft = order[o].draft /\ order'[o].rows = order[o].rows]_vars

(* Every approved order ends SYNCED or FAILED unless a restart or the      *)
(* database stopped it between the commit and the end of the handler.      *)
SyncSettles ==
  \A o \in Requests :
    order[o].status = "APPROVED" ~> (order[o].status \in {"SYNCED", "FAILED"} \/ sync[o] = "lost")

(* The lifecycle implements OrderContract. *)
Contract == INSTANCE OrderContract WITH
  OrderIds <- Requests,
  status <- [o \in Requests |-> order[o].status],
  source <- [o \in Requests |-> order[o].draft],
  bought <- [o \in Requests |-> [p \in Products |-> Cardinality(UnitsOf(o, p))]]

ImplementsContract == Contract!ContractSpec

-----------------------------------------------------------------------------
(* What the invariants above rest on: the inductive strengthening used in  *)
(* OrderLifecycleProofs.                                                   *)

(* A call that has started works on a draft, and so does the order it makes. *)
CallsNameDrafts ==
  \A r \in Requests :
    /\ request[r].pc # "idle" => request[r].draft \in Drafts
    /\ IF order[r].status = "NONE"
       THEN order[r].draft = NoDraft
       ELSE order[r].draft = request[r].draft /\ request[r].draft \in Drafts

(* An order exists once its call has committed, and its handler runs only   *)
(* while the order is APPROVED.                                            *)
OrderFollowsCall(o) ==
  /\ IF order[o].status = "NONE"
     THEN sync[o] = "none"
     ELSE request[o].pc \in {"committed", "done"}
  /\ request[o].pc = "committed" => order[o].status = "APPROVED" /\ sync[o] = "none"
  /\ sync[o] \in {"emitted", "creating", "created", "failing"} => order[o].status = "APPROVED"
  /\ order[o].status \in {"SYNCED", "FAILED"} => sync[o] = "done"

(* The store holds the order from its answer on, once. *)
StoreFollowsSync(o) ==
  /\ sync[o] \in {"none", "emitted", "creating"} => inStore[o] = 0
  /\ sync[o] = "created" => inStore[o] = 1
  /\ inStore[o] \in {0, 1}
  /\ order[o].external <=> order[o].status = "SYNCED"
  /\ order[o].external => inStore[o] = 1

(* A rejection is in the audit log before it is announced. *)
RejectionsAreLogged ==
  \A r \in Requests : request[r].pc = "rejected" => <<"ORDER_REJECTED", r>> \in audit

OrdersProgress == \A o \in Requests : OrderFollowsCall(o) /\ StoreFollowsSync(o)

(* A call whose rejection is in the audit log has started, so it keeps the *)
(* draft it rejected.                                                      *)
LoggedCallsStarted ==
  \A r \in Requests : <<"ORDER_REJECTED", r>> \in audit => request[r].pc # "idle"

(* A count of orders is closed: with an order it holds those counted for it. *)
IsClosed(S) == S \subseteq Placed /\ \A k \in S : order[k].known \subseteq S

CountsAreClosed ==
  /\ \A r \in Requests : IsClosed(request[r].known)
  /\ \A o \in Placed : IsClosed(order[o].known) /\ o \notin order[o].known

-----------------------------------------------------------------------------
(* What the repository says and the code does not do *)

(* BUSINESS_RULES section 12 knows no way out of Approved but on to        *)
(* processing or cancellation, and approveDraft and rejectDraft refuse a   *)
(* draft that is "already reviewed": an APPROVED draft stays APPROVED.     *)
ReviewIsFinal ==
  [][\A d \in Drafts : draft[d].status = "APPROVED" => draft'[d].status = "APPROVED"]_vars

(* BUSINESS_RULES section 14, "Before approval: Validate stock": what       *)
(* validateStock lets pass is on hand.                                     *)
ValidatedOrderFits ==
  [][\A r \in Requests :
       request[r].pc = "read" /\ request'[r].pc = "validated" =>
         \A p \in Products : Cardinality(Units(request[r].rows, p)) <= stock[p]]_vars

(* BR-21: failures are never swallowed; an approved order ends SYNCED or   *)
(* is marked FAILED.                                                       *)
EveryApprovalSettles ==
  \A o \in Requests :
    order[o].status = "APPROVED" ~> order[o].status \in {"SYNCED", "FAILED"}

(* saveDraftCorrections removes the rows of before: a draft holds the item *)
(* list of one writer.                                                     *)
OneItemListPerDraft ==
  \A d \in Drafts : \A row1, row2 \in draft[d].rows : row1[1] = row2[1]

=============================================================================
