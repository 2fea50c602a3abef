------------------------ MODULE OrderLifecycleProofs ------------------------
(***************************************************************************)
(* Theorems about OrderLifecycle, for any number of requests, drafts,      *)
(* customers, products and restarts.                                       *)
(***************************************************************************)
EXTENDS OrderLifecycle, FiniteSetTheorems, TLAPS

(* The rows written for an item list are a finite set of rows. *)
LEMMA RowsOfType ==
  ASSUME OrderAssumption, NEW w \in Writers, NEW list \in ItemLists
  PROVE  RowsOf(w, list) \in RowSets
<1>1. list \subseteq Item /\ IsFiniteSet(list)
  BY DEF OrderAssumption
<1>2. IsFiniteSet({w})
  BY FS_Singleton
<1>3. IsFiniteSet({w} \X list)
  BY <1>1, <1>2, FS_Product
<1>4. {w} \X list \subseteq Row
  BY <1>1 DEF Row
<1>5. QED
  BY <1>3, <1>4 DEF RowsOf, RowSets

(* What a correction leaves of a row set, plus what it adds, is a row set. *)
LEMMA ReplaceRowsType ==
  ASSUME NEW S \in RowSets, NEW T, NEW U \in RowSets
  PROVE  (S \ T) \cup U \in RowSets
<1>1. IsFiniteSet(S) /\ S \subseteq Row /\ IsFiniteSet(U) /\ U \subseteq Row
  BY DEF RowSets
<1>2. IsFiniteSet(S \ T)
  BY <1>1, FS_Difference
<1>3. IsFiniteSet((S \ T) \cup U)
  BY <1>1, <1>2, FS_Union
<1>4. QED
  BY <1>1, <1>3 DEF RowSets

(* The units that rows ask for are finitely many.                          *)
LEMMA RowUnitsFinite ==
  ASSUME OrderAssumption, NEW rows \in RowSets, NEW o, NEW p
  PROVE  IsFiniteSet({o} \X Units(rows, p)) /\ Cardinality({o} \X Units(rows, p)) \in Nat
<1>1. IsFiniteSet(1..MaxQuantity)
  BY FS_Interval DEF OrderAssumption
<1>2. IsFiniteSet(rows \X (1..MaxQuantity))
  BY <1>1, FS_Product DEF RowSets
<1>3. Units(rows, p) \subseteq rows \X (1..MaxQuantity)
  BY DEF Units
<1>4. IsFiniteSet(Units(rows, p))
  BY <1>2, <1>3, FS_Subset
<1>5. IsFiniteSet({o})
  BY FS_Singleton
<1>6. IsFiniteSet({o} \X Units(rows, p))
  BY <1>4, <1>5, FS_Product
<1>7. QED
  BY <1>6, FS_CardinalityType

(* The units an order asks for are finitely many.                          *)
LEMMA UnitsFinite ==
  ASSUME OrderAssumption, TypeOK, NEW o \in Requests, NEW p
  PROVE  IsFiniteSet(UnitsOf(o, p)) /\ Cardinality(UnitsOf(o, p)) \in Nat
<1>1. order[o].rows \in RowSets
  BY DEF TypeOK, OrderRow
<1>2. QED
  BY <1>1, RowUnitsFinite DEF UnitsOf

(* Moving a request to a named state keeps the requests typed. *)
LEMMA GotoType ==
  ASSUME TypeOK, NEW r \in Requests, NEW pc \in RequestState, Goto(r, pc)
  PROVE  request' \in [Requests -> Call]
<1>1. request \in [Requests -> Call]
  BY DEF TypeOK
<1>2. QED
  BY <1>1 DEF Goto, Call

(* Moving a call on while it keeps what it has read gives a call. *)
LEMMA CallUpdateType ==
  ASSUME NEW call \in Call, NEW pc \in RequestState
  PROVE  /\ \A d \in Drafts : [call EXCEPT !.pc = pc, !.draft = d] \in Call
         /\ \A rows \in RowSets : [call EXCEPT !.pc = pc, !.rows = rows] \in Call
         /\ \A known \in SUBSET Requests : [call EXCEPT !.pc = pc, !.known = known] \in Call
BY DEF Call

(* An entry of a named action keeps the audit log typed. *)
LEMMA LogType ==
  ASSUME TypeOK, NEW r \in Requests, NEW action \in AuditAction, Log(action, r)
  PROVE  audit' \subseteq AuditAction \X Requests
BY DEF TypeOK, Log

(* A counter that is incremented stays a natural number. *)
LEMMA IncrementType ==
  ASSUME NEW S, NEW f \in [S -> Nat], NEW c
  PROVE  [f EXCEPT ![c] = @ + 1] \in [S -> Nat]
<1>1. CASE c \in S
  BY <1>1
<1>2. CASE c \notin S
  BY <1>2
<1>3. QED
  BY <1>1, <1>2

(* Type correctness: each step keeps every variable in its type. *)
LEMMA TypeOKStep ==
  ASSUME OrderAssumption, TypeOK, CallsNameDrafts, [Next]_vars
  PROVE  TypeOK'
<1> USE DEF draftVars, orderVars, syncVars
<1>a. {} \in RowSets
  BY FS_EmptySet DEF RowSets
<1>b. Placed \subseteq Requests
  BY DEF Placed
<1>d. draft \in [Drafts -> DraftRow]
  BY DEF TypeOK
<1>r. request \in [Requests -> Call]
  BY DEF TypeOK
<1>o. order \in [Requests -> OrderRow]
  BY DEF TypeOK
<1>1. ASSUME NEW d \in Drafts, NEW list \in ItemLists, NEW auto \in BOOLEAN, CreateDraft(d, list, auto)
      PROVE  TypeOK'
  <2>1. RowsOf(AI, list) \in RowSets
    BY RowsOfType DEF Writers
  <2>2. draft' \in [Drafts -> DraftRow]
    BY <1>d, <1>1, <2>1 DEF CreateDraft, DraftRow, DraftStatus
  <2>3. QED
    BY <1>1, <2>2 DEF TypeOK, CreateDraft
<1>2. ASSUME NEW r \in Requests, ReviewStep(r)
      PROVE  TypeOK'
  <2>1. ASSUME NEW d \in Drafts, AutoApprove(r, d) PROVE TypeOK'
    <3>1. draft' \in [Drafts -> DraftRow]
      BY <1>d, <2>1 DEF AutoApprove, DraftRow
    <3>2. request' \in [Requests -> Call]
      BY <1>r, <1>a, <2>1 DEF AutoApprove, Call, NewRequest, RequestState
    <3>3. QED
      BY <2>1, <3>1, <3>2 DEF TypeOK, AutoApprove
  <2>2. ASSUME NEW d \in Drafts, ApproveRead(r, d) PROVE TypeOK'
    <3>1. draft[d].rows \in RowSets
      BY <1>d DEF DraftRow
    <3>2. request' \in [Requests -> Call]
      BY <1>r, <2>2, <3>1 DEF ApproveRead, Call, NewRequest, RequestState
    <3>3. QED
      BY <2>2, <3>2 DEF TypeOK, ApproveRead
  <2>3. CASE ApproveNotFound(r)
    <3>1. request' \in [Requests -> Call]
      BY <2>3, GotoType DEF ApproveNotFound, RequestState
    <3>2. QED
      BY <2>3, <3>1 DEF TypeOK, ApproveNotFound
  <2>4. CASE ApproveValidate(r)
    <3>1. request' \in [Requests -> Call]
      BY <2>4, GotoType DEF ApproveValidate, RequestState
    <3>2. QED
      BY <2>4, <3>1 DEF TypeOK, ApproveValidate
  <2>5. CASE ApproveNumber(r)
    <3>1. request' \in [Requests -> Call]
      BY <1>r, <1>b, <2>5, CallUpdateType DEF ApproveNumber, RequestState
    <3>2. QED
      BY <2>5, <3>1 DEF TypeOK, ApproveNumber
  <2>6. CASE ApproveCommit(r)
    <3>1. request' \in [Requests -> Call]
      BY <2>6, GotoType DEF ApproveCommit, RequestState
    <3>2. audit' \subseteq AuditAction \X Requests
      BY <2>6, LogType DEF ApproveCommit, AuditAction
    <3>3. order' \in [Requests -> OrderRow]
      BY <1>o, <1>r, <2>6 DEF ApproveCommit, OrderRow, OrderStatus, Call
    <3>4. draft' \in [Drafts -> DraftRow]
      BY <1>d, <2>6 DEF ApproveCommit, DraftRow, DraftStatus
    <3>5. totalOrders' \in [Customers -> Nat]
      BY <2>6, IncrementType DEF TypeOK, ApproveCommit
    <3>6. QED
      BY <2>6, <3>1, <3>2, <3>3, <3>4, <3>5 DEF TypeOK, ApproveCommit
  <2>7. CASE ApproveRollback(r)
    <3>1. request' \in [Requests -> Call]
      BY <2>7, GotoType DEF ApproveRollback, RequestState
    <3>2. QED
      BY <2>7, <3>1 DEF TypeOK, ApproveRollback
  <2>8. ASSUME NEW d \in Drafts, RejectRead(r, d) PROVE TypeOK'
    <3>1. request' \in [Requests -> Call]
      BY <1>r, <2>8, CallUpdateType DEF RejectRead, RequestState
    <3>2. QED
      BY <2>8, <3>1 DEF TypeOK, RejectRead
  <2>9. CASE RejectCommit(r)
    <3>1. request' \in [Requests -> Call]
      BY <2>9, GotoType DEF RejectCommit, RequestState
    <3>2. audit' \subseteq AuditAction \X Requests
      BY <2>9, LogType DEF RejectCommit, AuditAction
    <3>3. draft' \in [Drafts -> DraftRow]
      BY <1>d, <2>9 DEF RejectCommit, DraftRow, DraftStatus
    <3>4. QED
      BY <2>9, <3>1, <3>2, <3>3 DEF TypeOK, RejectCommit
  <2>10. CASE RejectEmit(r)
    <3>1. request' \in [Requests -> Call]
      BY <2>10, GotoType DEF RejectEmit, RequestState
    <3>2. told' \in [Drafts -> SUBSET {"order.approved", "order.rejected"}]
      BY <2>10 DEF TypeOK, RejectEmit
    <3>3. QED
      BY <2>10, <3>1, <3>2 DEF TypeOK, RejectEmit
  <2>11. ASSUME NEW d \in Drafts, CorrectRead(r, d) PROVE TypeOK'
    <3>1. request' \in [Requests -> Call]
      BY <1>r, <2>11, CallUpdateType DEF CorrectRead, RequestState
    <3>2. QED
      BY <2>11, <3>1 DEF TypeOK, CorrectRead
  <2>12. CASE CorrectDelete(r)
    <3>1. draft[request[r].draft].rows \in RowSets
      BY <1>d, <2>12 DEF CallsNameDrafts, CorrectDelete, DraftRow
    <3>2. request' \in [Requests -> Call]
      BY <1>r, <2>12, <3>1, CallUpdateType DEF CorrectDelete, RequestState
    <3>3. QED
      BY <2>12, <3>2 DEF TypeOK, CorrectDelete
  <2>13. ASSUME NEW list \in ItemLists, CorrectCommit(r, list) PROVE TypeOK'
    <3> DEFINE d == request[r].draft
    <3>1. request' \in [Requests -> Call]
      BY <2>13, GotoType DEF CorrectCommit, RequestState
    <3>2. audit' \subseteq AuditAction \X Requests
      BY <2>13, LogType DEF CorrectCommit, AuditAction
    <3>3. draft' \in [Drafts -> DraftRow]
      <4>1. CASE d \in Drafts
        <5>1. draft[d].rows \in RowSets
          BY <1>d, <4>1 DEF DraftRow
        <5>2. RowsOf(r, list) \in RowSets
          BY RowsOfType DEF Writers
        <5>3. (draft[d].rows \ request[r].rows) \cup RowsOf(r, list) \in RowSets
          BY <5>1, <5>2, ReplaceRowsType
        <5>4. QED
          BY <1>d, <2>13, <4>1, <5>3 DEF CorrectCommit, DraftRow, DraftStatus
      <4>2. CASE d \notin Drafts
        BY <1>d, <2>13, <4>2 DEF CorrectCommit
      <4>3. QED
        BY <4>1, <4>2
    <3>4. QED
      BY <2>13, <3>1, <3>2, <3>3 DEF TypeOK, CorrectCommit
  <2>14. QED
    BY <1>2, <2>1, <2>2, <2>3, <2>4, <2>5, <2>6, <2>7, <2>8, <2>9, <2>10, <2>11, <2>12, <2>13
    DEF ReviewStep
<1>3. ASSUME NEW o \in Requests, OrderStep(o)
      PROVE  TypeOK'
  <2>1. CASE ApproveEmit(o)
    <3>1. request' \in [Requests -> Call]
      BY <2>1, GotoType DEF ApproveEmit, RequestState
    <3>2. told' \in [Drafts -> SUBSET {"order.approved", "order.rejected"}]
      BY <2>1 DEF TypeOK, ApproveEmit
    <3>3. QED
      BY <2>1, <3>1, <3>2 DEF TypeOK, ApproveEmit, SyncState
  <2>2. CASE SyncStart(o) \/ SyncStartThrows(o) \/ SyncRollback(o) \/ HandlerLost(o)
    BY <2>2 DEF TypeOK, SyncStart, SyncStartThrows, SyncRollback, HandlerLost, SyncState
  <2>3. CASE StoreCreates(o)
    <3>1. inStore' \in [Requests -> Nat]
      BY <2>3, IncrementType DEF TypeOK, StoreCreates
    <3>2. QED
      BY <2>3, <3>1 DEF TypeOK, StoreCreates, SyncState
  <2>4. CASE StoreFails(o)
    <3>1. inStore' \in [Requests -> Nat]
      BY <2>4 DEF TypeOK, StoreFails
    <3>2. QED
      BY <2>4, <3>1 DEF TypeOK, StoreFails, SyncState
  <2>5. CASE SyncCommit(o)
    <3>1. audit' \subseteq AuditAction \X Requests
      BY <2>5, LogType DEF SyncCommit, AuditAction
    <3>2. order' \in [Requests -> OrderRow]
      BY <1>o, <2>5 DEF SyncCommit, OrderRow, OrderStatus
    <3>3. stock' \in [Products -> Int]
      BY <2>5, UnitsFinite DEF TypeOK, SyncCommit
    <3>4. QED
      BY <2>5, <3>1, <3>2, <3>3 DEF TypeOK, SyncCommit, SyncState
  <2>6. CASE SyncMarkFailed(o)
    <3>1. audit' \subseteq AuditAction \X Requests
      BY <2>6, LogType DEF SyncMarkFailed, AuditAction
    <3>2. order' \in [Requests -> OrderRow]
      BY <1>o, <2>6 DEF SyncMarkFailed, OrderRow, OrderStatus
    <3>3. QED
      BY <2>6, <3>1, <3>2 DEF TypeOK, SyncMarkFailed, SyncState
  <2>7. QED
    BY <1>3, <2>1, <2>2, <2>3, <2>4, <2>5, <2>6 DEF OrderStep
<1>4. CASE Crash
  <2>1. draft' \in [Drafts -> DraftRow]
    BY <1>d, <1>4 DEF Crash, DraftRow
  <2>2. request' \in [Requests -> Call]
    BY <1>r, <1>4 DEF Crash, Call, RequestState
  <2>3. sync' \in [Requests -> SyncState]
    BY <1>4 DEF TypeOK, Crash, SyncState
  <2>4. crashes' \in 0..MaxCrashes
    BY <1>4 DEF TypeOK, Crash, OrderAssumption
  <2>5. QED
    BY <1>4, <2>1, <2>2, <2>3, <2>4 DEF TypeOK, Crash
<1>5. CASE UNCHANGED vars
  BY <1>5 DEF TypeOK, vars
<1>6. QED
  BY <1>1, <1>2, <1>3, <1>4, <1>5 DEF Next

(* The initial states are typed. *)
LEMMA TypeOKInit ==
  ASSUME OrderAssumption, Init
  PROVE  TypeOK
<1>1. {} \in RowSets
  BY FS_EmptySet DEF RowSets
<1>2. draft \in [Drafts -> DraftRow]
  BY <1>1 DEF Init, DraftRow, DraftStatus
<1>3. request \in [Requests -> Call]
  BY <1>1 DEF Init, Call, NewRequest, RequestState
<1>4. order \in [Requests -> OrderRow]
  BY <1>1 DEF Init, OrderRow, NewOrder, OrderStatus
<1>5. sync \in [Requests -> SyncState] /\ inStore \in [Requests -> Nat]
  BY DEF Init, SyncState
<1>6. stock \in [Products -> Int] /\ totalOrders \in [Customers -> Nat]
  BY DEF Init, OrderAssumption
<1>7. crashes \in 0..MaxCrashes
  BY DEF Init, OrderAssumption
<1>8. QED
  BY <1>2, <1>3, <1>4, <1>5, <1>6, <1>7 DEF Init, TypeOK

-----------------------------------------------------------------------------
(* Calls and the drafts they work on *)

(* Only an approval's own transaction and the two endings of its handler    *)
(* write the orders table.                                                 *)
LEMMA OrderWrites ==
  ASSUME [Next]_vars
  PROVE  \/ order' = order
         \/ \E o \in Requests : ApproveCommit(o) \/ SyncCommit(o) \/ SyncMarkFailed(o)
<1> USE DEF draftVars, orderVars, syncVars
<1>1. ASSUME NEW r \in Requests, ReviewStep(r) PROVE order' = order \/ ApproveCommit(r)
  BY <1>1 DEF ReviewStep, AutoApprove, ApproveRead, ApproveNotFound, ApproveValidate, ApproveNumber,
     ApproveRollback, RejectRead, RejectCommit, RejectEmit, CorrectRead, CorrectDelete, CorrectCommit
<1>2. ASSUME NEW o \in Requests, OrderStep(o)
      PROVE  order' = order \/ SyncCommit(o) \/ SyncMarkFailed(o)
  BY <1>2 DEF OrderStep, ApproveEmit, SyncStart, SyncStartThrows, StoreCreates, StoreFails,
     SyncRollback, HandlerLost
<1>3. QED
  BY <1>1, <1>2 DEF Next, CreateDraft, Crash, vars

(* What the three writers make of the table: the approval adds one order,  *)
(* the handler changes the status and external id of one.                  *)
LEMMA ApproveCommitOrder ==
  ASSUME TypeOK, NEW r \in Requests, ApproveCommit(r)
  PROVE  /\ order'[r].status = "APPROVED" /\ ~order'[r].external
         /\ order'[r].draft = request[r].draft
         /\ order'[r].rows = request[r].rows
         /\ order'[r].known = request[r].known
         /\ \A o \in Requests \ {r} : order'[o] = order[o]
<1>1. order \in [Requests -> OrderRow]
  BY DEF TypeOK
<1>2. QED
  BY <1>1 DEF ApproveCommit

LEMMA SyncCommitOrder ==
  ASSUME TypeOK, NEW r \in Requests, SyncCommit(r)
  PROVE  /\ order'[r].status = "SYNCED" /\ order'[r].external
         /\ order'[r].draft = order[r].draft
         /\ order'[r].rows = order[r].rows
         /\ order'[r].known = order[r].known
         /\ \A o \in Requests \ {r} : order'[o] = order[o]
<1>1. order \in [Requests -> OrderRow]
  BY DEF TypeOK
<1>2. QED
  BY <1>1 DEF SyncCommit, OrderRow

LEMMA SyncMarkFailedOrder ==
  ASSUME TypeOK, NEW r \in Requests, SyncMarkFailed(r)
  PROVE  /\ order'[r].status = "FAILED"
         /\ order'[r].external = order[r].external
         /\ order'[r].draft = order[r].draft
         /\ order'[r].rows = order[r].rows
         /\ order'[r].known = order[r].known
         /\ \A o \in Requests \ {r} : order'[o] = order[o]
<1>1. order \in [Requests -> OrderRow]
  BY DEF TypeOK
<1>2. QED
  BY <1>1 DEF SyncMarkFailed, OrderRow

(* No order disappears, none changes its draft, and one appears only by the *)
(* commit of its approval.                                                 *)
LEMMA OrdersStay ==
  ASSUME TypeOK, OrdersProgress, [Next]_vars, NEW q \in Requests
  PROVE  /\ order[q].status # "NONE" =>
              /\ order'[q].status # "NONE"
              /\ order'[q].draft = order[q].draft
              /\ order'[q].rows = order[q].rows
              /\ order'[q].known = order[q].known
         /\ order[q].status = "NONE" /\ order'[q].status # "NONE" => ApproveCommit(q)
         /\ order[q].status = "NONE" /\ order'[q].status = "NONE" => order'[q] = order[q]
<1>1. CASE order' = order
  BY <1>1
<1>2. ASSUME NEW r \in Requests, ApproveCommit(r)
      PROVE  order'[r].status # "NONE" /\ (r = q \/ order'[q] = order[q])
  BY <1>2, ApproveCommitOrder
<1>3. ASSUME ApproveCommit(q) PROVE order[q].status = "NONE"
  BY <1>3 DEF ApproveCommit, OrdersProgress, OrderFollowsCall
<1>4. ASSUME SyncCommit(q) \/ SyncMarkFailed(q)
      PROVE  /\ order[q].status = "APPROVED"
             /\ order'[q].status # "NONE"
             /\ order'[q].draft = order[q].draft
             /\ order'[q].rows = order[q].rows
             /\ order'[q].known = order[q].known
  <2>1. order[q].status = "APPROVED"
    BY <1>4 DEF SyncCommit, SyncMarkFailed, OrdersProgress, OrderFollowsCall
  <2>2. QED
    BY <1>4, <2>1, SyncCommitOrder, SyncMarkFailedOrder
<1>5. ASSUME NEW r \in Requests, SyncCommit(r) \/ SyncMarkFailed(r) PROVE r = q \/ order'[q] = order[q]
  BY <1>5, SyncCommitOrder, SyncMarkFailedOrder
<1>6. QED
  BY <1>1, <1>2, <1>3, <1>4, <1>5, OrderWrites

(* A call names its draft when it starts and keeps it.                     *)
LEMMA CallsKeepDraft ==
  ASSUME TypeOK, [Next]_vars, NEW q \in Requests
  PROVE  /\ request[q].pc # "idle" => request'[q].pc # "idle" /\ request'[q].draft = request[q].draft
         /\ request[q].pc = "idle" /\ request'[q].pc # "idle" => request'[q].draft \in Drafts
<1>1. request \in [Requests -> Call]
  BY DEF TypeOK
<1> DEFINE Kept == request[q].pc # "idle" => request'[q].pc # "idle" /\ request'[q].draft = request[q].draft
           Begun == request[q].pc = "idle" /\ request'[q].pc # "idle" => request'[q].draft \in Drafts
<1> SUFFICES Kept /\ Begun
  OBVIOUS
<1>2. ASSUME NEW r \in Requests, ReviewStep(r) PROVE Kept /\ Begun
  <2>1. ASSUME NEW d \in Drafts, AutoApprove(r, d) \/ ApproveRead(r, d) PROVE Kept /\ Begun
    BY <1>1, <2>1 DEF AutoApprove, ApproveRead, NewRequest, Call
  <2>2. ASSUME NEW d \in Drafts, RejectRead(r, d) \/ CorrectRead(r, d) PROVE Kept /\ Begun
    BY <1>1, <2>2 DEF RejectRead, CorrectRead, Call
  <2>3. CASE ApproveNotFound(r) \/ ApproveValidate(r) \/ ApproveRollback(r)
    BY <1>1, <2>3 DEF ApproveNotFound, ApproveValidate, ApproveRollback, Goto, Call
  <2>4. CASE ApproveNumber(r) \/ CorrectDelete(r)
    <3>1. request[r].pc # "idle" /\ request'[r].pc # "idle" /\ request'[r].draft = request[r].draft
      <4>1. CASE ApproveNumber(r)
        BY <1>1, <4>1 DEF ApproveNumber, Call
      <4>2. CASE CorrectDelete(r)
        BY <1>1, <4>2 DEF CorrectDelete, Call
      <4>3. QED
        BY <2>4, <4>1, <4>2
    <3>2. request' = [request EXCEPT ![r] = request'[r]]
      <4>1. CASE ApproveNumber(r)
        BY <1>1, <4>1 DEF ApproveNumber
      <4>2. CASE CorrectDelete(r)
        BY <1>1, <4>2 DEF CorrectDelete
      <4>3. QED
        BY <2>4, <4>1, <4>2
    <3>3. QED
      BY <1>1, <3>1, <3>2
  <2>5. CASE ApproveCommit(r) \/ RejectCommit(r) \/ RejectEmit(r)
    BY <1>1, <2>5 DEF ApproveCommit, RejectCommit, RejectEmit, Goto, Call
  <2>6. ASSUME NEW list \in ItemLists, CorrectCommit(r, list) PROVE Kept /\ Begun
    BY <1>1, <2>6 DEF CorrectCommit, Goto, Call
  <2>7. QED
    BY <1>2, <2>1, <2>2, <2>3, <2>4, <2>5, <2>6 DEF ReviewStep
<1>3. ASSUME NEW o \in Requests, OrderStep(o) PROVE Kept /\ Begun
  <2>1. CASE ApproveEmit(o)
    BY <1>1, <2>1 DEF ApproveEmit, Goto, Call
  <2>2. CASE request' = request
    BY <2>2
  <2>3. QED
    BY <1>3, <2>1, <2>2 DEF OrderStep, SyncStart, SyncStartThrows, StoreCreates, StoreFails, SyncCommit,
       SyncRollback, SyncMarkFailed, HandlerLost
<1>4. CASE Crash
  BY <1>1, <1>4 DEF Crash, Call
<1>5. ASSUME request' = request PROVE Kept /\ Begun
  BY <1>5
<1>6. QED
  BY <1>2, <1>3, <1>4, <1>5 DEF Next, CreateDraft, vars

(* So every started call, and every order, names a draft that exists.      *)
LEMMA CallsNameDraftsStep ==
  ASSUME TypeOK, CallsNameDrafts, OrdersProgress, [Next]_vars
  PROVE  CallsNameDrafts'
<1> SUFFICES ASSUME NEW q \in Requests
             PROVE  /\ request'[q].pc # "idle" => request'[q].draft \in Drafts
                    /\ IF order'[q].status = "NONE"
                       THEN order'[q].draft = NoDraft
                       ELSE order'[q].draft = request'[q].draft /\ request'[q].draft \in Drafts
  BY DEF CallsNameDrafts
<1>1. request'[q].pc # "idle" => request'[q].draft \in Drafts
  BY CallsKeepDraft DEF CallsNameDrafts
<1>2. order[q].status # "NONE" => request[q].pc # "idle"
  BY DEF OrdersProgress, OrderFollowsCall
<1>3. CASE order'[q].status # "NONE" /\ order[q].status = "NONE"
  <2>1. ApproveCommit(q)
    BY <1>3, OrdersStay
  <2>2. order'[q].draft = request[q].draft /\ request[q].pc # "idle"
    BY <2>1, ApproveCommitOrder DEF ApproveCommit
  <2>3. QED
    BY <1>1, <1>3, <2>2, CallsKeepDraft
<1>4. CASE order[q].status # "NONE"
  <2>1. order'[q].status # "NONE" /\ order'[q].draft = order[q].draft
    BY <1>4, OrdersStay
  <2>2. QED
    BY <1>1, <1>2, <1>4, <2>1, CallsKeepDraft DEF CallsNameDrafts
<1>5. CASE order'[q].status = "NONE" /\ order[q].status = "NONE"
  <2>1. order'[q] = order[q]
    BY <1>5, OrdersStay
  <2>2. QED
    BY <1>1, <1>5, <2>1 DEF CallsNameDrafts
<1>6. QED
  BY <1>1, <1>3, <1>4, <1>5

-----------------------------------------------------------------------------
(* The progress of orders *)

(* A call other than the approval's own commit neither reaches "committed" *)
(* nor leaves it or "done".                                                *)
LEMMA ReviewLeavesCommitted ==
  ASSUME TypeOK, NEW r \in Requests, ReviewStep(r), ~ApproveCommit(r), NEW q \in Requests
  PROVE  \/ request'[q].pc = request[q].pc
         \/ request[q].pc \notin {"committed", "done"} /\ request'[q].pc # "committed"
<1>1. request \in [Requests -> Call]
  BY DEF TypeOK
<1> DEFINE Moved == \/ request'[q].pc = request[q].pc
                    \/ request[q].pc \notin {"committed", "done"} /\ request'[q].pc # "committed"
<1> SUFFICES Moved
  OBVIOUS
<1>2. ASSUME NEW d \in Drafts, AutoApprove(r, d) \/ ApproveRead(r, d) PROVE Moved
  BY <1>1, <1>2 DEF AutoApprove, ApproveRead, NewRequest, Call
<1>3. ASSUME NEW d \in Drafts, RejectRead(r, d) \/ CorrectRead(r, d) PROVE Moved
  BY <1>1, <1>3 DEF RejectRead, CorrectRead, Call
<1>4. CASE ApproveNotFound(r) \/ ApproveValidate(r) \/ ApproveRollback(r)
  BY <1>1, <1>4 DEF ApproveNotFound, ApproveValidate, ApproveRollback, Goto, Call
<1>5. CASE ApproveNumber(r)
  BY <1>1, <1>5 DEF ApproveNumber, Call
<1>6. CASE CorrectDelete(r)
  BY <1>1, <1>6 DEF CorrectDelete, Call
<1>7. CASE RejectCommit(r) \/ RejectEmit(r)
  BY <1>1, <1>7 DEF RejectCommit, RejectEmit, Goto, Call
<1>8. ASSUME NEW list \in ItemLists, CorrectCommit(r, list) PROVE Moved
  BY <1>1, <1>8 DEF CorrectCommit, Goto, Call
<1>9. QED
  BY <1>2, <1>3, <1>4, <1>5, <1>6, <1>7, <1>8 DEF ReviewStep

(* Every step keeps an order in step with its call, its handler and the    *)
(* store.                                                                  *)
LEMMA OrdersProgressStep ==
  ASSUME TypeOK, CallsNameDrafts, OrdersProgress, [Next]_vars
  PROVE  OrdersProgress'
<1> USE DEF draftVars, orderVars, syncVars
<1>r. request \in [Requests -> Call]
  BY DEF TypeOK
<1>o. order \in [Requests -> OrderRow]
  BY DEF TypeOK
<1>s. sync \in [Requests -> SyncState] /\ inStore \in [Requests -> Nat]
  BY DEF TypeOK
<1> SUFFICES ASSUME NEW q \in Requests
             PROVE  OrderFollowsCall(q)' /\ StoreFollowsSync(q)'
  BY DEF OrdersProgress
<1>q. OrderFollowsCall(q) /\ StoreFollowsSync(q)
  BY DEF OrdersProgress
<1>1. ASSUME NEW r \in Requests, ReviewStep(r), ~ApproveCommit(r)
      PROVE  OrderFollowsCall(q)' /\ StoreFollowsSync(q)'
  <2>1. order' = order /\ sync' = sync /\ inStore' = inStore
    BY <1>1 DEF ReviewStep, AutoApprove, ApproveRead, ApproveNotFound, ApproveValidate, ApproveNumber,
       ApproveRollback, RejectRead, RejectCommit, RejectEmit, CorrectRead, CorrectDelete, CorrectCommit
  <2>2. QED
    BY <1>1, <1>q, <2>1, ReviewLeavesCommitted DEF OrderFollowsCall, StoreFollowsSync
<1>2. ASSUME NEW r \in Requests, ApproveCommit(r)
      PROVE  OrderFollowsCall(q)' /\ StoreFollowsSync(q)'
  <2>1. sync' = sync /\ inStore' = inStore
    BY <1>2 DEF ApproveCommit
  <2>2. request'[r].pc = "committed" /\ \A o \in Requests \ {r} : request'[o] = request[o]
    BY <1>2, <1>r DEF ApproveCommit, Goto, Call
  <2>3. order[r].status = "NONE" /\ sync[r] = "none"
    BY <1>2, <1>o, <1>s
    DEF ApproveCommit, OrdersProgress, OrderFollowsCall, OrderRow, OrderStatus, SyncState
  <2>4. QED
    BY <1>2, <1>q, <2>1, <2>2, <2>3, ApproveCommitOrder DEF OrderFollowsCall, StoreFollowsSync
<1>3. ASSUME NEW o \in Requests, OrderStep(o)
      PROVE  OrderFollowsCall(q)' /\ StoreFollowsSync(q)'
  <2>1. CASE ApproveEmit(o)
    BY <2>1, <1>q, <1>r, <1>s DEF ApproveEmit, Goto, Call, OrderFollowsCall, StoreFollowsSync
  <2>2. CASE SyncStart(o) \/ SyncStartThrows(o) \/ SyncRollback(o) \/ HandlerLost(o)
    BY <2>2, <1>q, <1>s
    DEF SyncStart, SyncStartThrows, SyncRollback, HandlerLost, OrderFollowsCall, StoreFollowsSync
  <2>3. CASE StoreCreates(o) \/ StoreFails(o)
    BY <2>3, <1>q, <1>s DEF StoreCreates, StoreFails, OrderFollowsCall, StoreFollowsSync
  <2>4. CASE SyncCommit(o)
    BY <2>4, <1>q, <1>s, SyncCommitOrder DEF SyncCommit, OrderFollowsCall, StoreFollowsSync
  <2>5. CASE SyncMarkFailed(o)
    BY <2>5, <1>q, <1>s, SyncMarkFailedOrder DEF SyncMarkFailed, OrderFollowsCall, StoreFollowsSync
  <2>6. QED
    BY <1>3, <2>1, <2>2, <2>3, <2>4, <2>5 DEF OrderStep
<1>4. CASE Crash
  BY <1>4, <1>q, <1>r, <1>s DEF Crash, Call, OrderFollowsCall, StoreFollowsSync
<1>5. ASSUME request' = request, order' = order, sync' = sync, inStore' = inStore
      PROVE  OrderFollowsCall(q)' /\ StoreFollowsSync(q)'
  BY <1>5, <1>q DEF OrderFollowsCall, StoreFollowsSync
<1>6. QED
  BY <1>1, <1>2, <1>3, <1>4, <1>5 DEF Next, CreateDraft, vars

-----------------------------------------------------------------------------
(* The inductive invariant and what follows from it *)

IInv == TypeOK /\ CallsNameDrafts /\ OrdersProgress /\ OneOrderPerDraft

(* The handler that settles an order is the only one to do so, and a        *)
(* settled order stays as it is.                                           *)
LEMMA OrdersSettle ==
  ASSUME TypeOK, OrdersProgress, [Next]_vars, NEW q \in Requests
  PROVE  /\ order[q].status \notin {"NONE", "APPROVED"} => order'[q] = order[q]
         /\ order'[q].status = "SYNCED" /\ order[q].status # "SYNCED" => SyncCommit(q)
         /\ order'[q].status = "FAILED" /\ order[q].status # "FAILED" => SyncMarkFailed(q)
<1>1. ASSUME order[q].status \notin {"NONE", "APPROVED"}
      PROVE  ~ApproveCommit(q) /\ ~SyncCommit(q) /\ ~SyncMarkFailed(q)
  BY <1>1 DEF OrdersProgress, OrderFollowsCall, ApproveCommit, SyncCommit, SyncMarkFailed
<1>2. ASSUME NEW r \in Requests \ {q}, ApproveCommit(r) \/ SyncCommit(r) \/ SyncMarkFailed(r)
      PROVE  order'[q] = order[q]
  BY <1>2, ApproveCommitOrder, SyncCommitOrder, SyncMarkFailedOrder
<1>3. order'[q] = order[q] \/ ApproveCommit(q) \/ SyncCommit(q) \/ SyncMarkFailed(q)
  BY <1>2, OrderWrites
<1>4. /\ ApproveCommit(q) => order'[q].status = "APPROVED"
      /\ SyncCommit(q) => order'[q].status = "SYNCED"
      /\ SyncMarkFailed(q) => order'[q].status = "FAILED"
  BY ApproveCommitOrder, SyncCommitOrder, SyncMarkFailedOrder
<1>5. QED
  BY <1>1, <1>3, <1>4

(* The unique index makes the second of two concurrent approvals fail.      *)
LEMMA OneOrderPerDraftStep ==
  ASSUME TypeOK, OrdersProgress, OneOrderPerDraft, [Next]_vars
  PROVE  OneOrderPerDraft'
<1> SUFFICES ASSUME NEW o1 \in Requests, NEW o2 \in Requests,
                    order'[o1].status # "NONE", order'[o2].status # "NONE",
                    order'[o1].draft = order'[o2].draft
             PROVE  o1 = o2
  BY DEF OneOrderPerDraft, Placed
<1>1. ASSUME NEW a \in Requests, NEW b \in Requests, ApproveCommit(a), a # b, order'[b].status # "NONE"
      PROVE  order'[b].draft # order'[a].draft
  <2>1. order'[b] = order[b] /\ order'[a].draft = request[a].draft
    BY <1>1, ApproveCommitOrder
  <2>2. b \in Placed
    BY <1>1, <2>1 DEF Placed
  <2>3. QED
    BY <1>1, <2>1, <2>2 DEF ApproveCommit, InsertFails
<1>2. CASE ApproveCommit(o1) \/ ApproveCommit(o2)
  BY <1>1, <1>2
<1>3. CASE ~ApproveCommit(o1) /\ ~ApproveCommit(o2)
  BY <1>3, OrdersStay DEF OneOrderPerDraft, Placed
<1>4. QED
  BY <1>2, <1>3

(* The invariant holds at the start and every step keeps it.               *)
LEMMA Inductive == Spec => []IInv
<1>1. Init => IInv
  <2> SUFFICES ASSUME Init PROVE IInv
    OBVIOUS
  <2>1. TypeOK
    BY OrderAssumption, TypeOKInit
  <2>2. CallsNameDrafts /\ OrdersProgress
    BY DEF Init, NewRequest, NewOrder, CallsNameDrafts, OrdersProgress, OrderFollowsCall, StoreFollowsSync
  <2>3. OneOrderPerDraft
    BY DEF Init, NewOrder, OneOrderPerDraft, Placed
  <2>4. QED
    BY <2>1, <2>2, <2>3 DEF IInv
<1>2. IInv /\ [Next]_vars => IInv'
  BY OrderAssumption, TypeOKStep, CallsNameDraftsStep, OrdersProgressStep, OneOrderPerDraftStep DEF IInv
<1>3. QED
  BY <1>1, <1>2, PTL DEF Spec

(* Every reachable state of the review and the synchronisation is typed.   *)
THEOREM TypeCorrect == Spec => []TypeOK
BY Inductive, PTL DEF IInv

(* However many approvals of a draft interleave, it gives one order at most *)
(* (orders.service.ts, approveDraft; unique index on orders.aiDraftOrderId). *)
THEOREM DraftGivesOneOrder == Spec => []OneOrderPerDraft
BY Inductive, PTL DEF IInv

(* The store holds no order twice, and an order carries an external id      *)
(* exactly when it is SYNCED and the store has it (order-sync.service.ts).  *)
THEOREM StoreAndOrdersAgree == Spec => []StoreAgrees
<1>1. IInv => StoreAgrees
  BY DEF IInv, OrdersProgress, StoreFollowsSync, StoreAgrees
<1>2. QED
  BY <1>1, Inductive, PTL

(* An order is settled once, and its draft and items never change after the *)
(* approval, whatever corrections and rejections of the draft follow.      *)
THEOREM OrdersNeverChange == Spec => OrdersAreFrozen
<1> DEFINE Frozen == \A o \in Placed :
                       /\ order[o].status # "APPROVED" => order'[o] = order[o]
                       /\ order'[o].draft = order[o].draft /\ order'[o].rows = order[o].rows
<1>1. IInv /\ [Next]_vars => [Frozen]_vars
  <2> SUFFICES ASSUME IInv, [Next]_vars, NEW q \in Placed
               PROVE  /\ order[q].status # "APPROVED" => order'[q] = order[q]
                      /\ order'[q].draft = order[q].draft /\ order'[q].rows = order[q].rows
    OBVIOUS
  <2>1. q \in Requests /\ order[q].status # "NONE"
    BY DEF Placed
  <2>2. order'[q].draft = order[q].draft /\ order'[q].rows = order[q].rows
    BY <2>1, OrdersStay DEF IInv
  <2>3. order[q].status # "APPROVED" => order'[q] = order[q]
    BY <2>1, OrdersSettle DEF IInv
  <2>4. QED
    BY <2>2, <2>3
<1>2. QED
  BY <1>1, Inductive, PTL DEF Spec, OrdersAreFrozen

-----------------------------------------------------------------------------
(* Decisions and their records *)

(* A draft becomes APPROVED only by the commit of an approval.             *)
LEMMA DraftApproval ==
  ASSUME TypeOK, [Next]_vars, NEW d \in Drafts, draft'[d].status = "APPROVED"
  PROVE  \/ draft[d].status = "APPROVED"
         \/ \E r \in Requests : ApproveCommit(r) /\ request[r].draft = d
<1>1. draft \in [Drafts -> DraftRow]
  BY DEF TypeOK
<1> DEFINE Goal == \/ draft[d].status = "APPROVED"
                   \/ \E r \in Requests : ApproveCommit(r) /\ request[r].draft = d
<1> SUFFICES Goal
  OBVIOUS
<1>2. ASSUME NEW e \in Drafts, NEW list \in ItemLists, NEW auto \in BOOLEAN, CreateDraft(e, list, auto)
      PROVE  Goal
  BY <1>1, <1>2 DEF CreateDraft
<1>3. ASSUME NEW r \in Requests, ReviewStep(r) PROVE Goal
  <2>1. ASSUME NEW e \in Drafts, AutoApprove(r, e) PROVE Goal
    BY <1>1, <2>1 DEF AutoApprove, DraftRow
  <2>2. CASE ApproveCommit(r)
    BY <1>1, <2>2 DEF ApproveCommit
  <2>3. CASE RejectCommit(r)
    BY <1>1, <2>3 DEF RejectCommit, DraftRow
  <2>4. ASSUME NEW list \in ItemLists, CorrectCommit(r, list) PROVE Goal
    <3>1. draft'[d].status \in {draft[d].status, "REVIEWED"}
      BY <1>1, <2>4 DEF CorrectCommit, DraftRow
    <3>2. QED
      BY <3>1
  <2>5. CASE draft' = draft
    BY <2>5
  <2>6. QED
    BY <1>3, <2>1, <2>2, <2>3, <2>4, <2>5
    DEF ReviewStep, draftVars, ApproveRead, ApproveNotFound, ApproveValidate, ApproveNumber,
        ApproveRollback, RejectRead, RejectEmit, CorrectRead, CorrectDelete
<1>4. ASSUME NEW o \in Requests, OrderStep(o) PROVE Goal
  BY <1>4 DEF OrderStep, draftVars, ApproveEmit, SyncStart, SyncStartThrows, StoreCreates, StoreFails,
     SyncCommit, SyncRollback, SyncMarkFailed, HandlerLost
<1>5. CASE Crash
  BY <1>1, <1>5 DEF Crash, DraftRow
<1>6. QED
  BY <1>2, <1>3, <1>4, <1>5 DEF Next, vars

(* The draft's status and its order are written together.                  *)
LEMMA ApprovedDraftHasOrderStep ==
  ASSUME TypeOK, OrdersProgress, ApprovedDraftHasOrder, [Next]_vars
  PROVE  ApprovedDraftHasOrder'
<1> SUFFICES ASSUME NEW d \in Drafts, draft'[d].status = "APPROVED"
             PROVE  \E o \in Requests : order'[o].status # "NONE" /\ order'[o].draft = d
  BY DEF ApprovedDraftHasOrder, Placed
<1>1. CASE draft[d].status = "APPROVED"
  <2>1. PICK o \in Placed : order[o].draft = d
    BY <1>1 DEF ApprovedDraftHasOrder
  <2>2. QED
    BY <2>1, OrdersStay DEF Placed
<1>2. ASSUME NEW r \in Requests, ApproveCommit(r), request[r].draft = d
      PROVE  order'[r].status # "NONE" /\ order'[r].draft = d
  BY <1>2, ApproveCommitOrder
<1>3. QED
  BY <1>1, <1>2, DraftApproval

(* A draft shown as APPROVED has its order, whatever crashes, rolls back or *)
(* runs at the same time (orders.service.ts, the transaction of approveDraft). *)
THEOREM ApprovedDraftsHaveOrders == Spec => []ApprovedDraftHasOrder
<1>1. Init => ApprovedDraftHasOrder
  BY DEF Init, ApprovedDraftHasOrder
<1>2. IInv /\ ApprovedDraftHasOrder /\ [Next]_vars => ApprovedDraftHasOrder'
  BY ApprovedDraftHasOrderStep DEF IInv
<1>3. QED
  BY <1>1, <1>2, Inductive, PTL DEF Spec

-----------------------------------------------------------------------------
(* Stock *)

(* The stock changes only by the success transaction of a handler.         *)
LEMMA StockWrites ==
  ASSUME [Next]_vars
  PROVE  stock' = stock \/ \E o \in Requests : SyncCommit(o)
<1> USE DEF draftVars, orderVars, syncVars
<1>1. ASSUME NEW r \in Requests, ReviewStep(r) PROVE stock' = stock
  BY <1>1 DEF ReviewStep, AutoApprove, ApproveRead, ApproveNotFound, ApproveValidate, ApproveNumber,
     ApproveCommit, ApproveRollback, RejectRead, RejectCommit, RejectEmit, CorrectRead, CorrectDelete,
     CorrectCommit
<1>2. ASSUME NEW o \in Requests, OrderStep(o) PROVE stock' = stock \/ SyncCommit(o)
  BY <1>2 DEF OrderStep, ApproveEmit, SyncStart, SyncStartThrows, StoreCreates, StoreFails,
     SyncRollback, SyncMarkFailed, HandlerLost
<1>3. QED
  BY <1>1, <1>2 DEF Next, CreateDraft, Crash, vars

(* The units of an order belong to it alone.                               *)
LEMMA UnitsDisjoint ==
  ASSUME NEW o \in Requests, o \notin Synced, NEW p
  PROVE  SoldUnits(p) \cap UnitsOf(o, p) = {}
BY DEF SoldUnits, UnitsOf

(* A success transaction adds the units of its order to the sold ones; any  *)
(* other step leaves them.                                                 *)
LEMMA SoldUnitsStep ==
  ASSUME TypeOK, OrdersProgress, [Next]_vars, NEW p
  PROVE  /\ \A o \in Requests : SyncCommit(o) =>
              o \notin Synced /\ SoldUnits(p)' = SoldUnits(p) \cup UnitsOf(o, p)
         /\ (\A o \in Requests : ~SyncCommit(o)) => SoldUnits(p)' = SoldUnits(p)
<1>1. ASSUME NEW o \in Requests, SyncCommit(o)
      PROVE  /\ o \notin Synced /\ Synced' = Synced \cup {o}
             /\ \A q \in Requests : UnitsOf(q, p)' = UnitsOf(q, p)
  <2>1. order[o].status = "APPROVED"
    BY <1>1 DEF SyncCommit, OrdersProgress, OrderFollowsCall
  <2>2. Synced' = Synced \cup {o}
    BY <1>1, SyncCommitOrder DEF Synced
  <2>3. \A q \in Requests : order'[q].rows = order[q].rows
    BY <1>1, SyncCommitOrder
  <2>4. QED
    BY <2>1, <2>2, <2>3 DEF Synced, UnitsOf, Units
<1>2. ASSUME \A o \in Requests : ~SyncCommit(o)
      PROVE  Synced' = Synced /\ \A q \in Synced : UnitsOf(q, p)' = UnitsOf(q, p)
  <2>1. \A q \in Requests : order'[q].status = "SYNCED" <=> order[q].status = "SYNCED"
    BY <1>2, OrdersSettle
  <2>2. \A q \in Synced : order'[q].rows = order[q].rows
    BY OrdersSettle DEF Synced
  <2>3. QED
    BY <2>1, <2>2 DEF Synced, UnitsOf, Units
<1>3. Synced \subseteq Requests
  BY DEF Synced
<1>4. /\ \A u : u \in SoldUnits(p) <=> \E q \in Synced : u \in UnitsOf(q, p)
      /\ \A u : u \in SoldUnits(p)' <=> \E q \in Synced' : u \in UnitsOf(q, p)'
  BY DEF SoldUnits
<1>5. ASSUME NEW o \in Requests, SyncCommit(o)
      PROVE  SoldUnits(p)' = SoldUnits(p) \cup UnitsOf(o, p)
  <2>1. Synced' = Synced \cup {o} /\ \A q \in Requests : UnitsOf(q, p)' = UnitsOf(q, p)
    BY <1>1, <1>5
  <2>2. \A u : u \in SoldUnits(p)' <=> u \in SoldUnits(p) \cup UnitsOf(o, p)
    BY <1>3, <1>4, <2>1
  <2>3. QED
    BY <2>2
<1>6. ASSUME \A o \in Requests : ~SyncCommit(o)
      PROVE  SoldUnits(p)' = SoldUnits(p)
  <2>1. Synced' = Synced /\ \A q \in Synced : UnitsOf(q, p)' = UnitsOf(q, p)
    BY <1>2, <1>6
  <2>2. \A u : u \in SoldUnits(p)' <=> u \in SoldUnits(p)
    BY <1>4, <2>1
  <2>3. QED
    BY <2>2
<1>7. QED
  BY <1>1, <1>5, <1>6

(* Stock is initial stock less the sold units, which are finitely many.    *)
StockInv == StockAccounting /\ \A p \in Products : IsFiniteSet(SoldUnits(p))

LEMMA StockInvStep ==
  ASSUME OrderAssumption, TypeOK, OrdersProgress, StockInv, [Next]_vars
  PROVE  StockInv'
<1> SUFFICES ASSUME NEW p \in Products
             PROVE  /\ stock'[p] = InitialStock[p] - Cardinality(SoldUnits(p)')
                    /\ IsFiniteSet(SoldUnits(p)')
  BY DEF StockInv, StockAccounting
<1>1. stock[p] = InitialStock[p] - Cardinality(SoldUnits(p)) /\ IsFiniteSet(SoldUnits(p))
  BY DEF StockInv, StockAccounting
<1>2. ASSUME NEW o \in Requests, SyncCommit(o)
      PROVE  /\ stock'[p] = InitialStock[p] - Cardinality(SoldUnits(p)')
             /\ IsFiniteSet(SoldUnits(p)')
  <2>1. stock'[p] = stock[p] - Cardinality(UnitsOf(o, p))
    BY <1>2 DEF SyncCommit
  <2>2. SoldUnits(p)' = SoldUnits(p) \cup UnitsOf(o, p) /\ SoldUnits(p) \cap UnitsOf(o, p) = {}
    BY <1>2, SoldUnitsStep, UnitsDisjoint
  <2>3. IsFiniteSet(UnitsOf(o, p)) /\ Cardinality(UnitsOf(o, p)) \in Nat
    BY UnitsFinite
  <2>4. /\ IsFiniteSet(SoldUnits(p) \cup UnitsOf(o, p))
        /\ Cardinality(SoldUnits(p) \cup UnitsOf(o, p)) =
             Cardinality(SoldUnits(p)) + Cardinality(UnitsOf(o, p))
    BY <1>1, <2>2, <2>3, FS_Union, FS_EmptySet, FS_CardinalityType
  <2>5. InitialStock[p] \in Int /\ Cardinality(SoldUnits(p)) \in Nat
    BY <1>1, FS_CardinalityType DEF OrderAssumption
  <2>6. QED
    BY <1>1, <2>1, <2>2, <2>3, <2>4, <2>5
<1>3. CASE \A o \in Requests : ~SyncCommit(o)
  BY <1>1, <1>3, SoldUnitsStep, StockWrites
<1>4. QED
  BY <1>2, <1>3

(* BR-14: the stock is the initial stock less the units of the SYNCED       *)
(* orders, each counted once (order-sync.service.ts, success transaction).  *)
THEOREM StockIsAccounted == Spec => []StockAccounting
<1>1. Init => StockInv
  <2> SUFFICES ASSUME Init PROVE StockInv
    OBVIOUS
  <2>1. Synced = {}
    BY DEF Init, NewOrder, Synced
  <2>2. \A p \in Products : SoldUnits(p) = {} /\ stock[p] \in Int /\ stock[p] = InitialStock[p]
    BY <2>1, OrderAssumption DEF SoldUnits, Init, OrderAssumption
  <2>3. IsFiniteSet({}) /\ Cardinality({}) = 0
    BY FS_EmptySet
  <2>4. \A p \in Products : stock[p] = InitialStock[p] - 0
    BY <2>2
  <2>5. QED
    BY <2>2, <2>3, <2>4 DEF StockInv, StockAccounting
<1>2. IInv /\ StockInv /\ [Next]_vars => StockInv'
  BY OrderAssumption, StockInvStep DEF IInv
<1>3. QED
  BY <1>1, <1>2, Inductive, PTL DEF Spec, StockInv

-----------------------------------------------------------------------------
(* Order numbers *)

(* What a call has counted changes only when it counts, or starts anew.    *)
LEMMA CountsAreTaken ==
  ASSUME TypeOK, [Next]_vars, NEW q \in Requests
  PROVE  request'[q].known \in {request[q].known, {}, Placed}
<1>1. request \in [Requests -> Call]
  BY DEF TypeOK
<1> DEFINE Counted == request'[q].known \in {request[q].known, {}, Placed}
<1> SUFFICES Counted
  OBVIOUS
<1>2. ASSUME NEW r \in Requests, ReviewStep(r) PROVE Counted
  <2>1. ASSUME NEW d \in Drafts, AutoApprove(r, d) \/ ApproveRead(r, d) PROVE Counted
    <3>1. request'[r].known = {} /\ (r # q => request'[q] = request[q])
      BY <1>1, <2>1 DEF AutoApprove, ApproveRead, NewRequest
    <3>2. QED
      BY <3>1
  <2>2. ASSUME NEW d \in Drafts, RejectRead(r, d) \/ CorrectRead(r, d) PROVE Counted
    <3>1. request'[r].known = request[r].known /\ (r # q => request'[q] = request[q])
      <4>1. CASE RejectRead(r, d)
        BY <1>1, <4>1 DEF RejectRead, Call
      <4>2. CASE CorrectRead(r, d)
        BY <1>1, <4>2 DEF CorrectRead, Call
      <4>3. QED
        BY <2>2, <4>1, <4>2
    <3>2. QED
      BY <3>1
  <2>3. CASE ApproveNotFound(r) \/ ApproveValidate(r) \/ ApproveRollback(r)
    BY <1>1, <2>3 DEF ApproveNotFound, ApproveValidate, ApproveRollback, Goto, Call
  <2>4. CASE ApproveNumber(r)
    <3>1. request'[r].known = Placed /\ (r # q => request'[q] = request[q])
      BY <1>1, <2>4 DEF ApproveNumber, Call
    <3>2. QED
      BY <3>1
  <2>5. CASE CorrectDelete(r)
    BY <1>1, <2>5 DEF CorrectDelete, Call
  <2>6. CASE ApproveCommit(r) \/ RejectCommit(r) \/ RejectEmit(r)
    BY <1>1, <2>6 DEF ApproveCommit, RejectCommit, RejectEmit, Goto, Call
  <2>7. ASSUME NEW list \in ItemLists, CorrectCommit(r, list) PROVE Counted
    BY <1>1, <2>7 DEF CorrectCommit, Goto, Call
  <2>8. QED
    BY <1>2, <2>1, <2>2, <2>3, <2>4, <2>5, <2>6, <2>7 DEF ReviewStep
<1>3. ASSUME NEW o \in Requests, OrderStep(o) PROVE Counted
  <2>1. CASE ApproveEmit(o)
    BY <1>1, <2>1 DEF ApproveEmit, Goto, Call
  <2>2. CASE request' = request
    BY <2>2
  <2>3. QED
    BY <1>3, <2>1, <2>2 DEF OrderStep, SyncStart, SyncStartThrows, StoreCreates, StoreFails, SyncCommit,
       SyncRollback, SyncMarkFailed, HandlerLost
<1>4. CASE Crash
  BY <1>1, <1>4 DEF Crash, Call
<1>5. ASSUME request' = request PROVE Counted
  BY <1>5
<1>6. QED
  BY <1>2, <1>3, <1>4, <1>5 DEF Next, CreateDraft, vars

(* Counts stay closed: an approval counts the whole table at once, and the *)
(* order it inserts is not in it yet.                                      *)
LEMMA CountsAreClosedStep ==
  ASSUME TypeOK, OrdersProgress, CountsAreClosed, [Next]_vars
  PROVE  CountsAreClosed'
<1>1. \A k \in Placed : k \in Placed' /\ order'[k].known = order[k].known
  BY OrdersStay DEF Placed
<1>2. ASSUME NEW S, IsClosed(S)
      PROVE  S \subseteq Placed' /\ \A k \in S : order'[k].known \subseteq S
  BY <1>1, <1>2 DEF IsClosed
<1>3. IsClosed({}) /\ IsClosed(Placed)
  BY DEF CountsAreClosed, IsClosed, Placed
<1>4. ASSUME NEW q \in Requests
      PROVE  IsClosed(request[q].known)'
  <2>1. IsClosed(request[q].known)
    BY DEF CountsAreClosed
  <2>2. /\ request'[q].known \subseteq Placed'
        /\ \A k \in request'[q].known : order'[k].known \subseteq request'[q].known
    <3>1. CASE request'[q].known = request[q].known
      BY <1>2, <2>1, <3>1
    <3>2. CASE request'[q].known = {}
      BY <3>2
    <3>3. CASE request'[q].known = Placed
      BY <1>2, <1>3, <3>3
    <3>4. QED
      BY <3>1, <3>2, <3>3, CountsAreTaken
  <2>3. QED
    BY <2>2 DEF IsClosed
<1>5. ASSUME NEW o \in Placed'
      PROVE  IsClosed(order[o].known)' /\ o \notin order'[o].known
  <2>1. o \in Requests /\ order'[o].status # "NONE"
    BY <1>5 DEF Placed
  <2>2. PICK S : IsClosed(S) /\ o \notin S /\ order'[o].known = S
    <3>1. CASE o \in Placed
      BY <1>1, <3>1 DEF CountsAreClosed
    <3>2. CASE o \notin Placed
      <4>1. ApproveCommit(o)
        BY <2>1, <3>2, OrdersStay DEF Placed
      <4>2. order'[o].known = request[o].known
        BY <2>1, <4>1, ApproveCommitOrder
      <4>3. IsClosed(request[o].known) /\ o \notin request[o].known
        BY <2>1, <3>2 DEF CountsAreClosed, IsClosed
      <4>4. QED
        BY <4>2, <4>3
    <3>3. QED
      BY <3>1, <3>2
  <2>3. QED
    BY <1>2, <2>2 DEF IsClosed
<1>6. QED
  BY <1>4, <1>5 DEF CountsAreClosed

(* One more than a count is larger than any count it contains together     *)
(* with one element besides.                                               *)
LEMMA LargerCount ==
  ASSUME NEW T, IsFiniteSet(T), NEW S \in SUBSET T, NEW e \in T, e \notin S
  PROVE  Cardinality(S) + 1 < Cardinality(T) + 1
<1>1. IsFiniteSet(S)
  BY FS_Subset
<1>2. IsFiniteSet(S \cup {e}) /\ Cardinality(S \cup {e}) = Cardinality(S) + 1
  BY <1>1, FS_AddElement
<1>3. S \cup {e} \subseteq T
  OBVIOUS
<1>4. Cardinality(S \cup {e}) <= Cardinality(T)
  BY <1>2, <1>3, FS_Subset
<1>5. Cardinality(S) \in Nat /\ Cardinality(T) \in Nat
  BY <1>1, FS_CardinalityType
<1>6. QED
  BY <1>2, <1>4, <1>5

(* An approval that counts the orders after another has committed gets a   *)
(* larger number (orders.service.ts, generateOrderNumber).                 *)
THEOREM LaterCountsAreLarger == Spec => []NumbersFollowCommits
<1>1. Init => CountsAreClosed
  BY DEF Init, NewRequest, NewOrder, CountsAreClosed, IsClosed, Placed
<1>2. IInv /\ CountsAreClosed /\ [Next]_vars => CountsAreClosed'
  BY CountsAreClosedStep DEF IInv
<1>3. IInv /\ CountsAreClosed => NumbersFollowCommits
  <2> SUFFICES ASSUME IInv, CountsAreClosed, NEW o1 \in Placed, NEW o2 \in Placed, o1 \in order[o2].known
               PROVE  Cardinality(order[o1].known) + 1 < Cardinality(order[o2].known) + 1
    BY DEF NumbersFollowCommits, NumberOf
  <2>1. order[o1].known \subseteq order[o2].known /\ o1 \notin order[o1].known
    BY DEF CountsAreClosed, IsClosed
  <2>2. IsFiniteSet(order[o2].known)
    <3>1. order[o2].known \subseteq Requests
      BY DEF IInv, TypeOK, OrderRow, Placed
    <3>2. QED
      BY <3>1, OrderAssumption, FS_Subset DEF OrderAssumption
  <2>3. QED
    BY <2>1, <2>2, LargerCount
<1>4. QED
  BY <1>1, <1>2, <1>3, Inductive, PTL DEF Spec

-----------------------------------------------------------------------------
(* Audit log and announcements *)

(* An entry about an order or a rejection is written by the one            *)
(* transaction it is about, and never removed.                             *)
LEMMA AuditWrites ==
  ASSUME [Next]_vars, NEW q \in Requests
  PROVE  /\ <<"ORDER_APPROVED", q>> \in audit' <=> <<"ORDER_APPROVED", q>> \in audit \/ ApproveCommit(q)
         /\ <<"ORDER_REJECTED", q>> \in audit' <=> <<"ORDER_REJECTED", q>> \in audit \/ RejectCommit(q)
         /\ <<"ORDER_SYNCED", q>> \in audit' <=> <<"ORDER_SYNCED", q>> \in audit \/ SyncCommit(q)
         /\ <<"ORDER_SYNC_FAILED", q>> \in audit' <=>
              <<"ORDER_SYNC_FAILED", q>> \in audit \/ SyncMarkFailed(q)
<1> DEFINE Written(r, action) == audit' = audit \cup {<<action, r>>}
           Quiet == audit' = audit
<1>1. /\ ApproveCommit(q) => Written(q, "ORDER_APPROVED")
      /\ RejectCommit(q) => Written(q, "ORDER_REJECTED")
      /\ SyncCommit(q) => Written(q, "ORDER_SYNCED")
      /\ SyncMarkFailed(q) => Written(q, "ORDER_SYNC_FAILED")
  BY DEF ApproveCommit, RejectCommit, SyncCommit, SyncMarkFailed, Log
<1>2. \/ Quiet
      \/ \E r \in Requests :
           \/ ApproveCommit(r) /\ Written(r, "ORDER_APPROVED")
           \/ RejectCommit(r) /\ Written(r, "ORDER_REJECTED")
           \/ Written(r, "AI_CORRECTION_RECORDED")
           \/ SyncCommit(r) /\ Written(r, "ORDER_SYNCED")
           \/ SyncMarkFailed(r) /\ Written(r, "ORDER_SYNC_FAILED")
  <2> USE DEF Log
  <2>1. ASSUME NEW r \in Requests, ReviewStep(r)
        PROVE  \/ Quiet
               \/ ApproveCommit(r) /\ Written(r, "ORDER_APPROVED")
               \/ RejectCommit(r) /\ Written(r, "ORDER_REJECTED")
               \/ Written(r, "AI_CORRECTION_RECORDED")
    <3>1. ApproveCommit(r) => Written(r, "ORDER_APPROVED")
      BY DEF ApproveCommit
    <3>2. RejectCommit(r) => Written(r, "ORDER_REJECTED")
      BY DEF RejectCommit
    <3>3. \A list \in ItemLists : CorrectCommit(r, list) => Written(r, "AI_CORRECTION_RECORDED")
      BY DEF CorrectCommit
    <3>4. QED
      BY <2>1, <3>1, <3>2, <3>3 DEF ReviewStep, AutoApprove, ApproveRead, ApproveNotFound,
         ApproveValidate, ApproveNumber, ApproveRollback, RejectRead, RejectEmit, CorrectRead, CorrectDelete
  <2>2. ASSUME NEW o \in Requests, OrderStep(o)
        PROVE  \/ Quiet
               \/ SyncCommit(o) /\ Written(o, "ORDER_SYNCED")
               \/ SyncMarkFailed(o) /\ Written(o, "ORDER_SYNC_FAILED")
    BY <2>2 DEF OrderStep, ApproveEmit, SyncStart, SyncStartThrows, StoreCreates, StoreFails,
       SyncCommit, SyncRollback, SyncMarkFailed, HandlerLost
  <2>3. QED
    BY <2>1, <2>2 DEF Next, CreateDraft, Crash, vars
<1>3. ASSUME NEW r \in Requests, NEW action, NEW a, Written(r, action)
      PROVE  <<a, q>> \in audit' <=> <<a, q>> \in audit \/ <<a, q>> = <<action, r>>
  BY <1>3
<1>4. QED
  BY <1>1, <1>2, <1>3

(* A customer is told only by the last step of an approval or a rejection. *)
LEMMA ToldWrites ==
  ASSUME [Next]_vars
  PROVE  told' = told \/ \E r \in Requests : ApproveEmit(r) \/ RejectEmit(r)
<1> USE DEF draftVars
<1>1. ASSUME NEW r \in Requests, ReviewStep(r) PROVE told' = told \/ RejectEmit(r)
  BY <1>1 DEF ReviewStep, AutoApprove, ApproveRead, ApproveNotFound, ApproveValidate, ApproveNumber,
     ApproveCommit, ApproveRollback, RejectRead, RejectCommit, CorrectRead, CorrectDelete, CorrectCommit
<1>2. ASSUME NEW o \in Requests, OrderStep(o) PROVE told' = told \/ ApproveEmit(o)
  BY <1>2 DEF OrderStep, SyncStart, SyncStartThrows, StoreCreates, StoreFails, SyncCommit,
     SyncRollback, SyncMarkFailed, HandlerLost
<1>3. QED
  BY <1>1, <1>2 DEF Next, CreateDraft, Crash, vars

(* Only the transaction of a rejection makes a call "rejected".            *)
LEMMA RejectedCalls ==
  ASSUME TypeOK, [Next]_vars, NEW q \in Requests
  PROVE  request'[q].pc = "rejected" => request[q].pc = "rejected" \/ RejectCommit(q)
<1>1. request \in [Requests -> Call]
  BY DEF TypeOK
<1> DEFINE Goal == request'[q].pc = "rejected" => request[q].pc = "rejected" \/ RejectCommit(q)
<1> SUFFICES Goal
  OBVIOUS
<1>2. ASSUME NEW r \in Requests, ReviewStep(r) PROVE Goal
  <2>1. ASSUME NEW d \in Drafts, AutoApprove(r, d) \/ ApproveRead(r, d) PROVE Goal
    <3>1. request'[r].pc # "rejected" /\ (r # q => request'[q] = request[q])
      <4>1. CASE AutoApprove(r, d)
        BY <1>1, <4>1 DEF AutoApprove, NewRequest
      <4>2. CASE ApproveRead(r, d)
        BY <1>1, <4>2 DEF ApproveRead, NewRequest
      <4>3. QED
        BY <2>1, <4>1, <4>2
    <3>2. QED
      BY <3>1
  <2>2. ASSUME NEW d \in Drafts, RejectRead(r, d) \/ CorrectRead(r, d) PROVE Goal
    BY <1>1, <2>2 DEF RejectRead, CorrectRead, Call
  <2>3. CASE ApproveNotFound(r) \/ ApproveValidate(r) \/ ApproveRollback(r)
    BY <1>1, <2>3 DEF ApproveNotFound, ApproveValidate, ApproveRollback, Goto, Call
  <2>4. CASE ApproveNumber(r)
    BY <1>1, <2>4 DEF ApproveNumber, Call
  <2>5. CASE CorrectDelete(r)
    BY <1>1, <2>5 DEF CorrectDelete, Call
  <2>6. CASE ApproveCommit(r) \/ RejectEmit(r)
    BY <1>1, <2>6 DEF ApproveCommit, RejectEmit, Goto, Call
  <2>7. CASE RejectCommit(r)
    BY <1>1, <2>7 DEF RejectCommit, Goto, Call
  <2>8. ASSUME NEW list \in ItemLists, CorrectCommit(r, list) PROVE Goal
    BY <1>1, <2>8 DEF CorrectCommit, Goto, Call
  <2>9. QED
    BY <1>2, <2>1, <2>2, <2>3, <2>4, <2>5, <2>6, <2>7, <2>8 DEF ReviewStep
<1>3. ASSUME NEW o \in Requests, OrderStep(o) PROVE Goal
  <2>1. CASE ApproveEmit(o)
    BY <1>1, <2>1 DEF ApproveEmit, Goto, Call
  <2>2. CASE request' = request
    BY <2>2
  <2>3. QED
    BY <1>3, <2>1, <2>2 DEF OrderStep, SyncStart, SyncStartThrows, StoreCreates, StoreFails, SyncCommit,
       SyncRollback, SyncMarkFailed, HandlerLost
<1>4. CASE Crash
  BY <1>1, <1>4 DEF Crash, Call
<1>5. ASSUME request' = request PROVE Goal
  BY <1>5
<1>6. QED
  BY <1>2, <1>3, <1>4, <1>5 DEF Next, CreateDraft, vars

(* Decisions, with what makes a rejection's record keep its draft.          *)
DecisionInv == DecisionsAreRecorded /\ RejectionsAreLogged /\ LoggedCallsStarted

LEMMA DecisionInvStep ==
  ASSUME IInv, DecisionInv, [Next]_vars
  PROVE  DecisionInv'
<1> USE DEF IInv
<1>1. RejectionsAreLogged' /\ LoggedCallsStarted'
  <2> SUFFICES ASSUME NEW q \in Requests
               PROVE  /\ request'[q].pc = "rejected" => <<"ORDER_REJECTED", q>> \in audit'
                      /\ <<"ORDER_REJECTED", q>> \in audit' => request'[q].pc # "idle"
    BY DEF RejectionsAreLogged, LoggedCallsStarted
  <2>1. request[q].pc = "rejected" => <<"ORDER_REJECTED", q>> \in audit
    BY DEF DecisionInv, RejectionsAreLogged
  <2>2. <<"ORDER_REJECTED", q>> \in audit \/ RejectCommit(q) => request[q].pc # "idle"
    BY DEF DecisionInv, LoggedCallsStarted, RejectCommit
  <2>3. QED
    BY <2>1, <2>2, AuditWrites, RejectedCalls, CallsKeepDraft
<1>2. ASSUME NEW d \in Drafts, "order.approved" \in told'[d]
      PROVE  \E o \in Placed' : order'[o].draft = d
  <2>1. PICK o \in Placed : order[o].draft = d
    <3>1. CASE "order.approved" \in told[d]
      BY <3>1 DEF DecisionInv, DecisionsAreRecorded
    <3>2. CASE "order.approved" \notin told[d]
      <4>1. PICK r \in Requests : ApproveEmit(r) \/ RejectEmit(r)
        BY <1>2, <3>2, ToldWrites
      <4>2. ApproveEmit(r) /\ request[r].draft = d
        BY <1>2, <3>2, <4>1 DEF ApproveEmit, RejectEmit, TypeOK
      <4>3. r \in Placed /\ order[r].draft = d
        BY <4>2 DEF ApproveEmit, OrdersProgress, OrderFollowsCall, CallsNameDrafts, Placed
      <4>4. QED
        BY <4>3
    <3>3. QED
      BY <3>1, <3>2
  <2>2. QED
    BY <2>1, OrdersStay DEF Placed
<1>3. ASSUME NEW d \in Drafts, "order.rejected" \in told'[d]
      PROVE  \E r \in Requests : request'[r].draft = d /\ <<"ORDER_REJECTED", r>> \in audit'
  <2>1. PICK r \in Requests : request[r].draft = d /\ <<"ORDER_REJECTED", r>> \in audit
    <3>1. CASE "order.rejected" \in told[d]
      BY <3>1 DEF DecisionInv, DecisionsAreRecorded
    <3>2. CASE "order.rejected" \notin told[d]
      <4>1. PICK r \in Requests : ApproveEmit(r) \/ RejectEmit(r)
        BY <1>3, <3>2, ToldWrites
      <4>2. RejectEmit(r) /\ request[r].draft = d
        BY <1>3, <3>2, <4>1 DEF ApproveEmit, RejectEmit, TypeOK
      <4>3. <<"ORDER_REJECTED", r>> \in audit
        BY <4>2 DEF RejectEmit, DecisionInv, RejectionsAreLogged
      <4>4. QED
        BY <4>2, <4>3
    <3>3. QED
      BY <3>1, <3>2
  <2>2. request[r].pc # "idle"
    BY <2>1 DEF DecisionInv, LoggedCallsStarted
  <2>3. QED
    BY <2>1, <2>2, AuditWrites, CallsKeepDraft
<1>4. ASSUME NEW q \in Requests
      PROVE  /\ <<"ORDER_APPROVED", q>> \in audit' <=> order'[q].status # "NONE"
             /\ <<"ORDER_SYNCED", q>> \in audit' <=> order'[q].status = "SYNCED"
             /\ <<"ORDER_SYNC_FAILED", q>> \in audit' <=> order'[q].status = "FAILED"
  <2>1. /\ <<"ORDER_APPROVED", q>> \in audit <=> order[q].status # "NONE"
        /\ <<"ORDER_SYNCED", q>> \in audit <=> order[q].status = "SYNCED"
        /\ <<"ORDER_SYNC_FAILED", q>> \in audit <=> order[q].status = "FAILED"
    BY DEF DecisionInv, DecisionsAreRecorded
  <2>2. /\ ApproveCommit(q) => order'[q].status = "APPROVED"
        /\ SyncCommit(q) => order'[q].status = "SYNCED"
        /\ SyncMarkFailed(q) => order'[q].status = "FAILED"
    BY ApproveCommitOrder, SyncCommitOrder, SyncMarkFailedOrder
  <2>3. order[q].status # "NONE" => order'[q].status # "NONE"
    BY OrdersStay
  <2>4. order[q].status = "NONE" /\ order'[q].status # "NONE" => ApproveCommit(q)
    BY OrdersStay
  <2>5. /\ order[q].status \notin {"NONE", "APPROVED"} => order'[q] = order[q]
        /\ order'[q].status = "SYNCED" /\ order[q].status # "SYNCED" => SyncCommit(q)
        /\ order'[q].status = "FAILED" /\ order[q].status # "FAILED" => SyncMarkFailed(q)
    BY OrdersSettle
  <2>6. /\ <<"ORDER_APPROVED", q>> \in audit' <=> <<"ORDER_APPROVED", q>> \in audit \/ ApproveCommit(q)
        /\ <<"ORDER_SYNCED", q>> \in audit' <=> <<"ORDER_SYNCED", q>> \in audit \/ SyncCommit(q)
        /\ <<"ORDER_SYNC_FAILED", q>> \in audit' <=>
             <<"ORDER_SYNC_FAILED", q>> \in audit \/ SyncMarkFailed(q)
    BY AuditWrites
  <2>7. <<"ORDER_APPROVED", q>> \in audit' <=> order'[q].status # "NONE"
    BY <2>1, <2>2, <2>3, <2>4, <2>6
  <2>8. <<"ORDER_SYNCED", q>> \in audit' <=> order'[q].status = "SYNCED"
    BY <2>1, <2>2, <2>5, <2>6
  <2>9. <<"ORDER_SYNC_FAILED", q>> \in audit' <=> order'[q].status = "FAILED"
    BY <2>1, <2>2, <2>5, <2>6
  <2>10. QED
    BY <2>7, <2>8, <2>9
<1>5. DecisionsAreRecorded'
  BY <1>2, <1>3, <1>4 DEF DecisionsAreRecorded
<1>6. QED
  BY <1>1, <1>5 DEF DecisionInv

(* A customer is told of an approval only once the order exists, of a      *)
(* rejection only once it is logged, and the audit log says of every order *)
(* exactly what happened to it (orders.service.ts, order-sync.service.ts). *)
THEOREM DecisionsHaveRecords == Spec => []DecisionsAreRecorded
<1>1. Init => DecisionInv
  BY DEF Init, NewRequest, NewOrder, DecisionInv, DecisionsAreRecorded, RejectionsAreLogged,
     LoggedCallsStarted
<1>2. IInv /\ DecisionInv /\ [Next]_vars => DecisionInv'
  BY DecisionInvStep
<1>3. QED
  BY <1>1, <1>2, Inductive, PTL DEF Spec, DecisionInv

-----------------------------------------------------------------------------
(* OrderLifecycle implements OrderContract: every step of a call or of a   *)
(* handler is Place, Settle or GiveUp of the contract, or changes nothing  *)
(* the contract speaks of.                                                 *)

(* The refinement mapping of OrderLifecycle, by name. *)
Status == [o \in Requests |-> order[o].status]
Source == [o \in Requests |-> order[o].draft]
Bought == [o \in Requests |-> [p \in Products |-> Cardinality(UnitsOf(o, p))]]

(* The contract's view of a step that writes no order and no stock.        *)
LEMMA Stutter ==
  ASSUME order' = order, stock' = stock
  PROVE  Status' = Status /\ Source' = Source /\ Bought' = Bought /\ stock' = stock
BY DEF Status, Source, Bought, UnitsOf, Units

(* The commit of an approval is Place.                                     *)
LEMMA CommitPlaces ==
  ASSUME OrderAssumption, IInv, NEW r \in Requests, ApproveCommit(r),
         NEW d \in Drafts, d = request[r].draft
  PROVE  Contract!Place(r, d)
<1>2. order[r].status = "NONE"
  BY DEF IInv, OrdersProgress, OrderFollowsCall, ApproveCommit
<1>3. \A o \in Requests : order[o].draft # d
  <2> SUFFICES ASSUME NEW o \in Requests, order[o].draft = d
               PROVE  FALSE
    OBVIOUS
  <2>1. order[o].status # "NONE"
    BY DEF IInv, CallsNameDrafts, OrderAssumption
  <2>2. QED
    BY <2>1 DEF ApproveCommit, InsertFails, Placed
<1>4. /\ order'[r].status = "APPROVED" /\ order'[r].draft = d /\ order'[r].rows = request[r].rows
      /\ \A o \in Requests \ {r} : order'[o] = order[o]
  BY ApproveCommitOrder DEF IInv
<1>5. Status' = [Status EXCEPT ![r] = "APPROVED"] /\ Source' = [Source EXCEPT ![r] = d]
  BY <1>4 DEF Status, Source
<1>6. \A o \in Requests \ {r} : Bought'[o] = Bought[o]
  BY <1>4 DEF Bought, UnitsOf, Units
<1>7. Bought' \in [Requests -> [Products -> Nat]]
  <2> SUFFICES ASSUME NEW o \in Requests, NEW p \in Products
               PROVE  Cardinality(UnitsOf(o, p)') \in Nat
    BY DEF Bought
  <2>1. order'[o].rows \in RowSets
    <3>1. request[r].rows \in RowSets /\ order[o].rows \in RowSets
      BY DEF IInv, TypeOK, Call, OrderRow
    <3>2. QED
      BY <1>4, <3>1
  <2>2. UnitsOf(o, p)' = {o} \X Units(order'[o].rows, p)
    BY DEF UnitsOf, Units
  <2>3. QED
    BY <2>1, <2>2, RowUnitsFinite
<1>8. stock' = stock
  BY DEF ApproveCommit, syncVars
<1>9. QED
  BY <1>2, <1>3, <1>5, <1>6, <1>7, <1>8 DEF Contract!Place, Status, Source, Bought

(* A success transaction is Settle.                                        *)
LEMMA SyncSettlesOrder ==
  ASSUME IInv, NEW o \in Requests, SyncCommit(o)
  PROVE  Contract!Settle(o)
<1>1. order[o].status = "APPROVED"
  BY DEF IInv, OrdersProgress, OrderFollowsCall, SyncCommit
<1>2. /\ order'[o].status = "SYNCED" /\ order'[o].draft = order[o].draft /\ order'[o].rows = order[o].rows
      /\ \A q \in Requests \ {o} : order'[q] = order[q]
  BY SyncCommitOrder DEF IInv
<1>3. Status' = [Status EXCEPT ![o] = "SYNCED"] /\ Source' = Source
  BY <1>2 DEF Status, Source
<1>4. Bought' = Bought
  BY <1>2 DEF Bought, UnitsOf, Units
<1>5. stock' = [p \in Products |-> stock[p] - Bought[o][p]]
  BY DEF SyncCommit, Bought
<1>6. QED
  BY <1>1, <1>3, <1>4, <1>5 DEF Contract!Settle, Status, Source, Bought

(* The catch block is GiveUp.                                              *)
LEMMA FailureGivesUp ==
  ASSUME IInv, NEW o \in Requests, SyncMarkFailed(o)
  PROVE  Contract!GiveUp(o)
<1>1. order[o].status = "APPROVED"
  BY DEF IInv, OrdersProgress, OrderFollowsCall, SyncMarkFailed
<1>2. /\ order'[o].status = "FAILED" /\ order'[o].draft = order[o].draft /\ order'[o].rows = order[o].rows
      /\ \A q \in Requests \ {o} : order'[q] = order[q]
  BY SyncMarkFailedOrder DEF IInv
<1>3. Status' = [Status EXCEPT ![o] = "FAILED"] /\ Source' = Source
  BY <1>2 DEF Status, Source
<1>4. Bought' = Bought
  BY <1>2 DEF Bought, UnitsOf, Units
<1>5. stock' = stock
  BY DEF SyncMarkFailed
<1>6. QED
  BY <1>1, <1>3, <1>4, <1>5 DEF Contract!GiveUp, Status, Source, Bought

(* The initial state is the contract's: no orders, and some stock.         *)
LEMMA ContractInitial ==
  ASSUME OrderAssumption, Init
  PROVE  Contract!ContractInit
<1>1. \A o \in Requests, p \in Products : UnitsOf(o, p) = {}
  BY DEF Init, NewOrder, UnitsOf, Units
<1>2. Cardinality({}) = 0
  BY FS_EmptySet
<1>3. Status = [o \in Requests |-> "NONE"] /\ Source = [o \in Requests |-> NoDraft]
  BY DEF Init, NewOrder, Status, Source
<1>4. Bought = [o \in Requests |-> [p \in Products |-> 0]]
  BY <1>1, <1>2 DEF Bought
<1>5. stock \in [Products -> Int]
  BY DEF Init, OrderAssumption
<1>6. QED
  BY <1>3, <1>4, <1>5 DEF Contract!ContractInit, Status, Source, Bought

(* Every step of the lifecycle is a step of the contract or a stutter.     *)
LEMMA ContractStep ==
  ASSUME OrderAssumption, IInv, [Next]_vars
  PROVE  [Contract!ContractNext]_Contract!contractVars
<1>1. ASSUME NEW r \in Requests, ApproveCommit(r) PROVE Contract!ContractNext
  <2>1. PICK d \in Drafts : d = request[r].draft
    BY <1>1 DEF IInv, CallsNameDrafts, ApproveCommit
  <2>2. Contract!Place(r, d)
    BY <1>1, <2>1, CommitPlaces
  <2>3. QED
    BY <2>2 DEF Contract!ContractNext
<1>2. ASSUME NEW o \in Requests, SyncCommit(o) PROVE Contract!ContractNext
  BY <1>2, SyncSettlesOrder DEF Contract!ContractNext
<1>3. ASSUME NEW o \in Requests, SyncMarkFailed(o) PROVE Contract!ContractNext
  BY <1>3, FailureGivesUp DEF Contract!ContractNext
<1>4. CASE order' = order /\ stock' = stock
  BY <1>4, Stutter DEF Contract!contractVars, Status, Source, Bought
<1>5. ASSUME order' = order, stock' # stock PROVE FALSE
  <2>1. PICK o \in Requests : SyncCommit(o)
    BY <1>5, StockWrites
  <2>2. order'[o].status = "SYNCED" /\ order[o].status = "APPROVED"
    BY <2>1, SyncCommitOrder DEF IInv, OrdersProgress, OrderFollowsCall, SyncCommit
  <2>3. QED
    BY <1>5, <2>2
<1>6. QED
  BY <1>1, <1>2, <1>3, <1>4, <1>5, OrderWrites

(* The review and synchronisation of orders keep the promise of            *)
(* OrderContract: one order per draft, settled once, and stock taken       *)
(* exactly when an order is SYNCED (orders.service.ts, order-sync.service.ts). *)
THEOREM LifecycleImplementsContract == Spec => ImplementsContract
<1>1. Init => Contract!ContractInit
  BY OrderAssumption, ContractInitial
<1>2. IInv /\ [Next]_vars => [Contract!ContractNext]_Contract!contractVars
  BY OrderAssumption, ContractStep
<1>3. QED
  BY <1>1, <1>2, Inductive, PTL DEF Spec, ImplementsContract, Contract!ContractSpec

=============================================================================
