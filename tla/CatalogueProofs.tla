-------------------------- MODULE CatalogueProofs --------------------------
(***************************************************************************)
(* Theorems about Catalogue, for any number of products, calls, offers,    *)
(* sales, faults and rows that cannot be inserted.                         *)
(***************************************************************************)
EXTENDS Catalogue, FiniteSetTheorems, TLAPS

(* What a call is doing fits what it was asked to do. *)
OpFits(k) ==
  /\ k.pc = "idle" => k.op = "none"
  /\ k.pc = "editing" => k.op = "update"
  /\ k.pc = "checking" => k.op \in {"update", "delete", "add", "set", "rename", "remove"}
  /\ k.pc = "writing" => k.op \in {"update", "delete", "set", "rename", "remove"}
  /\ k.pc \in {"mirroring", "mirrorFound"} => k.op \in {"create", "update", "sync"}
  /\ k.pc \in {"next", "upserting"} => k.op = "sync"
  /\ k.pc \in {"finding", "saving"} => k.op = "add"
  /\ k.pc = "reloading" => k.op \in {"add", "set", "remove"}
  /\ k.pc \in {"query", "filling"} => k.op = "backfill"

(* A call that works on a product names one that exists, and a call that   *)
(* works on a row names one of its product.                                *)
Mirrors(k) == k.pc \in {"mirroring", "mirrorFound"}

ProductFits(k, ps) ==
  /\ k.op \in {"create", "update", "delete"} \/ Mirrors(k)
       => k.product \in Products /\ ps[k.product].state # "absent"
  /\ k.pc = "upserting" \/ k.op = "add" => k.product \in Products
  /\ k.op = "backfill" => \A p \in k.begun : ps[p].state # "absent"
  /\ k.pc = "filling" => \A p \in Products : k.todo[p] # NoStock => ps[p].state # "absent"

StockFits(k) ==
  /\ Mirrors(k) \/ k.pc = "upserting" \/ k.op \in {"create", "update", "add", "set"} => k.stock \in Int
  /\ k.pc = "filling" => k.batch > 0

RowFits(k, rs) ==
  /\ k.op \in {"set", "rename", "remove"} => k.row \in DOMAIN rs
  /\ k.pc \in {"mirrorFound", "saving"} /\ k.row # 0
       => k.row \in DOMAIN rs /\ rs[k.row].product = k.product

Fits(k, ps, rs) ==
  /\ OpFits(k)
  /\ k.pc = "idle" => k = NewCall
  /\ ProductFits(k, ps)
  /\ StockFits(k)
  /\ RowFits(k, rs)

CallsFit == \A c \in Calls : Fits(call[c], product, rows)

(* The dialog is one of those a page can show; a call of an open dialog is *)
(* clean only while it is open.                                            *)
DialogTyped(d, rs) ==
  /\ d = [product |-> d.product, shown |-> d.shown, loading |-> d.loading, raced |-> d.raced]
  /\ d.product \in Products \cup {NoProduct}
  /\ d.shown = [i \in DOMAIN d.shown |-> d.shown[i]]
  /\ DOMAIN d.shown \subseteq DOMAIN rs
  /\ d.loading \in BOOLEAN /\ d.raced \in BOOLEAN
  /\ d.product = NoProduct => d = Closed

Shows(k) == k.op \in {"add", "set", "remove"} /\ k.clean /\ k.pc \notin {"done", "threw"}

DialogFits ==
  /\ DialogTyped(dialog, rows)
  /\ \A c \in Calls : Shows(call[c]) => dialog # Closed

(* The inductive invariant behind the types. *)
IInv == TypeOK /\ CallsFit /\ DialogFits

-----------------------------------------------------------------------------
(* The helpers of the model *)

(* The values calls start from. *)
LEMMA FreshCall ==
  ASSUME NEW ps, NEW rs PROVE NewCall \in Call /\ Fits(NewCall, ps, rs)
BY CatalogueAssumption
   DEF NewCall, Nothing, Call, CallState, Operation, Fits, OpFits, ProductFits, StockFits, RowFits, Mirrors

(* The key of options is a set of names with values, that of no options    *)
(* the default row's.                                                      *)
LEMMA KeysAreTyped ==
  /\ \A attributes \in Offers \cup {{}} : AttributeKey(attributes) \in SUBSET (STRING \X STRING)
  /\ AttributeKey({}) = DefaultKey
<1>1. ASSUME NEW attributes \in Offers \cup {{}}
      PROVE  AttributeKey(attributes) \in SUBSET (STRING \X STRING)
  <2>1. \A o \in attributes : o \in Option
    BY CatalogueAssumption
  <2>2. ASSUME NEW x \in AttributeKey(attributes) PROVE x \in STRING \X STRING
    <3>1. PICK o \in attributes : x = <<o.name, o.value>>
      BY DEF AttributeKey
    <3>2. o.name \in STRING /\ o.value \in STRING
      BY <2>1 DEF Option
    <3>3. QED
      BY <3>1, <3>2
  <2>3. QED
    BY <2>2
<1>2. AttributeKey({}) = DefaultKey
  BY DEF AttributeKey, DefaultKey
<1>3. QED
  BY <1>1, <1>2

(* A row as it is inserted. *)
LEMMA NewRowIsRow ==
  ASSUME NEW p \in Products, NEW attributes \in Offers \cup {{}}, NEW stock \in Int
  PROVE  /\ NewRow(p, attributes, stock) \in Row
         /\ NewRow(p, attributes, stock).product = p
         /\ NewRow(p, attributes, stock).attributes = attributes
         /\ NewRow(p, attributes, stock).key = AttributeKey(attributes)
         /\ NewRow(p, attributes, stock).stock = stock
         /\ NewRow(p, attributes, stock).live
<1>1. AttributeKey(attributes) \in SUBSET (STRING \X STRING)
  BY KeysAreTyped
<1>2. QED
  BY <1>1 DEF NewRow, Row

(* findFirst, in any table. *)
RowAt(rs, p, key) ==
  LET found == {i \in DOMAIN rs : rs[i].product = p /\ rs[i].key = key} IN
  IF found = {} THEN 0 ELSE CHOOSE i \in found : TRUE

LEMMA FindIsRowAt == \A p, key : Find(p, key) = RowAt(rows, p, key)
BY DEF Find, RowAt

LEMMA RowAtFinds ==
  ASSUME NEW rs, NEW p, NEW key
  PROVE  \/ RowAt(rs, p, key) = 0 /\ \A i \in DOMAIN rs : ~(rs[i].product = p /\ rs[i].key = key)
         \/ /\ RowAt(rs, p, key) \in DOMAIN rs
            /\ rs[RowAt(rs, p, key)].product = p /\ rs[RowAt(rs, p, key)].key = key
<1> DEFINE found == {i \in DOMAIN rs : rs[i].product = p /\ rs[i].key = key}
<1>1. CASE found = {}
  BY <1>1 DEF RowAt
<1>2. CASE found # {}
  <2>1. RowAt(rs, p, key) = CHOOSE i \in found : TRUE
    BY <1>2 DEF RowAt
  <2>2. RowAt(rs, p, key) \in found
    BY <1>2, <2>1
  <2>3. QED
    BY <2>2
<1>3. QED
  BY <1>1, <1>2

(* A table keeps its rows and their products; products stay on record. *)
Grows(ps, rs, ps2, rs2) ==
  /\ DOMAIN rs \subseteq DOMAIN rs2
  /\ \A i \in DOMAIN rs : rs2[i].product = rs[i].product
  /\ \A p \in Products : ps[p].state # "absent" => ps2[p].state # "absent"

LEMMA FitsStays ==
  ASSUME NEW ps, NEW rs, NEW ps2, NEW rs2, NEW k \in Call, Fits(k, ps, rs), Grows(ps, rs, ps2, rs2)
  PROVE  Fits(k, ps2, rs2)
<1>1. ProductFits(k, ps2)
  BY DEF Fits, ProductFits, Grows, Call
<1>2. RowFits(k, rs2)
  BY DEF Fits, RowFits, Grows
<1>3. QED
  BY <1>1, <1>2 DEF Fits

LEMMA FitsUnclean ==
  ASSUME NEW ps, NEW rs, NEW k \in Call, Fits(k, ps, rs), k.pc # "idle"
  PROVE  [k EXCEPT !.clean = FALSE] \in Call /\ Fits([k EXCEPT !.clean = FALSE], ps, rs)
<1> DEFINE k2 == [k EXCEPT !.clean = FALSE]
<1>1. /\ k2 \in Call /\ k2.pc = k.pc /\ k2.op = k.op /\ k2.product = k.product /\ k2.row = k.row
      /\ k2.stock = k.stock /\ k2.todo = k.todo /\ k2.begun = k.begun /\ k2.batch = k.batch
  BY DEF Call
<1> HIDE DEF k2
<1>2. Fits(k2, ps, rs)
  BY <1>1 DEF Fits, OpFits, ProductFits, StockFits, RowFits, Mirrors
<1>3. QED
  BY <1>1, <1>2 DEF k2

(* Calls that hold a value for the mirror. *)
Pends(k, p) ==
  \/ Mirrors(k) /\ k.product = p
  \/ k.pc = "filling" /\ k.todo[p] # NoStock

LEMMA PendingPends ==
  \A p : Pending(p) = {c \in Calls : Pends(call[c], p)}
<1> TAKE p
<1>1. ASSUME NEW c \in Calls PROVE c \in Pending(p) <=> Pends(call[c], p)
  BY DEF Pending, Pends, Mirrors, At
<1>2. QED
  BY <1>1 DEF Pending

LEMMA OutdatedCalls ==
  ASSUME call \in [Calls -> Call], NEW ps \in SUBSET Products, NEW c \in Calls
  PROVE  /\ Outdated(call, ps) \in [Calls -> Call]
         /\ \/ Outdated(call, ps)[c] = call[c] /\ \A p \in ps : ~Pends(call[c], p)
            \/ Outdated(call, ps)[c] = [call[c] EXCEPT !.clean = FALSE] /\ \E p \in ps : Pends(call[c], p)
<1>1. \A d \in Calls : [call[d] EXCEPT !.clean = FALSE] \in Call
  BY DEF Call
<1>2. \A p \in ps : c \in Pending(p) <=> Pends(call[c], p)
  BY PendingPends
<1>3. QED
  BY <1>1, <1>2 DEF Outdated

-----------------------------------------------------------------------------
(* One call moves, the others stay as they were or become unclean. *)

MayOutdate(k, k2) ==
  \/ k2 = k
  \/ k2 = [k EXCEPT !.clean = FALSE] /\ k.pc # "idle"

LEMMA CallMoves ==
  ASSUME call \in [Calls -> Call], CallsFit, NEW c \in Calls, NEW k \in Call,
         Fits(k, product', rows'), Grows(product, rows, product', rows'),
         NEW calls, DOMAIN calls = Calls, \A d \in Calls : MayOutdate(call[d], calls[d]),
         call' = [calls EXCEPT ![c] = k]
  PROVE  call' \in [Calls -> Call] /\ CallsFit'
<1>1. \A d \in Calls : calls[d] \in Call /\ Fits(calls[d], product', rows')
  <2> TAKE d \in Calls
  <2>1. call[d] \in Call /\ Fits(call[d], product', rows')
    BY FitsStays DEF CallsFit
  <2>2. QED
    BY <2>1, FitsUnclean DEF MayOutdate
<1>2. \A d \in Calls : call'[d] = IF d = c THEN k ELSE calls[d]
  OBVIOUS
<1>3. \A d \in Calls : call'[d] \in Call /\ Fits(call'[d], product', rows')
  BY <1>1, <1>2
<1>4. call' = [d \in Calls |-> call'[d]]
  OBVIOUS
<1>5. QED
  BY <1>3, <1>4 DEF CallsFit

LEMMA AloneMoves ==
  ASSUME call \in [Calls -> Call], CallsFit, NEW c \in Calls, NEW k \in Call,
         Fits(k, product', rows'), Grows(product, rows, product', rows'),
         call' = [call EXCEPT ![c] = k]
  PROVE  call' \in [Calls -> Call] /\ CallsFit'
<1>1. DOMAIN call = Calls
  OBVIOUS
<1>2. \A d \in Calls : MayOutdate(call[d], call[d])
  BY DEF MayOutdate
<1>3. QED
  BY <1>1, <1>2, CallMoves

LEMMA NoneMoves ==
  ASSUME call \in [Calls -> Call], CallsFit, Grows(product, rows, product', rows'),
         DOMAIN call' = Calls, call' = [d \in Calls |-> call'[d]],
         \A d \in Calls : MayOutdate(call[d], call'[d])
  PROVE  call' \in [Calls -> Call] /\ CallsFit'
<1>1. \A d \in Calls : call'[d] \in Call /\ Fits(call'[d], product', rows')
  <2> TAKE d \in Calls
  <2>1. call[d] \in Call /\ Fits(call[d], product', rows')
    BY FitsStays DEF CallsFit
  <2>2. QED
    BY <2>1, FitsUnclean DEF MayOutdate
<1>2. QED
  BY <1>1 DEF CallsFit

LEMMA SameTable ==
  ASSUME UNCHANGED <<product, rows>> PROVE Grows(product, rows, product', rows')
BY DEF Grows

(* The dialog that is not there. *)
LEMMA ClosedIsTyped ==
  ASSUME NEW rs PROVE DialogTyped(Closed, rs)
<1>1. DOMAIN Closed.shown = {} /\ Closed.shown = [i \in {} |-> Closed.shown[i]]
  BY DEF Closed
<1>2. /\ Closed.product = NoProduct /\ Closed.loading = FALSE /\ Closed.raced = FALSE
      /\ Closed = [product |-> Closed.product, shown |-> Closed.shown, loading |-> Closed.loading,
                   raced |-> Closed.raced]
  BY DEF Closed
<1>3. QED
  BY <1>1, <1>2 DEF DialogTyped

LEMMA DialogCallsShow == DialogCalls = {c \in Calls : Shows(call[c])}
BY DEF DialogCalls, Shows

(* The dialog over a table that grows, and with its mark changed. *)
LEMMA DialogStays ==
  ASSUME NEW ps, NEW rs, NEW ps2, NEW rs2, NEW d, DialogTyped(d, rs), Grows(ps, rs, ps2, rs2)
  PROVE  DialogTyped(d, rs2)
BY DEF DialogTyped, Grows

Marked(d, loading, raced) ==
  [product |-> d.product, shown |-> d.shown, loading |-> loading, raced |-> raced]

LEMMA DialogMarked ==
  ASSUME NEW rs, NEW d, DialogTyped(d, rs), NEW l \in BOOLEAN, NEW b \in BOOLEAN, d = Closed => ~l /\ ~b
  PROVE  DialogTyped(Marked(d, l, b), rs) /\ (Marked(d, l, b) = Closed <=> d = Closed)
<1> DEFINE e == Marked(d, l, b)
<1>1. e = [product |-> e.product, shown |-> e.shown, loading |-> e.loading, raced |-> e.raced]
      /\ e.product = d.product /\ e.shown = d.shown /\ e.loading = l /\ e.raced = b
  BY DEF Marked
<1>2. Closed.product = NoProduct
  BY DEF Closed
<1>3. d = Closed => e = Closed
  <2>1. d = Closed => d.product = NoProduct /\ d.shown = <<>> /\ l = FALSE /\ b = FALSE
    BY DEF Closed
  <2>2. QED
    BY <2>1 DEF Closed, Marked
<1> HIDE DEF e
<1>4. e = Closed => d = Closed
  BY <1>1, <1>2 DEF DialogTyped
<1>5. DialogTyped(e, rs)
  BY <1>1, <1>3 DEF DialogTyped
<1>6. QED
  BY <1>3, <1>4, <1>5 DEF e

LEMMA MarksMark ==
  ASSUME NEW rs, NEW d, DialogTyped(d, rs)
  PROVE  /\ d = Marked(d, d.loading, d.raced)
         /\ \A b : [d EXCEPT !.raced = b] = Marked(d, d.loading, b)
         /\ \A l : [d EXCEPT !.loading = l] = Marked(d, l, d.raced)
<1> DEFINE e == [product |-> d.product, shown |-> d.shown, loading |-> d.loading, raced |-> d.raced]
<1>1. d = e
  BY DEF DialogTyped
<1>2. d = Marked(d, d.loading, d.raced)
  BY <1>1 DEF Marked
<1>3. ASSUME NEW b PROVE [e EXCEPT !.raced = b] = Marked(d, d.loading, b)
  BY DEF Marked
<1>4. ASSUME NEW l PROVE [e EXCEPT !.loading = l] = Marked(d, l, d.raced)
  BY DEF Marked
<1> HIDE DEF e
<1>5. QED
  BY <1>1, <1>2, <1>3, <1>4

LEMMA OpenMarked ==
  ASSUME NEW rs, NEW d, DialogTyped(d, rs), d # Closed, NEW l \in BOOLEAN, NEW b \in BOOLEAN
  PROVE  DialogTyped(Marked(d, l, b), rs) /\ Marked(d, l, b) # Closed
BY DialogMarked

(* What a change does to the dialog, whoever makes it. *)
LEMMA ChangedMarks ==
  ASSUME DialogTyped(dialog, rows), NEW c \in Calls, Shows(call[c]) => dialog # Closed, NEW p \in Products,
         NEW reload \in BOOLEAN
  PROVE  /\ DialogTyped(Changed(c, p, reload), rows)
         /\ dialog # Closed => Changed(c, p, reload) # Closed
         /\ Changed(c, p, reload).product = dialog.product /\ Changed(c, p, reload).shown = dialog.shown
         /\ Shows(call[c]) => /\ Changed(c, p, reload).raced = dialog.raced
                             /\ Changed(c, p, reload).loading = (dialog.loading \/ reload)
         /\ ~Shows(call[c]) => \/ Changed(c, p, reload) = dialog /\ dialog.product # p
                              \/ Changed(c, p, reload).raced
<1>1. CASE Shows(call[c])
  <2> DEFINE l == dialog.loading \/ reload
  <2>1. l \in BOOLEAN /\ dialog.raced \in BOOLEAN
    BY DEF DialogTyped
  <2>2. Changed(c, p, reload) = [dialog EXCEPT !.loading = l]
    BY <1>1 DEF Changed, DialogCalls, Shows
  <2>3. Changed(c, p, reload) = Marked(dialog, l, dialog.raced)
    BY <2>2, MarksMark
  <2>4. /\ Marked(dialog, l, dialog.raced).raced = dialog.raced /\ Marked(dialog, l, dialog.raced).loading = l
        /\ Marked(dialog, l, dialog.raced).product = dialog.product
        /\ Marked(dialog, l, dialog.raced).shown = dialog.shown
    BY DEF Marked
  <2> HIDE DEF l
  <2>5. DialogTyped(Marked(dialog, l, dialog.raced), rows)
        /\ (Marked(dialog, l, dialog.raced) = Closed <=> dialog = Closed)
    BY <1>1, <2>1, DialogMarked
  <2>6. QED
    BY <1>1, <2>3, <2>4, <2>5 DEF l
<1>2. CASE ~Shows(call[c])
  <2> DEFINE b == dialog.raced \/ dialog.product = p
  <2>1. b \in BOOLEAN /\ dialog.loading \in BOOLEAN
    BY DEF DialogTyped
  <2>2. Changed(c, p, reload) = [dialog EXCEPT !.raced = b]
    BY <1>2 DEF Changed, DialogCalls, Shows
  <2>3. Changed(c, p, reload) = Marked(dialog, dialog.loading, b)
    BY <2>2, MarksMark
  <2>4. /\ Marked(dialog, dialog.loading, b).raced = b
        /\ Marked(dialog, dialog.loading, b).product = dialog.product
        /\ Marked(dialog, dialog.loading, b).shown = dialog.shown
    BY DEF Marked
  <2>5. dialog = Closed => ~dialog.loading /\ ~b
    BY CatalogueAssumption DEF Closed
  <2>6. ~b => b = dialog.raced /\ dialog.product # p
    BY DEF DialogTyped
  <2> HIDE DEF b
  <2>7. DialogTyped(Marked(dialog, dialog.loading, b), rows)
        /\ (Marked(dialog, dialog.loading, b) = Closed <=> dialog = Closed)
    BY <2>1, <2>5, DialogMarked
  <2>8. ~b => Marked(dialog, dialog.loading, b) = dialog
    BY <2>6, MarksMark
  <2>9. QED
    BY <1>2, <2>3, <2>4, <2>6, <2>7, <2>8
<1>3. QED
  BY <1>1, <1>2

LEMMA LoadsMark ==
  ASSUME DialogTyped(dialog, rows), NEW c \in Calls, Shows(call[c]) => dialog # Closed
  PROVE  /\ DialogTyped(LoadsAgain(c), rows) /\ (dialog # Closed => LoadsAgain(c) # Closed)
         /\ Shows(call[c]) => /\ LoadsAgain(c).product = dialog.product /\ LoadsAgain(c).shown = dialog.shown
                             /\ LoadsAgain(c).raced = dialog.raced /\ LoadsAgain(c).loading
         /\ ~Shows(call[c]) => LoadsAgain(c) = dialog
<1>1. CASE Shows(call[c])
  <2>1. LoadsAgain(c) = Marked(dialog, TRUE, dialog.raced)
    BY <1>1, MarksMark DEF LoadsAgain, DialogCalls, Shows
  <2>2. DialogTyped(Marked(dialog, TRUE, dialog.raced), rows)
        /\ (Marked(dialog, TRUE, dialog.raced) = Closed <=> dialog = Closed)
    <3>1. dialog.raced \in BOOLEAN /\ TRUE \in BOOLEAN
      BY DEF DialogTyped
    <3>2. QED
      BY <1>1, <3>1, OpenMarked
  <2>3. QED
    BY <1>1, <2>1, <2>2 DEF Marked
<1>2. CASE ~Shows(call[c])
  BY <1>2 DEF LoadsAgain, DialogCalls, Shows
<1>3. QED
  BY <1>1, <1>2

(* What a step of one call has to show. *)
Outdates(calls) == DOMAIN calls = Calls /\ \A d \in Calls : MayOutdate(call[d], calls[d])

LEMMA StepFits ==
  ASSUME IInv, NEW c \in Calls, NEW k \in Call, Fits(k, product', rows'),
         NEW calls, Outdates(calls), call' = [calls EXCEPT ![c] = k],
         product' \in [Products -> Product], rows' \in Seq(Row), Grows(product, rows, product', rows'),
         DialogTyped(dialog', rows'), dialog # Closed => dialog' # Closed,
         Shows(k) => dialog' # Closed,
         drifted' \subseteq Products, sales' \in 0..MaxSales, faults' \in 0..MaxFaults
  PROVE  IInv'
<1>1. call' \in [Calls -> Call] /\ CallsFit'
  BY CallMoves DEF IInv, TypeOK, Outdates
<1>2. ASSUME NEW d \in Calls, Shows(call'[d])
      PROVE  dialog' # Closed
  <2>1. CASE d = c
    BY <1>2, <2>1 DEF Outdates
  <2>2. CASE d # c
    <3>1. call'[d] = calls[d] /\ MayOutdate(call[d], calls[d]) /\ call[d] \in Call
      BY <2>2 DEF Outdates, IInv, TypeOK
    <3>2. call'[d] = call[d]
      BY <1>2, <3>1 DEF MayOutdate, Call, Shows
    <3>3. QED
      BY <1>2, <3>2 DEF IInv, DialogFits
  <2>3. QED
    BY <2>1, <2>2
<1>3. DialogFits'
  BY <1>2 DEF DialogFits
<1>4. TypeOK'
  BY <1>1 DEF TypeOK, DialogTyped
<1>5. QED
  BY <1>1, <1>3, <1>4 DEF IInv

LEMMA NoneOutdated == Outdates(call) <=> DOMAIN call = Calls
BY DEF Outdates, MayOutdate

LEMMA OutdatedOutdates ==
  ASSUME call \in [Calls -> Call], NEW ps \in SUBSET Products
  PROVE  Outdates(Outdated(call, ps))
<1>1. DOMAIN Outdated(call, ps) = Calls
  BY DEF Outdated
<1>2. ASSUME NEW d \in Calls PROVE MayOutdate(call[d], Outdated(call, ps)[d])
  BY <1>2, OutdatedCalls DEF MayOutdate, Pends, Mirrors
<1>3. QED
  BY <1>1, <1>2 DEF Outdates

(* A step of one call that leaves the products, the table and the dialog   *)
(* as they are.                                                            *)
LEMMA QuietFits ==
  ASSUME IInv, NEW c \in Calls, NEW k \in Call, Fits(k, product, rows),
         call' = [call EXCEPT ![c] = k], UNCHANGED <<product, rows, dialog>>,
         Shows(k) => dialog # Closed,
         drifted' \subseteq Products, sales' \in 0..MaxSales, faults' \in 0..MaxFaults
  PROVE  IInv'
<1>1. Outdates(call)
  BY NoneOutdated DEF IInv, TypeOK
<1>2. Grows(product, rows, product', rows')
  BY SameTable
<1>3. /\ Fits(k, product', rows') /\ DialogTyped(dialog', rows')
      /\ product' \in [Products -> Product] /\ rows' \in Seq(Row)
      /\ dialog # Closed => dialog' # Closed
      /\ Shows(k) => dialog' # Closed
  BY DEF IInv, TypeOK, DialogFits
<1>4. QED
  BY <1>1, <1>2, <1>3, StepFits

(* A call that goes on to another point. *)
LEMMA PointMoves ==
  ASSUME NEW k \in Call, NEW pc \in CallState
  PROVE  LET m == [k EXCEPT !.pc = pc] IN
         /\ m \in Call /\ m.pc = pc /\ m.op = k.op /\ m.product = k.product /\ m.row = k.row
         /\ m.stock = k.stock /\ m.todo = k.todo /\ m.begun = k.begun /\ m.batch = k.batch
         /\ m.clean = k.clean /\ m.attributes = k.attributes
         /\ m.created = k.created /\ m.failed = k.failed
BY DEF Call

(* A call that goes on to another point and touches nothing else.          *)
LEMMA GotoFits ==
  ASSUME IInv, NEW c \in Calls, NEW pc \in CallState, Goto(c, pc),
         call[c].pc \notin {"idle", "done", "threw"},
         Fits([call[c] EXCEPT !.pc = pc], product, rows),
         UNCHANGED <<product, rows, dialog>>,
         drifted' \subseteq Products, sales' \in 0..MaxSales, faults' \in 0..MaxFaults
  PROVE  IInv'
<1> DEFINE m == [call[c] EXCEPT !.pc = pc]
<1>1. call[c] \in Call /\ call' = [call EXCEPT ![c] = m]
  BY DEF IInv, TypeOK, Goto
<1>2. m \in Call /\ m.op = call[c].op /\ m.clean = call[c].clean
  BY <1>1, PointMoves
<1>3. Fits(m, product, rows)
  OBVIOUS
<1> HIDE DEF m
<1>4. Shows(m) => dialog # Closed
  BY <1>2 DEF Shows, IInv, DialogFits
<1>5. QED
  BY <1>1, <1>2, <1>3, <1>4, QuietFits

(* The same with another look of the dialog. *)
LEMMA MovesFits ==
  ASSUME IInv, NEW c \in Calls, NEW pc \in CallState, Goto(c, pc),
         call[c].pc \notin {"idle", "done", "threw"},
         Fits([call[c] EXCEPT !.pc = pc], product, rows),
         UNCHANGED <<product, rows>>, DialogTyped(dialog', rows), dialog # Closed => dialog' # Closed,
         drifted' \subseteq Products, sales' \in 0..MaxSales, faults' \in 0..MaxFaults
  PROVE  IInv'
<1> DEFINE m == [call[c] EXCEPT !.pc = pc]
<1>1. call[c] \in Call /\ call' = [call EXCEPT ![c] = m]
  BY DEF IInv, TypeOK, Goto
<1>2. m \in Call /\ m.op = call[c].op /\ m.clean = call[c].clean
  BY <1>1, PointMoves
<1>3. Fits(m, product, rows)
  OBVIOUS
<1> HIDE DEF m
<1>4. Shows(m) => dialog' # Closed
  BY <1>2 DEF Shows, IInv, DialogFits
<1>5. Outdates(call) /\ Grows(product, rows, product', rows')
  BY NoneOutdated, SameTable DEF IInv, TypeOK
<1>6. /\ Fits(m, product', rows') /\ DialogTyped(dialog', rows')
      /\ product' \in [Products -> Product] /\ rows' \in Seq(Row)
  BY <1>3 DEF IInv, TypeOK
<1>7. QED
  BY <1>1, <1>2, <1>4, <1>5, <1>6, StepFits

(* A call that ends. *)
LEMMA EndFits ==
  ASSUME NEW ps, NEW rs, NEW k \in Call, NEW pc \in {"done", "threw"}, Fits(k, ps, rs)
  PROVE  Fits([k EXCEPT !.pc = pc], ps, rs)
<1> DEFINE m == [k EXCEPT !.pc = pc]
<1>1. /\ m.pc = pc /\ m.op = k.op /\ m.product = k.product /\ m.row = k.row /\ m.stock = k.stock
      /\ m.todo = k.todo /\ m.begun = k.begun /\ m.batch = k.batch
  BY PointMoves DEF CallState
<1> HIDE DEF m
<1>2. Fits(m, ps, rs)
  BY <1>1 DEF Fits, OpFits, ProductFits, StockFits, RowFits, Mirrors
<1>3. QED
  BY <1>2 DEF m

LEMMA GotoEnd ==
  ASSUME IInv, NEW c \in Calls, NEW pc \in {"done", "threw"}, Goto(c, pc),
         call[c].pc \notin {"idle", "done", "threw"}, UNCHANGED <<product, rows, dialog>>,
         drifted' \subseteq Products, sales' \in 0..MaxSales, faults' \in 0..MaxFaults
  PROVE  IInv'
<1>1. call[c] \in Call /\ Fits(call[c], product, rows) /\ pc \in CallState
  BY DEF IInv, TypeOK, CallsFit, CallState
<1>2. QED
  BY <1>1, EndFits, GotoFits

-----------------------------------------------------------------------------
(* The initial states *)

LEMMA InitFits == Init => IInv
<1> SUFFICES ASSUME Init PROVE IInv
  OBVIOUS
<1>1. product \in [Products -> Product]
  <2>1. product \in [Products -> [state : {"absent", "live"}, stock : Stocks \cup {0}]]
    BY DEF Init
  <2>2. Stocks \cup {0} \subseteq Int
    BY CatalogueAssumption
  <2>3. QED
    BY <2>1, <2>2 DEF Product
<1>2. rows \in Seq(Row)
  <2>1. CASE rows = <<>>
    BY <2>1
  <2>2. CASE rows # <<>>
    <3>1. PICK p \in Products : rows = <<NewRow(p, {}, product[p].stock)>>
      BY <2>2 DEF Init
    <3>2. product[p].stock \in Int
      BY <1>1 DEF Product
    <3>3. NewRow(p, {}, product[p].stock) \in Row
      BY <3>2, NewRowIsRow
    <3>4. QED
      BY <3>1, <3>3
  <2>3. QED
    BY <2>1, <2>2
<1>3. call \in [Calls -> Call] /\ CallsFit /\ \A c \in Calls : ~Shows(call[c])
  <2>1. NewCall \in Call /\ Fits(NewCall, product, rows) /\ ~Shows(NewCall)
    BY FreshCall DEF NewCall, Shows
  <2>2. QED
    BY <2>1 DEF Init, CallsFit
<1>4. DialogTyped(dialog, rows)
  <2>1. dialog = Closed
    BY DEF Init
  <2>2. QED
    BY <2>1, ClosedIsTyped
<1>5. drifted \subseteq Products /\ sales \in 0..MaxSales /\ faults \in 0..MaxFaults
  BY CatalogueAssumption DEF Init
<1>6. QED
  BY <1>1, <1>2, <1>3, <1>4, <1>5 DEF IInv, TypeOK, DialogFits, DialogTyped

-----------------------------------------------------------------------------
(* One lemma per action *)

(* What holds of the call that moves. *)
LEMMA Known ==
  ASSUME IInv, NEW c \in Calls
  PROVE  /\ call[c] \in Call /\ Fits(call[c], product, rows)
         /\ call \in [Calls -> Call] /\ Outdates(call)
         /\ product \in [Products -> Product] /\ rows \in Seq(Row)
         /\ DialogTyped(dialog, rows)
         /\ Shows(call[c]) => dialog # Closed
         /\ drifted \subseteq Products /\ sales \in 0..MaxSales /\ faults \in 0..MaxFaults
<1>1. Outdates(call)
  BY NoneOutdated DEF IInv, TypeOK
<1>2. QED
  BY <1>1 DEF IInv, TypeOK, CallsFit, DialogFits

LEMMA CreateProductFits ==
  ASSUME IInv, NEW c \in Calls, NEW p \in Products, NEW stock \in Stocks, CreateProduct(c, p, stock)
  PROVE  IInv'
<1> DEFINE k == [call[c] EXCEPT !.pc = "mirroring", !.op = "create", !.product = p, !.stock = stock]
<1>1. call[c] \in Call /\ Fits(call[c], product, rows) /\ stock \in Int
  BY Known, CatalogueAssumption
<1>2. /\ k \in Call /\ k.pc = "mirroring" /\ k.op = "create" /\ k.product = p /\ k.stock = stock
  BY <1>1 DEF Call, CallState, Operation
<1>3. product' \in [Products -> Product] /\ product'[p].state # "absent"
      /\ \A q \in Products : product[q].state # "absent" => product'[q].state # "absent"
  BY <1>1, Known DEF CreateProduct, Product
<1>4. call' = [call EXCEPT ![c] = k] /\ UNCHANGED <<rows, dialog, drifted, sales, faults>>
  BY DEF CreateProduct
<1> HIDE DEF k
<1>5. Fits(k, product', rows') /\ ~Shows(k)
  BY <1>1, <1>2, <1>3 DEF Fits, OpFits, ProductFits, StockFits, RowFits, Mirrors, Shows
<1>6. Grows(product, rows, product', rows')
  BY <1>3, <1>4 DEF Grows
<1>7. DialogTyped(dialog', rows')
  BY <1>4, Known
<1>8. QED
  BY <1>2, <1>3, <1>4, <1>5, <1>6, <1>7, Known, StepFits

LEMMA OpenFormFits ==
  ASSUME IInv, NEW c \in Calls, NEW p \in Products, OpenForm(c, p) PROVE IInv'
<1> DEFINE k == [call[c] EXCEPT !.pc = "editing", !.op = "update", !.product = p, !.stock = product[p].stock]
<1>1. call[c] \in Call /\ Fits(call[c], product, rows) /\ product[p].stock \in Int
      /\ product[p].state # "absent"
  BY Known DEF OpenForm, Live, Product
<1>2. k \in Call /\ k.pc = "editing" /\ k.op = "update" /\ k.product = p /\ k.stock = product[p].stock
  BY <1>1 DEF Call, CallState, Operation
<1>3. call' = [call EXCEPT ![c] = k] /\ UNCHANGED <<product, rows, dialog, drifted, sales, faults>>
  BY DEF OpenForm
<1> HIDE DEF k
<1>4. Fits(k, product, rows) /\ ~Shows(k)
  BY <1>1, <1>2 DEF Fits, OpFits, ProductFits, StockFits, RowFits, Mirrors, Shows
<1>5. QED
  BY <1>2, <1>3, <1>4, Known, QuietFits

LEMMA StartDeleteFits ==
  ASSUME IInv, NEW c \in Calls, NEW p \in Products, StartDelete(c, p) PROVE IInv'
<1> DEFINE k == [call[c] EXCEPT !.pc = "checking", !.op = "delete", !.product = p]
<1>1. call[c] \in Call /\ Fits(call[c], product, rows) /\ product[p].state # "absent"
  BY Known DEF StartDelete, Live
<1>2. k \in Call /\ k.pc = "checking" /\ k.op = "delete" /\ k.product = p
  BY <1>1 DEF Call, CallState, Operation
<1>3. call' = [call EXCEPT ![c] = k] /\ UNCHANGED <<product, rows, dialog, drifted, sales, faults>>
  BY DEF StartDelete
<1> HIDE DEF k
<1>4. Fits(k, product, rows) /\ ~Shows(k)
  BY <1>1, <1>2 DEF Fits, OpFits, ProductFits, StockFits, RowFits, Mirrors, Shows
<1>5. QED
  BY <1>2, <1>3, <1>4, Known, QuietFits

LEMMA SaveFormFits ==
  ASSUME IInv, NEW c \in Calls, SaveForm(c) PROVE IInv'
<1>1. call[c] \in Call /\ Fits(call[c], product, rows) /\ call[c].pc = "editing"
  BY Known DEF SaveForm, At
<1>2. call[c].op = "update" /\ call[c].stock \in Int
  BY <1>1 DEF Fits, OpFits, StockFits
<1>3. PICK typed \in Stocks \cup {call[c].stock} :
        call' = [call EXCEPT ![c] = [@ EXCEPT !.pc = IF Refused(typed) THEN "threw" ELSE "checking",
                                             !.stock = typed]]
  BY DEF SaveForm
<1>4. typed \in Int
  BY <1>2, CatalogueAssumption
<1> DEFINE k == [call[c] EXCEPT !.pc = IF Refused(typed) THEN "threw" ELSE "checking", !.stock = typed]
<1>5. /\ k \in Call /\ k.pc \in {"threw", "checking"} /\ k.op = "update" /\ k.product = call[c].product
      /\ k.stock \in Int
  BY <1>1, <1>2, <1>4 DEF Call, CallState
<1>6. call' = [call EXCEPT ![c] = k] /\ UNCHANGED <<product, rows, dialog, drifted, sales, faults>>
  BY <1>3 DEF SaveForm
<1> HIDE DEF k
<1>7. Fits(k, product, rows) /\ ~Shows(k)
  BY <1>1, <1>2, <1>5 DEF Fits, OpFits, ProductFits, StockFits, RowFits, Mirrors, Shows
<1>8. QED
  BY <1>5, <1>6, <1>7, Known, QuietFits

LEMMA CheckProductFits ==
  ASSUME IInv, NEW c \in Calls, CheckProduct(c) PROVE IInv'
<1>1. /\ call[c] \in Call /\ Fits(call[c], product, rows) /\ call[c].pc = "checking"
      /\ call[c].op \in {"update", "delete", "add"}
  BY Known DEF CheckProduct, At
<1>2. UNCHANGED <<product, rows, dialog, drifted, sales, faults>>
  BY DEF CheckProduct
<1>3. CASE ~Live(call[c].product)
  <2>1. Goto(c, "threw")
    BY <1>3 DEF CheckProduct
  <2>2. QED
    BY <1>1, <1>2, <2>1, Known, GotoEnd
<1>4. CASE Live(call[c].product)
  <2> DEFINE pc == IF call[c].op = "add" THEN "finding" ELSE "writing"
  <2> DEFINE k == [call[c] EXCEPT !.pc = pc]
  <2>1. pc \in CallState /\ Goto(c, pc)
    BY <1>1, <1>4 DEF CheckProduct, CallState, Does
  <2>2. /\ k.pc = pc /\ k.op = call[c].op /\ k.product = call[c].product /\ k.row = call[c].row
        /\ k.stock = call[c].stock /\ k.begun = call[c].begun
    BY <1>1, <2>1, PointMoves
  <2> HIDE DEF k
  <2>3. Fits(k, product, rows)
    BY <1>1, <2>2 DEF Fits, OpFits, ProductFits, StockFits, RowFits, Mirrors
  <2>4. Fits([call[c] EXCEPT !.pc = pc], product, rows)
    BY <2>3 DEF k
  <2> HIDE DEF pc
  <2>5. QED
    BY <1>1, <1>2, <2>1, <2>4, Known, GotoFits
<1>5. QED
  BY <1>3, <1>4

LEMMA WriteProductFits ==
  ASSUME IInv, NEW c \in Calls, WriteProduct(c) PROVE IInv'
<1> DEFINE k == [call[c] EXCEPT !.pc = "mirroring"]
           p == call[c].product
           calls == Outdated(call, {p})
<1>1. /\ call[c] \in Call /\ Fits(call[c], product, rows) /\ call[c].pc = "writing"
      /\ call[c].op = "update"
  BY Known DEF WriteProduct, At, Does
<1>2. p \in Products /\ call[c].stock \in Int /\ product[p].state # "absent"
  BY <1>1 DEF Fits, ProductFits, StockFits
<1>3. /\ calls \in [Calls -> Call] /\ Outdates(calls) /\ calls[c] = call[c]
  BY <1>1, <1>2, Known, OutdatedCalls, OutdatedOutdates DEF Pends, Mirrors
<1>4. /\ product' = [product EXCEPT ![p].stock = call[c].stock]
      /\ call' = [calls EXCEPT ![c].pc = "mirroring"]
      /\ UNCHANGED <<rows, dialog, drifted, sales, faults>>
  BY DEF WriteProduct
<1>5. /\ k \in Call /\ k.pc = "mirroring" /\ k.op = "update" /\ k.product = p
      /\ k.stock = call[c].stock
  BY <1>1 DEF Call, CallState
<1> HIDE DEF calls
<1>6. call' = [calls EXCEPT ![c] = k]
  BY <1>3, <1>4
<1> HIDE DEF k
<1>7. product' \in [Products -> Product]
      /\ \A q \in Products : product'[q].state = product[q].state
  BY <1>2, <1>4, Known DEF Product
<1>8. Fits(k, product', rows') /\ ~Shows(k)
  BY <1>1, <1>2, <1>5, <1>7 DEF Fits, OpFits, ProductFits, StockFits, RowFits, Mirrors, Shows
<1>9. Grows(product, rows, product', rows')
  BY <1>4, <1>7 DEF Grows
<1>10. DialogTyped(dialog', rows')
  BY <1>4, Known
<1>11. QED
  BY <1>3, <1>4, <1>5, <1>6, <1>7, <1>8, <1>9, <1>10, Known, StepFits

LEMMA DeleteProductFits ==
  ASSUME IInv, NEW c \in Calls, DeleteProduct(c) PROVE IInv'
<1> DEFINE k == [call[c] EXCEPT !.pc = "done"]
           p == call[c].product
<1>1. /\ call[c] \in Call /\ Fits(call[c], product, rows) /\ call[c].pc = "writing"
      /\ call[c].op = "delete"
  BY Known DEF DeleteProduct, At, Does
<1>2. p \in Products
  BY <1>1 DEF Fits, ProductFits
<1>3. /\ product' = [product EXCEPT ![p].state = "deleted"]
      /\ call' = [call EXCEPT ![c] = k]
      /\ UNCHANGED <<rows, dialog, drifted, sales, faults>>
  BY Known DEF DeleteProduct, Goto
<1>4. k \in Call /\ k.op = "delete" /\ Fits(k, product, rows)
  BY <1>1, EndFits, PointMoves DEF CallState
<1> HIDE DEF k
<1>5. /\ product' \in [Products -> Product]
      /\ \A q \in Products : product[q].state # "absent" => product'[q].state # "absent"
  BY <1>2, <1>3, Known DEF Product
<1>6. Grows(product, rows, product', rows')
  BY <1>3, <1>5 DEF Grows
<1>7. Fits(k, product', rows')
  BY <1>4, <1>6, FitsStays
<1>8. ~Shows(k) /\ DialogTyped(dialog', rows')
  BY <1>3, <1>4, Known DEF Shows
<1>9. QED
  BY <1>3, <1>4, <1>5, <1>6, <1>7, <1>8, Known, StepFits

LEMMA FindMirrorFits ==
  ASSUME IInv, NEW c \in Calls, FindMirror(c) PROVE IInv'
<1> DEFINE i == RowAt(rows, call[c].product, DefaultKey)
           k == [call[c] EXCEPT !.pc = "mirrorFound", !.row = i]
<1>1. call[c] \in Call /\ Fits(call[c], product, rows) /\ call[c].pc = "mirroring"
  BY Known DEF FindMirror, At
<1>2. i # 0 => i \in DOMAIN rows /\ rows[i].product = call[c].product
  BY RowAtFinds
<1>3. call' = [call EXCEPT ![c] = k] /\ UNCHANGED <<product, rows, dialog, drifted, sales, faults>>
  BY FindIsRowAt DEF FindMirror
<1> HIDE DEF i
<1>4. i \in Nat
  BY <1>2, Known
<1>5. /\ k \in Call /\ k.pc = "mirrorFound" /\ k.op = call[c].op /\ k.product = call[c].product
      /\ k.row = i /\ k.stock = call[c].stock /\ k.begun = call[c].begun
  BY <1>1, <1>4 DEF Call, CallState
<1> HIDE DEF k
<1>6. Fits(k, product, rows) /\ ~Shows(k)
  BY <1>1, <1>2, <1>5 DEF Fits, OpFits, ProductFits, StockFits, RowFits, Mirrors, Shows
<1>7. QED
  BY <1>3, <1>5, <1>6, Known, QuietFits

(* What a write of one row, or an insert, leaves of the table.             *)
LEMMA RowWritten ==
  ASSUME NEW ps, NEW rs \in Seq(Row), NEW i \in DOMAIN rs, NEW row \in Row,
         row.product = rs[i].product
  PROVE  /\ [rs EXCEPT ![i] = row] \in Seq(Row)
         /\ Grows(ps, rs, ps, [rs EXCEPT ![i] = row])
         /\ DOMAIN [rs EXCEPT ![i] = row] = DOMAIN rs
         /\ \A j \in DOMAIN rs : [rs EXCEPT ![i] = row][j] = IF j = i THEN row ELSE rs[j]
BY DEF Grows

LEMMA RowInserted ==
  ASSUME NEW ps, NEW rs \in Seq(Row), NEW row \in Row
  PROVE  /\ Append(rs, row) \in Seq(Row)
         /\ Grows(ps, rs, ps, Append(rs, row))
         /\ Len(rs) + 1 \notin DOMAIN rs
         /\ DOMAIN Append(rs, row) = DOMAIN rs \cup {Len(rs) + 1}
         /\ \A j \in DOMAIN rs : Append(rs, row)[j] = rs[j]
         /\ Append(rs, row)[Len(rs) + 1] = row
BY DEF Grows

LEMMA WriteMirrorFits ==
  ASSUME IInv, NEW c \in Calls, WriteMirror(c) PROVE IInv'
<1> DEFINE pc == IF Does(c, "sync") THEN "next" ELSE "done"
           k == [call[c] EXCEPT !.pc = pc]
           p == call[c].product
           i == call[c].row
<1>1. /\ call[c] \in Call /\ Fits(call[c], product, rows) /\ call[c].pc = "mirrorFound"
  BY Known DEF WriteMirror, At
<1>2. p \in Products /\ call[c].stock \in Int /\ (i # 0 => i \in DOMAIN rows /\ rows[i].product = p)
  BY <1>1 DEF Fits, ProductFits, StockFits, RowFits, Mirrors
<1>3. pc \in CallState /\ UNCHANGED <<product, sales, faults>>
  BY DEF CallState, WriteMirror
<1>4. /\ k \in Call /\ k.pc = pc /\ k.op = call[c].op /\ k.product = call[c].product
      /\ k.row = call[c].row /\ k.begun = call[c].begun /\ k.stock = call[c].stock
  BY <1>1, <1>3 DEF Call
<1>5. Goto(c, pc) => call' = [call EXCEPT ![c] = k]
  BY Known DEF Goto
<1> HIDE DEF k
<1>6. Fits(k, product, rows) /\ ~Shows(k)
  <2>1. call[c].op \in {"create", "update", "sync"}
    BY <1>1 DEF Fits, OpFits
  <2>2. \/ k.pc = "next" /\ k.op = "sync"
        \/ k.pc = "done" /\ k.op \in {"create", "update"}
    BY <1>4, <2>1 DEF Does
  <2>3. QED
    BY <1>1, <1>2, <1>4, <2>1, <2>2 DEF Fits, OpFits, ProductFits, StockFits, RowFits, Mirrors, Shows
<1>7. Mirrored(c) \subseteq Products
  BY <1>2, Known DEF Mirrored
<1> HIDE DEF pc
<1>8. CASE /\ i # 0
           /\ rows' = [rows EXCEPT ![i] = [@ EXCEPT !.stock = call[c].stock, !.live = TRUE]]
           /\ dialog' = [dialog EXCEPT !.raced = @ \/ (dialog # Closed /\ rows[i].key # DefaultKey)]
           /\ Goto(c, pc)
           /\ drifted' = IF rows[i].key = DefaultKey THEN Mirrored(c) ELSE drifted
  <2> DEFINE row == [rows[i] EXCEPT !.stock = call[c].stock, !.live = TRUE]
             b == dialog.raced \/ (dialog # Closed /\ rows[i].key # DefaultKey)
  <2>1. i \in DOMAIN rows /\ rows[i] \in Row
    BY <1>2, <1>8, Known
  <2>2. row \in Row /\ row.product = rows[i].product
    BY <1>2, <2>1 DEF Row
  <2>3. rows' = [rows EXCEPT ![i] = row]
    BY <1>8, <2>1
  <2> HIDE DEF row
  <2>4. rows' \in Seq(Row) /\ Grows(product, rows, product', rows')
    BY <1>3, <2>1, <2>2, <2>3, Known, RowWritten
  <2>5. b \in BOOLEAN /\ (dialog = Closed => ~b)
    BY Known DEF DialogTyped, Closed
  <2>6. dialog' = Marked(dialog, dialog.loading, b)
    BY <1>8, Known, MarksMark
  <2> HIDE DEF b
  <2>7. DialogTyped(dialog', rows) /\ (dialog # Closed => dialog' # Closed)
    <3>1. dialog.loading \in BOOLEAN /\ (dialog = Closed => ~dialog.loading) /\ DialogTyped(dialog, rows)
      BY Known DEF DialogTyped, Closed
    <3>2. QED
      BY <2>5, <2>6, <3>1, DialogMarked
  <2>8. DialogTyped(dialog', rows') /\ Fits(k, product', rows')
    BY <1>4, <1>6, <2>4, <2>7, DialogStays, FitsStays
  <2>9. drifted' \subseteq Products
    BY <1>7, <1>8, Known
  <2>10. QED
    BY <1>3, <1>4, <1>5, <1>6, <1>8, <2>4, <2>7, <2>8, <2>9, Known, StepFits
<1>9. CASE /\ i = 0 /\ Insertable(p, DefaultKey)
           /\ rows' = Append(rows, NewRow(p, {}, call[c].stock))
           /\ Goto(c, pc) /\ drifted' = Mirrored(c)
           /\ UNCHANGED dialog
  <2>1. NewRow(p, {}, call[c].stock) \in Row
    BY <1>2, NewRowIsRow
  <2>2. rows' \in Seq(Row) /\ Grows(product, rows, product', rows')
    BY <1>3, <1>9, <2>1, Known, RowInserted
  <2>3. DialogTyped(dialog', rows') /\ Fits(k, product', rows')
    BY <1>4, <1>6, <1>9, <2>2, Known, DialogStays, FitsStays
  <2>4. QED
    BY <1>3, <1>4, <1>5, <1>6, <1>7, <1>9, <2>2, <2>3, Known, StepFits
<1>10. CASE i = 0 /\ ~Insertable(p, DefaultKey) /\ Throw(c) /\ UNCHANGED <<rows, drifted, dialog>>
  BY <1>1, <1>3, <1>10, Known, GotoEnd DEF Throw
<1>11. QED
  BY <1>8, <1>9, <1>10 DEF WriteMirror, pc

LEMMA SellFits ==
  ASSUME IInv, NEW items \in SUBSET Products, Sell(items) PROVE IInv'
<1>1. product' \in [Products -> Product]
      /\ \A q \in Products : product'[q].state = product[q].state
  BY Known DEF Sell, Product, IInv, TypeOK
<1>2. /\ rows' \in Seq(Row) /\ DOMAIN rows' = DOMAIN rows
      /\ \A i \in DOMAIN rows : rows'[i].product = rows[i].product
  <2>1. rows' = Decremented(items) /\ rows \in Seq(Row)
    BY DEF Sell, IInv, TypeOK
  <2>2. ASSUME NEW i \in DOMAIN rows
        PROVE  rows'[i] \in Row /\ rows'[i].product = rows[i].product
    <3>1. rows[i] \in Row
      BY <2>1
    <3>2. [rows[i] EXCEPT !.stock = @ - 1] \in Row
          /\ [rows[i] EXCEPT !.stock = @ - 1].product = rows[i].product
      BY <3>1 DEF Row
    <3>3. rows'[i] = rows[i] \/ rows'[i] = [rows[i] EXCEPT !.stock = @ - 1]
      BY <2>1 DEF Decremented
    <3>4. QED
      BY <3>1, <3>2, <3>3
  <2>3. DOMAIN rows' = 1..Len(rows) /\ rows' = [i \in DOMAIN rows |-> rows'[i]] /\ Len(rows) \in Nat
    BY <2>1 DEF Decremented
  <2>4. rows' \in Seq(Row)
    BY <2>1, <2>2, <2>3
  <2>5. QED
    BY <2>1, <2>2, <2>3, <2>4
<1>3. Grows(product, rows, product', rows')
  BY <1>1, <1>2 DEF Grows
<1>4. UNCHANGED <<dialog, drifted, faults>> /\ sales' = sales + 1 /\ sales < MaxSales
      /\ call' = Outdated(call, items)
  BY DEF Sell
<1>5. /\ DOMAIN call' = Calls /\ call' = [d \in Calls |-> call'[d]]
      /\ \A d \in Calls : MayOutdate(call[d], call'[d])
  <2>1. Outdates(call')
    BY <1>4, OutdatedOutdates DEF IInv, TypeOK
  <2>2. call' = [d \in Calls |-> call'[d]]
    BY <1>4 DEF Outdated
  <2>3. QED
    BY <2>1, <2>2 DEF Outdates
<1>6. call' \in [Calls -> Call] /\ CallsFit'
  BY <1>3, <1>5, NoneMoves DEF IInv, TypeOK
<1>7. DialogFits'
  <2>1. DialogTyped(dialog', rows')
    BY <1>3, <1>4, DialogStays DEF IInv, DialogFits
  <2>2. ASSUME NEW d \in Calls, Shows(call'[d]) PROVE dialog # Closed
    <3>1. MayOutdate(call[d], call'[d]) /\ call[d] \in Call
      BY <1>5 DEF IInv, TypeOK
    <3>2. call'[d] = call[d]
      BY <2>2, <3>1 DEF MayOutdate, Call, Shows
    <3>3. QED
      BY <2>2, <3>2 DEF IInv, DialogFits
  <2>3. QED
    BY <1>4, <2>1, <2>2 DEF DialogFits
<1>8. sales' \in 0..MaxSales
  BY <1>4, CatalogueAssumption DEF IInv, TypeOK
<1>9. QED
  BY <1>1, <1>2, <1>4, <1>6, <1>7, <1>8 DEF IInv, TypeOK, DialogFits, DialogTyped

LEMMA StartSyncFits ==
  ASSUME IInv, NEW c \in Calls, NEW offered \in Offered, StartSync(c, offered) PROVE IInv'
<1> DEFINE k == [call[c] EXCEPT !.pc = "next", !.op = "sync", !.todo = offered]
<1>1. call[c] \in Call /\ Fits(call[c], product, rows)
  BY Known
<1>2. offered \in [Products -> Int \cup {NoStock}]
  <2>1. offered \in [Products -> Stock]
    BY DEF Offered
  <2>2. \A s \in Stocks : s \in Int
    BY CatalogueAssumption
  <2>3. \A s \in Stock : s \in Int \cup {NoStock}
    BY <2>2 DEF Stock
  <2>4. QED
    BY <2>1, <2>3
<1>3. k \in Call /\ k.pc = "next" /\ k.op = "sync"
  BY <1>1, <1>2 DEF Call, CallState, Operation
<1>4. call' = [call EXCEPT ![c] = k] /\ UNCHANGED <<product, rows, dialog, drifted, sales, faults>>
  BY DEF StartSync
<1> HIDE DEF k
<1>5. Fits(k, product, rows) /\ ~Shows(k)
  BY <1>3 DEF Fits, OpFits, ProductFits, StockFits, RowFits, Mirrors, Shows
<1>6. QED
  BY <1>3, <1>4, <1>5, Known, QuietFits

LEMMA SyncFindFits ==
  ASSUME IInv, NEW c \in Calls, NEW p \in Products, SyncFind(c, p) PROVE IInv'
<1> DEFINE k == [call[c] EXCEPT !.pc = "upserting", !.product = p, !.clean = TRUE,
                                !.stock = call[c].todo[p], !.todo[p] = NoStock,
                                !.row = IF product[p].state = "absent" THEN 0 ELSE 1]
<1>1. call[c] \in Call /\ Fits(call[c], product, rows) /\ call[c].pc = "next" /\ call[c].todo[p] # NoStock
  BY Known DEF SyncFind, At
<1>2. /\ k \in Call /\ k.pc = "upserting" /\ k.op = call[c].op /\ k.product = p
      /\ k.stock = call[c].todo[p]
  BY <1>1 DEF Call, CallState
<1>3. call' = [call EXCEPT ![c] = k] /\ UNCHANGED <<product, rows, dialog, drifted, sales, faults>>
  BY DEF SyncFind
<1>4. call[c].op = "sync" /\ call[c].todo[p] \in Int
  BY <1>1 DEF Fits, OpFits, Call
<1> HIDE DEF k
<1>5. Fits(k, product, rows) /\ ~Shows(k)
  BY <1>1, <1>2, <1>4 DEF Fits, OpFits, ProductFits, StockFits, RowFits, Mirrors, Shows
<1>6. QED
  BY <1>2, <1>3, <1>5, Known, QuietFits

LEMMA SyncWriteFits ==
  ASSUME IInv, NEW c \in Calls, SyncWrite(c) PROVE IInv'
<1> DEFINE k == [call[c] EXCEPT !.pc = "mirroring"]
           p == call[c].product
           calls == Outdated(call, {p})
           state == IF product[p].state = "absent" THEN "live" ELSE product[p].state
<1>1. /\ call[c] \in Call /\ Fits(call[c], product, rows) /\ call[c].pc = "upserting"
  BY Known DEF SyncWrite, At
<1>2. p \in Products /\ call[c].stock \in Int /\ call[c].op = "sync"
  BY <1>1 DEF Fits, OpFits, ProductFits, StockFits
<1>3. UNCHANGED <<rows, dialog, drifted, sales, faults>>
  BY DEF SyncWrite
<1>4. CASE Throw(c) /\ UNCHANGED product
  BY <1>1, <1>3, <1>4, Known, GotoEnd DEF Throw
<1>5. CASE /\ product' = [product EXCEPT ![p] = [state |-> state, stock |-> call[c].stock]]
           /\ call' = [calls EXCEPT ![c].pc = "mirroring"]
  <2>1. /\ calls \in [Calls -> Call] /\ Outdates(calls) /\ calls[c] = call[c]
    <3>1. ~Pends(call[c], p) /\ {p} \in SUBSET Products
      BY <1>1, <1>2 DEF Pends, Mirrors
    <3>2. QED
      BY <3>1, Known, OutdatedCalls, OutdatedOutdates
  <2> HIDE DEF calls
  <2>2. k \in Call /\ k.pc = "mirroring" /\ k.op = "sync" /\ k.product = p /\ k.stock = call[c].stock
    BY <1>1, <1>2 DEF Call, CallState
  <2>3. call' = [calls EXCEPT ![c] = k]
    BY <1>5, <2>1
  <2> HIDE DEF k
  <2>4. /\ product' \in [Products -> Product] /\ product'[p].state # "absent"
        /\ \A q \in Products : product[q].state # "absent" => product'[q].state # "absent"
    <3>1. product[p] \in Product
      BY <1>2, Known
    <3>2. state \in {"live", "deleted"}
      BY <3>1 DEF Product
    <3> HIDE DEF state
    <3>3. [state |-> state, stock |-> call[c].stock] \in Product
      BY <1>2, <3>2 DEF Product
    <3>4. QED
      BY <1>2, <1>5, <3>2, <3>3, Known
  <2>5. Fits(k, product', rows') /\ ~Shows(k)
    BY <1>1, <1>2, <2>2, <2>4 DEF Fits, OpFits, ProductFits, StockFits, RowFits, Mirrors, Shows
  <2>6. Grows(product, rows, product', rows') /\ DialogTyped(dialog', rows')
    BY <1>3, <2>4, Known DEF Grows
  <2>7. QED
    BY <1>3, <2>1, <2>2, <2>3, <2>4, <2>5, <2>6, Known, StepFits
<1>6. QED
  BY <1>4, <1>5 DEF SyncWrite

LEMMA SyncEndFits ==
  ASSUME IInv, NEW c \in Calls, SyncEnd(c) PROVE IInv'
BY Known, GotoEnd DEF SyncEnd, At

(* The list of the dialog is one of rows of the table.                     *)
LEMMA SnapshotIsTyped ==
  ASSUME NEW p
  PROVE  /\ Snapshot(p) = [i \in DOMAIN Snapshot(p) |-> Snapshot(p)[i]]
         /\ DOMAIN Snapshot(p) \subseteq DOMAIN rows
         /\ \A i \in DOMAIN rows : i \in DOMAIN Snapshot(p) <=> rows[i].product = p /\ rows[i].live
         /\ \A i \in DOMAIN Snapshot(p) : Snapshot(p)[i] = rows[i].stock
BY DEF Snapshot, Listed

LEMMA OpenDialogFits ==
  ASSUME IInv, NEW p \in Products, OpenDialog(p) PROVE IInv'
<1>1. /\ dialog = Closed /\ UNCHANGED <<product, rows, call, drifted, sales, faults>>
      /\ dialog' = [product |-> p, shown |-> <<>>, loading |-> TRUE, raced |-> FALSE]
  BY DEF OpenDialog
<1>2. p # NoProduct /\ Closed.product = NoProduct
  BY CatalogueAssumption DEF Closed
<1>3. /\ dialog'.product = p /\ dialog'.loading = TRUE /\ dialog'.raced = FALSE
      /\ dialog'.shown = [i \in DOMAIN dialog'.shown |-> dialog'.shown[i]] /\ DOMAIN dialog'.shown = {}
      /\ dialog' = [product |-> dialog'.product, shown |-> dialog'.shown, loading |-> dialog'.loading,
                    raced |-> dialog'.raced]
  BY <1>1
<1>4. DialogTyped(dialog', rows) /\ dialog' # Closed
  BY <1>2, <1>3 DEF DialogTyped
<1>5. QED
  BY <1>1, <1>4 DEF IInv, TypeOK, CallsFit, DialogFits, DialogTyped

(* A list as it is loaded. *)
LEMMA LoadedIsTyped ==
  ASSUME NEW rs, DialogTyped(dialog, rs), dialog # Closed, NEW b \in BOOLEAN, NEW e,
         e = [dialog EXCEPT !.shown = Snapshot(dialog.product), !.loading = FALSE, !.raced = b]
  PROVE  /\ DialogTyped(e, rows) /\ e # Closed
         /\ e.product = dialog.product /\ e.shown = Snapshot(dialog.product)
         /\ e.loading = FALSE /\ e.raced = b
<1>1. dialog.product \in Products
  BY DEF DialogTyped
<1>2. /\ e.product = dialog.product /\ e.shown = Snapshot(dialog.product) /\ e.loading = FALSE /\ e.raced = b
      /\ e = [product |-> e.product, shown |-> e.shown, loading |-> e.loading, raced |-> e.raced]
  BY DEF DialogTyped
<1>3. e # Closed /\ e.product # NoProduct
  BY <1>1, <1>2, CatalogueAssumption DEF Closed
<1>4. e.shown = [i \in DOMAIN e.shown |-> e.shown[i]] /\ DOMAIN e.shown \subseteq DOMAIN rows
  BY <1>2, SnapshotIsTyped
<1>5. QED
  BY <1>1, <1>2, <1>3, <1>4 DEF DialogTyped

LEMMA LoadFits == IInv /\ Load => IInv'
<1> SUFFICES ASSUME IInv, Load PROVE IInv'
  OBVIOUS
<1>1. /\ UNCHANGED <<product, rows, call, drifted, sales, faults>> /\ dialog # Closed
      /\ dialog' = [dialog EXCEPT !.shown = Snapshot(dialog.product), !.loading = FALSE, !.raced = FALSE]
  BY DEF Load, Closed
<1>2. DialogTyped(dialog', rows) /\ dialog' # Closed
  <2>1. DialogTyped(dialog, rows) /\ FALSE \in BOOLEAN
    BY DEF IInv, DialogFits
  <2>2. QED
    BY <1>1, <2>1, LoadedIsTyped
<1>3. QED
  BY <1>1, <1>2 DEF IInv, TypeOK, CallsFit, DialogFits, DialogTyped

LEMMA LoadFailsFits == IInv /\ LoadFails => IInv'
<1> SUFFICES ASSUME IInv, LoadFails PROVE IInv'
  OBVIOUS
<1>1. /\ UNCHANGED <<product, rows, call, drifted, sales>> /\ dialog # Closed
      /\ dialog' = [dialog EXCEPT !.loading = FALSE, !.raced = TRUE]
      /\ faults' = faults + 1 /\ faults < MaxFaults
  BY DEF LoadFails, Closed
<1>2. DialogTyped(dialog, rows) /\ TRUE \in BOOLEAN /\ FALSE \in BOOLEAN /\ faults \in 0..MaxFaults
  BY DEF IInv, DialogFits, TypeOK
<1>3. dialog' = Marked(dialog, FALSE, TRUE)
  BY <1>1, <1>2 DEF Marked, DialogTyped
<1>4. DialogTyped(dialog', rows) /\ dialog' # Closed
  BY <1>1, <1>2, <1>3, OpenMarked
<1>5. faults' \in 0..MaxFaults
  BY <1>1, <1>2, CatalogueAssumption
<1>6. QED
  BY <1>1, <1>4, <1>5 DEF IInv, TypeOK, CallsFit, DialogFits, DialogTyped

LEMMA CloseDialogFits == IInv /\ CloseDialog => IInv'
<1> SUFFICES ASSUME IInv, CloseDialog PROVE IInv'
  OBVIOUS
<1>1. /\ dialog' = Closed /\ UNCHANGED <<product, rows, drifted, sales, faults>>
      /\ call' = [c \in Calls |-> IF c \in DialogCalls THEN [call[c] EXCEPT !.clean = FALSE] ELSE call[c]]
  BY DEF CloseDialog
<1>2. ASSUME NEW d \in Calls
      PROVE  MayOutdate(call[d], call'[d]) /\ ~Shows(call'[d])
  <2>1. call[d] \in Call /\ Fits(call[d], product, rows)
    BY Known
  <2>2. CASE Shows(call[d])
    <3>1. call'[d] = [call[d] EXCEPT !.clean = FALSE]
      BY <1>1, <2>2, DialogCallsShow
    <3>2. call[d].pc # "idle"
      BY <2>1, <2>2 DEF Shows, Fits, OpFits
    <3>3. call'[d].clean = FALSE
      BY <2>1, <3>1 DEF Call
    <3>4. QED
      BY <3>1, <3>2, <3>3 DEF MayOutdate, Shows
  <2>3. CASE ~Shows(call[d])
    BY <1>1, <2>3, DialogCallsShow DEF MayOutdate
  <2>4. QED
    BY <2>2, <2>3
<1>3. DOMAIN call' = Calls /\ call' = [d \in Calls |-> call'[d]]
  BY <1>1
<1>4. Grows(product, rows, product', rows')
  BY <1>1, SameTable
<1>5. call' \in [Calls -> Call] /\ CallsFit'
  BY <1>2, <1>3, <1>4, NoneMoves DEF IInv, TypeOK
<1>6. DialogTyped(dialog', rows')
  BY <1>1, ClosedIsTyped
<1>7. DialogFits'
  BY <1>2, <1>6 DEF DialogFits
<1>8. QED
  BY <1>1, <1>5, <1>6, <1>7 DEF IInv, TypeOK, DialogTyped

(* What the dialog does at the start of a call.                            *)
LEMMA RacesFits ==
  ASSUME IInv, dialog # Closed
  PROVE  DialogTyped(Races, rows) /\ Races # Closed
<1> DEFINE b == dialog.raced \/ DialogCalls # {}
<1>1. b \in BOOLEAN
  BY DEF IInv, DialogFits, DialogTyped
<1>2. Races = [dialog EXCEPT !.raced = b] /\ DialogTyped(dialog, rows)
  BY DEF Races, IInv, DialogFits
<1> HIDE DEF b
<1>3. Races = Marked(dialog, dialog.loading, b)
  BY <1>2, MarksMark
<1>4. dialog.loading \in BOOLEAN
  BY <1>2 DEF DialogTyped
<1>5. QED
  BY <1>1, <1>2, <1>3, <1>4, OpenMarked

LEMMA StartAddFits ==
  ASSUME IInv, NEW c \in Calls, NEW attributes \in Offers, NEW stock \in Stocks,
         StartAdd(c, attributes, stock)
  PROVE  IInv'
<1> DEFINE k == [call[c] EXCEPT !.pc = "checking", !.op = "add", !.product = dialog.product,
                                !.attributes = attributes, !.stock = stock]
<1>1. call[c] \in Call /\ Fits(call[c], product, rows) /\ stock \in Int
  BY Known, CatalogueAssumption
<1>2. dialog # Closed /\ dialog.product \in Products
  BY Known DEF StartAdd, Ready, DialogTyped
<1>3. k \in Call /\ k.pc = "checking" /\ k.op = "add" /\ k.product = dialog.product /\ k.stock = stock
  BY <1>1, <1>2 DEF Call, CallState, Operation
<1>4. call' = [call EXCEPT ![c] = k] /\ dialog' = Races /\ UNCHANGED <<product, rows, drifted, sales, faults>>
  BY DEF StartAdd
<1> HIDE DEF k
<1>5. Fits(k, product', rows')
  BY <1>1, <1>2, <1>3, <1>4 DEF Fits, OpFits, ProductFits, StockFits, RowFits, Mirrors
<1>6. DialogTyped(dialog', rows') /\ dialog' # Closed
  BY <1>2, <1>4, RacesFits
<1>7. Grows(product, rows, product', rows')
  BY <1>4, SameTable
<1>8. QED
  BY <1>3, <1>4, <1>5, <1>6, <1>7, Known, StepFits

LEMMA FindVariantFits ==
  ASSUME IInv, NEW c \in Calls, FindVariant(c) PROVE IInv'
<1> DEFINE i == RowAt(rows, call[c].product, AttributeKey(call[c].attributes))
           k == [call[c] EXCEPT !.pc = "saving", !.row = i]
<1>1. call[c] \in Call /\ Fits(call[c], product, rows) /\ call[c].pc = "finding"
  BY Known DEF FindVariant, At
<1>2. i # 0 => i \in DOMAIN rows /\ rows[i].product = call[c].product
  BY RowAtFinds
<1>3. UNCHANGED <<product, rows, dialog, drifted, sales, faults>>
  BY DEF FindVariant
<1>4. Throw(c) \/ call' = [call EXCEPT ![c] = k]
  BY FindIsRowAt DEF FindVariant
<1> HIDE DEF i
<1>5. CASE Throw(c)
  BY <1>1, <1>3, <1>5, Known, GotoEnd DEF Throw
<1>6. CASE call' = [call EXCEPT ![c] = k]
  <2>1. i \in Nat
    BY <1>2, Known
  <2>2. /\ k \in Call /\ k.pc = "saving" /\ k.op = call[c].op /\ k.product = call[c].product
        /\ k.row = i /\ k.stock = call[c].stock /\ k.clean = call[c].clean
    BY <1>1, <2>1 DEF Call, CallState
  <2> HIDE DEF k
  <2>3. call[c].op = "add"
    BY <1>1 DEF Fits, OpFits
  <2>4. Fits(k, product, rows)
    BY <1>1, <1>2, <2>2, <2>3 DEF Fits, OpFits, ProductFits, StockFits, RowFits, Mirrors
  <2>5. Shows(k) => dialog # Closed
    BY <1>1, <2>2, Known DEF Shows
  <2>6. QED
    BY <1>3, <1>6, <2>2, <2>4, <2>5, Known, QuietFits
<1>7. QED
  BY <1>4, <1>5, <1>6

LEMMA SaveVariantFits ==
  ASSUME IInv, NEW c \in Calls, SaveVariant(c) PROVE IInv'
<1> DEFINE k == [call[c] EXCEPT !.pc = "reloading"]
           p == call[c].product
           i == call[c].row
           new == NewRow(p, call[c].attributes, call[c].stock)
<1>1. /\ call[c] \in Call /\ Fits(call[c], product, rows) /\ call[c].pc = "saving"
  BY Known DEF SaveVariant, At
<1>2. /\ call[c].op = "add" /\ p \in Products /\ call[c].stock \in Int
      /\ i # 0 => i \in DOMAIN rows /\ rows[i].product = p
  BY <1>1 DEF Fits, OpFits, ProductFits, StockFits, RowFits
<1>3. new \in Row /\ new.product = p
  BY <1>1, <1>2, NewRowIsRow DEF Call
<1>4. UNCHANGED <<product, sales, faults>>
  BY DEF SaveVariant
<1>5. /\ k \in Call /\ k.pc = "reloading" /\ k.op = call[c].op /\ k.product = p
      /\ k.row = i /\ k.stock = call[c].stock /\ k.clean = call[c].clean
  BY <1>1 DEF Call, CallState
<1>6. Goto(c, "reloading") => call' = [call EXCEPT ![c] = k]
  BY Known DEF Goto
<1> HIDE DEF k
<1>7. Fits(k, product, rows) /\ (Shows(k) => dialog # Closed) 
  <2>1. Fits(k, product, rows)
    BY <1>1, <1>2, <1>5 DEF Fits, OpFits, ProductFits, StockFits, RowFits, Mirrors
  <2>2. Shows(k) => Shows(call[c])
    BY <1>1, <1>5 DEF Shows
  <2>3. QED
    BY <2>1, <2>2, Known
<1>8. Strays(p, new.key) => drifted' \subseteq Products
  BY <1>2, Known DEF Strays
<1> HIDE DEF new
<1>9. ASSUME Goto(c, "reloading"), Strays(p, new.key), rows' \in Seq(Row),
             Grows(product, rows, product', rows'), dialog' = Changed(c, p, TRUE)
      PROVE  IInv'
  <2>1. DialogTyped(dialog', rows) /\ (dialog # Closed => dialog' # Closed)
    <3>1. /\ DialogTyped(dialog, rows) /\ TRUE \in BOOLEAN
          /\ Shows(call[c]) => dialog # Closed
      BY Known
    <3>2. QED
      BY <1>2, <1>7, <1>9, <3>1, ChangedMarks
  <2>2. DialogTyped(dialog', rows') /\ Fits(k, product', rows')
    BY <1>5, <1>7, <1>9, <2>1, Known, DialogStays, FitsStays
  <2>3. QED
    BY <1>4, <1>5, <1>6, <1>7, <1>8, <1>9, <2>1, <2>2, Known, StepFits
<1>10. CASE /\ i # 0 /\ rows' = [rows EXCEPT ![i] = new] /\ Goto(c, "reloading") /\ Strays(p, new.key)
            /\ dialog' = Changed(c, p, TRUE)
  BY <1>2, <1>3, <1>4, <1>9, <1>10, Known, RowWritten
<1>11. CASE /\ i = 0 /\ rows' = Append(rows, new) /\ Goto(c, "reloading") /\ Strays(p, new.key)
            /\ dialog' = Changed(c, p, TRUE)
  BY <1>3, <1>4, <1>9, <1>11, Known, RowInserted
<1>12. CASE Throw(c) /\ UNCHANGED <<rows, drifted, dialog>>
  BY <1>1, <1>4, <1>12, Known, GotoEnd DEF Throw
<1>13. QED
  BY <1>10, <1>11, <1>12 DEF SaveVariant, new

LEMMA StartSetFits ==
  ASSUME IInv, NEW c \in Calls, NEW i \in DOMAIN rows, NEW stock \in Stocks, StartSet(c, i, stock)
  PROVE  IInv'
<1> DEFINE k == [call[c] EXCEPT !.pc = "checking", !.op = "set", !.row = i, !.stock = stock]
<1>1. call[c] \in Call /\ Fits(call[c], product, rows) /\ stock \in Int /\ i \in Nat
  BY Known, CatalogueAssumption
<1>2. k \in Call /\ k.pc = "checking" /\ k.op = "set" /\ k.row = i /\ k.stock = stock
  BY <1>1 DEF Call, CallState, Operation
<1>3. /\ call' = [call EXCEPT ![c] = k] /\ dialog' = [Races EXCEPT !.shown[i] = stock]
      /\ UNCHANGED <<product, rows, drifted, sales, faults>> /\ i \in DOMAIN dialog.shown
  BY DEF StartSet
<1> HIDE DEF k
<1>4. Fits(k, product', rows')
  BY <1>1, <1>2, <1>3 DEF Fits, OpFits, ProductFits, StockFits, RowFits, Mirrors
<1>5. DialogTyped(dialog', rows') /\ dialog' # Closed
  <2>1. dialog # Closed
    BY <1>3 DEF Closed
  <2>2. DialogTyped(Races, rows) /\ Races # Closed
    BY <2>1, RacesFits
  <2>3. Races.product = dialog.product /\ Races.shown = dialog.shown
    BY Known DEF Races, DialogTyped
  <2>4. dialog'.product = dialog.product /\ dialog'.shown = [dialog.shown EXCEPT ![i] = stock]
        /\ dialog'.raced = Races.raced /\ dialog'.loading = Races.loading
        /\ dialog' = [product |-> dialog'.product, shown |-> dialog'.shown, loading |-> dialog'.loading,
                      raced |-> dialog'.raced]
    BY <1>3, <2>2, <2>3 DEF DialogTyped
  <2>5. dialog.product \in Products
    BY <2>1, Known DEF DialogTyped
  <2>6. dialog' # Closed /\ dialog'.product # NoProduct
    BY <2>4, <2>5, CatalogueAssumption DEF Closed
  <2>7. QED
    BY <1>3, <2>2, <2>3, <2>4, <2>5, <2>6 DEF DialogTyped
<1>6. Grows(product, rows, product', rows')
  BY <1>3, SameTable
<1>7. QED
  BY <1>2, <1>3, <1>4, <1>5, <1>6, Known, StepFits

LEMMA StartRemoveFits ==
  ASSUME IInv, NEW c \in Calls, NEW i \in DOMAIN rows, StartRemove(c, i) PROVE IInv'
<1> DEFINE k == [call[c] EXCEPT !.pc = "checking", !.op = "remove", !.row = i]
<1>1. call[c] \in Call /\ Fits(call[c], product, rows) /\ i \in Nat
  BY Known
<1>2. k \in Call /\ k.pc = "checking" /\ k.op = "remove" /\ k.row = i
  BY <1>1 DEF Call, CallState, Operation
<1>3. /\ call' = [call EXCEPT ![c] = k] /\ dialog' = Races
      /\ UNCHANGED <<product, rows, drifted, sales, faults>> /\ dialog # Closed
  BY DEF StartRemove, Closed
<1> HIDE DEF k
<1>4. Fits(k, product', rows')
  BY <1>1, <1>2, <1>3 DEF Fits, OpFits, ProductFits, StockFits, RowFits, Mirrors
<1>5. DialogTyped(dialog', rows') /\ dialog' # Closed
  BY <1>3, RacesFits
<1>6. Grows(product, rows, product', rows')
  BY <1>3, SameTable
<1>7. QED
  BY <1>2, <1>3, <1>4, <1>5, <1>6, Known, StepFits

(* What another client asks for.                                           *)
LEMMA OtherAsks ==
  ASSUME IInv, NEW c \in Calls, StartOther(c)
  PROVE  \E request \in Call :
           /\ Asks(c, request)
           /\ \/ request.op = "add" /\ request.product \in Products /\ request.stock \in Int
              \/ request.op = "set" /\ request.row \in DOMAIN rows /\ request.stock \in Int
              \/ request.op \in {"rename", "remove"} /\ request.row \in DOMAIN rows
<1> DEFINE Asked == \E request \in Call :
                      /\ Asks(c, request)
                      /\ \/ request.op = "add" /\ request.product \in Products /\ request.stock \in Int
                         \/ request.op = "set" /\ request.row \in DOMAIN rows /\ request.stock \in Int
                         \/ request.op \in {"rename", "remove"} /\ request.row \in DOMAIN rows
<1>1. NewCall \in Call /\ Stocks \subseteq Int /\ DOMAIN rows \subseteq Nat
  BY FreshCall, CatalogueAssumption DEF IInv, TypeOK
<1>2. ASSUME NEW p \in Products, NEW o \in Offers, NEW n \in Stocks,
             Asks(c, [NewCall EXCEPT !.op = "add", !.product = p, !.attributes = o, !.stock = n])
      PROVE  Asked
  <2> DEFINE k == [NewCall EXCEPT !.op = "add", !.product = p, !.attributes = o, !.stock = n]
  <2>1. k \in Call /\ k.op = "add" /\ k.product = p /\ k.stock = n
    BY <1>1 DEF Call, Operation
  <2>2. Asks(c, k)
    BY <1>2
  <2> HIDE DEF k
  <2>3. QED
    BY <1>1, <2>1, <2>2
<1>3. ASSUME NEW i \in DOMAIN rows, NEW n \in Stocks, Asks(c, [NewCall EXCEPT !.op = "set", !.row = i, !.stock = n])
      PROVE  Asked
  <2> DEFINE k == [NewCall EXCEPT !.op = "set", !.row = i, !.stock = n]
  <2>1. k \in Call /\ k.op = "set" /\ k.row = i /\ k.stock = n
    BY <1>1 DEF Call, Operation
  <2>2. Asks(c, k)
    BY <1>3
  <2> HIDE DEF k
  <2>3. QED
    BY <1>1, <2>1, <2>2
<1>4. ASSUME NEW i \in DOMAIN rows, NEW o \in Offers,
             Asks(c, [NewCall EXCEPT !.op = "rename", !.row = i, !.attributes = o])
      PROVE  Asked
  <2> DEFINE k == [NewCall EXCEPT !.op = "rename", !.row = i, !.attributes = o]
  <2>1. k \in Call /\ k.op = "rename" /\ k.row = i
    BY <1>1 DEF Call, Operation
  <2>2. Asks(c, k)
    BY <1>4
  <2> HIDE DEF k
  <2>3. QED
    BY <2>1, <2>2
<1>5. ASSUME NEW i \in DOMAIN rows, Asks(c, [NewCall EXCEPT !.op = "remove", !.row = i]) PROVE Asked
  <2> DEFINE k == [NewCall EXCEPT !.op = "remove", !.row = i]
  <2>1. k \in Call /\ k.op = "remove" /\ k.row = i
    BY <1>1 DEF Call, Operation
  <2>2. Asks(c, k)
    BY <1>5
  <2> HIDE DEF k
  <2>3. QED
    BY <2>1, <2>2
<1> HIDE DEF Asked
<1>6. Asked
  BY <1>2, <1>3, <1>4, <1>5, Zenon DEF StartOther
<1>7. QED
  BY <1>6 DEF Asked

LEMMA StartOtherFits ==
  ASSUME IInv, NEW c \in Calls, StartOther(c) PROVE IInv'
<1>1. PICK request \in Call :
        /\ Asks(c, request)
        /\ \/ request.op = "add" /\ request.product \in Products /\ request.stock \in Int
           \/ request.op = "set" /\ request.row \in DOMAIN rows /\ request.stock \in Int
           \/ request.op \in {"rename", "remove"} /\ request.row \in DOMAIN rows
  BY OtherAsks
<1> DEFINE k == [request EXCEPT !.pc = "checking", !.clean = FALSE]
<1>2. /\ k \in Call /\ k.pc = "checking" /\ k.op = request.op /\ k.product = request.product
      /\ k.row = request.row /\ k.stock = request.stock /\ k.clean = FALSE
  BY <1>1 DEF Call, CallState
<1>3. call' = [call EXCEPT ![c] = k] /\ UNCHANGED <<product, rows, dialog, drifted, sales, faults>>
  BY <1>1 DEF StartOther, Asks
<1> HIDE DEF k
<1>4. Fits(k, product, rows) /\ ~Shows(k)
  BY <1>1, <1>2 DEF Fits, OpFits, ProductFits, StockFits, RowFits, Mirrors, Shows
<1>5. QED
  BY <1>2, <1>3, <1>4, Known, QuietFits

LEMMA CheckVariantFits ==
  ASSUME IInv, NEW c \in Calls, CheckVariant(c) PROVE IInv'
<1>1. /\ call[c] \in Call /\ Fits(call[c], product, rows) /\ call[c].pc = "checking"
      /\ call[c].op \in {"set", "rename", "remove"}
  BY Known DEF CheckVariant, At
<1>2. UNCHANGED <<product, rows, drifted, sales, faults>> /\ (dialog' = LoadsAgain(c) \/ dialog' = dialog)
  BY DEF CheckVariant
<1> DEFINE live == rows[call[c].row].live
           pc == IF live THEN "writing" ELSE IF call[c].op = "set" THEN "reloading" ELSE "threw"
           k == [call[c] EXCEPT !.pc = pc]
<1>3. Goto(c, pc)
  BY DEF CheckVariant, Does
<1>4. pc \in {"writing", "reloading", "threw"} /\ (pc = "reloading" => call[c].op = "set")
  OBVIOUS
<1> HIDE DEF pc
<1>5. /\ k.pc = pc /\ k.op = call[c].op /\ k.product = call[c].product /\ k.row = call[c].row
      /\ k.stock = call[c].stock /\ k.begun = call[c].begun
  BY <1>1, <1>4 DEF Call
<1> HIDE DEF k
<1>6. Fits(k, product, rows)
  BY <1>1, <1>4, <1>5 DEF Fits, OpFits, ProductFits, StockFits, RowFits, Mirrors
<1>7. Fits([call[c] EXCEPT !.pc = pc], product, rows)
  BY <1>6 DEF k
<1>8. pc \in CallState
  BY <1>4 DEF CallState
<1>9. DialogTyped(dialog', rows) /\ (dialog # Closed => dialog' # Closed)
  <2>1. DialogTyped(dialog, rows) /\ (Shows(call[c]) => dialog # Closed)
    BY Known
  <2>2. QED
    BY <1>2, <2>1, LoadsMark
<1>10. QED
  BY <1>1, <1>2, <1>3, <1>7, <1>8, <1>9, Known, MovesFits

LEMMA WriteVariantFits ==
  ASSUME IInv, NEW c \in Calls, WriteVariant(c) PROVE IInv'
<1> DEFINE i == call[c].row
           key == AttributeKey(call[c].attributes)
<1>1. /\ call[c] \in Call /\ Fits(call[c], product, rows) /\ call[c].pc = "writing"
      /\ call[c].op \in {"set", "rename", "remove"}
  BY Known DEF WriteVariant, At
<1>2. i \in DOMAIN rows /\ (call[c].op = "set" => call[c].stock \in Int)
  BY <1>1 DEF Fits, StockFits, RowFits
<1>3. rows[i] \in Row
  BY <1>2, Known
<1>4. UNCHANGED <<product, sales, faults>>
  BY DEF WriteVariant
<1>5. ASSUME NEW pc \in {"done", "reloading"}, NEW row \in Row, row.product = rows[i].product,
             Goto(c, pc), pc = "reloading" => call[c].op = "remove",
             rows' = [rows EXCEPT ![i] = row], drifted' \subseteq Products,
             DialogTyped(dialog', rows), dialog # Closed => dialog' # Closed
      PROVE  IInv'
  <2> DEFINE k == [call[c] EXCEPT !.pc = pc]
  <2>1. /\ k \in Call /\ k.pc = pc /\ k.op = call[c].op /\ k.product = call[c].product
        /\ k.row = i /\ k.stock = call[c].stock /\ k.clean = call[c].clean /\ k.begun = call[c].begun
    BY <1>1 DEF Call, CallState
  <2>2. call' = [call EXCEPT ![c] = k]
    BY <1>5, Known DEF Goto
  <2> HIDE DEF k
  <2>3. Fits(k, product, rows)
    BY <1>1, <1>2, <1>5, <2>1 DEF Fits, OpFits, ProductFits, StockFits, RowFits, Mirrors
  <2>4. Shows(k) => dialog' # Closed
    BY <1>1, <1>5, <2>1, Known DEF Shows
  <2>5. rows' \in Seq(Row) /\ Grows(product, rows, product', rows')
    BY <1>2, <1>4, <1>5, Known, RowWritten
  <2>6. DialogTyped(dialog', rows') /\ Fits(k, product', rows')
    BY <1>4, <1>5, <2>1, <2>3, <2>5, DialogStays, FitsStays
  <2>7. QED
    BY <1>4, <1>5, <2>1, <2>2, <2>4, <2>5, <2>6, Known, StepFits
<1>6. \A k \in {rows[i].key, key} : Strays(rows[i].product, k) => drifted' \subseteq Products
  BY <1>3, Known DEF Strays, Row
<1> DEFINE changed == \E reload \in BOOLEAN : dialog' = Changed(c, rows[i].product, reload)
<1>7. changed => DialogTyped(dialog', rows) /\ (dialog # Closed => dialog' # Closed)
  <2>1. rows[i].product \in Products /\ DialogTyped(dialog, rows) /\ (Shows(call[c]) => dialog # Closed)
    BY <1>3, Known DEF Row
  <2>2. QED
    BY <2>1, ChangedMarks
<1>8. CASE /\ Does(c, "set") /\ rows' = [rows EXCEPT ![i].stock = call[c].stock]
           /\ Goto(c, "done") /\ Strays(rows[i].product, rows[i].key) /\ changed
  <2> DEFINE row == [rows[i] EXCEPT !.stock = call[c].stock]
  <2>1. row \in Row /\ row.product = rows[i].product
    BY <1>2, <1>3, <1>8 DEF Row, Does
  <2>2. rows' = [rows EXCEPT ![i] = row]
    BY <1>8, <1>2
  <2> HIDE DEF row
  <2>3. QED
    BY <1>5, <1>6, <1>8, <1>7, <2>1, <2>2
<1>9. CASE /\ Does(c, "remove") /\ rows' = [rows EXCEPT ![i].live = FALSE]
           /\ Goto(c, "reloading") /\ changed /\ UNCHANGED drifted
  <2> DEFINE row == [rows[i] EXCEPT !.live = FALSE]
  <2>1. row \in Row /\ row.product = rows[i].product
    BY <1>3 DEF Row
  <2>2. rows' = [rows EXCEPT ![i] = row]
    BY <1>9, <1>2
  <2> HIDE DEF row
  <2>3. QED
    BY <1>5, <1>9, <1>7, <2>1, <2>2, Known DEF Does
<1>10. CASE /\ Does(c, "rename")
           /\ rows' = [rows EXCEPT ![i] = [@ EXCEPT !.attributes = call[c].attributes, !.key = key]]
           /\ Goto(c, "done") /\ Strays(rows[i].product, key) /\ changed
  <2> DEFINE row == [rows[i] EXCEPT !.attributes = call[c].attributes, !.key = key]
  <2>1. call[c].attributes \in Offers \cup {{}} /\ key \in SUBSET (STRING \X STRING)
    BY <1>1, KeysAreTyped DEF Call
  <2> HIDE DEF key
  <2>2. row \in Row /\ row.product = rows[i].product
    BY <1>3, <2>1 DEF Row
  <2>3. rows' = [rows EXCEPT ![i] = row]
    BY <1>10, <1>2
  <2> HIDE DEF row
  <2>4. QED
    BY <1>5, <1>6, <1>10, <1>7, <2>2, <2>3
<1>11. CASE Throw(c) /\ UNCHANGED <<rows, dialog, drifted>>
  BY <1>1, <1>4, <1>11, Known, GotoEnd DEF Throw
<1>12. QED
  BY <1>8, <1>9, <1>10, <1>11 DEF WriteVariant

LEMMA ReloadFits ==
  ASSUME IInv, NEW c \in Calls, Reload(c) PROVE IInv'
<1> DEFINE k == [call[c] EXCEPT !.pc = "done"]
<1>1. /\ call[c] \in Call /\ Fits(call[c], product, rows) /\ call[c].pc = "reloading"
  BY Known DEF Reload, At
<1>2. /\ call' = [call EXCEPT ![c] = k] /\ UNCHANGED <<product, rows, drifted, sales, faults>>
      /\ dialog' = IF c \in DialogCalls
                     THEN [dialog EXCEPT !.shown = Snapshot(dialog.product), !.loading = FALSE,
                                         !.raced = DialogCalls # {c}]
                     ELSE dialog
  BY Known DEF Reload, Goto
<1>3. k \in Call /\ k.pc = "done" /\ Fits(k, product, rows)
  BY <1>1, EndFits, PointMoves DEF CallState
<1> HIDE DEF k
<1>4. DialogTyped(dialog', rows) /\ (dialog # Closed => dialog' # Closed)
  <2>1. CASE c \notin DialogCalls
    BY <1>2, <2>1, Known
  <2>2. CASE c \in DialogCalls
    <3> DEFINE b == DialogCalls # {c}
    <3>1. dialog # Closed /\ DialogTyped(dialog, rows) /\ b \in BOOLEAN
      BY <2>2, Known, DialogCallsShow
    <3>2. dialog' = [dialog EXCEPT !.shown = Snapshot(dialog.product), !.loading = FALSE, !.raced = b]
      BY <1>2, <2>2
    <3> HIDE DEF b
    <3>3. QED
      BY <3>1, <3>2, LoadedIsTyped
  <2>3. QED
    BY <2>1, <2>2
<1>5. Grows(product, rows, product', rows') /\ ~Shows(k) /\ Fits(k, product', rows')
  BY <1>2, <1>3, SameTable DEF Shows
<1>6. QED
  BY <1>2, <1>3, <1>4, <1>5, Known, StepFits

LEMMA StartBackfillFits ==
  ASSUME IInv, NEW c \in Calls, StartBackfill(c) PROVE IInv'
<1> DEFINE begun == {p \in Products : Live(p)}
           k == [call[c] EXCEPT !.pc = "query", !.op = "backfill", !.begun = begun]
<1>1. call[c] \in Call /\ Fits(call[c], product, rows)
  BY Known
<1>2. begun \subseteq Products /\ \A p \in begun : product[p].state # "absent"
  BY DEF Live
<1>3. call' = [call EXCEPT ![c] = k] /\ UNCHANGED <<product, rows, dialog, drifted, sales, faults>>
  BY DEF StartBackfill
<1> HIDE DEF begun
<1>4. k \in Call /\ k.pc = "query" /\ k.op = "backfill" /\ k.begun = begun
  BY <1>1, <1>2 DEF Call, CallState, Operation
<1> HIDE DEF k
<1>5. Fits(k, product, rows) /\ ~Shows(k)
  BY <1>2, <1>4 DEF Fits, OpFits, ProductFits, StockFits, RowFits, Mirrors, Shows
<1>6. QED
  BY <1>3, <1>4, <1>5, Known, QuietFits

LEMMA BackfillQueryFits ==
  ASSUME IInv, NEW c \in Calls, BackfillQuery(c) PROVE IInv'
<1>1. /\ call[c] \in Call /\ Fits(call[c], product, rows) /\ call[c].pc = "query"
  BY Known DEF BackfillQuery, At
<1>2. UNCHANGED <<product, rows, dialog, drifted, sales, faults>>
  BY DEF BackfillQuery
<1>3. CASE Goto(c, "done")
  BY <1>1, <1>2, <1>3, Known, GotoEnd
<1>4. ASSUME NEW batch \in SUBSET Rowless, batch # {},
             call' = [call EXCEPT ![c] =
               [@ EXCEPT !.pc = "filling", !.batch = Cardinality(batch), !.clean = TRUE,
                         !.todo = [p \in Products |-> IF p \in batch THEN product[p].stock ELSE NoStock]]]
      PROVE  IInv'
  <2> DEFINE todo == [p \in Products |-> IF p \in batch THEN product[p].stock ELSE NoStock]
             k == [call[c] EXCEPT !.pc = "filling", !.batch = Cardinality(batch), !.clean = TRUE,
                                  !.todo = todo]
  <2>1. batch \subseteq Products /\ \A p \in batch : product[p].state # "absent"
    BY <1>4 DEF Rowless, Live
  <2>2. Cardinality(batch) \in Nat /\ Cardinality(batch) > 0
    <3>1. IsFiniteSet(batch)
      BY <2>1, CatalogueAssumption, FS_Subset
    <3>2. QED
      BY <1>4, <3>1, FS_CardinalityType, FS_EmptySet
  <2>3. todo \in [Products -> Int \cup {NoStock}]
    BY <2>1, Known DEF Product
  <2>4. \A p \in Products : todo[p] # NoStock => product[p].state # "absent"
    BY <2>1
  <2>5. call' = [call EXCEPT ![c] = k]
    BY <1>4
  <2> HIDE DEF todo
  <2>6. /\ k \in Call /\ k.pc = "filling" /\ k.op = call[c].op /\ k.batch = Cardinality(batch)
        /\ k.todo = todo /\ k.begun = call[c].begun
    BY <1>1, <2>2, <2>3 DEF Call, CallState
  <2> HIDE DEF k
  <2>7. call[c].op = "backfill"
    BY <1>1 DEF Fits, OpFits
  <2>8. Fits(k, product, rows) /\ ~Shows(k)
    BY <1>1, <2>2, <2>4, <2>6, <2>7 DEF Fits, OpFits, ProductFits, StockFits, RowFits, Mirrors, Shows
  <2>9. QED
    BY <1>2, <2>5, <2>6, <2>8, Known, QuietFits
<1>5. QED
  BY <1>3, <1>4 DEF BackfillQuery

LEMMA BackfillOneFits ==
  ASSUME IInv, NEW c \in Calls, NEW p \in Products, BackfillOne(c, p) PROVE IInv'
<1> DEFINE stock == call[c].todo[p]
           failed == call[c].failed
           k1 == [call[c] EXCEPT !.todo[p] = NoStock, !.created = call[c].created + 1]
           k2 == [call[c] EXCEPT !.todo[p] = NoStock,
                         !.failed = IF failed < Cardinality(Products) THEN failed + 1 ELSE failed]
<1>1. /\ call[c] \in Call /\ Fits(call[c], product, rows) /\ call[c].pc = "filling"
      /\ stock # NoStock /\ UNCHANGED <<product, dialog, sales, faults>>
  BY Known DEF BackfillOne, At
<1>2. stock \in Int /\ call[c].op = "backfill"
  BY <1>1 DEF Fits, OpFits, Call
<1>3. ASSUME NEW k \in {k1, k2}
      PROVE  k \in Call /\ Fits(k, product, rows) /\ ~Shows(k)
  <2>1. /\ k \in Call /\ k.pc = "filling" /\ k.op = call[c].op /\ k.batch = call[c].batch
        /\ k.begun = call[c].begun /\ k.todo = [call[c].todo EXCEPT ![p] = NoStock]
    <3>1. k1.created \in Nat /\ k2.failed \in Nat
      BY <1>1 DEF Call
    <3>2. CASE k = k1
      BY <1>1, <3>1, <3>2 DEF Call
    <3>3. CASE k = k2
      BY <1>1, <3>1, <3>3 DEF Call
    <3>4. QED
      BY <3>2, <3>3
  <2>2. \A q \in Products : k.todo[q] # NoStock => call[c].todo[q] # NoStock
    BY <1>1, <2>1 DEF Call
  <2>3. Fits(k, product, rows) /\ ~Shows(k)
    BY <1>1, <1>2, <2>1, <2>2 DEF Fits, OpFits, ProductFits, StockFits, RowFits, Mirrors, Shows
  <2>4. QED
    BY <2>1, <2>3
<1>4. CASE /\ rows' = Append(rows, NewRow(p, {}, stock))
           /\ call' = [call EXCEPT ![c] = k1]
           /\ drifted' = IF call[c].clean THEN drifted \ {p} ELSE drifted \cup {p}
  <2>1. NewRow(p, {}, stock) \in Row
    BY <1>2, NewRowIsRow
  <2>2. rows' \in Seq(Row) /\ Grows(product, rows, product', rows')
    BY <1>1, <1>4, <2>1, Known, RowInserted
  <2>3. k1 \in Call /\ Fits(k1, product, rows) /\ ~Shows(k1)
    BY <1>3
  <2> HIDE DEF k1
  <2>4. DialogTyped(dialog', rows') /\ Fits(k1, product', rows')
    BY <1>1, <2>2, <2>3, Known, DialogStays, FitsStays
  <2>5. drifted' \subseteq Products
    BY <1>4, Known
  <2>6. QED
    BY <1>1, <1>4, <2>2, <2>3, <2>4, <2>5, Known, StepFits
<1>5. CASE call' = [call EXCEPT ![c] = k2] /\ UNCHANGED <<rows, drifted>>
  <2>1. k2 \in Call /\ Fits(k2, product, rows) /\ ~Shows(k2)
    BY <1>3
  <2> HIDE DEF k2
  <2>2. QED
    BY <1>1, <1>5, <2>1, Known, QuietFits
<1>6. \/ /\ rows' = Append(rows, NewRow(p, {}, stock))
         /\ call' = [call EXCEPT ![c] = k1]
         /\ drifted' = IF call[c].clean THEN drifted \ {p} ELSE drifted \cup {p}
      \/ call' = [call EXCEPT ![c] = k2] /\ UNCHANGED <<rows, drifted>>
  BY Known DEF BackfillOne
<1> HIDE DEF stock, k1, k2
<1>7. QED
  BY <1>4, <1>5, <1>6

LEMMA BackfillBatchEndsFits ==
  ASSUME IInv, NEW c \in Calls, BackfillBatchEnds(c) PROVE IInv'
<1>1. /\ call[c] \in Call /\ Fits(call[c], product, rows) /\ call[c].pc = "filling"
      /\ UNCHANGED <<product, rows, dialog, drifted, sales, faults>>
  BY Known DEF BackfillBatchEnds, At
<1>2. CASE Goto(c, "done")
  BY <1>1, <1>2, Known, GotoEnd
<1>3. CASE Goto(c, "query")
  <2> DEFINE k == [call[c] EXCEPT !.pc = "query"]
  <2>1. k.pc = "query" /\ k.op = call[c].op /\ k.begun = call[c].begun
    BY <1>1 DEF Call
  <2> HIDE DEF k
  <2>2. Fits(k, product, rows)
    BY <1>1, <2>1 DEF Fits, OpFits, ProductFits, StockFits, RowFits, Mirrors
  <2>3. Fits([call[c] EXCEPT !.pc = "query"], product, rows) /\ "query" \in CallState
    BY <2>2 DEF k, CallState
  <2>4. QED
    BY <1>1, <1>3, <2>3, Known, GotoFits
<1>4. QED
  BY <1>2, <1>3 DEF BackfillBatchEnds

LEMMA FailFits ==
  ASSUME IInv, NEW c \in Calls, Fail(c) PROVE IInv'
<1> DEFINE pc == IF Does(c, "set") /\ call[c].pc \in {"checking", "writing"} THEN "reloading" ELSE "threw"
           k == [call[c] EXCEPT !.pc = pc]
<1>1. /\ call[c] \in Call /\ Fits(call[c], product, rows)
      /\ call[c].pc \notin {"idle", "done", "threw"}
  BY Known DEF Fail
<1>2. /\ call' = [call EXCEPT ![c] = k] /\ UNCHANGED <<product, rows, sales>>
      /\ faults' = faults + 1 /\ faults < MaxFaults
      /\ drifted' = IF call[c].pc \in {"mirroring", "mirrorFound"} THEN drifted \cup {call[c].product}
                    ELSE drifted
      /\ \/ dialog' = LoadsAgain(c) \/ dialog' = dialog
         \/ c \in DialogCalls /\ dialog' = [dialog EXCEPT !.raced = TRUE, !.loading = FALSE]
  BY Known DEF Fail, Goto
<1>3. pc \in {"reloading", "threw"} /\ (pc = "reloading" => call[c].op = "set")
  BY DEF Does
<1> HIDE DEF pc
<1>4. /\ k \in Call /\ k.pc = pc /\ k.op = call[c].op /\ k.product = call[c].product
      /\ k.row = call[c].row /\ k.stock = call[c].stock /\ k.clean = call[c].clean
      /\ k.begun = call[c].begun
  BY <1>1, <1>3 DEF Call, CallState
<1> HIDE DEF k
<1>5. Fits(k, product, rows)
  BY <1>1, <1>3, <1>4 DEF Fits, OpFits, ProductFits, StockFits, RowFits, Mirrors
<1>6. Shows(k) => Shows(call[c])
  BY <1>1, <1>4 DEF Shows
<1>7. DialogTyped(dialog', rows) /\ (dialog # Closed => dialog' # Closed)
  <2>1. CASE c \in DialogCalls /\ dialog' = [dialog EXCEPT !.raced = TRUE, !.loading = FALSE]
    <3>1. dialog # Closed /\ TRUE \in BOOLEAN /\ FALSE \in BOOLEAN /\ DialogTyped(dialog, rows)
      BY <2>1, Known, DialogCallsShow
    <3>2. dialog' = Marked(dialog, FALSE, TRUE)
      BY <2>1, <3>1 DEF Marked, DialogTyped
    <3>3. QED
      BY <3>1, <3>2, OpenMarked
  <2>2. CASE dialog' = LoadsAgain(c) \/ dialog' = dialog
    <3>1. DialogTyped(dialog, rows) /\ (Shows(call[c]) => dialog # Closed)
      BY Known
    <3>2. QED
      BY <2>2, <3>1, LoadsMark
  <2>3. QED
    BY <1>2, <2>1, <2>2
<1>8. drifted' \subseteq Products
  BY <1>1, <1>2, Known DEF Fits, ProductFits, Mirrors
<1>9. faults' \in 0..MaxFaults
  BY <1>2, Known, CatalogueAssumption
<1>10. Grows(product, rows, product', rows') /\ Fits(k, product', rows') /\ DialogTyped(dialog', rows')
  BY <1>2, <1>5, <1>7, SameTable
<1>11. Shows(k) => dialog' # Closed
  BY <1>4, <1>6, <1>7, Known
<1>12. QED
  BY <1>2, <1>4, <1>7, <1>8, <1>9, <1>10, <1>11, Known, StepFits

-----------------------------------------------------------------------------
(* The theorem *)

LEMMA NextFits == IInv /\ [Next]_vars => IInv'
<1> SUFFICES ASSUME IInv, [Next]_vars PROVE IInv'
  OBVIOUS
<1>1. CASE UNCHANGED vars
  BY <1>1 DEF vars, IInv, TypeOK, CallsFit, DialogFits
<1>2. ASSUME NEW c \in Calls, Start(c) PROVE IInv'
  <2>1. ASSUME NEW entry \in Typed, StartAdd(c, entry[1], entry[2]) PROVE IInv'
    BY <2>1, StartAddFits DEF Typed
  <2>2. QED
    BY <1>2, <2>1, CreateProductFits, OpenFormFits, StartDeleteFits, StartSyncFits, StartSetFits,
       StartRemoveFits, StartOtherFits, StartBackfillFits DEF Start
<1>3. ASSUME NEW c \in Calls, Step(c) PROVE IInv'
  BY <1>3, SaveFormFits, CheckProductFits, WriteProductFits, DeleteProductFits, FindMirrorFits,
     WriteMirrorFits, SyncFindFits, SyncWriteFits, SyncEndFits, FindVariantFits, SaveVariantFits,
     CheckVariantFits, WriteVariantFits, ReloadFits, BackfillQueryFits, BackfillOneFits,
     BackfillBatchEndsFits DEF Step
<1>4. QED
  BY <1>1, <1>2, <1>3, FailFits, SellFits, OpenDialogFits, LoadFits, LoadFailsFits, CloseDialogFits DEF Next

LEMMA Typing == Spec => []IInv
BY InitFits, NextFits, PTL DEF Spec

(* Products, variants, calls and the dialog hold what their columns and    *)
(* fields hold: above all a stock is a number, also when the store sends   *)
(* none, and the dialog lists rows of the table.                           *)
THEOREM TypeCorrect == Spec => []TypeOK
BY Typing, PTL DEF IInv

-----------------------------------------------------------------------------
(* The table and its mirror *)

(* One row for a combination of options, in any table. *)
OneRow(rs) ==
  /\ \A i \in DOMAIN rs : rs[i].key = AttributeKey(rs[i].attributes)
  /\ \A i, j \in DOMAIN rs : rs[i].product = rs[j].product /\ rs[i].key = rs[j].key => i = j

(* A clean call holds the stock of the product it will mirror. *)
HeldBy(k, p) == IF k.pc = "filling" THEN k.todo[p] ELSE k.stock
Holds(k, ps) == \A p \in Products : Pends(k, p) /\ k.clean => HeldBy(k, p) = ps[p].stock
HoldsStock == \A c \in Calls : Holds(call[c], product)

(* The default row in use shows the stock of its product, or there is none; *)
(* failing that, a call will yet write it, or has a reason been noted.      *)
Follows(rs, stock, p) ==
  \A i \in DOMAIN rs :
    rs[i].product = p /\ rs[i].key = DefaultKey /\ rs[i].live => rs[i].stock = stock

Repairs(k, p, rs) ==
  /\ k.product = p
  /\ \/ k.pc = "mirroring"
     \/ k.pc = "mirrorFound" /\ k.row # 0 /\ rs[k.row].key = DefaultKey

Kept(p, ps, rs, cs, known) ==
  ps[p].state = "live" /\ p \notin known =>
    \/ Follows(rs, ps[p].stock, p)
    \/ \E c \in Calls : Repairs(cs[c], p, rs)

MirrorKept == \A p \in Products : Kept(p, product, rows, call, drifted)

MirrorInv == OneRow(rows) /\ HoldsStock /\ MirrorKept

(* Writing one row, or inserting one, under the unique index. *)
LEMMA WrittenUnique ==
  ASSUME NEW rs \in Seq(Row), OneRow(rs), NEW i \in DOMAIN rs, NEW row \in Row,
         row.key = AttributeKey(row.attributes),
         \A j \in DOMAIN rs \ {i} : ~(rs[j].product = row.product /\ rs[j].key = row.key)
  PROVE  OneRow([rs EXCEPT ![i] = row])
<1> DEFINE rs2 == [rs EXCEPT ![i] = row]
<1>1. DOMAIN rs2 = DOMAIN rs /\ \A j \in DOMAIN rs : rs2[j] = IF j = i THEN row ELSE rs[j]
  OBVIOUS
<1> HIDE DEF rs2
<1>2. OneRow(rs2)
  BY <1>1 DEF OneRow
<1>3. QED
  BY <1>2 DEF rs2

LEMMA InsertedUnique ==
  ASSUME NEW rs \in Seq(Row), OneRow(rs), NEW row \in Row,
         row.key = AttributeKey(row.attributes),
         \A j \in DOMAIN rs : ~(rs[j].product = row.product /\ rs[j].key = row.key)
  PROVE  OneRow(Append(rs, row))
<1> DEFINE rs2 == Append(rs, row)
<1>1. /\ DOMAIN rs2 = DOMAIN rs \cup {Len(rs) + 1} /\ Len(rs) + 1 \notin DOMAIN rs
      /\ \A j \in DOMAIN rs : rs2[j] = rs[j]
      /\ rs2[Len(rs) + 1] = row
  BY RowInserted
<1> HIDE DEF rs2
<1>2. OneRow(rs2)
  BY <1>1 DEF OneRow
<1>3. QED
  BY <1>2 DEF rs2

(* What a step of one call does not disturb. *)
Others(c) == \A d \in Calls \ {c} : call'[d] = call[d]

LEMMA GotoCalls ==
  ASSUME call \in [Calls -> Call], NEW c \in Calls, NEW pc \in CallState, Goto(c, pc)
  PROVE  /\ Others(c)
         /\ call'[c] = [call[c] EXCEPT !.pc = pc]
         /\ call'[c].pc = pc /\ call'[c].op = call[c].op /\ call'[c].product = call[c].product
         /\ call'[c].row = call[c].row /\ call'[c].stock = call[c].stock
         /\ call'[c].todo = call[c].todo /\ call'[c].clean = call[c].clean
BY DEF Goto, Others, Call

LEMMA QuietMirror ==
  ASSUME MirrorInv, NEW c \in Calls, Others(c), ~Mirrors(call[c]), Holds(call'[c], product),
         UNCHANGED <<product, rows, drifted>>
  PROVE  MirrorInv'
<1>1. \A d \in Calls : Holds(call'[d], product)
  BY DEF Others, MirrorInv, HoldsStock
<1>2. \A p \in Products : \A d \in Calls : Repairs(call[d], p, rows) => Repairs(call'[d], p, rows)
  BY DEF Others, Repairs, Mirrors
<1>3. \A p \in Products : Kept(p, product, rows, call', drifted)
  BY <1>2 DEF Kept, MirrorInv, MirrorKept
<1>4. QED
  BY <1>1, <1>3 DEF MirrorInv, HoldsStock, MirrorKept

LEMMA HoldsNothing ==
  ASSUME NEW k, NEW ps, k.pc \notin {"mirroring", "mirrorFound", "filling"} PROVE Holds(k, ps)
BY DEF Holds, Pends, Mirrors

LEMMA QuietGoto ==
  ASSUME IInv, MirrorInv, NEW c \in Calls, NEW pc \in CallState, Goto(c, pc), ~Mirrors(call[c]),
         pc \notin {"mirroring", "mirrorFound", "filling"},
         UNCHANGED <<product, rows, drifted>>
  PROVE  MirrorInv'
<1>1. Others(c) /\ call'[c].pc = pc
  BY Known, GotoCalls
<1>2. Holds(call'[c], product)
  BY <1>1, HoldsNothing
<1>3. QED
  BY <1>1, <1>2, QuietMirror

(* A call starts: nothing has been written but the product of a creation.  *)
LEMMA StartPoints ==
  ASSUME IInv, NEW c \in Calls, Start(c)
  PROVE  /\ call[c].pc = "idle" /\ Others(c) /\ UNCHANGED rows
         /\ call'[c].pc \in {"mirroring", "editing", "checking", "next", "query"}
         /\ \/ ~Shows(call'[c]) /\ UNCHANGED dialog
            \/ \E entry \in Typed : StartAdd(c, entry[1], entry[2])
            \/ \E i \in DOMAIN rows, stock \in Stocks : StartSet(c, i, stock)
            \/ \E i \in DOMAIN rows : StartRemove(c, i)
         /\ \/ call'[c].pc # "mirroring" /\ UNCHANGED <<product, drifted>>
            \/ \E p \in Products, stock \in Stocks : CreateProduct(c, p, stock)
<1> DEFINE Goal == /\ call[c].pc = "idle" /\ Others(c) /\ UNCHANGED rows
                   /\ call'[c].pc \in {"mirroring", "editing", "checking", "next", "query"}
                   /\ \/ ~Shows(call'[c]) /\ UNCHANGED dialog
                      \/ \E entry \in Typed : StartAdd(c, entry[1], entry[2])
                      \/ \E i \in DOMAIN rows, stock \in Stocks : StartSet(c, i, stock)
                      \/ \E i \in DOMAIN rows : StartRemove(c, i)
                   /\ \/ call'[c].pc # "mirroring" /\ UNCHANGED <<product, drifted>>
                      \/ \E p \in Products, stock \in Stocks : CreateProduct(c, p, stock)
<1>1. call[c] \in Call /\ call \in [Calls -> Call]
  BY Known
<1>2. ASSUME NEW p \in Products, NEW stock \in Stocks, CreateProduct(c, p, stock) PROVE Goal
  <2> DEFINE k == [call[c] EXCEPT !.pc = "mirroring", !.op = "create", !.product = p, !.stock = stock]
  <2>1. call' = [call EXCEPT ![c] = k] /\ k.pc = "mirroring" /\ k.op = "create" /\ k.clean = call[c].clean
    BY <1>1, <1>2 DEF CreateProduct, Call
  <2> HIDE DEF k
  <2>2. call[c].pc = "idle" /\ UNCHANGED rows /\ UNCHANGED dialog
    BY <1>2 DEF CreateProduct, At
  <2>3. Others(c) /\ call'[c] = k
    BY <1>1, <2>1 DEF Others
  <2>4. QED
    BY <1>2, <2>1, <2>2, <2>3 DEF Shows
<1>3. ASSUME NEW p \in Products, OpenForm(c, p) PROVE Goal
  <2> DEFINE k == [call[c] EXCEPT !.pc = "editing", !.op = "update", !.product = p, !.stock = product[p].stock]
  <2>1. call' = [call EXCEPT ![c] = k] /\ k.pc = "editing" /\ k.op = "update" /\ k.clean = call[c].clean
    BY <1>1, <1>3 DEF OpenForm, Call
  <2> HIDE DEF k
  <2>2. call[c].pc = "idle" /\ UNCHANGED rows /\ UNCHANGED dialog /\ UNCHANGED <<product, drifted>>
    BY <1>3 DEF OpenForm, At
  <2>3. Others(c) /\ call'[c] = k
    BY <1>1, <2>1 DEF Others
  <2>4. QED
    BY <1>3, <2>1, <2>2, <2>3 DEF Shows
<1>4. ASSUME NEW p \in Products, StartDelete(c, p) PROVE Goal
  <2> DEFINE k == [call[c] EXCEPT !.pc = "checking", !.op = "delete", !.product = p]
  <2>1. call' = [call EXCEPT ![c] = k] /\ k.pc = "checking" /\ k.op = "delete" /\ k.clean = call[c].clean
    BY <1>1, <1>4 DEF StartDelete, Call
  <2> HIDE DEF k
  <2>2. call[c].pc = "idle" /\ UNCHANGED rows /\ UNCHANGED dialog /\ UNCHANGED <<product, drifted>>
    BY <1>4 DEF StartDelete, At
  <2>3. Others(c) /\ call'[c] = k
    BY <1>1, <2>1 DEF Others
  <2>4. QED
    BY <1>4, <2>1, <2>2, <2>3 DEF Shows
<1>5. ASSUME NEW offered \in Offered, StartSync(c, offered) PROVE Goal
  <2> DEFINE k == [call[c] EXCEPT !.pc = "next", !.op = "sync", !.todo = offered]
  <2>1. call' = [call EXCEPT ![c] = k] /\ k.pc = "next" /\ k.op = "sync" /\ k.clean = call[c].clean
    BY <1>1, <1>5 DEF StartSync, Call
  <2> HIDE DEF k
  <2>2. call[c].pc = "idle" /\ UNCHANGED rows /\ UNCHANGED dialog /\ UNCHANGED <<product, drifted>>
    BY <1>5 DEF StartSync, At
  <2>3. Others(c) /\ call'[c] = k
    BY <1>1, <2>1 DEF Others
  <2>4. QED
    BY <1>5, <2>1, <2>2, <2>3 DEF Shows
<1>6. ASSUME NEW entry \in Typed, StartAdd(c, entry[1], entry[2]) PROVE Goal
  <2> DEFINE k == [call[c] EXCEPT !.pc = "checking", !.op = "add", !.product = dialog.product,
                                  !.attributes = entry[1], !.stock = entry[2]]
  <2>1. call' = [call EXCEPT ![c] = k] /\ k.pc = "checking" /\ k.op = "add" /\ k.clean = call[c].clean
    BY <1>1, <1>6 DEF StartAdd, Call
  <2> HIDE DEF k
  <2>2. call[c].pc = "idle" /\ UNCHANGED rows /\ UNCHANGED <<product, drifted>>
    BY <1>6 DEF StartAdd, At
  <2>3. Others(c) /\ call'[c] = k
    BY <1>1, <2>1 DEF Others
  <2>4. QED
    BY <1>6, <2>1, <2>2, <2>3
<1>7. ASSUME NEW i \in DOMAIN rows, NEW stock \in Stocks, StartSet(c, i, stock) PROVE Goal
  <2> DEFINE k == [call[c] EXCEPT !.pc = "checking", !.op = "set", !.row = i, !.stock = stock]
  <2>1. call' = [call EXCEPT ![c] = k] /\ k.pc = "checking" /\ k.op = "set" /\ k.clean = call[c].clean
    BY <1>1, <1>7 DEF StartSet, Call
  <2> HIDE DEF k
  <2>2. call[c].pc = "idle" /\ UNCHANGED rows /\ UNCHANGED <<product, drifted>>
    BY <1>7 DEF StartSet, At
  <2>3. Others(c) /\ call'[c] = k
    BY <1>1, <2>1 DEF Others
  <2>4. \E j \in DOMAIN rows, n \in Stocks : StartSet(c, j, n)
    BY <1>7
  <2>5. QED
    BY <2>1, <2>2, <2>3, <2>4
<1>8. ASSUME NEW i \in DOMAIN rows, StartRemove(c, i) PROVE Goal
  <2> DEFINE k == [call[c] EXCEPT !.pc = "checking", !.op = "remove", !.row = i]
  <2>1. call' = [call EXCEPT ![c] = k] /\ k.pc = "checking" /\ k.op = "remove" /\ k.clean = call[c].clean
    BY <1>1, <1>8 DEF StartRemove, Call
  <2> HIDE DEF k
  <2>2. call[c].pc = "idle" /\ UNCHANGED rows /\ UNCHANGED <<product, drifted>>
    BY <1>8 DEF StartRemove, At
  <2>3. Others(c) /\ call'[c] = k
    BY <1>1, <2>1 DEF Others
  <2>4. \E j \in DOMAIN rows : StartRemove(c, j)
    BY <1>8
  <2>5. QED
    BY <2>1, <2>2, <2>3, <2>4
<1>9. ASSUME StartOther(c) PROVE Goal
  <2>0. PICK request \in Call : Asks(c, request)
    BY <1>9, OtherAsks
  <2> DEFINE k == [request EXCEPT !.pc = "checking", !.clean = FALSE]
  <2>1. call' = [call EXCEPT ![c] = k] /\ k.pc = "checking" /\ k.clean = FALSE
    BY <2>0 DEF Asks, Call
  <2> HIDE DEF k
  <2>2. call[c].pc = "idle" /\ UNCHANGED rows /\ UNCHANGED dialog /\ UNCHANGED <<product, drifted>>
    BY <1>9 DEF StartOther, At
  <2>3. Others(c) /\ call'[c] = k
    BY <1>1, <2>1 DEF Others
  <2>4. QED
    BY <1>9, <2>1, <2>2, <2>3 DEF Shows
<1>10. ASSUME StartBackfill(c) PROVE Goal
  <2> DEFINE k == [call[c] EXCEPT !.pc = "query", !.op = "backfill", !.begun = {p \in Products : Live(p)}]
  <2>1. call' = [call EXCEPT ![c] = k] /\ k.pc = "query" /\ k.op = "backfill" /\ k.clean = call[c].clean
    BY <1>1, <1>10 DEF StartBackfill, Call
  <2> HIDE DEF k
  <2>2. call[c].pc = "idle" /\ UNCHANGED rows /\ UNCHANGED dialog /\ UNCHANGED <<product, drifted>>
    BY <1>10 DEF StartBackfill, At
  <2>3. Others(c) /\ call'[c] = k
    BY <1>1, <2>1 DEF Others
  <2>4. QED
    BY <1>10, <2>1, <2>2, <2>3 DEF Shows
<1> HIDE DEF Goal
<1>11. Goal
  BY <1>2, <1>3, <1>4, <1>5, <1>6, <1>7, <1>8, <1>9, <1>10 DEF Start
<1>12. QED
  BY <1>11 DEF Goal

LEMMA StartsKeepMirror ==
  ASSUME IInv, MirrorInv, NEW c \in Calls, Start(c),
         ~ \E p \in Products, stock \in Stocks : CreateProduct(c, p, stock)
  PROVE  MirrorInv'
<1>1. /\ call[c].pc = "idle" /\ Others(c) /\ UNCHANGED <<rows, product, drifted>>
      /\ call'[c].pc \in {"editing", "checking", "next", "query"}
  BY StartPoints
<1>2. Holds(call'[c], product) /\ ~Mirrors(call[c])
  BY <1>1, HoldsNothing DEF Mirrors
<1>3. QED
  BY <1>1, <1>2, QuietMirror

LEMMA PointsKeepMirror ==
  ASSUME IInv, MirrorInv, NEW c \in Calls,
         \/ SaveForm(c) \/ CheckProduct(c) \/ SyncEnd(c) \/ FindVariant(c) \/ CheckVariant(c)
         \/ Reload(c) \/ BackfillBatchEnds(c)
         \/ \E p \in Products : SyncFind(c, p)
  PROVE  MirrorInv'
<1>1. call[c] \in Call /\ call \in [Calls -> Call]
  BY Known
<1>2. /\ call[c].pc \in {"editing", "checking", "next", "finding", "reloading", "filling"}
      /\ UNCHANGED <<product, rows, drifted>>
  BY DEF SaveForm, CheckProduct, SyncEnd, FindVariant, CheckVariant, Reload, BackfillBatchEnds, SyncFind, At
<1>3. ~Mirrors(call[c])
  BY <1>2 DEF Mirrors
<1> DEFINE Free == {"threw", "checking", "finding", "writing", "done", "reloading", "query", "saving", "upserting"}
<1>4. ASSUME NEW pc \in Free, Goto(c, pc) PROVE MirrorInv'
  <2>1. pc \in CallState /\ pc \notin {"mirroring", "mirrorFound", "filling"}
    BY DEF CallState
  <2>2. QED
    BY <1>2, <1>3, <1>4, <2>1, QuietGoto
<1>5. ASSUME NEW k, k.pc \in Free, call' = [call EXCEPT ![c] = k] PROVE MirrorInv'
  <2>1. Others(c) /\ call'[c] = k
    BY <1>1, <1>5 DEF Others
  <2>2. Holds(call'[c], product)
    BY <1>5, <2>1, HoldsNothing
  <2>3. QED
    BY <1>2, <1>3, <2>1, <2>2, QuietMirror
<1>6. ASSUME SaveForm(c) PROVE MirrorInv'
  <2>1. PICK typed \in Stocks \cup {call[c].stock} :
          call' = [call EXCEPT ![c] = [@ EXCEPT !.pc = IF Refused(typed) THEN "threw" ELSE "checking",
                                               !.stock = typed]]
    BY <1>6 DEF SaveForm
  <2> DEFINE k == [call[c] EXCEPT !.pc = IF Refused(typed) THEN "threw" ELSE "checking", !.stock = typed]
  <2>2. call' = [call EXCEPT ![c] = k] /\ k.pc \in Free
    BY <1>1, <2>1 DEF Call
  <2> HIDE DEF k, Free
  <2>3. QED
    BY <1>5, <2>2
<1>7. ASSUME CheckProduct(c) PROVE MirrorInv'
  <2>1. \E pc \in Free : Goto(c, pc)
    <3>1. Goto(c, IF ~Live(call[c].product) THEN "threw" ELSE IF Does(c, "add") THEN "finding" ELSE "writing")
      BY <1>7 DEF CheckProduct
    <3>2. QED
      BY <3>1
  <2>2. QED
    BY <1>4, <2>1
<1>8. ASSUME SyncEnd(c) PROVE MirrorInv'
  BY <1>4, <1>8 DEF SyncEnd
<1>9. ASSUME FindVariant(c) PROVE MirrorInv'
  <2> DEFINE i == Find(call[c].product, AttributeKey(call[c].attributes))
             k == [call[c] EXCEPT !.pc = "saving", !.row = i]
  <2>1. Goto(c, "threw") \/ call' = [call EXCEPT ![c] = k]
    BY <1>9 DEF FindVariant, Throw
  <2>2. k.pc \in Free
    BY <1>1 DEF Call
  <2> HIDE DEF k
  <2>3. QED
    BY <1>4, <1>5, <2>1, <2>2
<1>10. ASSUME CheckVariant(c) PROVE MirrorInv'
  <2>1. \E pc \in Free : Goto(c, pc)
    <3>1. Goto(c, IF rows[call[c].row].live THEN "writing"
                 ELSE IF Does(c, "set") THEN "reloading" ELSE "threw")
      BY <1>10 DEF CheckVariant
    <3>2. QED
      BY <3>1
  <2>2. QED
    BY <1>4, <2>1
<1>11. ASSUME Reload(c) PROVE MirrorInv'
  BY <1>4, <1>11 DEF Reload
<1>12. ASSUME BackfillBatchEnds(c) PROVE MirrorInv'
  BY <1>4, <1>12 DEF BackfillBatchEnds
<1>13. ASSUME NEW p \in Products, SyncFind(c, p) PROVE MirrorInv'
  <2> DEFINE k == [call[c] EXCEPT !.pc = "upserting", !.product = p, !.clean = TRUE,
                                  !.stock = call[c].todo[p], !.todo[p] = NoStock,
                                  !.row = IF product[p].state = "absent" THEN 0 ELSE 1]
  <2>1. call' = [call EXCEPT ![c] = k] /\ k.pc \in Free
    BY <1>1, <1>13 DEF SyncFind, Call
  <2> HIDE DEF k, Free
  <2>2. QED
    BY <1>5, <2>1
<1>14. QED
  BY <1>6, <1>7, <1>8, <1>9, <1>10, <1>11, <1>12, <1>13

LEMMA BackfillQueryKeepsMirror ==
  ASSUME IInv, MirrorInv, NEW c \in Calls, BackfillQuery(c) PROVE MirrorInv'
<1>1. call[c] \in Call /\ call \in [Calls -> Call] /\ call[c].pc = "query"
      /\ UNCHANGED <<product, rows, drifted>>
  BY Known DEF BackfillQuery, At
<1>2. ~Mirrors(call[c])
  BY <1>1 DEF Mirrors
<1>3. CASE Goto(c, "done")
  BY <1>1, <1>2, <1>3, QuietGoto DEF CallState
<1>4. ASSUME NEW batch \in SUBSET Rowless,
             call' = [call EXCEPT ![c] =
               [@ EXCEPT !.pc = "filling", !.batch = Cardinality(batch), !.clean = TRUE,
                         !.todo = [p \in Products |-> IF p \in batch THEN product[p].stock ELSE NoStock]]]
      PROVE  MirrorInv'
  <2> DEFINE todo == [p \in Products |-> IF p \in batch THEN product[p].stock ELSE NoStock]
             k == [call[c] EXCEPT !.pc = "filling", !.batch = Cardinality(batch), !.clean = TRUE,
                                  !.todo = todo]
  <2>1. call' = [call EXCEPT ![c] = k] /\ k.pc = "filling" /\ k.todo = todo
    BY <1>1, <1>4 DEF Call
  <2>2. \A p \in Products : todo[p] # NoStock => todo[p] = product[p].stock
    OBVIOUS
  <2> HIDE DEF todo, k
  <2>3. Others(c) /\ call'[c] = k
    BY <1>1, <2>1 DEF Others
  <2>4. Holds(call'[c], product)
    BY <2>1, <2>2, <2>3 DEF Holds, Pends, HeldBy, Mirrors
  <2>5. QED
    BY <1>1, <1>2, <2>3, <2>4, QuietMirror
<1>5. QED
  BY <1>3, <1>4 DEF BackfillQuery

(* A read of the mirror's row: without one, nothing differs. *)
LEMMA FindMirrorKeepsMirror ==
  ASSUME IInv, MirrorInv, NEW c \in Calls, FindMirror(c) PROVE MirrorInv'
<1> DEFINE p == call[c].product
           i == RowAt(rows, p, DefaultKey)
           k == [call[c] EXCEPT !.pc = "mirrorFound", !.row = i]
<1>1. call[c] \in Call /\ call \in [Calls -> Call] /\ call[c].pc = "mirroring"
      /\ UNCHANGED <<product, rows, drifted>>
  BY Known DEF FindMirror, At
<1>2. call' = [call EXCEPT ![c] = k]
  BY FindIsRowAt DEF FindMirror
<1>3. \/ i = 0 /\ \A j \in DOMAIN rows : ~(rows[j].product = p /\ rows[j].key = DefaultKey)
      \/ i \in DOMAIN rows /\ rows[i].key = DefaultKey
  BY RowAtFinds
<1> HIDE DEF i
<1>4. k.pc = "mirrorFound" /\ k.product = p /\ k.row = i /\ k.stock = call[c].stock
      /\ k.clean = call[c].clean
  BY <1>1 DEF Call
<1> HIDE DEF k
<1>5. Others(c) /\ call'[c] = k
  BY <1>1, <1>2 DEF Others
<1>6. i \in DOMAIN rows => i # 0
  BY Known
<1>7. \A d \in Calls : Holds(call'[d], product)
  <2>1. Holds(k, product)
    BY <1>1, <1>4 DEF MirrorInv, HoldsStock, Holds, Pends, HeldBy, Mirrors
  <2>2. QED
    BY <1>5, <2>1 DEF Others, MirrorInv, HoldsStock
<1>8. ASSUME NEW q \in Products PROVE Kept(q, product, rows, call', drifted)
  <2>1. Kept(q, product, rows, call, drifted)
    BY DEF MirrorInv, MirrorKept
  <2>2. \A d \in Calls \ {c} : Repairs(call[d], q, rows) => Repairs(call'[d], q, rows)
    BY <1>5 DEF Others
  <2>3. Repairs(call[c], q, rows) => Repairs(call'[c], q, rows) \/ Follows(rows, product[q].stock, q)
    BY <1>1, <1>3, <1>4, <1>5, <1>6 DEF Repairs, Follows
  <2>4. QED
    BY <2>1, <2>2, <2>3 DEF Kept
<1>9. QED
  BY <1>1, <1>7, <1>8 DEF MirrorInv, HoldsStock, MirrorKept

-----------------------------------------------------------------------------
(* The writes *)

(* A failed access of a call: a value it held is noted as lost.            *)
LEMMA FailKeepsMirror ==
  ASSUME IInv, MirrorInv, NEW c \in Calls, Fail(c) PROVE MirrorInv'
<1> DEFINE pc == IF Does(c, "set") /\ call[c].pc \in {"checking", "writing"} THEN "reloading" ELSE "threw"
<1>1. pc \in {"reloading", "threw"} /\ pc \in CallState
  BY DEF CallState
<1>2. /\ Goto(c, pc) /\ UNCHANGED <<product, rows>>
      /\ drifted' = IF call[c].pc \in {"mirroring", "mirrorFound"} THEN drifted \cup {call[c].product}
                    ELSE drifted
  BY DEF Fail
<1> HIDE DEF pc
<1>3. Others(c) /\ call'[c].pc = pc
  BY <1>1, <1>2, Known, GotoCalls
<1>4. \A d \in Calls : Holds(call'[d], product)
  <2>1. Holds(call'[c], product)
    BY <1>1, <1>3, HoldsNothing
  <2>2. QED
    BY <1>3, <2>1 DEF Others, MirrorInv, HoldsStock
<1>5. ASSUME NEW p \in Products PROVE Kept(p, product, rows, call', drifted')
  <2>1. Kept(p, product, rows, call, drifted)
    BY DEF MirrorInv, MirrorKept
  <2>2. \A d \in Calls \ {c} : Repairs(call[d], p, rows) => Repairs(call'[d], p, rows)
    BY <1>3 DEF Others
  <2>3. Repairs(call[c], p, rows) => p \in drifted'
    BY <1>2 DEF Repairs
  <2>4. p \notin drifted' => p \notin drifted
    BY <1>2
  <2>5. QED
    BY <2>1, <2>2, <2>3, <2>4 DEF Kept
<1>6. QED
  BY <1>2, <1>4, <1>5 DEF MirrorInv, HoldsStock, MirrorKept

LEMMA DeleteKeepsMirror ==
  ASSUME IInv, MirrorInv, NEW c \in Calls, DeleteProduct(c) PROVE MirrorInv'
<1>1. /\ product' = [product EXCEPT ![call[c].product].state = "deleted"] /\ Goto(c, "done")
      /\ UNCHANGED <<rows, drifted>> /\ call[c].pc = "writing"
  BY DEF DeleteProduct, At
<1>2. Others(c) /\ call'[c].pc = "done"
  BY <1>1, Known, GotoCalls DEF CallState
<1>3. \A p \in Products : product'[p].stock = product[p].stock
                          /\ (product'[p].state = "live" => product[p].state = "live")
  BY <1>1, Known DEF Product
<1>4. \A d \in Calls : Holds(call'[d], product')
  <2>1. Holds(call'[c], product')
    BY <1>2, HoldsNothing
  <2>2. \A d \in Calls \ {c} : Holds(call'[d], product')
    BY <1>2, <1>3 DEF Others, MirrorInv, HoldsStock, Holds
  <2>3. QED
    BY <2>1, <2>2
<1>5. ASSUME NEW p \in Products PROVE Kept(p, product', rows, call', drifted)
  <2>1. Kept(p, product, rows, call, drifted)
    BY DEF MirrorInv, MirrorKept
  <2>2. \A d \in Calls : Repairs(call[d], p, rows) => Repairs(call'[d], p, rows)
    BY <1>1, <1>2 DEF Others, Repairs
  <2>3. QED
    BY <1>3, <2>1, <2>2 DEF Kept
<1>6. QED
  BY <1>1, <1>4, <1>5 DEF MirrorInv, HoldsStock, MirrorKept

(* A call writes the stock of a product and will mirror it.                *)
LEMMA StockWritten ==
  ASSUME IInv, MirrorInv, NEW c \in Calls, NEW p \in Products, NEW calls \in [Calls -> Call], NEW k,
         k.pc = "mirroring", k.product = p, k.stock = product'[p].stock,
         call' = [calls EXCEPT ![c] = k], UNCHANGED <<rows, drifted>>, ~Mirrors(call[c]),
         \A q \in Products \ {p} : product'[q] = product[q],
         \A d \in Calls : \/ calls[d] = call[d] /\ ~Pends(call[d], p)
                          \/ calls[d] = [call[d] EXCEPT !.clean = FALSE]
  PROVE  MirrorInv'
<1>1. call'[c] = k /\ \A d \in Calls \ {c} : call'[d] = calls[d]
  OBVIOUS
<1>2. ASSUME NEW d \in Calls PROVE Holds(call'[d], product')
  <2>1. CASE d = c
    BY <1>1, <2>1 DEF Holds, Pends, HeldBy, Mirrors
  <2>2. CASE d # c /\ calls[d] = call[d] /\ ~Pends(call[d], p)
    BY <1>1, <2>2 DEF MirrorInv, HoldsStock, Holds
  <2>3. CASE d # c /\ calls[d] = [call[d] EXCEPT !.clean = FALSE]
    <3>1. call'[d].clean = FALSE
      BY <1>1, <2>3, Known DEF Call
    <3>2. QED
      BY <3>1 DEF Holds
  <2>4. QED
    BY <2>1, <2>2, <2>3
<1>3. \A d \in Calls \ {c} : call'[d].pc = call[d].pc /\ call'[d].product = call[d].product
                             /\ call'[d].row = call[d].row
  <2> TAKE d \in Calls \ {c}
  <2>1. CASE calls[d] = call[d]
    BY <1>1, <2>1
  <2>2. CASE calls[d] = [call[d] EXCEPT !.clean = FALSE]
    BY <1>1, <2>2, Known DEF Call
  <2>3. QED
    BY <2>1, <2>2
<1>4. ASSUME NEW q \in Products PROVE Kept(q, product', rows, call', drifted)
  <2>1. CASE q = p
    BY <1>1, <2>1 DEF Kept, Repairs
  <2>2. CASE q # p
    <3>1. Kept(q, product, rows, call, drifted) /\ product'[q] = product[q]
      BY <2>2 DEF MirrorInv, MirrorKept
    <3>2. \A d \in Calls : Repairs(call[d], q, rows) => Repairs(call'[d], q, rows)
      BY <1>3 DEF Repairs, Mirrors
    <3>3. QED
      BY <3>1, <3>2 DEF Kept
  <2>3. QED
    BY <2>1, <2>2
<1>5. QED
  BY <1>2, <1>4 DEF MirrorInv, HoldsStock, MirrorKept

LEMMA CreateKeepsMirror ==
  ASSUME IInv, MirrorInv, NEW c \in Calls, NEW p \in Products, NEW stock \in Stocks,
         CreateProduct(c, p, stock)
  PROVE  MirrorInv'
<1> DEFINE k == [call[c] EXCEPT !.pc = "mirroring", !.op = "create", !.product = p, !.stock = stock]
<1>1. /\ call[c] \in Call /\ call \in [Calls -> Call] /\ call[c].pc = "idle"
      /\ product[p].state = "absent"
      /\ product' = [product EXCEPT ![p] = [state |-> "live", stock |-> stock]]
      /\ UNCHANGED <<rows, drifted>>
  BY Known DEF CreateProduct, At
<1>2. call' = [call EXCEPT ![c] = k] /\ k.pc = "mirroring" /\ k.product = p /\ k.stock = stock
  BY <1>1 DEF CreateProduct, Call
<1> HIDE DEF k
<1>3. product'[p].stock = stock /\ \A q \in Products \ {p} : product'[q] = product[q]
  BY <1>1, Known
<1>4. \A d \in Calls : ~Pends(call[d], p)
  <2> TAKE d \in Calls
  <2>1. Fits(call[d], product, rows)
    BY Known
  <2>2. QED
    BY <1>1, <2>1 DEF Pends, Fits, ProductFits
<1>5. ~Mirrors(call[c])
  BY <1>1 DEF Mirrors
<1>6. QED
  BY <1>1, <1>2, <1>3, <1>4, <1>5, StockWritten

LEMMA UpdateKeepsMirror ==
  ASSUME IInv, MirrorInv, NEW c \in Calls, NEW p \in Products, p = call[c].product,
         call[c].pc \in {"writing", "upserting"},
         product'[p].stock = call[c].stock, \A q \in Products \ {p} : product'[q] = product[q],
         call' = [Outdated(call, {p}) EXCEPT ![c].pc = "mirroring"], UNCHANGED <<rows, drifted>>
  PROVE  MirrorInv'
<1> DEFINE k == [call[c] EXCEPT !.pc = "mirroring"]
           calls == Outdated(call, {p})
<1>1. call[c] \in Call /\ call \in [Calls -> Call]
  BY Known
<1>2. calls \in [Calls -> Call]
      /\ \A d \in Calls : \/ calls[d] = call[d] /\ ~Pends(call[d], p)
                          \/ calls[d] = [call[d] EXCEPT !.clean = FALSE]
  <2>1. {p} \in SUBSET Products
    OBVIOUS
  <2>2. QED
    BY <1>1, <2>1, OutdatedCalls
<1>3. calls[c] = call[c] /\ ~Mirrors(call[c])
  <2>1. ~Pends(call[c], p) /\ {p} \in SUBSET Products
    BY DEF Pends, Mirrors
  <2>2. QED
    BY <1>1, <2>1, OutdatedCalls DEF Mirrors
<1> HIDE DEF calls
<1>4. call' = [calls EXCEPT ![c] = k] /\ k.pc = "mirroring" /\ k.product = p /\ k.stock = call[c].stock
  BY <1>1, <1>2, <1>3 DEF calls, Call
<1> HIDE DEF k
<1>5. k.stock = product'[p].stock
  BY <1>4
<1>6. QED
  BY ONLY IInv, MirrorInv, p \in Products, c \in Calls, UNCHANGED <<rows, drifted>>,
     \A q \in Products \ {p} : product'[q] = product[q], <1>2, <1>3, <1>4, <1>5, StockWritten

LEMMA WritesKeepMirror ==
  ASSUME IInv, MirrorInv, NEW c \in Calls, WriteProduct(c) \/ SyncWrite(c) PROVE MirrorInv'
<1> DEFINE p == call[c].product
<1>1. call[c] \in Call /\ Fits(call[c], product, rows)
  BY Known
<1>2. CASE WriteProduct(c)
  <2>1. /\ call[c].pc = "writing" /\ call[c].op = "update"
        /\ product' = [product EXCEPT ![p].stock = call[c].stock]
        /\ call' = [Outdated(call, {p}) EXCEPT ![c].pc = "mirroring"] /\ UNCHANGED <<rows, drifted>>
    BY <1>2 DEF WriteProduct, At, Does
  <2>2. p \in Products
    BY <1>1, <2>1 DEF Fits, ProductFits
  <2>3. product'[p].stock = call[c].stock /\ \A q \in Products \ {p} : product'[q] = product[q]
    BY <2>1, <2>2, Known DEF Product
  <2>4. QED
    BY <2>1, <2>2, <2>3, UpdateKeepsMirror
<1>3. CASE SyncWrite(c)
  <2>1. call[c].pc = "upserting" /\ UNCHANGED <<rows, drifted>>
    BY <1>3 DEF SyncWrite, At
  <2>2. p \in Products
    BY <1>1, <2>1 DEF Fits, ProductFits
  <2>3. CASE Throw(c) /\ UNCHANGED product
    BY <2>1, <2>3, QuietGoto DEF Throw, CallState, Mirrors
  <2>4. CASE /\ product' = [product EXCEPT ![p] = [state |-> IF @.state = "absent" THEN "live" ELSE @.state,
                                                   stock |-> call[c].stock]]
             /\ call' = [Outdated(call, {p}) EXCEPT ![c].pc = "mirroring"]
    <3>1. product'[p].stock = call[c].stock /\ \A q \in Products \ {p} : product'[q] = product[q]
      BY <2>2, <2>4, Known
    <3>2. QED
      BY <2>1, <2>2, <2>4, <3>1, UpdateKeepsMirror
  <2>5. QED
    BY <1>3, <2>3, <2>4 DEF SyncWrite
<1>4. QED
  BY <1>2, <1>3

(* A call that ends or goes on to something else holds nothing.            *)
LEMMA LeavesHold ==
  ASSUME MirrorInv, NEW c \in Calls, Others(c), call'[c].pc \notin {"mirroring", "mirrorFound", "filling"},
         UNCHANGED product
  PROVE  HoldsStock'
<1>1. Holds(call'[c], product)
  BY HoldsNothing
<1>2. \A d \in Calls : Holds(call'[d], product')
  BY <1>1 DEF Others, MirrorInv, HoldsStock
<1>3. QED
  BY <1>2 DEF HoldsStock

(* A row that is not the product's mirror afterwards is written.           *)
LEMMA WrittenKept ==
  ASSUME IInv, OneRow(rows), NEW c \in Calls, Others(c), NEW i \in DOMAIN rows, NEW row \in Row,
         row.product = rows[i].product, rows' = [rows EXCEPT ![i] = row],
         NEW p \in Products, Kept(p, product, rows, call, drifted), ~Repairs(call[c], p, rows),
         p \notin drifted' => p \notin drifted,
         ~(row.product = p /\ row.key = DefaultKey /\ row.live)
  PROVE  Kept(p, product, rows', call', drifted')
<1>1. DOMAIN rows' = DOMAIN rows /\ \A j \in DOMAIN rows : rows'[j] = IF j = i THEN row ELSE rows[j]
  BY Known
<1>2. Follows(rows, product[p].stock, p) => Follows(rows', product[p].stock, p)
  BY <1>1 DEF Follows
<1>3. ASSUME NEW d \in Calls, Repairs(call[d], p, rows)
      PROVE  Repairs(call'[d], p, rows') \/ Follows(rows', product[p].stock, p)
  <2>1. d # c /\ call'[d] = call[d]
    BY <1>3 DEF Others
  <2>2. CASE call[d].pc = "mirroring"
    BY <1>3, <2>1, <2>2 DEF Repairs
  <2>3. CASE call[d].pc # "mirroring"
    <3>1. call[d].pc = "mirrorFound" /\ call[d].row # 0 /\ rows[call[d].row].key = DefaultKey
          /\ call[d].product = p
      BY <1>3, <2>3 DEF Repairs
    <3>2. call[d].row \in DOMAIN rows /\ rows[call[d].row].product = p
      BY <3>1, Known DEF Fits, RowFits
    <3>3. CASE call[d].row # i \/ row.key = DefaultKey
      BY <1>1, <2>1, <3>1, <3>2, <3>3 DEF Repairs
    <3>4. CASE call[d].row = i /\ row.key # DefaultKey
      <4>1. \A j \in DOMAIN rows : rows[j].product = p /\ rows[j].key = DefaultKey => j = i
        BY <3>1, <3>2, <3>4 DEF OneRow
      <4>2. Follows(rows', product[p].stock, p)
        BY <1>1, <3>4, <4>1 DEF Follows
      <4>3. QED
        BY <4>2
    <3>5. QED
      BY <3>3, <3>4
  <2>4. QED
    BY <2>2, <2>3
<1>4. QED
  BY <1>2, <1>3 DEF Kept

(* A row that is not the product's mirror is inserted.                     *)
LEMMA InsertedKept ==
  ASSUME IInv, NEW c \in Calls, Others(c), NEW row \in Row, rows' = Append(rows, row),
         NEW p \in Products, Kept(p, product, rows, call, drifted), ~Repairs(call[c], p, rows),
         p \notin drifted' => p \notin drifted, ~(row.product = p /\ row.key = DefaultKey)
  PROVE  Kept(p, product, rows', call', drifted')
<1>1. /\ DOMAIN rows' = DOMAIN rows \cup {Len(rows) + 1}
      /\ \A j \in DOMAIN rows : rows'[j] = rows[j]
      /\ rows'[Len(rows) + 1] = row
  BY Known, RowInserted
<1>2. Follows(rows, product[p].stock, p) => Follows(rows', product[p].stock, p)
  BY <1>1 DEF Follows
<1>3. ASSUME NEW d \in Calls, Repairs(call[d], p, rows) PROVE Repairs(call'[d], p, rows')
  <2>1. d # c /\ call'[d] = call[d]
    BY <1>3 DEF Others
  <2>2. call[d].pc = "mirrorFound" /\ call[d].row # 0 => call[d].row \in DOMAIN rows
    BY Known DEF Fits, RowFits
  <2>3. QED
    BY <1>1, <1>3, <2>1, <2>2 DEF Repairs
<1>4. QED
  BY <1>2, <1>3 DEF Kept

(* Nothing is written and the call that moves was not to repair anything.  *)
LEMMA UntouchedKept ==
  ASSUME NEW c \in Calls, Others(c), NEW p \in Products, Kept(p, product, rows, call, drifted),
         ~Repairs(call[c], p, rows)
  PROVE  Kept(p, product, rows, call', drifted)
BY DEF Kept, Others

LEMMA WriteMirrorKeeps ==
  ASSUME IInv, MirrorInv, NEW c \in Calls, WriteMirror(c) PROVE MirrorInv'
<1> DEFINE pc == IF Does(c, "sync") THEN "next" ELSE "done"
           p == call[c].product
           i == call[c].row
           held == call[c].stock
<1>1. /\ call[c] \in Call /\ Fits(call[c], product, rows) /\ call[c].pc = "mirrorFound"
      /\ UNCHANGED product
  BY Known DEF WriteMirror, At
<1>2. p \in Products /\ held \in Int /\ (i # 0 => i \in DOMAIN rows /\ rows[i].product = p)
  BY <1>1 DEF Fits, ProductFits, StockFits, RowFits, Mirrors
<1>3. call[c].clean => held = product[p].stock
  BY <1>1, <1>2 DEF MirrorInv, HoldsStock, Holds, Pends, HeldBy, Mirrors
<1>4. \A q \in Products : Kept(q, product, rows, call, drifted)
  BY DEF MirrorInv, MirrorKept
<1>5. \A q \in Products \ {p} : ~Repairs(call[c], q, rows)
  BY DEF Repairs
<1>6. ASSUME Goto(c, pc) PROVE Others(c) /\ HoldsStock'
  <2>1. pc \in CallState /\ pc \notin {"mirroring", "mirrorFound", "filling"}
    BY DEF CallState
  <2> HIDE DEF pc
  <2>2. Others(c) /\ call'[c].pc = pc
    BY <1>6, <2>1, Known, GotoCalls
  <2>3. QED
    BY <1>1, <2>1, <2>2, LeavesHold
<1>7. /\ Mirrored(c) = IF call[c].clean THEN drifted \ {p} ELSE drifted \cup {p}
      /\ \A q \in Products \ {p} : q \notin Mirrored(c) => q \notin drifted
  BY DEF Mirrored
<1>8. CASE /\ i # 0
           /\ rows' = [rows EXCEPT ![i] = [@ EXCEPT !.stock = call[c].stock, !.live = TRUE]]
           /\ Goto(c, pc)
           /\ drifted' = IF rows[i].key = DefaultKey THEN Mirrored(c) ELSE drifted
  <2> DEFINE row == [rows[i] EXCEPT !.stock = held, !.live = TRUE]
  <2>1. i \in DOMAIN rows /\ rows[i] \in Row
    BY <1>2, <1>8, Known
  <2>2. /\ row \in Row /\ row.product = p /\ row.key = rows[i].key /\ row.attributes = rows[i].attributes
        /\ row.stock = held
    BY <1>2, <1>8, <2>1 DEF Row
  <2>3. rows' = [rows EXCEPT ![i] = row]
    BY <1>8, <2>1
  <2> HIDE DEF row
  <2>4. OneRow(rows')
    <3>1. row.key = AttributeKey(row.attributes)
          /\ \A j \in DOMAIN rows \ {i} : ~(rows[j].product = row.product /\ rows[j].key = row.key)
      BY <1>2, <1>8, <2>1, <2>2 DEF MirrorInv, OneRow
    <3>2. QED
      BY <2>1, <2>2, <2>3, <3>1, Known, WrittenUnique DEF MirrorInv
  <2>5. ASSUME NEW q \in Products PROVE Kept(q, product, rows', call', drifted')
    <3>1. CASE q = p /\ rows[i].key = DefaultKey /\ call[c].clean
      <4>1. \A j \in DOMAIN rows' : rows'[j].product = p /\ rows'[j].key = DefaultKey => j = i
        BY <2>1, <2>2, <2>3, <2>4, <3>1, Known DEF OneRow
      <4>2. rows'[i].stock = held
        BY <2>1, <2>2, <2>3, Known
      <4>3. Follows(rows', product[p].stock, p)
        BY <1>3, <3>1, <4>1, <4>2 DEF Follows
      <4>4. QED
        BY <3>1, <4>3 DEF Kept
    <3>2. CASE q = p /\ rows[i].key = DefaultKey /\ ~call[c].clean
      BY <1>7, <1>8, <3>2 DEF Kept
    <3>3. CASE q # p \/ rows[i].key # DefaultKey
      <4>1. ~Repairs(call[c], q, rows)
        BY <1>1, <1>5, <3>3 DEF Repairs
      <4>2. q \notin drifted' => q \notin drifted
        BY <1>7, <1>8, <3>3
      <4>3. ~(row.product = q /\ row.key = DefaultKey /\ row.live)
        BY <2>2, <3>3
      <4>4. Others(c) /\ OneRow(rows) /\ row.product = rows[i].product
        BY <1>2, <1>6, <1>8, <2>2 DEF MirrorInv
      <4>5. QED
        BY <1>4, <2>1, <2>2, <2>3, <4>1, <4>2, <4>3, <4>4, WrittenKept
    <3>4. QED
      BY <3>1, <3>2, <3>3
  <2>6. QED
    BY <1>1, <1>6, <1>8, <2>4, <2>5 DEF MirrorInv, MirrorKept
<1>9. CASE /\ i = 0 /\ Insertable(p, DefaultKey)
           /\ rows' = Append(rows, NewRow(p, {}, call[c].stock))
           /\ Goto(c, pc) /\ drifted' = Mirrored(c)
  <2> DEFINE row == NewRow(p, {}, held)
  <2>1. /\ row \in Row /\ row.product = p /\ row.key = DefaultKey /\ row.stock = held
        /\ row.key = AttributeKey(row.attributes)
    BY <1>2, NewRowIsRow, KeysAreTyped
  <2>2. rows' = Append(rows, row)
    BY <1>9
  <2> HIDE DEF row
  <2>3. \A j \in DOMAIN rows : ~(rows[j].product = p /\ rows[j].key = DefaultKey)
    <3>1. 0 \notin DOMAIN rows
      BY Known
    <3>2. QED
      BY <1>9, <3>1 DEF Insertable, Unique
  <2>4. OneRow(rows')
    BY <2>1, <2>2, <2>3, Known, InsertedUnique DEF MirrorInv
  <2>5. ASSUME NEW q \in Products PROVE Kept(q, product, rows', call', drifted')
    <3>1. CASE q = p /\ call[c].clean
      <4>1. \A j \in DOMAIN rows' : rows'[j].product = p /\ rows'[j].key = DefaultKey => rows'[j].stock = held
        BY <2>1, <2>2, <2>3, Known, RowInserted
      <4>2. Follows(rows', product[p].stock, p)
        BY <1>3, <3>1, <4>1 DEF Follows
      <4>3. QED
        BY <3>1, <4>2 DEF Kept
    <3>2. CASE q = p /\ ~call[c].clean
      BY <1>7, <1>9, <3>2 DEF Kept
    <3>3. CASE q # p
      BY <1>4, <1>5, <1>6, <1>7, <1>9, <2>1, <2>2, <3>3, InsertedKept
    <3>4. QED
      BY <3>1, <3>2, <3>3
  <2>6. QED
    BY <1>1, <1>6, <1>9, <2>4, <2>5 DEF MirrorInv, MirrorKept
<1>10. CASE i = 0 /\ Throw(c) /\ UNCHANGED <<rows, drifted>>
  <2>1. Others(c) /\ call'[c].pc = "threw"
    BY <1>10, Known, GotoCalls DEF Throw, CallState
  <2>2. \A q \in Products : ~Repairs(call[c], q, rows)
    BY <1>1, <1>10 DEF Repairs
  <2>3. \A q \in Products : Kept(q, product, rows, call', drifted)
    BY <1>4, <2>1, <2>2, UntouchedKept
  <2>4. QED
    BY <1>1, <1>10, <2>1, <2>3, LeavesHold DEF MirrorInv, MirrorKept
<1>11. QED
  BY <1>8, <1>9, <1>10 DEF WriteMirror

(* The owner writes a row, or inserts one: a value for the default row is  *)
(* noted.                                                                  *)
LEMMA OwnerWrites ==
  ASSUME IInv, MirrorInv, NEW c \in Calls, NEW pc \in {"done", "reloading"}, Goto(c, pc),
         ~Mirrors(call[c]), UNCHANGED product,
         NEW i \in DOMAIN rows, NEW row \in Row, row.product = rows[i].product,
         rows' = [rows EXCEPT ![i] = row], row.key = AttributeKey(row.attributes),
         \A j \in DOMAIN rows \ {i} : ~(rows[j].product = row.product /\ rows[j].key = row.key),
         drifted \subseteq drifted', row.key = DefaultKey /\ row.live => row.product \in drifted'
  PROVE  MirrorInv'
<1>1. Others(c) /\ call'[c].pc = pc
  BY Known, GotoCalls DEF CallState
<1>2. HoldsStock'
  BY <1>1, LeavesHold
<1>3. OneRow(rows')
  BY Known, WrittenUnique DEF MirrorInv
<1>4. ASSUME NEW q \in Products PROVE Kept(q, product, rows', call', drifted')
  <2>1. CASE q \in drifted'
    BY <2>1 DEF Kept
  <2>2. CASE q \notin drifted'
    <3>1. Kept(q, product, rows, call, drifted) /\ ~Repairs(call[c], q, rows) /\ OneRow(rows)
      BY DEF MirrorInv, MirrorKept, Repairs, Mirrors
    <3>2. ~(row.product = q /\ row.key = DefaultKey /\ row.live) /\ q \notin drifted
      BY <2>2
    <3>3. QED
      BY <1>1, <3>1, <3>2, WrittenKept
  <2>3. QED
    BY <2>1, <2>2
<1>5. QED
  BY <1>2, <1>3, <1>4 DEF MirrorInv, MirrorKept

LEMMA SaveVariantKeeps ==
  ASSUME IInv, MirrorInv, NEW c \in Calls, SaveVariant(c) PROVE MirrorInv'
<1> DEFINE p == call[c].product
           i == call[c].row
           new == NewRow(p, call[c].attributes, call[c].stock)
<1>1. /\ call[c] \in Call /\ Fits(call[c], product, rows) /\ call[c].pc = "saving"
      /\ UNCHANGED product
  BY Known DEF SaveVariant, At
<1>2. /\ p \in Products /\ call[c].stock \in Int /\ ~Mirrors(call[c])
      /\ i # 0 => i \in DOMAIN rows /\ rows[i].product = p
  BY <1>1 DEF Fits, OpFits, ProductFits, StockFits, RowFits, Mirrors
<1>3. new \in Row /\ new.product = p /\ new.key = AttributeKey(new.attributes)
  BY <1>1, <1>2, NewRowIsRow DEF Call
<1>4. Strays(p, new.key) => drifted \subseteq drifted' /\ (new.key = DefaultKey => p \in drifted')
  BY DEF Strays
<1> HIDE DEF new
<1>5. CASE i # 0 /\ Unique(p, new.key, i) /\ rows' = [rows EXCEPT ![i] = new]
           /\ Goto(c, "reloading") /\ Strays(p, new.key)
  <2>1. /\ i \in DOMAIN rows /\ new.product = rows[i].product
        /\ \A j \in DOMAIN rows \ {i} : ~(rows[j].product = new.product /\ rows[j].key = new.key)
    BY <1>2, <1>3, <1>5 DEF Unique
  <2>2. drifted \subseteq drifted' /\ (new.key = DefaultKey /\ new.live => new.product \in drifted')
    BY <1>3, <1>4, <1>5
  <2>3. QED
    BY <1>1, <1>2, <1>3, <1>5, <2>1, <2>2, OwnerWrites
<1>6. CASE i = 0 /\ Insertable(p, new.key) /\ rows' = Append(rows, new)
           /\ Goto(c, "reloading") /\ Strays(p, new.key)
  <2>1. Others(c) /\ call'[c].pc = "reloading"
    BY <1>6, Known, GotoCalls DEF CallState
  <2>2. HoldsStock'
    BY <1>1, <2>1, LeavesHold
  <2>3. \A j \in DOMAIN rows : ~(rows[j].product = new.product /\ rows[j].key = new.key)
    <3>1. 0 \notin DOMAIN rows
      BY Known
    <3>2. QED
      BY <1>3, <1>6, <3>1 DEF Insertable, Unique
  <2>4. OneRow(rows')
    BY <1>3, <1>6, <2>3, Known, InsertedUnique DEF MirrorInv
  <2>5. ASSUME NEW q \in Products PROVE Kept(q, product, rows', call', drifted')
    <3>1. CASE q \in drifted'
      BY <3>1 DEF Kept
    <3>2. CASE q \notin drifted'
      <4>1. Kept(q, product, rows, call, drifted) /\ ~Repairs(call[c], q, rows)
        BY <1>2 DEF MirrorInv, MirrorKept, Repairs, Mirrors
      <4>2. ~(new.product = q /\ new.key = DefaultKey) /\ q \notin drifted
        BY <1>3, <1>4, <1>6, <3>2
      <4>3. QED
        BY <1>3, <1>6, <2>1, <4>1, <4>2, InsertedKept
    <3>3. QED
      BY <3>1, <3>2
  <2>6. QED
    BY <1>1, <2>2, <2>4, <2>5 DEF MirrorInv, MirrorKept
<1>7. CASE Throw(c) /\ UNCHANGED <<rows, drifted>>
  BY <1>1, <1>2, <1>7, QuietGoto DEF Throw, CallState
<1>8. QED
  BY <1>5, <1>6, <1>7 DEF SaveVariant, new

LEMMA WriteVariantKeeps ==
  ASSUME IInv, MirrorInv, NEW c \in Calls, WriteVariant(c) PROVE MirrorInv'
<1> DEFINE i == call[c].row
           key == AttributeKey(call[c].attributes)
<1>1. /\ call[c] \in Call /\ Fits(call[c], product, rows) /\ call[c].pc = "writing"
      /\ call[c].op \in {"set", "rename", "remove"} /\ UNCHANGED product
  BY Known DEF WriteVariant, At
<1>2. i \in DOMAIN rows /\ (call[c].op = "set" => call[c].stock \in Int) /\ ~Mirrors(call[c])
  BY <1>1 DEF Fits, StockFits, RowFits, Mirrors
<1>3. rows[i] \in Row
  BY <1>2, Known
<1>4. /\ rows[i].key = AttributeKey(rows[i].attributes)
      /\ \A j \in DOMAIN rows \ {i} : ~(rows[j].product = rows[i].product /\ rows[j].key = rows[i].key)
  BY <1>2 DEF MirrorInv, OneRow
<1>5. \A k : Strays(rows[i].product, k)
              => drifted \subseteq drifted' /\ (k = DefaultKey => rows[i].product \in drifted')
  BY DEF Strays
<1>6. CASE /\ Does(c, "set") /\ rows' = [rows EXCEPT ![i].stock = call[c].stock]
           /\ Goto(c, "done") /\ Strays(rows[i].product, rows[i].key)
  <2> DEFINE row == [rows[i] EXCEPT !.stock = call[c].stock]
  <2>1. row \in Row /\ row.product = rows[i].product /\ row.key = rows[i].key
        /\ row.attributes = rows[i].attributes
    BY <1>2, <1>3, <1>6 DEF Row, Does
  <2>2. rows' = [rows EXCEPT ![i] = row]
    BY <1>6, <1>2
  <2> HIDE DEF row
  <2>3. drifted \subseteq drifted' /\ (row.key = DefaultKey /\ row.live => row.product \in drifted')
    BY <1>5, <1>6, <2>1
  <2>4. /\ row.key = AttributeKey(row.attributes)
        /\ \A j \in DOMAIN rows \ {i} : ~(rows[j].product = row.product /\ rows[j].key = row.key)
    BY <1>4, <2>1
  <2>5. QED
    BY <1>1, <1>2, <1>6, <2>1, <2>2, <2>3, <2>4, OwnerWrites
<1>7. CASE /\ Does(c, "remove") /\ rows' = [rows EXCEPT ![i].live = FALSE]
           /\ Goto(c, "reloading") /\ UNCHANGED drifted
  <2> DEFINE row == [rows[i] EXCEPT !.live = FALSE]
  <2>1. row \in Row /\ row.product = rows[i].product /\ row.key = rows[i].key
        /\ row.attributes = rows[i].attributes /\ ~row.live
    BY <1>3 DEF Row
  <2>2. rows' = [rows EXCEPT ![i] = row]
    BY <1>7, <1>2
  <2> HIDE DEF row
  <2>3. /\ row.key = AttributeKey(row.attributes) /\ drifted \subseteq drifted'
        /\ \A j \in DOMAIN rows \ {i} : ~(rows[j].product = row.product /\ rows[j].key = row.key)
    BY <1>4, <1>7, <2>1
  <2>4. QED
    BY <1>1, <1>2, <1>7, <2>1, <2>2, <2>3, OwnerWrites
<1>8. CASE /\ Does(c, "rename") /\ Unique(rows[i].product, key, i)
           /\ rows' = [rows EXCEPT ![i] = [@ EXCEPT !.attributes = call[c].attributes, !.key = key]]
           /\ Goto(c, "done") /\ Strays(rows[i].product, key)
  <2> DEFINE row == [rows[i] EXCEPT !.attributes = call[c].attributes, !.key = key]
  <2>1. call[c].attributes \in Offers \cup {{}} /\ key \in SUBSET (STRING \X STRING)
    BY <1>1, KeysAreTyped DEF Call
  <2>2. row.attributes = call[c].attributes /\ row.key = AttributeKey(row.attributes)
    BY <1>3 DEF Row
  <2> HIDE DEF key
  <2>3. row \in Row /\ row.product = rows[i].product /\ row.key = key
    BY <1>3, <2>1 DEF Row
  <2>4. rows' = [rows EXCEPT ![i] = row]
    BY <1>8, <1>2
  <2> HIDE DEF row
  <2>5. \A j \in DOMAIN rows \ {i} : ~(rows[j].product = row.product /\ rows[j].key = row.key)
    BY <1>8, <2>3 DEF Unique
  <2>6. drifted \subseteq drifted' /\ (row.key = DefaultKey /\ row.live => row.product \in drifted')
    BY <1>5, <1>8, <2>3
  <2>7. QED
    BY <1>1, <1>2, <1>8, <2>2, <2>3, <2>4, <2>5, <2>6, OwnerWrites
<1>9. CASE Throw(c) /\ UNCHANGED <<rows, drifted>>
  BY <1>1, <1>2, <1>9, QuietGoto DEF Throw, CallState
<1>10. QED
  BY <1>6, <1>7, <1>8, <1>9 DEF WriteVariant

LEMMA BackfillOneKeeps ==
  ASSUME IInv, MirrorInv, NEW c \in Calls, NEW p \in Products, BackfillOne(c, p) PROVE MirrorInv'
<1> DEFINE stock == call[c].todo[p]
           failed == call[c].failed
           k1 == [call[c] EXCEPT !.todo[p] = NoStock, !.created = call[c].created + 1]
           k2 == [call[c] EXCEPT !.todo[p] = NoStock,
                         !.failed = IF failed < Cardinality(Products) THEN failed + 1 ELSE failed]
<1>1. /\ call[c] \in Call /\ Fits(call[c], product, rows) /\ call[c].pc = "filling"
      /\ stock # NoStock /\ UNCHANGED product /\ call \in [Calls -> Call]
  BY Known DEF BackfillOne, At
<1>2. stock \in Int /\ (call[c].clean => stock = product[p].stock)
  BY <1>1 DEF Call, MirrorInv, HoldsStock, Holds, Pends, HeldBy
<1>3. ASSUME NEW k \in {k1, k2} PROVE Holds(k, product)
  <2>1. k.pc = "filling" /\ k.clean = call[c].clean /\ k.todo = [call[c].todo EXCEPT ![p] = NoStock]
    BY <1>1 DEF Call
  <2>2. \A q \in Products : k.todo[q] # NoStock => k.todo[q] = call[c].todo[q]
    BY <1>1, <2>1 DEF Call
  <2>3. Holds(call[c], product)
    BY DEF MirrorInv, HoldsStock
  <2>4. QED
    BY <1>1, <2>1, <2>2, <2>3 DEF Holds, Pends, HeldBy, Mirrors
<1>4. \/ /\ Insertable(p, DefaultKey)
         /\ rows' = Append(rows, NewRow(p, {}, stock))
         /\ call' = [call EXCEPT ![c] = k1]
         /\ drifted' = IF call[c].clean THEN drifted \ {p} ELSE drifted \cup {p}
      \/ call' = [call EXCEPT ![c] = k2] /\ UNCHANGED <<rows, drifted>>
  BY DEF BackfillOne
<1>5. Holds(k1, product) /\ Holds(k2, product)
  BY <1>3
<1> HIDE DEF stock, k1, k2
<1>6. Others(c) /\ (call'[c] = k1 \/ call'[c] = k2)
  BY <1>1, <1>4 DEF Others
<1>7. Holds(call'[c], product) /\ ~Mirrors(call[c])
  BY <1>1, <1>5, <1>6 DEF Mirrors
<1>8. CASE UNCHANGED <<rows, drifted>>
  BY <1>1, <1>6, <1>7, <1>8, QuietMirror
<1>9. CASE /\ Insertable(p, DefaultKey)
           /\ rows' = Append(rows, NewRow(p, {}, stock))
           /\ drifted' = IF call[c].clean THEN drifted \ {p} ELSE drifted \cup {p}
  <2> DEFINE row == NewRow(p, {}, stock)
  <2>1. /\ row \in Row /\ row.product = p /\ row.key = DefaultKey /\ row.stock = stock
        /\ row.key = AttributeKey(row.attributes)
    BY <1>2, NewRowIsRow, KeysAreTyped
  <2>2. rows' = Append(rows, row)
    BY <1>9
  <2> HIDE DEF row
  <2>3. \A j \in DOMAIN rows : ~(rows[j].product = p /\ rows[j].key = DefaultKey)
    <3>1. 0 \notin DOMAIN rows
      BY Known
    <3>2. QED
      BY <1>9, <3>1 DEF Insertable, Unique
  <2>4. OneRow(rows')
    BY <2>1, <2>2, <2>3, Known, InsertedUnique DEF MirrorInv
  <2>5. ASSUME NEW q \in Products PROVE Kept(q, product, rows', call', drifted')
    <3>1. CASE q = p /\ call[c].clean
      <4>1. \A j \in DOMAIN rows' : rows'[j].product = p /\ rows'[j].key = DefaultKey => rows'[j].stock = stock
        BY <2>1, <2>2, <2>3, Known, RowInserted
      <4>2. Follows(rows', product[p].stock, p)
        BY <1>2, <3>1, <4>1 DEF Follows
      <4>3. QED
        BY <3>1, <4>2 DEF Kept
    <3>2. CASE q = p /\ ~call[c].clean
      BY <1>9, <3>2 DEF Kept
    <3>3. CASE q # p
      <4>1. Kept(q, product, rows, call, drifted) /\ ~Repairs(call[c], q, rows)
        BY <1>7 DEF MirrorInv, MirrorKept, Repairs, Mirrors
      <4>2. q \notin drifted' => q \notin drifted
        BY <1>9, <3>3
      <4>3. QED
        BY <1>6, <2>1, <2>2, <3>3, <4>1, <4>2, InsertedKept
    <3>4. QED
      BY <3>1, <3>2, <3>3
  <2>6. HoldsStock'
    BY <1>1, <1>6, <1>7 DEF Others, MirrorInv, HoldsStock
  <2>7. QED
    BY <1>1, <2>4, <2>5, <2>6 DEF MirrorInv, MirrorKept
<1>10. QED
  BY <1>4, <1>8, <1>9

(* A sale takes the same from products and mirrors, and outdates what      *)
(* others hold.                                                            *)
LEMMA SellKeeps ==
  ASSUME IInv, MirrorInv, NEW items \in SUBSET Products, Sell(items) PROVE MirrorInv'
<1>1. /\ rows \in Seq(Row) /\ product \in [Products -> Product] /\ call \in [Calls -> Call]
      /\ product' = [p \in Products |-> IF p \in items THEN [product[p] EXCEPT !.stock = @ - 1] ELSE product[p]]
      /\ rows' = Decremented(items) /\ call' = Outdated(call, items) /\ UNCHANGED drifted
  BY DEF Sell, IInv, TypeOK
<1>2. \A i \in DOMAIN rows :
        /\ rows'[i].product = rows[i].product /\ rows'[i].key = rows[i].key
        /\ rows'[i].live = rows[i].live /\ rows'[i].attributes = rows[i].attributes
        /\ rows[i].key = DefaultKey /\ rows[i].live
             => rows'[i].stock = IF rows[i].product \in items THEN rows[i].stock - 1 ELSE rows[i].stock
  <2> TAKE i \in DOMAIN rows
  <2>1. rows[i] \in Row
    BY <1>1
  <2>2. rows'[i] = IF rows[i].product \in items /\ rows[i].key = DefaultKey /\ rows[i].live
                   THEN [rows[i] EXCEPT !.stock = @ - 1] ELSE rows[i]
    BY <1>1 DEF Decremented
  <2>3. QED
    BY <2>1, <2>2 DEF Row
<1>3. DOMAIN rows' = DOMAIN rows
  BY <1>1 DEF Decremented
<1>4. \A p \in Products : /\ product'[p].state = product[p].state
                          /\ product'[p].stock = IF p \in items THEN product[p].stock - 1 ELSE product[p].stock
  BY <1>1 DEF Product
<1>5. OneRow(rows')
  BY <1>2, <1>3 DEF MirrorInv, OneRow
<1>6. ASSUME NEW d \in Calls
      PROVE  /\ Holds(call'[d], product')
             /\ call'[d].pc = call[d].pc /\ call'[d].product = call[d].product /\ call'[d].row = call[d].row
  <2>1. \/ call'[d] = call[d] /\ \A p \in items : ~Pends(call[d], p)
        \/ call'[d] = [call[d] EXCEPT !.clean = FALSE]
    BY <1>1, OutdatedCalls
  <2>2. CASE call'[d] = call[d] /\ \A p \in items : ~Pends(call[d], p)
    BY <1>4, <2>2 DEF MirrorInv, HoldsStock, Holds
  <2>3. CASE call'[d] = [call[d] EXCEPT !.clean = FALSE]
    BY <1>1, <2>3 DEF Call, Holds
  <2>4. QED
    BY <2>1, <2>2, <2>3
<1>7. ASSUME NEW p \in Products PROVE Kept(p, product', rows', call', drifted)
  <2>1. Kept(p, product, rows, call, drifted)
    BY DEF MirrorInv, MirrorKept
  <2>2. Follows(rows, product[p].stock, p) => Follows(rows', product'[p].stock, p)
    BY <1>2, <1>3, <1>4 DEF Follows
  <2>3. ASSUME NEW d \in Calls, Repairs(call[d], p, rows) PROVE Repairs(call'[d], p, rows')
    <3>1. call[d].pc = "mirrorFound" /\ call[d].row # 0 => call[d].row \in DOMAIN rows
      BY Known DEF Fits, RowFits
    <3>2. QED
      BY <1>2, <1>6, <2>3, <3>1 DEF Repairs
  <2>4. QED
    BY <1>4, <2>1, <2>2, <2>3 DEF Kept
<1>8. QED
  BY <1>1, <1>5, <1>6, <1>7 DEF MirrorInv, HoldsStock, MirrorKept

(* The dialog opens, loads and closes.                                     *)
LEMMA DialogKeepsMirror ==
  ASSUME IInv, MirrorInv, Load \/ LoadFails \/ CloseDialog \/ \E p \in Products : OpenDialog(p)
  PROVE  MirrorInv'
<1>1. UNCHANGED <<product, rows, drifted>>
  BY DEF CloseDialog, OpenDialog, Load, LoadFails
<1>2. ASSUME NEW d \in Calls
      PROVE  /\ Holds(call'[d], product)
             /\ call'[d].pc = call[d].pc /\ call'[d].product = call[d].product /\ call'[d].row = call[d].row
  <2>1. call'[d] = call[d] \/ call'[d] = [call[d] EXCEPT !.clean = FALSE]
    BY DEF CloseDialog, OpenDialog, Load, LoadFails
  <2>2. CASE call'[d] = call[d]
    BY <2>2 DEF MirrorInv, HoldsStock
  <2>3. CASE call'[d] = [call[d] EXCEPT !.clean = FALSE]
    BY <2>3, Known DEF Call, Holds
  <2>4. QED
    BY <2>1, <2>2, <2>3
<1>3. ASSUME NEW p \in Products PROVE Kept(p, product, rows, call', drifted)
  BY <1>2 DEF MirrorInv, MirrorKept, Kept, Repairs
<1>4. QED
  BY <1>1, <1>2, <1>3 DEF MirrorInv, HoldsStock, MirrorKept

-----------------------------------------------------------------------------
(* What the steps of a call leave of the others, and of what it was asked. *)

OthersMay(c) ==
  \A d \in Calls \ {c} :
    \/ call'[d] = call[d]
    \/ call'[d] = [call[d] EXCEPT !.clean = FALSE] /\ call[d].pc \in {"mirroring", "mirrorFound", "filling"}

LEMMA OutdatedMay ==
  ASSUME IInv, NEW c \in Calls, NEW p \in Products, call[c].pc \in {"writing", "upserting"},
         call' = [Outdated(call, {p}) EXCEPT ![c].pc = "mirroring"]
  PROVE  OthersMay(c) /\ call'[c] = [call[c] EXCEPT !.pc = "mirroring"]
<1>1. call \in [Calls -> Call] /\ {p} \in SUBSET Products
  BY Known
<1> DEFINE calls == Outdated(call, {p})
<1>2. calls \in [Calls -> Call] /\ calls[c] = call[c]
  BY <1>1, OutdatedCalls DEF Pends, Mirrors
<1>3. ASSUME NEW d \in Calls
      PROVE  \/ calls[d] = call[d]
             \/ calls[d] = [call[d] EXCEPT !.clean = FALSE] /\ call[d].pc \in {"mirroring", "mirrorFound", "filling"}
  BY <1>1, OutdatedCalls DEF Pends, Mirrors
<1> HIDE DEF calls
<1>4. call' = [calls EXCEPT ![c].pc = "mirroring"]
  BY DEF calls
<1>5. QED
  BY <1>2, <1>3, <1>4 DEF OthersMay

LEMMA GotoShape ==
  ASSUME call \in [Calls -> Call], NEW c \in Calls, NEW pc, Goto(c, pc)
  PROVE  OthersMay(c) /\ call'[c].op = call[c].op /\ call'[c].pc = pc
BY DEF Goto, OthersMay, Call

LEMMA StepShape ==
  ASSUME IInv, NEW c \in Calls, Step(c) \/ Fail(c)
  PROVE  OthersMay(c) /\ call'[c].op = call[c].op
<1> DEFINE Goal == OthersMay(c) /\ call'[c].op = call[c].op
<1>1. call[c] \in Call /\ call \in [Calls -> Call]
  BY Known
<1>2. ASSUME NEW pc, Goto(c, pc) PROVE Goal
  BY <1>1, <1>2, GotoShape
<1>3. ASSUME NEW k, call' = [call EXCEPT ![c] = k], k.op = call[c].op PROVE Goal
  BY <1>1, <1>3 DEF OthersMay
<1>4. ASSUME SaveForm(c) PROVE Goal
  <2>1. PICK typed \in Stocks \cup {call[c].stock} :
          call' = [call EXCEPT ![c] = [@ EXCEPT !.pc = IF Refused(typed) THEN "threw" ELSE "checking",
                                               !.stock = typed]]
    BY <1>4 DEF SaveForm
  <2> DEFINE k == [call[c] EXCEPT !.pc = IF Refused(typed) THEN "threw" ELSE "checking", !.stock = typed]
  <2>2. call' = [call EXCEPT ![c] = k] /\ k.op = call[c].op
    BY <1>1, <2>1 DEF Call
  <2> HIDE DEF k, Goal
  <2>3. QED
    BY <1>3, <2>2
<1>5. ASSUME FindMirror(c) PROVE Goal
  <2> DEFINE k == [call[c] EXCEPT !.pc = "mirrorFound", !.row = Find(call[c].product, DefaultKey)]
  <2>1. call' = [call EXCEPT ![c] = k] /\ k.op = call[c].op
    BY <1>1, <1>5 DEF FindMirror, Call
  <2> HIDE DEF k, Goal
  <2>2. QED
    BY <1>3, <2>1
<1>6. ASSUME NEW p \in Products, SyncFind(c, p) PROVE Goal
  <2> DEFINE k == [call[c] EXCEPT !.pc = "upserting", !.product = p, !.clean = TRUE,
                                  !.stock = call[c].todo[p], !.todo[p] = NoStock,
                                  !.row = IF product[p].state = "absent" THEN 0 ELSE 1]
  <2>1. call' = [call EXCEPT ![c] = k] /\ k.op = call[c].op
    BY <1>1, <1>6 DEF SyncFind, Call
  <2> HIDE DEF k, Goal
  <2>2. QED
    BY <1>3, <2>1
<1>7. ASSUME FindVariant(c) PROVE Goal
  <2> DEFINE k == [call[c] EXCEPT !.pc = "saving",
                                  !.row = Find(call[c].product, AttributeKey(call[c].attributes))]
  <2>1. Goto(c, "threw") \/ call' = [call EXCEPT ![c] = k]
    BY <1>7 DEF FindVariant, Throw
  <2>2. k.op = call[c].op
    BY <1>1 DEF Call
  <2> HIDE DEF k, Goal
  <2>3. QED
    BY <1>2, <1>3, <2>1, <2>2
<1>8. ASSUME WriteProduct(c) \/ SyncWrite(c) PROVE Goal
  <2>1. Fits(call[c], product, rows) /\ call[c].pc \in {"writing", "upserting"}
        /\ (WriteProduct(c) => call[c].op = "update") /\ (SyncWrite(c) => call[c].pc = "upserting")
    BY <1>8, Known DEF WriteProduct, SyncWrite, At, Does
  <2>2. call[c].product \in Products
    BY <1>8, <2>1 DEF Fits, ProductFits
  <2>3. Goto(c, "threw") \/ call' = [Outdated(call, {call[c].product}) EXCEPT ![c].pc = "mirroring"]
    BY <1>8 DEF WriteProduct, SyncWrite, Throw
  <2>4. [call[c] EXCEPT !.pc = "mirroring"].op = call[c].op
    BY <1>1 DEF Call
  <2> HIDE DEF Goal
  <2>5. CASE Goto(c, "threw")
    BY <1>2, <2>5
  <2>6. CASE call' = [Outdated(call, {call[c].product}) EXCEPT ![c].pc = "mirroring"]
    BY <2>1, <2>2, <2>4, <2>6, OutdatedMay DEF Goal
  <2>7. QED
    BY <2>3, <2>5, <2>6
<1>9. ASSUME BackfillQuery(c) PROVE Goal
  <2>1. CASE Goto(c, "done")
    BY <1>2, <2>1
  <2>2. ASSUME NEW batch,
               call' = [call EXCEPT ![c] =
                 [@ EXCEPT !.pc = "filling", !.batch = Cardinality(batch), !.clean = TRUE,
                           !.todo = [p \in Products |-> IF p \in batch THEN product[p].stock ELSE NoStock]]]
        PROVE  Goal
    <3> DEFINE k == [call[c] EXCEPT !.pc = "filling", !.batch = Cardinality(batch), !.clean = TRUE,
                      !.todo = [p \in Products |-> IF p \in batch THEN product[p].stock ELSE NoStock]]
    <3>1. call' = [call EXCEPT ![c] = k] /\ k.op = call[c].op
      BY <1>1, <2>2 DEF Call
    <3> HIDE DEF k, Goal
    <3>2. QED
      BY <1>3, <3>1
  <2> HIDE DEF Goal
  <2>3. QED
    BY <1>9, <2>1, <2>2 DEF BackfillQuery
<1>10. ASSUME NEW p \in Products, BackfillOne(c, p) PROVE Goal
  <2> DEFINE failed == call[c].failed
             k1 == [call[c] EXCEPT !.todo[p] = NoStock, !.created = call[c].created + 1]
             k2 == [call[c] EXCEPT !.todo[p] = NoStock,
                           !.failed = IF failed < Cardinality(Products) THEN failed + 1 ELSE failed]
  <2>1. call' = [call EXCEPT ![c] = k1] \/ call' = [call EXCEPT ![c] = k2]
    BY <1>10 DEF BackfillOne
  <2>2. k1.op = call[c].op /\ k2.op = call[c].op
    BY <1>1 DEF Call
  <2> HIDE DEF k1, k2, Goal
  <2>3. QED
    BY <1>3, <2>1, <2>2
<1> HIDE DEF Goal
<1>11. ASSUME \/ CheckProduct(c) \/ DeleteProduct(c) \/ WriteMirror(c) \/ SyncEnd(c) \/ SaveVariant(c)
              \/ CheckVariant(c) \/ WriteVariant(c) \/ Reload(c) \/ BackfillBatchEnds(c) \/ Fail(c)
       PROVE  Goal
  <2>1. \E pc : Goto(c, pc)
    BY <1>11 DEF CheckProduct, DeleteProduct, WriteMirror, SyncEnd, SaveVariant, CheckVariant, WriteVariant,
       Reload, BackfillBatchEnds, Fail, Throw
  <2>2. QED
    BY <1>2, <2>1
<1>12. Goal
  BY <1>4, <1>5, <1>6, <1>7, <1>8, <1>9, <1>10, <1>11 DEF Step
<1>13. QED
  BY <1>12 DEF Goal

-----------------------------------------------------------------------------
(* The backfill *)

(* Which steps write the table, and which the products. *)
LEMMA RowWriters ==
  ASSUME [Next]_vars
  PROVE  \/ UNCHANGED rows
         \/ \E c \in Calls : WriteMirror(c) \/ SaveVariant(c) \/ WriteVariant(c)
         \/ \E c \in Calls, p \in Products : BackfillOne(c, p)
         \/ \E items \in SUBSET Products : Sell(items)
<1>1. CASE UNCHANGED vars
  BY <1>1 DEF vars
<1>2. ASSUME NEW c \in Calls, Start(c) PROVE UNCHANGED rows
  BY <1>2 DEF Start, CreateProduct, OpenForm, StartDelete, StartSync, StartAdd, StartSet, StartRemove,
     StartOther, StartBackfill
<1>3. ASSUME NEW c \in Calls, Step(c) PROVE \/ UNCHANGED rows
                                           \/ WriteMirror(c) \/ SaveVariant(c) \/ WriteVariant(c)
                                           \/ \E p \in Products : BackfillOne(c, p)
  BY <1>3 DEF Step, SaveForm, CheckProduct, WriteProduct, DeleteProduct, FindMirror, SyncFind, SyncWrite,
     SyncEnd, FindVariant, CheckVariant, Reload, BackfillQuery, BackfillBatchEnds
<1>4. ASSUME NEW c \in Calls, Fail(c) PROVE UNCHANGED rows
  BY <1>4 DEF Fail
<1>5. CASE Load \/ LoadFails \/ CloseDialog \/ \E p \in Products : OpenDialog(p)
  BY <1>5 DEF CloseDialog, OpenDialog, Load, LoadFails
<1>6. QED
  BY <1>1, <1>2, <1>3, <1>4, <1>5 DEF Next

LEMMA ProductWriters ==
  ASSUME [Next]_vars
  PROVE  \/ UNCHANGED product
         \/ \E c \in Calls, p \in Products, stock \in Stocks : CreateProduct(c, p, stock)
         \/ \E c \in Calls : WriteProduct(c) \/ DeleteProduct(c) \/ SyncWrite(c)
         \/ \E items \in SUBSET Products : Sell(items)
<1>1. CASE UNCHANGED vars
  BY <1>1 DEF vars
<1>2. ASSUME NEW c \in Calls, Start(c)
      PROVE  UNCHANGED product \/ \E p \in Products, stock \in Stocks : CreateProduct(c, p, stock)
  BY <1>2 DEF Start, OpenForm, StartDelete, StartSync, StartAdd, StartSet, StartRemove, StartOther,
     StartBackfill
<1>3. ASSUME NEW c \in Calls, Step(c)
      PROVE  UNCHANGED product \/ WriteProduct(c) \/ DeleteProduct(c) \/ SyncWrite(c)
  BY <1>3 DEF Step, SaveForm, CheckProduct, FindMirror, WriteMirror, SyncFind, SyncEnd, FindVariant,
     SaveVariant, CheckVariant, WriteVariant, Reload, BackfillQuery, BackfillOne, BackfillBatchEnds
<1>4. ASSUME NEW c \in Calls, Fail(c) PROVE UNCHANGED product
  BY <1>4 DEF Fail
<1>5. CASE Load \/ LoadFails \/ CloseDialog \/ \E p \in Products : OpenDialog(p)
  BY <1>5 DEF CloseDialog, OpenDialog, Load, LoadFails
<1>6. QED
  BY <1>1, <1>2, <1>3, <1>4, <1>5 DEF Next

(* Rows stay, and nothing deleted comes back. *)
LEMMA RowsStay ==
  ASSUME IInv, [Next]_vars, NEW p \in Products, HasRow(p) PROVE HasRow(p)'
<1>1. PICK i \in DOMAIN rows : rows[i].product = p
  BY DEF HasRow
<1>2. rows \in Seq(Row) /\ rows[i] \in Row
  BY <1>1 DEF IInv, TypeOK
<1>3. i \in DOMAIN rows' /\ rows'[i].product = p
  <2>1. CASE UNCHANGED rows
    BY <1>1, <2>1
  <2>2. ASSUME NEW j, NEW row, row.product = rows[j].product, rows' = [rows EXCEPT ![j] = row]
        PROVE  i \in DOMAIN rows' /\ rows'[i].product = p
    BY <1>1, <1>2, <2>2
  <2>3. ASSUME NEW row, rows' = Append(rows, row)
        PROVE  i \in DOMAIN rows' /\ rows'[i].product = p
    BY <1>1, <1>2, <2>3
  <2>4. ASSUME NEW c \in Calls, WriteMirror(c) PROVE i \in DOMAIN rows' /\ rows'[i].product = p
    <3> DEFINE row == [rows[call[c].row] EXCEPT !.stock = call[c].stock, !.live = TRUE]
    <3>1. CASE call[c].row # 0
      <4>1. Fits(call[c], product, rows) /\ call[c].pc = "mirrorFound"
        BY <2>4, Known DEF WriteMirror, At
      <4>2. call[c].row \in DOMAIN rows /\ rows[call[c].row] \in Row
        BY <1>2, <3>1, <4>1 DEF Fits, RowFits
      <4>3. rows' = [rows EXCEPT ![call[c].row] = row] /\ row.product = rows[call[c].row].product
        BY <2>4, <3>1, <4>2 DEF WriteMirror, Row
      <4> HIDE DEF row
      <4>4. QED
        BY <2>2, <4>3
    <3>2. CASE call[c].row = 0
      BY <2>1, <2>3, <2>4, <3>2 DEF WriteMirror
    <3>3. QED
      BY <3>1, <3>2
  <2>5. ASSUME NEW c \in Calls, SaveVariant(c) PROVE i \in DOMAIN rows' /\ rows'[i].product = p
    <3> DEFINE new == NewRow(call[c].product, call[c].attributes, call[c].stock)
    <3>1. call[c].pc = "saving" /\ Fits(call[c], product, rows)
      BY <2>5, Known DEF SaveVariant, At
    <3>2. call[c].row # 0 => rows[call[c].row].product = call[c].product
      BY <3>1 DEF Fits, RowFits
    <3>3. new.product = call[c].product
      BY DEF NewRow
    <3>4. \/ call[c].row # 0 /\ rows' = [rows EXCEPT ![call[c].row] = new]
          \/ rows' = Append(rows, new)
          \/ UNCHANGED rows
      BY <2>5 DEF SaveVariant
    <3> HIDE DEF new
    <3>5. QED
      BY <2>1, <2>2, <2>3, <3>2, <3>3, <3>4
  <2>6. ASSUME NEW c \in Calls, WriteVariant(c) PROVE i \in DOMAIN rows' /\ rows'[i].product = p
    <3> DEFINE j == call[c].row
               r1 == [rows[j] EXCEPT !.stock = call[c].stock]
               r2 == [rows[j] EXCEPT !.live = FALSE]
               r3 == [rows[j] EXCEPT !.attributes = call[c].attributes,
                                     !.key = AttributeKey(call[c].attributes)]
    <3>1. call[c].pc = "writing" /\ call[c].op \in {"set", "rename", "remove"} /\ Fits(call[c], product, rows)
      BY <2>6, Known DEF WriteVariant, At
    <3>2. j \in DOMAIN rows /\ rows[j] \in Row
      BY <1>2, <3>1 DEF Fits, RowFits
    <3>3. \/ rows' = [rows EXCEPT ![j] = r1] \/ rows' = [rows EXCEPT ![j] = r2]
          \/ rows' = [rows EXCEPT ![j] = r3] \/ UNCHANGED rows
      BY <2>6, <3>2 DEF WriteVariant
    <3>4. r1.product = rows[j].product /\ r2.product = rows[j].product /\ r3.product = rows[j].product
      BY <3>2 DEF Row
    <3> HIDE DEF r1, r2, r3
    <3>5. QED
      BY <2>1, <2>2, <3>3, <3>4
  <2>7. ASSUME NEW c \in Calls, NEW q \in Products, BackfillOne(c, q)
        PROVE  i \in DOMAIN rows' /\ rows'[i].product = p
    BY <2>1, <2>3, <2>7 DEF BackfillOne
  <2>8. ASSUME NEW items \in SUBSET Products, Sell(items)
        PROVE  i \in DOMAIN rows' /\ rows'[i].product = p
    <3>1. rows'[i] = rows[i] \/ rows'[i] = [rows[i] EXCEPT !.stock = @ - 1]
      BY <1>1, <2>8 DEF Sell, Decremented
    <3>2. i \in DOMAIN rows'
      BY <1>1, <2>8 DEF Sell, Decremented
    <3>3. QED
      BY <1>1, <1>2, <3>1, <3>2 DEF Row
  <2>9. QED
    BY <2>1, <2>4, <2>5, <2>6, <2>7, <2>8, RowWriters
<1>4. QED
  BY <1>3 DEF HasRow

LEMMA StatesStay ==
  ASSUME IInv, [Next]_vars, NEW p \in Products, product[p].state # "absent", Live(p)' PROVE Live(p)
<1>1. product \in [Products -> Product] /\ product'[p].state = "live"
  BY DEF IInv, TypeOK, Live
<1>2. ASSUME NEW c \in Calls, WriteProduct(c) \/ DeleteProduct(c) \/ SyncWrite(c)
      PROVE  product[p].state = "live"
  <2>1. CASE WriteProduct(c)
    BY <1>1, <2>1 DEF WriteProduct, Product
  <2>2. CASE DeleteProduct(c)
    BY <1>1, <2>2 DEF DeleteProduct, Product
  <2>3. CASE SyncWrite(c)
    BY <1>1, <2>3 DEF SyncWrite
  <2>4. QED
    BY <1>2, <2>1, <2>2, <2>3
<1>3. ASSUME NEW c \in Calls, NEW q \in Products, NEW stock \in Stocks, CreateProduct(c, q, stock)
      PROVE  product[p].state = "live"
  BY <1>1, <1>3 DEF CreateProduct
<1>4. ASSUME NEW items \in SUBSET Products, Sell(items) PROVE product[p].state = "live"
  BY <1>1, <1>4 DEF Sell, Product
<1>5. product[p].state = "live"
  BY <1>1, <1>2, <1>3, <1>4, ProductWriters
<1>6. QED
  BY <1>5 DEF Live

(* A backfill that is done and saw no failure. *)
Filled(k, ps, rs) ==
  k.pc = "done" /\ k.op = "backfill" /\ k.failed = 0
    => \A p \in k.begun : ps[p].state = "live" => \E i \in DOMAIN rs : rs[i].product = p

LEMMA FilledIsFillsGaps == BackfillFillsGaps <=> \A c \in Calls : Filled(call[c], product, rows)
BY DEF BackfillFillsGaps, Filled, At, Does, Live, HasRow

LEMMA FilledStays ==
  ASSUME IInv, [Next]_vars, NEW c \in Calls, Filled(call[c], product, rows) PROVE Filled(call[c], product', rows')
<1>1. call[c] \in Call /\ Fits(call[c], product, rows)
  BY Known
<1>2. CASE ~(call[c].pc = "done" /\ call[c].op = "backfill" /\ call[c].failed = 0)
  BY <1>2 DEF Filled
<1>3. CASE call[c].pc = "done" /\ call[c].op = "backfill" /\ call[c].failed = 0
  <2>1. ASSUME NEW p \in call[c].begun, product'[p].state = "live"
        PROVE  \E i \in DOMAIN rows' : rows'[i].product = p
    <3>1. p \in Products /\ product[p].state # "absent"
      BY <1>1, <1>3 DEF Fits, ProductFits, Call
    <3>2. Live(p)
      BY <2>1, <3>1, StatesStay DEF Live
    <3>3. HasRow(p)
      BY <1>3, <3>2 DEF Filled, Live, HasRow
    <3>4. HasRow(p)'
      BY <3>1, <3>3, RowsStay
    <3>5. QED
      BY <3>4 DEF HasRow
  <2>2. QED
    BY <2>1 DEF Filled
<1>4. QED
  BY <1>2, <1>3

LEMMA NextFills ==
  ASSUME IInv, BackfillFillsGaps, [Next]_vars PROVE BackfillFillsGaps'
<1>1. \A d \in Calls : Filled(call[d], product', rows')
  BY FilledIsFillsGaps, FilledStays
<1>2. ASSUME NEW d \in Calls, NEW k, k = call[d] \/ k = [call[d] EXCEPT !.clean = FALSE]
      PROVE  Filled(k, product', rows')
  <2>1. k.pc = call[d].pc /\ k.op = call[d].op /\ k.failed = call[d].failed /\ k.begun = call[d].begun
    <3>1. call[d] \in Call
      BY Known
    <3>2. QED
      BY <1>2, <3>1 DEF Call
  <2>2. QED
    BY <1>1, <2>1 DEF Filled
<1>3. ASSUME NEW c \in Calls, OthersMay(c), Filled(call'[c], product', rows') PROVE BackfillFillsGaps'
  <2>1. \A d \in Calls : Filled(call'[d], product', rows')
    BY <1>2, <1>3 DEF OthersMay
  <2>2. QED
    BY <2>1 DEF BackfillFillsGaps, Filled, At, Does, Live, HasRow
<1>4. ASSUME \A d \in Calls : call'[d] = call[d] \/ call'[d] = [call[d] EXCEPT !.clean = FALSE]
      PROVE  BackfillFillsGaps'
  <2>1. \A d \in Calls : Filled(call'[d], product', rows')
    BY <1>2, <1>4
  <2>2. QED
    BY <2>1 DEF BackfillFillsGaps, Filled, At, Does, Live, HasRow
<1>5. CASE UNCHANGED vars
  BY <1>4, <1>5 DEF vars
<1>6. ASSUME NEW c \in Calls, Start(c) PROVE BackfillFillsGaps'
  <2>1. Others(c) /\ call'[c].pc # "done"
    BY <1>6, StartPoints
  <2>2. OthersMay(c) /\ Filled(call'[c], product', rows')
    BY <2>1 DEF Others, OthersMay, Filled
  <2>3. QED
    BY <1>3, <2>2
<1>7. ASSUME NEW c \in Calls, Step(c) \/ Fail(c) PROVE BackfillFillsGaps'
  <2>1. /\ OthersMay(c) /\ call'[c].op = call[c].op /\ call[c] \in Call /\ call \in [Calls -> Call]
        /\ Fits(call[c], product, rows)
    BY <1>7, StepShape, Known
  <2>2. CASE call[c].op # "backfill"
    BY <1>3, <2>1, <2>2 DEF Filled
  <2>3. CASE call'[c].pc # "done"
    BY <1>3, <2>1, <2>3 DEF Filled
  <2>4. CASE call[c].op = "backfill" /\ BackfillQuery(c)
    <3>1. CASE Rowless = {} /\ Goto(c, "done")
      <4>1. UNCHANGED <<product, rows>>
        BY <2>4 DEF BackfillQuery
      <4>2. \A p \in Products : product'[p].state = "live" => \E i \in DOMAIN rows' : rows'[i].product = p
        BY <3>1, <4>1 DEF Rowless, Live, HasRow
      <4>3. call'[c] = [call[c] EXCEPT !.pc = "done"]
        BY <2>1, <3>1 DEF Goto
      <4>4. call'[c].begun = call[c].begun /\ call[c].begun \subseteq Products
        BY <2>1, <4>3 DEF Call
      <4>5. Filled(call'[c], product', rows')
        BY <4>2, <4>4 DEF Filled
      <4>6. QED
        BY <1>3, <2>1, <4>5
    <3>2. CASE ~(Rowless = {} /\ Goto(c, "done"))
      <4>1. PICK batch \in SUBSET Rowless :
              call' = [call EXCEPT ![c] =
                [@ EXCEPT !.pc = "filling", !.batch = Cardinality(batch), !.clean = TRUE,
                          !.todo = [p \in Products |-> IF p \in batch THEN product[p].stock ELSE NoStock]]]
        BY <2>4, <3>2 DEF BackfillQuery
      <4> DEFINE k == [call[c] EXCEPT !.pc = "filling", !.batch = Cardinality(batch), !.clean = TRUE,
                          !.todo = [p \in Products |-> IF p \in batch THEN product[p].stock ELSE NoStock]]
      <4>2. call' = [call EXCEPT ![c] = k] /\ k.pc = "filling"
        BY <2>1, <4>1 DEF Call
      <4> HIDE DEF k
      <4>3. call'[c].pc # "done"
        BY <2>1, <4>2
      <4>4. QED
        BY <2>3, <4>3
    <3>3. QED
      BY <3>1, <3>2
  <2>5. CASE call[c].op = "backfill" /\ BackfillBatchEnds(c)
    <3>1. call'[c].pc = (IF GivesUp(c) THEN "done" ELSE "query") /\ call'[c].failed = call[c].failed
      BY <2>1, <2>5 DEF BackfillBatchEnds, Goto, Call
    <3>2. GivesUp(c) => call[c].failed # 0
      BY <2>1, <2>5 DEF GivesUp, BackfillBatchEnds, At, Fits, StockFits, Call
    <3>3. Filled(call'[c], product', rows')
      BY <3>1, <3>2 DEF Filled
    <3>4. QED
      BY <1>3, <2>1, <3>3
  <2>6. ASSUME NEW p \in Products, call[c].op = "backfill", BackfillOne(c, p) PROVE BackfillFillsGaps'
    <3> DEFINE failed == call[c].failed
               k1 == [call[c] EXCEPT !.todo[p] = NoStock, !.created = call[c].created + 1]
               k2 == [call[c] EXCEPT !.todo[p] = NoStock,
                             !.failed = IF failed < Cardinality(Products) THEN failed + 1 ELSE failed]
    <3>1. call' = [call EXCEPT ![c] = k1] \/ call' = [call EXCEPT ![c] = k2]
      BY <2>6 DEF BackfillOne
    <3>2. k1.pc = "filling" /\ k2.pc = "filling"
      BY <2>1, <2>6 DEF BackfillOne, At, Call
    <3> HIDE DEF k1, k2
    <3>3. call'[c].pc # "done"
      BY <2>1, <3>1, <3>2
    <3>4. QED
      BY <2>3, <3>3
  <2>7. CASE Fail(c)
    <3>1. call'[c].pc # "done"
      BY <2>1, <2>7 DEF Fail, Goto, Call
    <3>2. QED
      BY <2>3, <3>1
  <2>8. CASE call[c].op = "backfill" /\ call[c].pc \notin {"query", "filling"} /\ Step(c)
    <3>1. call[c].pc \notin {"editing", "checking", "writing", "mirroring", "mirrorFound", "next", "upserting",
                           "finding", "saving", "reloading", "query", "filling"}
      BY <2>1, <2>8 DEF Fits, OpFits
    <3>2. QED
      BY <2>8, <3>1 DEF Step, SaveForm, CheckProduct, WriteProduct, DeleteProduct, FindMirror, WriteMirror,
         SyncFind, SyncWrite, SyncEnd, FindVariant, SaveVariant, CheckVariant, WriteVariant, Reload,
         BackfillQuery, BackfillOne, BackfillBatchEnds, At
  <2>9. CASE call[c].pc \in {"query", "filling"} /\ Step(c)
    <3>1. BackfillQuery(c) \/ BackfillBatchEnds(c) \/ \E p \in Products : BackfillOne(c, p)
      BY <2>9 DEF Step, SaveForm, CheckProduct, WriteProduct, DeleteProduct, FindMirror, WriteMirror,
         SyncFind, SyncWrite, SyncEnd, FindVariant, SaveVariant, CheckVariant, WriteVariant, Reload, At
    <3>2. QED
      BY <2>2, <2>4, <2>5, <2>6, <3>1
  <2>10. QED
    BY <1>7, <2>2, <2>7, <2>8, <2>9
<1>8. CASE \/ Load \/ LoadFails \/ CloseDialog \/ (\E p \in Products : OpenDialog(p))
           \/ \E items \in SUBSET Products : Sell(items)
  BY <1>4, <1>8 DEF CloseDialog, OpenDialog, Load, LoadFails, Sell, Outdated
<1>9. QED
  BY <1>5, <1>6, <1>7, <1>8 DEF Next

-----------------------------------------------------------------------------
(* The dialog *)

(* A call that has changed the list ahead of the table.                    *)
Sets(k) == Shows(k) /\ k.op = "set" /\ k.pc \in {"checking", "writing"}

ShownAgree(d, rs, cs) ==
  \A i \in DOMAIN rs :
    rs[i].product = d.product /\ rs[i].key # DefaultKey
      => /\ i \in DOMAIN d.shown <=> rs[i].live
         /\ rs[i].live => \/ d.shown[i] = rs[i].stock
                           \/ \E c \in Calls : Sets(cs[c]) /\ cs[c].row = i

(* Without a known reason to differ, at most one call of the dialog is     *)
(* under way, and a list that is not about to be loaded shows what the     *)
(* table holds or what this call will write.                               *)
Keeps(d, rs, cs) ==
  d # Closed /\ ~d.raced =>
    /\ \A c, e \in Calls : Shows(cs[c]) /\ Shows(cs[e]) => c = e
    /\ \A c \in Calls : Sets(cs[c]) => /\ cs[c].row \in DOMAIN d.shown
                                      /\ d.shown[cs[c].row] = cs[c].stock
    /\ ~d.loading => ShownAgree(d, rs, cs)

DialogKept == Keeps(dialog, rows, call)

SetsShows == \A k : Sets(k) => Shows(k)

LEMMA SettersShow == SetsShows
BY DEF SetsShows, Sets

(* A step beside the dialog: of the product's rows it writes the default   *)
(* row alone.                                                              *)
DefaultOnly ==
  \A i \in DOMAIN rows' :
    rows'[i].product = dialog.product /\ rows'[i].key # DefaultKey
      => i \in DOMAIN rows /\ rows'[i] = rows[i]

LEMMA BesideDialog ==
  ASSUME DialogKept, dialog' = dialog \/ dialog' = Closed \/ dialog'.raced, dialog' = dialog => DefaultOnly,
         \A d \in Calls : Shows(call[d]) \/ Shows(call'[d]) => call'[d] = call[d]
  PROVE  DialogKept'
<1>1. CASE dialog' = Closed \/ dialog'.raced
  BY <1>1 DEF DialogKept, Keeps
<1>2. CASE dialog' = dialog
  <2>1. \A d \in Calls : (Shows(call'[d]) <=> Shows(call[d])) /\ (Shows(call[d]) => call'[d] = call[d])
    OBVIOUS
  <2>2. \A d \in Calls : Sets(call'[d]) <=> Sets(call[d])
    BY <2>1, SettersShow DEF SetsShows
  <2>3. \A d \in Calls : Sets(call'[d]) => call'[d] = call[d]
    BY <2>1, SettersShow DEF SetsShows
  <2>4. ShownAgree(dialog, rows, call) => ShownAgree(dialog, rows', call')
    BY <1>2, <2>2, <2>3 DEF ShownAgree, DefaultOnly
  <2>5. Keeps(dialog, rows', call')
    BY <2>1, <2>2, <2>3, <2>4 DEF DialogKept, Keeps
  <2>6. QED
    BY <1>2, <2>5 DEF DialogKept
<1>3. QED
  BY <1>1, <1>2

LEMMA SameRowsDefaultOnly ==
  ASSUME UNCHANGED rows PROVE DefaultOnly
BY DEF DefaultOnly

LEMMA OtherCallBeside ==
  ASSUME IInv, DialogKept, NEW c \in Calls, OthersMay(c), ~Shows(call[c]), ~Shows(call'[c]),
         dialog' = dialog \/ dialog' = Closed \/ dialog'.raced, dialog' = dialog => DefaultOnly
  PROVE  DialogKept'
<1>1. ASSUME NEW d \in Calls, Shows(call[d]) \/ Shows(call'[d]) PROVE call'[d] = call[d]
  <2>1. CASE d = c
    BY <1>1, <2>1
  <2>2. CASE d # c /\ call'[d] = [call[d] EXCEPT !.clean = FALSE]
                  /\ call[d].pc \in {"mirroring", "mirrorFound", "filling"}
    <3>1. call[d] \in Call /\ Fits(call[d], product, rows)
      BY Known
    <3>2. call[d].op \notin {"add", "set", "remove"}
      BY <2>2, <3>1 DEF Fits, OpFits
    <3>3. call'[d].op = call[d].op
      BY <2>2, <3>1 DEF Call
    <3>4. QED
      BY <1>1, <3>2, <3>3 DEF Shows
  <2>3. QED
    BY <2>1, <2>2 DEF OthersMay
<1>2. QED
  BY <1>1, BesideDialog

(* A step of the dialog's only call.                                       *)
LEMMA SoleMoves ==
  ASSUME NEW c \in Calls, Others(c), \A d \in Calls \ {c} : ~Shows(call[d]),
         Sets(call'[c]) => call'[c].row \in DOMAIN dialog'.shown
                           /\ dialog'.shown[call'[c].row] = call'[c].stock,
         ~dialog'.loading => ShownAgree(dialog', rows', call')
  PROVE  DialogKept'
<1>1. \A d \in Calls \ {c} : ~Shows(call'[d]) /\ ~Sets(call'[d])
  BY SettersShow DEF Others, SetsShows
<1>2. Keeps(dialog', rows', call')
  BY <1>1 DEF Keeps
<1>3. QED
  BY <1>2 DEF DialogKept

LEMMA RacedKept == ASSUME dialog'.raced PROVE DialogKept'
BY DEF DialogKept, Keeps

(* The dialog's only call, and what it leaves of the list.                 *)
LEMMA SoleCall ==
  ASSUME IInv, DialogKept, ~dialog.raced, NEW c \in Calls, Shows(call[c])
  PROVE  /\ \A d \in Calls \ {c} : ~Shows(call[d]) /\ ~Sets(call[d])
         /\ ~dialog.loading => ShownAgree(dialog, rows, call)
         /\ Sets(call[c]) => call[c].row \in DOMAIN dialog.shown /\ dialog.shown[call[c].row] = call[c].stock
<1>1. dialog # Closed
  BY Known
<1>2. \A d \in Calls \ {c} : ~Shows(call[d]) /\ ~Sets(call[d])
  BY <1>1, SettersShow DEF DialogKept, Keeps, SetsShows
<1>3. QED
  BY <1>1, <1>2 DEF DialogKept, Keeps

LEMMA DialogPoint ==
  ASSUME IInv, DialogKept, NEW c \in Calls, Others(c), Shows(call[c]), UNCHANGED <<rows, dialog>>,
         Sets(call'[c]) <=> Sets(call[c]),
         Sets(call[c]) => call'[c].row = call[c].row /\ call'[c].stock = call[c].stock
  PROVE  DialogKept'
<1>1. CASE dialog.raced
  BY <1>1, RacedKept
<1>2. CASE ~dialog.raced
  <2>1. /\ \A d \in Calls \ {c} : ~Shows(call[d]) /\ ~Sets(call[d])
        /\ ~dialog.loading => ShownAgree(dialog, rows, call)
        /\ Sets(call[c]) => call[c].row \in DOMAIN dialog.shown /\ dialog.shown[call[c].row] = call[c].stock
    BY <1>2, SoleCall
  <2>2. ShownAgree(dialog, rows, call) => ShownAgree(dialog, rows, call')
    <3>1. ASSUME NEW d \in Calls, Sets(call[d]) PROVE Sets(call'[d]) /\ call'[d].row = call[d].row
      BY <2>1, <3>1
    <3>2. QED
      BY <3>1 DEF ShownAgree
  <2>3. QED
    BY <2>1, <2>2, SoleMoves
<1>3. QED
  BY <1>1, <1>2

(* A call of the dialog starts: unless the list is marked, it shows the    *)
(* table, and the call is the only one.                                    *)
LEMMA RacesShow ==
  ASSUME IInv, DialogKept, Ready
  PROVE  /\ Races.product = dialog.product /\ Races.shown = dialog.shown
         /\ dialog.shown = [i \in DOMAIN dialog.shown |-> dialog.shown[i]]
         /\ Races.raced \/ /\ \A d \in Calls : ~Shows(call[d]) /\ ~Sets(call[d])
                           /\ ShownAgree(dialog, rows, call)
<1>1. /\ Races.product = dialog.product /\ Races.shown = dialog.shown
      /\ Races.raced = (dialog.raced \/ DialogCalls # {})
      /\ dialog.shown = [i \in DOMAIN dialog.shown |-> dialog.shown[i]]
  BY DEF IInv, DialogFits, DialogTyped, Races
<1>2. CASE Races.raced
  BY <1>1, <1>2
<1>3. CASE ~Races.raced
  <2>1. ~dialog.raced /\ DialogCalls = {}
    BY <1>1, <1>3
  <2>2. \A d \in Calls : ~Shows(call[d]) /\ ~Sets(call[d])
    BY <2>1, DialogCallsShow, SettersShow DEF SetsShows
  <2>3. ShownAgree(dialog, rows, call)
    BY <2>1, <2>2 DEF DialogKept, Keeps, Ready
  <2>4. QED
    BY <1>1, <2>2, <2>3
<1>4. QED
  BY <1>2, <1>3

LEMMA StartKeepsDialog ==
  ASSUME IInv, DialogKept, NEW c \in Calls, Start(c) PROVE DialogKept'
<1>1. /\ call[c].pc = "idle" /\ Others(c) /\ UNCHANGED rows
      /\ call[c] = NewCall /\ call[c] \in Call /\ call \in [Calls -> Call]
  BY StartPoints, Known DEF Fits
<1>2. ~Shows(call[c])
  BY <1>1 DEF NewCall, Shows
<1>3. CASE ~Shows(call'[c]) /\ UNCHANGED dialog
  <2>1. OthersMay(c)
    BY <1>1 DEF Others, OthersMay
  <2>2. QED
    BY <1>1, <1>2, <1>3, <2>1, SameRowsDefaultOnly, OtherCallBeside
<1>4. ASSUME Ready, dialog' = Races, call'[c].op \in {"add", "remove"} PROVE DialogKept'
  <2>1. CASE dialog'.raced
    BY <2>1, RacedKept
  <2>2. CASE ~dialog'.raced
    <3>1. /\ \A d \in Calls : ~Shows(call[d]) /\ ~Sets(call[d])
          /\ ShownAgree(dialog, rows, call)
          /\ dialog'.product = dialog.product /\ dialog'.shown = dialog.shown
      BY <1>4, <2>2, RacesShow
    <3>2. ShownAgree(dialog', rows', call')
      BY <1>1, <3>1 DEF ShownAgree
    <3>3. ~Sets(call'[c])
      BY <1>4 DEF Sets
    <3>4. QED
      BY <1>1, <1>2, <3>1, <3>2, <3>3, SoleMoves
  <2>3. QED
    BY <2>1, <2>2
<1>5. ASSUME NEW entry \in Typed, StartAdd(c, entry[1], entry[2]) PROVE DialogKept'
  <2>1. Ready /\ dialog' = Races
    BY <1>5 DEF StartAdd
  <2>2. call'[c].op = "add"
    BY <1>1, <1>5 DEF StartAdd, Call
  <2>3. QED
    BY <1>4, <2>1, <2>2
<1>6. ASSUME NEW i \in DOMAIN rows, StartRemove(c, i) PROVE DialogKept'
  <2>1. Ready /\ dialog' = Races
    BY <1>6 DEF StartRemove
  <2>2. call'[c].op = "remove"
    BY <1>1, <1>6 DEF StartRemove, Call
  <2>3. QED
    BY <1>4, <2>1, <2>2
<1>7. ASSUME NEW i \in DOMAIN rows, NEW stock \in Stocks, StartSet(c, i, stock) PROVE DialogKept'
  <2> DEFINE k == [call[c] EXCEPT !.pc = "checking", !.op = "set", !.row = i, !.stock = stock]
  <2>1. /\ call' = [call EXCEPT ![c] = k] /\ dialog' = [Races EXCEPT !.shown[i] = stock]
        /\ i \in DOMAIN dialog.shown
    BY <1>7 DEF StartSet
  <2>2. k.pc = "checking" /\ k.op = "set" /\ k.row = i /\ k.stock = stock /\ k.clean
    BY <1>1 DEF Call, NewCall
  <2> HIDE DEF k
  <2>3. call'[c] = k
    BY <1>1, <2>1
  <2>4. Ready
    BY <1>7 DEF StartSet
  <2>5. /\ DialogTyped(Races, rows)
        /\ Races.product = dialog.product /\ Races.shown = dialog.shown
        /\ dialog.shown = [j \in DOMAIN dialog.shown |-> dialog.shown[j]]
        /\ Races.raced \/ /\ \A d \in Calls : ~Shows(call[d]) /\ ~Sets(call[d])
                          /\ ShownAgree(dialog, rows, call)
    BY <2>4, RacesFits, RacesShow DEF Ready
  <2>6. /\ dialog'.product = dialog.product /\ dialog'.raced = Races.raced
        /\ dialog'.shown = [dialog.shown EXCEPT ![i] = stock]
    BY <2>1, <2>5 DEF DialogTyped
  <2>7. /\ DOMAIN dialog'.shown = DOMAIN dialog.shown /\ dialog'.shown[i] = stock
        /\ \A j \in DOMAIN dialog.shown : j # i => dialog'.shown[j] = dialog.shown[j]
    BY <2>1, <2>5, <2>6
  <2>8. CASE Races.raced
    BY <2>6, <2>8, RacedKept
  <2>9. CASE ~Races.raced
    <3>1. Sets(call'[c])
      BY <2>2, <2>3 DEF Sets, Shows
    <3>2. ShownAgree(dialog', rows', call')
      <4>1. ASSUME NEW j \in DOMAIN rows, rows[j].product = dialog.product, rows[j].key # DefaultKey
            PROVE  /\ j \in DOMAIN dialog'.shown <=> rows[j].live
                   /\ rows[j].live => \/ dialog'.shown[j] = rows[j].stock
                                     \/ \E d \in Calls : Sets(call'[d]) /\ call'[d].row = j
        <5>1. /\ j \in DOMAIN dialog.shown <=> rows[j].live
              /\ rows[j].live => dialog.shown[j] = rows[j].stock
          BY <2>5, <2>9, <4>1 DEF ShownAgree
        <5>2. CASE j = i
          BY <2>2, <2>3, <2>7, <3>1, <5>1, <5>2
        <5>3. CASE j # i
          BY <2>7, <5>1, <5>3
        <5>4. QED
          BY <5>2, <5>3
      <4>2. QED
        BY <1>1, <2>6, <4>1 DEF ShownAgree
    <3>3. QED
      BY <1>1, <1>2, <2>1, <2>2, <2>3, <2>5, <2>7, <2>9, <3>2, SoleMoves
  <2>10. QED
    BY <2>8, <2>9
<1>8. QED
  BY <1>3, <1>5, <1>6, <1>7, StartPoints

(* The steps of a call that may be the dialog's.                           *)
LEMMA DialogSteps ==
  ASSUME IInv, NEW c \in Calls, Step(c) \/ Fail(c), call[c].op \in {"add", "set", "remove"}
  PROVE  /\ \/ CheckProduct(c) \/ FindVariant(c) \/ SaveVariant(c) \/ CheckVariant(c) \/ WriteVariant(c)
            \/ Reload(c) \/ Fail(c)
         /\ call[c].pc \notin {"done", "threw"} /\ Others(c)
         /\ call'[c].op = call[c].op /\ call'[c].clean = call[c].clean
<1>1. /\ call[c] \in Call /\ call \in [Calls -> Call] /\ Fits(call[c], product, rows)
  BY Known
<1>2. ASSUME \/ SaveForm(c) \/ WriteProduct(c) \/ DeleteProduct(c) \/ FindMirror(c) \/ WriteMirror(c)
             \/ (\E p \in Products : SyncFind(c, p)) \/ SyncWrite(c) \/ SyncEnd(c)
             \/ BackfillQuery(c) \/ (\E p \in Products : BackfillOne(c, p)) \/ BackfillBatchEnds(c)
      PROVE  FALSE
  <2>1. \/ call[c].pc = "editing"
        \/ call[c].pc = "writing" /\ call[c].op \in {"update", "delete"}
        \/ call[c].pc \in {"mirroring", "mirrorFound", "next", "upserting", "query", "filling"}
    <3>1. WriteProduct(c) \/ DeleteProduct(c) => call[c].pc = "writing" /\ call[c].op \in {"update", "delete"}
      BY DEF WriteProduct, DeleteProduct, At, Does
    <3>2. /\ SaveForm(c) => call[c].pc = "editing"
          /\ FindMirror(c) => call[c].pc = "mirroring"
          /\ WriteMirror(c) => call[c].pc = "mirrorFound"
      BY DEF SaveForm, FindMirror, WriteMirror, At
    <3>3. /\ (\E p \in Products : SyncFind(c, p)) => call[c].pc = "next"
          /\ SyncWrite(c) => call[c].pc = "upserting"
          /\ SyncEnd(c) => call[c].pc = "next"
      BY DEF SyncFind, SyncWrite, SyncEnd, At
    <3>4. /\ BackfillQuery(c) => call[c].pc = "query"
          /\ (\E p \in Products : BackfillOne(c, p)) => call[c].pc = "filling"
          /\ BackfillBatchEnds(c) => call[c].pc = "filling"
      BY DEF BackfillQuery, BackfillOne, BackfillBatchEnds, At
    <3>5. QED
      BY <1>2, <3>1, <3>2, <3>3, <3>4
  <2>2. QED
    BY <1>1, <2>1 DEF Fits, OpFits
<1>3. \/ CheckProduct(c) \/ FindVariant(c) \/ SaveVariant(c) \/ CheckVariant(c) \/ WriteVariant(c)
      \/ Reload(c) \/ Fail(c)
  BY <1>2 DEF Step
<1>4. call[c].pc \notin {"done", "threw"}
  BY <1>3 DEF CheckProduct, FindVariant, SaveVariant, CheckVariant, WriteVariant, Reload, Fail, At
<1>5. ASSUME NEW pc, Goto(c, pc) PROVE Others(c) /\ call'[c].op = call[c].op /\ call'[c].clean = call[c].clean
  BY <1>1, <1>5 DEF Goto, Others, Call
<1>6. CASE FindVariant(c)
  <2> DEFINE k == [call[c] EXCEPT !.pc = "saving",
                                  !.row = Find(call[c].product, AttributeKey(call[c].attributes))]
  <2>1. Goto(c, "threw") \/ call' = [call EXCEPT ![c] = k]
    BY <1>6 DEF FindVariant, Throw
  <2>2. k.op = call[c].op /\ k.clean = call[c].clean
    BY <1>1 DEF Call
  <2> HIDE DEF k
  <2>3. call' = [call EXCEPT ![c] = k] => Others(c) /\ call'[c].op = call[c].op /\ call'[c].clean = call[c].clean
    BY <1>1, <2>2 DEF Others
  <2>4. QED
    BY <1>3, <1>4, <1>5, <2>1, <2>3
<1>7. CASE CheckProduct(c) \/ SaveVariant(c) \/ CheckVariant(c) \/ WriteVariant(c) \/ Reload(c) \/ Fail(c)
  <2>1. \E pc : Goto(c, pc)
    BY <1>7 DEF CheckProduct, SaveVariant, CheckVariant, WriteVariant, Reload, Fail, Throw
  <2>2. QED
    BY <1>3, <1>4, <1>5, <2>1
<1>8. QED
  BY <1>3, <1>6, <1>7

LEMMA NeverShows ==
  ASSUME IInv, NEW c \in Calls, Step(c) \/ Fail(c), ~Shows(call[c]) PROVE ~Shows(call'[c])
<1>1. CASE call[c].op \in {"add", "set", "remove"}
  BY <1>1, DialogSteps DEF Shows
<1>2. CASE call[c].op \notin {"add", "set", "remove"}
  BY <1>2, StepShape DEF Shows
<1>3. QED
  BY <1>1, <1>2

(* Another client's change of a variant.                                   *)
LEMMA ChangesBeside ==
  ASSUME IInv, NEW c \in Calls, ~Shows(call[c]), NEW p \in Products, NEW reload \in BOOLEAN,
         dialog' = Changed(c, p, reload),
         \A i \in DOMAIN rows' : rows'[i].product # p => i \in DOMAIN rows /\ rows'[i] = rows[i]
  PROVE  dialog'.raced \/ (dialog' = dialog /\ DefaultOnly)
<1>1. DialogTyped(dialog, rows) /\ (Shows(call[c]) => dialog # Closed)
  BY Known
<1>2. \/ Changed(c, p, reload) = dialog /\ dialog.product # p
      \/ Changed(c, p, reload).raced
  BY <1>1, ChangedMarks
<1>3. CASE dialog' = dialog /\ dialog.product # p
  <2>1. DefaultOnly
    BY <1>3 DEF DefaultOnly
  <2>2. QED
    BY <1>3, <2>1
<1>4. CASE Changed(c, p, reload).raced
  BY <1>4
<1>5. QED
  BY <1>2, <1>3, <1>4

LEMMA SaveVariantBeside ==
  ASSUME IInv, NEW c \in Calls, ~Shows(call[c]), SaveVariant(c)
  PROVE  dialog'.raced \/ (dialog' = dialog /\ DefaultOnly)
<1> DEFINE p == call[c].product
           i == call[c].row
           new == NewRow(p, call[c].attributes, call[c].stock)
<1>1. /\ call[c] \in Call /\ Fits(call[c], product, rows) /\ call[c].pc = "saving" /\ rows \in Seq(Row)
  BY Known DEF SaveVariant, At
<1>2. /\ p \in Products /\ call[c].stock \in Int /\ call[c].attributes \in Offers \cup {{}}
      /\ i # 0 => i \in DOMAIN rows /\ rows[i].product = p
  BY <1>1 DEF Fits, OpFits, ProductFits, StockFits, RowFits, Mirrors, Call
<1>3. new \in Row /\ new.product = p
  BY <1>2, NewRowIsRow
<1>4. \/ i # 0 /\ rows' = [rows EXCEPT ![i] = new] /\ dialog' = Changed(c, p, TRUE)
      \/ rows' = Append(rows, new) /\ dialog' = Changed(c, p, TRUE)
      \/ UNCHANGED <<rows, dialog>>
  BY DEF SaveVariant
<1> HIDE DEF new, p, i
<1>5. CASE i # 0 /\ rows' = [rows EXCEPT ![i] = new] /\ dialog' = Changed(c, p, TRUE)
  <2>1. \A j \in DOMAIN rows' : rows'[j].product # p => j \in DOMAIN rows /\ rows'[j] = rows[j]
    BY <1>2, <1>3, <1>5
  <2>2. QED
    BY <1>2, <1>5, <2>1, ChangesBeside
<1>6. CASE rows' = Append(rows, new) /\ dialog' = Changed(c, p, TRUE)
  <2>1. /\ DOMAIN rows' = DOMAIN rows \cup {Len(rows) + 1}
        /\ \A j \in DOMAIN rows : rows'[j] = rows[j]
        /\ rows'[Len(rows) + 1] = new
    BY <1>1, <1>3, <1>6, RowInserted
  <2>2. \A j \in DOMAIN rows' : rows'[j].product # p => j \in DOMAIN rows /\ rows'[j] = rows[j]
    BY <1>3, <2>1
  <2>3. QED
    BY <1>2, <1>6, <2>2, ChangesBeside
<1>7. CASE UNCHANGED <<rows, dialog>>
  BY <1>7, SameRowsDefaultOnly
<1>8. QED
  BY <1>4, <1>5, <1>6, <1>7

LEMMA WriteVariantBeside ==
  ASSUME IInv, NEW c \in Calls, ~Shows(call[c]), WriteVariant(c)
  PROVE  dialog'.raced \/ (dialog' = dialog /\ DefaultOnly)
<1> DEFINE i == call[c].row
           p == rows[i].product
           set == [rows[i] EXCEPT !.stock = call[c].stock]
           removed == [rows[i] EXCEPT !.live = FALSE]
           renamed == [rows[i] EXCEPT !.attributes = call[c].attributes,
                                      !.key = AttributeKey(call[c].attributes)]
<1>1. /\ call[c] \in Call /\ Fits(call[c], product, rows) /\ rows \in Seq(Row)
      /\ call[c].op \in {"set", "rename", "remove"}
  BY Known DEF WriteVariant
<1>2. i \in DOMAIN rows /\ rows[i] \in Row
  BY <1>1 DEF Fits, RowFits
<1>3. p \in Products /\ set.product = p /\ removed.product = p /\ renamed.product = p
  BY <1>2 DEF Row
<1>4. \/ rows' = [rows EXCEPT ![i] = set] /\ dialog' = Changed(c, p, FALSE)
      \/ rows' = [rows EXCEPT ![i] = removed] /\ dialog' = Changed(c, p, TRUE)
      \/ rows' = [rows EXCEPT ![i] = renamed] /\ dialog' = Changed(c, p, FALSE)
      \/ UNCHANGED <<rows, dialog>>
  BY <1>1, <1>2 DEF WriteVariant
<1> HIDE DEF i, p, set, removed, renamed
<1>5. ASSUME NEW row, row.product = p, rows' = [rows EXCEPT ![i] = row], NEW reload \in BOOLEAN,
             dialog' = Changed(c, p, reload)
      PROVE  dialog'.raced \/ (dialog' = dialog /\ DefaultOnly)
  <2>1. \A j \in DOMAIN rows' : rows'[j].product # p => j \in DOMAIN rows /\ rows'[j] = rows[j]
    BY <1>1, <1>2, <1>5
  <2>2. QED
    BY <1>3, <1>5, <2>1, ChangesBeside
<1>6. CASE UNCHANGED <<rows, dialog>>
  BY <1>6, SameRowsDefaultOnly
<1>7. QED
  BY <1>3, <1>4, <1>5, <1>6

LEMMA InsertsDefault ==
  ASSUME IInv, NEW p \in Products, NEW stock \in Int, rows' = Append(rows, NewRow(p, {}, stock))
  PROVE  DefaultOnly
<1> DEFINE row == NewRow(p, {}, stock)
<1>1. row \in Row /\ row.key = DefaultKey
  BY NewRowIsRow, KeysAreTyped
<1> HIDE DEF row
<1>2. rows' = Append(rows, row) /\ rows \in Seq(Row)
  BY DEF row, IInv, TypeOK
<1>3. /\ DOMAIN rows' = DOMAIN rows \cup {Len(rows) + 1}
      /\ \A j \in DOMAIN rows : rows'[j] = rows[j]
      /\ rows'[Len(rows) + 1] = row
  BY <1>1, <1>2, RowInserted
<1>4. QED
  BY <1>1, <1>3 DEF DefaultOnly

LEMMA MirrorWritesBeside ==
  ASSUME IInv, NEW c \in Calls, WriteMirror(c)
  PROVE  \/ dialog' = Closed \/ dialog'.raced
         \/ dialog' = dialog /\ DefaultOnly
<1> DEFINE i == call[c].row
           p == call[c].product
<1>1. /\ call[c] \in Call /\ Fits(call[c], product, rows) /\ call[c].pc = "mirrorFound"
      /\ rows \in Seq(Row) /\ DialogTyped(dialog, rows)
  BY Known DEF WriteMirror, At
<1>2. p \in Products /\ call[c].stock \in Int /\ (i # 0 => i \in DOMAIN rows)
  BY <1>1 DEF Fits, ProductFits, StockFits, RowFits, Mirrors
<1>3. CASE /\ i # 0
           /\ rows' = [rows EXCEPT ![i] = [@ EXCEPT !.stock = call[c].stock, !.live = TRUE]]
           /\ dialog' = [dialog EXCEPT !.raced = @ \/ (dialog # Closed /\ rows[i].key # DefaultKey)]
  <2> DEFINE row == [rows[i] EXCEPT !.stock = call[c].stock, !.live = TRUE]
             b == dialog.raced \/ (dialog # Closed /\ rows[i].key # DefaultKey)
  <2>1. /\ i \in DOMAIN rows /\ rows' = [rows EXCEPT ![i] = row] /\ row.key = rows[i].key
    BY <1>1, <1>2, <1>3 DEF Row
  <2>2. b \in BOOLEAN /\ dialog' = [dialog EXCEPT !.raced = b]
    BY <1>1, <1>3 DEF DialogTyped
  <2>3. dialog'.raced = b
    BY <1>1, <2>2 DEF DialogTyped
  <2>4. CASE b
    BY <2>3, <2>4
  <2>5. CASE ~b /\ dialog = Closed
    BY <1>1, <2>2, <2>5 DEF DialogTyped, Closed
  <2>6. CASE ~b /\ dialog # Closed
    <3>1. rows[i].key = DefaultKey /\ ~dialog.raced
      BY <2>6
    <3> HIDE DEF b, row
    <3>2. dialog.raced = b
      BY <1>1, <2>2, <2>6, <3>1 DEF DialogTyped
    <3>3. dialog' = dialog
      BY <1>1, <2>2, <3>2 DEF DialogTyped
    <3>4. DefaultOnly
      BY <2>1, <3>1 DEF DefaultOnly
    <3>5. QED
      BY <3>3, <3>4
  <2>7. QED
    BY <2>4, <2>5, <2>6
<1>4. CASE rows' = Append(rows, NewRow(p, {}, call[c].stock)) /\ UNCHANGED dialog
  BY <1>2, <1>4, InsertsDefault
<1>5. CASE UNCHANGED <<rows, dialog>>
  BY <1>5, SameRowsDefaultOnly
<1>6. QED
  BY <1>3, <1>4, <1>5 DEF WriteMirror

LEMMA OtherStepKeepsDialog ==
  ASSUME IInv, DialogKept, NEW c \in Calls, Step(c) \/ Fail(c), ~Shows(call[c])
  PROVE  DialogKept'
<1>1. /\ OthersMay(c) /\ ~Shows(call'[c]) /\ c \notin DialogCalls
      /\ call[c] \in Call /\ Fits(call[c], product, rows) /\ DialogTyped(dialog, rows)
      /\ LoadsAgain(c) = dialog
  BY StepShape, NeverShows, Known, DialogCallsShow, LoadsMark
<1>2. CASE dialog' = Closed \/ dialog'.raced
  BY <1>2 DEF DialogKept, Keeps
<1>3. CASE dialog' = dialog /\ DefaultOnly
  BY <1>1, <1>3, OtherCallBeside
<1>4. CASE UNCHANGED <<rows, dialog>>
  BY <1>3, <1>4, SameRowsDefaultOnly
<1>5. CASE WriteMirror(c)
  BY <1>2, <1>3, <1>5, MirrorWritesBeside
<1>6. CASE WriteVariant(c)
  BY <1>2, <1>3, <1>6, WriteVariantBeside
<1>7. ASSUME NEW p \in Products, BackfillOne(c, p) PROVE DialogKept'
  <2>1. call[c].todo[p] \in Int /\ UNCHANGED dialog
    BY <1>1, <1>7 DEF BackfillOne, Call
  <2>2. CASE rows' = Append(rows, NewRow(p, {}, call[c].todo[p]))
    BY <1>3, <2>1, <2>2, InsertsDefault
  <2>3. QED
    BY <1>4, <1>7, <2>1, <2>2 DEF BackfillOne
<1>8. CASE Fail(c)
  BY <1>1, <1>4, <1>8 DEF Fail
<1>9. CASE SaveVariant(c)
  BY <1>2, <1>3, <1>9, SaveVariantBeside
<1>10. CASE CheckVariant(c) \/ Reload(c)
  BY <1>1, <1>4, <1>10 DEF CheckVariant, Reload
<1>11. CASE \/ SaveForm(c) \/ CheckProduct(c) \/ WriteProduct(c) \/ DeleteProduct(c) \/ FindMirror(c)
            \/ (\E p \in Products : SyncFind(c, p)) \/ SyncWrite(c) \/ SyncEnd(c)
            \/ FindVariant(c) \/ BackfillQuery(c) \/ BackfillBatchEnds(c)
  BY <1>4, <1>11 DEF SaveForm, CheckProduct, WriteProduct, DeleteProduct, FindMirror, SyncFind, SyncWrite,
     SyncEnd, FindVariant, BackfillQuery, BackfillBatchEnds
<1>12. QED
  BY <1>5, <1>6, <1>7, <1>8, <1>9, <1>10, <1>11 DEF Step

(* The call is about to reload the list, whatever it has written.          *)
LEMMA ReloadsNext ==
  ASSUME IInv, DialogKept, NEW c \in Calls, Shows(call[c]), Goto(c, "reloading"),
         dialog'.loading, dialog'.raced = dialog.raced
  PROVE  DialogKept'
<1>1. CASE dialog.raced
  BY <1>1, RacedKept
<1>2. CASE ~dialog.raced
  <2>1. \A d \in Calls \ {c} : ~Shows(call[d])
    BY <1>2, SoleCall
  <2>2. Others(c) /\ call'[c].pc = "reloading"
    BY Known, GotoCalls DEF CallState
  <2>3. ~Sets(call'[c])
    BY <2>2 DEF Sets
  <2>4. QED
    BY <2>1, <2>2, <2>3, SoleMoves
<1>3. QED
  BY <1>1, <1>2

LEMMA SaveVariantKeepsDialog ==
  ASSUME IInv, DialogKept, NEW c \in Calls, Shows(call[c]), SaveVariant(c) PROVE DialogKept'
<1> DEFINE p == call[c].product
<1>1. /\ call[c] \in Call /\ call \in [Calls -> Call] /\ Fits(call[c], product, rows)
      /\ DialogTyped(dialog, rows) /\ dialog # Closed /\ call[c].pc = "saving"
  BY Known DEF SaveVariant, At
<1>2. call[c].op = "add" /\ p \in Products
  BY <1>1 DEF Fits, OpFits, ProductFits
<1>3. CASE Goto(c, "reloading") /\ dialog' = Changed(c, p, TRUE)
  <2>1. Changed(c, p, TRUE).raced = dialog.raced /\ Changed(c, p, TRUE).loading
    BY <1>1, <1>2, ChangedMarks
  <2>2. QED
    BY <1>3, <2>1, ReloadsNext
<1>4. CASE Throw(c) /\ UNCHANGED <<rows, dialog>>
  <2>1. Others(c) /\ call'[c].op = call[c].op
    BY <1>1, <1>4, GotoCalls DEF Throw, CallState
  <2>2. ~Sets(call[c]) /\ ~Sets(call'[c])
    BY <1>2, <2>1 DEF Sets
  <2>3. QED
    BY <1>4, <2>1, <2>2, DialogPoint
<1>5. QED
  BY <1>3, <1>4 DEF SaveVariant

LEMMA WriteVariantKeepsDialog ==
  ASSUME IInv, DialogKept, NEW c \in Calls, Shows(call[c]), WriteVariant(c) PROVE DialogKept'
<1> DEFINE i == call[c].row
           p == rows[i].product
<1>1. /\ call[c] \in Call /\ call \in [Calls -> Call] /\ Fits(call[c], product, rows)
      /\ DialogTyped(dialog, rows) /\ dialog # Closed
      /\ call[c].pc = "writing" /\ call[c].op \in {"set", "remove"}
      /\ rows \in Seq(Row)
  BY Known DEF WriteVariant, At, Shows
<1>2. i \in DOMAIN rows /\ rows[i] \in Row
  BY <1>1 DEF Fits, RowFits
<1>3. p \in Products
  BY <1>2 DEF Row
<1>4. /\ Changed(c, p, TRUE).raced = dialog.raced /\ Changed(c, p, TRUE).loading
      /\ Changed(c, p, FALSE).product = dialog.product /\ Changed(c, p, FALSE).shown = dialog.shown
      /\ Changed(c, p, FALSE).raced = dialog.raced
      /\ Changed(c, p, FALSE).loading = (dialog.loading \/ FALSE)
  BY <1>1, <1>3, ChangedMarks
<1>5. CASE Goto(c, "reloading") /\ dialog' = Changed(c, p, TRUE)
  BY <1>4, <1>5, ReloadsNext
<1>6. CASE /\ Does(c, "set")
           /\ rows' = [rows EXCEPT ![i].stock = call[c].stock]
           /\ Goto(c, "done")
           /\ dialog' = Changed(c, p, FALSE)
  <2>1. CASE dialog.raced
    BY <1>4, <1>6, <2>1, RacedKept
  <2>2. CASE ~dialog.raced
    <3>1. Sets(call[c])
      BY <1>1, <1>6 DEF Sets, Does
    <3>2. /\ \A d \in Calls \ {c} : ~Shows(call[d]) /\ ~Sets(call[d])
          /\ ~dialog.loading => ShownAgree(dialog, rows, call)
          /\ i \in DOMAIN dialog.shown /\ dialog.shown[i] = call[c].stock
      BY <2>2, <3>1, SoleCall
    <3>3. Others(c) /\ call'[c].pc = "done"
      BY <1>1, <1>6, GotoCalls DEF CallState
    <3>4. ~Sets(call'[c])
      BY <3>3 DEF Sets
    <3> DEFINE row == [rows[i] EXCEPT !.stock = call[c].stock]
    <3>5. /\ row.product = rows[i].product /\ row.key = rows[i].key /\ row.live = rows[i].live
          /\ row.stock = call[c].stock
          /\ rows' = [rows EXCEPT ![i] = row]
      BY <1>1, <1>2, <1>6 DEF Row
    <3> HIDE DEF row, p
    <3>6. /\ DOMAIN rows' = DOMAIN rows /\ rows'[i] = row
          /\ \A j \in DOMAIN rows : j # i => rows'[j] = rows[j]
      BY <1>1, <1>2, <3>5
    <3>7. dialog'.product = dialog.product /\ dialog'.shown = dialog.shown
          /\ (~dialog'.loading => ~dialog.loading)
      BY <1>4, <1>6
    <3>8. ASSUME ~dialog.loading,
                 NEW j \in DOMAIN rows, rows'[j].product = dialog.product, rows'[j].key # DefaultKey
          PROVE  /\ j \in DOMAIN dialog.shown <=> rows'[j].live
                 /\ rows'[j].live => dialog.shown[j] = rows'[j].stock
      <4>1. CASE j = i
        BY <3>2, <3>5, <3>6, <3>8, <4>1 DEF ShownAgree
      <4>2. CASE j # i
        <5>1. ~\E d \in Calls : Sets(call[d]) /\ call[d].row = j
          BY <3>2, <4>2
        <5>2. QED
          BY <3>2, <3>6, <3>8, <4>2, <5>1 DEF ShownAgree
      <4>3. QED
        BY <4>1, <4>2
    <3>9. ~dialog'.loading => ShownAgree(dialog', rows', call')
      BY <3>6, <3>7, <3>8 DEF ShownAgree
    <3>10. QED
      BY <3>2, <3>3, <3>4, <3>9, SoleMoves
  <2>3. QED
    BY <2>1, <2>2
<1>7. QED
  BY <1>1, <1>5, <1>6 DEF WriteVariant, Does

LEMMA CheckVariantKeepsDialog ==
  ASSUME IInv, DialogKept, NEW c \in Calls, Shows(call[c]), CheckVariant(c) PROVE DialogKept'
<1>1. /\ call[c] \in Call /\ call \in [Calls -> Call] /\ Fits(call[c], product, rows)
      /\ DialogTyped(dialog, rows) /\ dialog # Closed /\ UNCHANGED rows
      /\ call[c].pc = "checking" /\ call[c].op \in {"set", "remove"}
  BY Known DEF CheckVariant, At, Shows
<1>2. LoadsAgain(c).raced = dialog.raced /\ LoadsAgain(c).loading
  BY <1>1, LoadsMark
<1>3. CASE Goto(c, "reloading") /\ dialog' = LoadsAgain(c)
  BY <1>2, <1>3, ReloadsNext
<1>4. ASSUME NEW pc \in {"writing", "threw"}, Goto(c, pc), call[c].op = "set" => pc = "writing",
             UNCHANGED dialog
      PROVE  DialogKept'
  <2>1. /\ Others(c) /\ call'[c].pc = pc /\ call'[c].op = call[c].op /\ call'[c].clean = call[c].clean
        /\ call'[c].row = call[c].row /\ call'[c].stock = call[c].stock
    BY <1>1, <1>4, GotoCalls DEF CallState
  <2>2. Sets(call'[c]) <=> Sets(call[c])
    BY <1>1, <1>4, <2>1 DEF Sets, Shows
  <2>3. QED
    BY <1>1, <1>4, <2>1, <2>2, DialogPoint
<1>5. CASE rows[call[c].row].live
  BY <1>4, <1>5 DEF CheckVariant
<1>6. CASE ~rows[call[c].row].live /\ call[c].op = "set"
  BY <1>3, <1>6 DEF CheckVariant, Does
<1>7. CASE ~rows[call[c].row].live /\ call[c].op # "set"
  BY <1>4, <1>7 DEF CheckVariant, Does
<1>8. QED
  BY <1>5, <1>6, <1>7

LEMMA ReloadKeepsDialog ==
  ASSUME IInv, DialogKept, NEW c \in Calls, Shows(call[c]), Reload(c) PROVE DialogKept'
<1>1. /\ call[c] \in Call /\ call \in [Calls -> Call] /\ Fits(call[c], product, rows)
      /\ call[c].pc = "reloading" /\ DialogTyped(dialog, rows) /\ UNCHANGED rows
  BY Known DEF Reload, At
<1>2. Others(c) /\ call'[c].pc = "done"
  BY <1>1, GotoCalls DEF CallState, Reload
<1>3. dialog' = [dialog EXCEPT !.shown = Snapshot(dialog.product), !.loading = FALSE,
                               !.raced = DialogCalls # {c}]
  BY DialogCallsShow DEF Reload
<1>4. /\ dialog'.product = dialog.product /\ dialog'.raced = (DialogCalls # {c})
      /\ dialog'.shown = Snapshot(dialog.product)
  BY <1>1, <1>3 DEF DialogTyped
<1>5. CASE dialog'.raced
  BY <1>5, RacedKept
<1>6. CASE ~dialog'.raced
  <2>1. \A d \in Calls \ {c} : ~Shows(call[d])
    BY <1>4, <1>6, DialogCallsShow
  <2>2. ShownAgree(dialog', rows', call')
    BY <1>1, <1>4, SnapshotIsTyped DEF ShownAgree
  <2>3. ~Sets(call'[c])
    BY <1>2 DEF Sets
  <2>4. QED
    BY <1>2, <2>1, <2>2, <2>3, SoleMoves
<1>7. QED
  BY <1>5, <1>6

LEMMA FailKeepsDialog ==
  ASSUME IInv, DialogKept, NEW c \in Calls, Shows(call[c]), Fail(c) PROVE DialogKept'
<1>1. /\ call[c] \in Call /\ call \in [Calls -> Call] /\ Fits(call[c], product, rows)
      /\ DialogTyped(dialog, rows) /\ dialog # Closed /\ UNCHANGED rows /\ c \in DialogCalls
  BY Known, DialogCallsShow DEF Fail
<1>2. CASE call[c].op = "set" /\ call[c].pc \in {"checking", "writing"}
  <2>1. Goto(c, "reloading") /\ dialog' = LoadsAgain(c)
    BY <1>2 DEF Fail, Does, At
  <2>2. LoadsAgain(c).raced = dialog.raced /\ LoadsAgain(c).loading
    BY <1>1, LoadsMark
  <2>3. QED
    BY <2>1, <2>2, ReloadsNext
<1>3. CASE call[c].pc = "reloading"
  <2>1. dialog' = [dialog EXCEPT !.raced = TRUE, !.loading = FALSE]
    BY <1>1, <1>3 DEF Fail, At
  <2>2. dialog'.raced
    BY <1>1, <2>1 DEF DialogTyped
  <2>3. QED
    BY <2>2, RacedKept
<1>4. CASE ~(call[c].op = "set" /\ call[c].pc \in {"checking", "writing"}) /\ call[c].pc # "reloading"
  <2>1. UNCHANGED dialog /\ Goto(c, "threw")
    BY <1>4 DEF Fail, At, Does
  <2>2. Others(c) /\ call'[c].pc = "threw"
    BY <1>1, <2>1, GotoCalls DEF CallState
  <2>3. ~Sets(call[c]) /\ ~Sets(call'[c])
    BY <1>4, <2>2 DEF Sets
  <2>4. QED
    BY <1>1, <2>1, <2>2, <2>3, DialogPoint
<1>5. QED
  BY <1>2, <1>3, <1>4

LEMMA DialogStepKeeps ==
  ASSUME IInv, DialogKept, NEW c \in Calls, Step(c) \/ Fail(c), Shows(call[c])
  PROVE  DialogKept'
<1>1. /\ \/ CheckProduct(c) \/ FindVariant(c) \/ SaveVariant(c) \/ CheckVariant(c) \/ WriteVariant(c)
         \/ Reload(c) \/ Fail(c)
      /\ Others(c) /\ call'[c].op = call[c].op
  BY DialogSteps DEF Shows
<1>2. CASE CheckProduct(c) \/ FindVariant(c)
  <2>1. call[c] \in Call /\ Fits(call[c], product, rows)
    BY Known
  <2>2. call[c].op = "add" /\ UNCHANGED <<rows, dialog>>
    BY <1>2, <2>1 DEF CheckProduct, FindVariant, At, Fits, OpFits, Shows
  <2>3. ~Sets(call[c]) /\ ~Sets(call'[c])
    BY <1>1, <2>2 DEF Sets
  <2>4. QED
    BY <1>1, <2>2, <2>3, DialogPoint
<1>3. QED
  BY <1>1, <1>2, SaveVariantKeepsDialog, CheckVariantKeepsDialog, WriteVariantKeepsDialog,
     ReloadKeepsDialog, FailKeepsDialog

LEMMA SellKeepsDialog ==
  ASSUME IInv, DialogKept, NEW items \in SUBSET Products, Sell(items) PROVE DialogKept'
<1>1. /\ rows' = Decremented(items) /\ call' = Outdated(call, items) /\ UNCHANGED dialog
      /\ rows \in Seq(Row) /\ call \in [Calls -> Call]
  BY DEF Sell, IInv, TypeOK
<1>2. DefaultOnly
  <2>1. DOMAIN rows' = DOMAIN rows
    BY <1>1 DEF Decremented
  <2>2. ASSUME NEW i \in DOMAIN rows, rows'[i].key # DefaultKey PROVE rows'[i] = rows[i]
    <3>1. rows[i] \in Row
      BY <1>1
    <3>2. rows'[i] = IF rows[i].product \in items /\ rows[i].key = DefaultKey /\ rows[i].live
                       THEN [rows[i] EXCEPT !.stock = @ - 1] ELSE rows[i]
      BY <1>1 DEF Decremented
    <3>3. rows[i].key = DefaultKey => rows'[i].key = DefaultKey
      BY <3>1, <3>2 DEF Row
    <3>4. QED
      BY <2>2, <3>2, <3>3
  <2>3. QED
    BY <2>1, <2>2 DEF DefaultOnly
<1>3. ASSUME NEW d \in Calls, Shows(call[d]) \/ Shows(call'[d]) PROVE call'[d] = call[d]
  <2>1. call[d] \in Call /\ Fits(call[d], product, rows)
    BY Known
  <2>2. CASE \E p \in items : d \in Pending(p)
    <3>1. PICK p \in items : Pends(call[d], p)
      BY <2>2, PendingPends
    <3>2. call[d].op \notin {"add", "set", "remove"}
      BY <2>1, <3>1 DEF Pends, Mirrors, Fits, OpFits
    <3>3. call'[d].op = call[d].op
      BY <1>1, <2>1 DEF Outdated, Call
    <3>4. QED
      BY <1>3, <3>2, <3>3 DEF Shows
  <2>3. CASE ~\E p \in items : d \in Pending(p)
    BY <1>1, <2>3 DEF Outdated
  <2>4. QED
    BY <2>2, <2>3
<1>4. QED
  BY <1>1, <1>2, <1>3, BesideDialog

(* The dialog opens, loads and closes.                                     *)
LEMMA OpenDialogKeeps ==
  ASSUME IInv, NEW p \in Products, OpenDialog(p) PROVE DialogKept'
<1>1. dialog'.loading /\ dialog = Closed /\ UNCHANGED call
  BY DEF OpenDialog
<1>2. \A d \in Calls : ~Shows(call'[d]) /\ ~Sets(call'[d])
  BY <1>1, Known, SettersShow DEF SetsShows
<1>3. QED
  BY <1>1, <1>2 DEF DialogKept, Keeps

LEMMA LoadKeeps ==
  ASSUME IInv, Load PROVE DialogKept'
<1>1. DialogTyped(dialog, rows) /\ DialogCalls = {} /\ UNCHANGED <<rows, call>>
      /\ dialog' = [dialog EXCEPT !.shown = Snapshot(dialog.product), !.loading = FALSE, !.raced = FALSE]
  BY DEF IInv, DialogFits, Load
<1>2. dialog'.product = dialog.product /\ dialog'.shown = Snapshot(dialog.product)
  BY <1>1 DEF DialogTyped
<1>3. \A d \in Calls : ~Shows(call'[d]) /\ ~Sets(call'[d])
  BY <1>1, DialogCallsShow, SettersShow DEF SetsShows
<1>4. ShownAgree(dialog', rows', call')
  BY <1>1, <1>2, SnapshotIsTyped DEF ShownAgree
<1>5. QED
  BY <1>3, <1>4 DEF DialogKept, Keeps

LEMMA LoadFailsKeeps ==
  ASSUME IInv, LoadFails PROVE DialogKept'
<1>1. DialogTyped(dialog, rows) /\ dialog' = [dialog EXCEPT !.loading = FALSE, !.raced = TRUE]
  BY DEF IInv, DialogFits, LoadFails
<1>2. dialog'.raced
  BY <1>1 DEF DialogTyped
<1>3. QED
  BY <1>2, RacedKept

LEMMA NextKeepsDialog == IInv /\ DialogKept /\ [Next]_vars => DialogKept'
<1> SUFFICES ASSUME IInv, DialogKept, [Next]_vars PROVE DialogKept'
  OBVIOUS
<1>1. CASE UNCHANGED vars
  BY <1>1 DEF vars, DialogKept, Keeps, ShownAgree
<1>2. ASSUME NEW c \in Calls, Start(c) PROVE DialogKept'
  BY <1>2, StartKeepsDialog
<1>3. ASSUME NEW c \in Calls, Step(c) \/ Fail(c) PROVE DialogKept'
  BY <1>3, DialogStepKeeps, OtherStepKeepsDialog
<1>4. ASSUME NEW items \in SUBSET Products, Sell(items) PROVE DialogKept'
  BY <1>4, SellKeepsDialog
<1>5. ASSUME NEW p \in Products, OpenDialog(p) PROVE DialogKept'
  BY <1>5, OpenDialogKeeps
<1>6. CASE Load \/ LoadFails
  BY <1>6, LoadKeeps, LoadFailsKeeps
<1>7. CASE CloseDialog
  BY <1>7 DEF CloseDialog, DialogKept, Keeps
<1>8. QED
  BY <1>1, <1>2, <1>3, <1>4, <1>5, <1>6, <1>7 DEF Next

-----------------------------------------------------------------------------
(* The theorems *)

LEMMA InitMirror == Init => MirrorInv
<1> SUFFICES ASSUME Init PROVE MirrorInv
  OBVIOUS
<1>1. IInv
  BY InitFits
<1>2. \A i \in DOMAIN rows : /\ rows[i].key = DefaultKey /\ rows[i].key = AttributeKey(rows[i].attributes)
                            /\ rows[i].stock = product[rows[i].product].stock /\ i = 1
  <2>1. CASE rows = <<>>
    BY <2>1
  <2>2. CASE rows # <<>>
    <3>1. PICK p \in Products : rows = <<NewRow(p, {}, product[p].stock)>>
      BY <2>2 DEF Init
    <3> DEFINE row == NewRow(p, {}, product[p].stock)
    <3>2. product[p].stock \in Int
      BY <1>1 DEF IInv, TypeOK, Product
    <3>3. row.product = p /\ row.stock = product[p].stock /\ row.key = DefaultKey
          /\ row.key = AttributeKey(row.attributes)
      BY <3>2, NewRowIsRow, KeysAreTyped
    <3> HIDE DEF row
    <3>4. rows = <<row>>
      BY <3>1 DEF row
    <3>5. QED
      BY <3>3, <3>4
  <2>3. QED
    BY <2>1, <2>2
<1>3. OneRow(rows)
  BY <1>2 DEF OneRow
<1>4. \A c \in Calls : Holds(call[c], product)
  BY HoldsNothing DEF Init, NewCall
<1>5. \A p \in Products : Kept(p, product, rows, call, drifted)
  BY <1>2 DEF Kept, Follows
<1>6. QED
  BY <1>3, <1>4, <1>5 DEF MirrorInv, HoldsStock, MirrorKept

LEMMA NextMirror == IInv /\ MirrorInv /\ [Next]_vars => MirrorInv'
<1> SUFFICES ASSUME IInv, MirrorInv, [Next]_vars PROVE MirrorInv'
  OBVIOUS
<1>1. CASE UNCHANGED vars
  BY <1>1 DEF vars, MirrorInv, HoldsStock, MirrorKept
<1>2. ASSUME NEW c \in Calls, Start(c) PROVE MirrorInv'
  BY <1>2, CreateKeepsMirror, StartsKeepMirror
<1>3. ASSUME NEW c \in Calls, Step(c) PROVE MirrorInv'
  <2>1. CASE \/ SaveForm(c) \/ CheckProduct(c) \/ SyncEnd(c) \/ FindVariant(c) \/ CheckVariant(c)
             \/ Reload(c) \/ BackfillBatchEnds(c)
             \/ \E p \in Products : SyncFind(c, p)
    BY <2>1, PointsKeepMirror
  <2>2. QED
    BY <1>3, <2>1, DeleteKeepsMirror, WritesKeepMirror, FindMirrorKeepsMirror, WriteMirrorKeeps,
       SaveVariantKeeps, WriteVariantKeeps, BackfillQueryKeepsMirror, BackfillOneKeeps DEF Step
<1>4. QED
  BY <1>1, <1>2, <1>3, FailKeepsMirror, SellKeeps, DialogKeepsMirror DEF Next

LEMMA Mirroring == Spec => [](IInv /\ MirrorInv)
<1>1. Init => IInv /\ MirrorInv
  BY InitFits, InitMirror
<1>2. IInv /\ MirrorInv /\ [Next]_vars => (IInv /\ MirrorInv)'
  BY NextFits, NextMirror
<1>3. QED
  BY <1>1, <1>2, PTL DEF Spec

(* However a combination of options is written, a product has one row for  *)
(* it, and the row's key says what its options are: every insert and every *)
(* change of options goes through attributeKey and the unique index.       *)
THEOREM RowsAreUnique == Spec => []OneRowPerCombination
<1>1. MirrorInv => OneRowPerCombination
  BY DEF MirrorInv, OneRow, OneRowPerCombination
<1>2. QED
  BY <1>1, Mirroring, PTL

(* The stock a customer is told is the product's whenever no call is       *)
(* between its two writes, unless the mirror has one of the known reasons  *)
(* to differ.  What makes it inductive: a clean call between its writes    *)
(* holds the product's stock, and a mirror without a known reason follows  *)
(* its product or has a call that will yet write it.                       *)
THEOREM MirrorsAgree == Spec => []MirrorAgrees
<1>1. ASSUME MirrorInv, NEW p \in Products, Live(p), Pending(p) = {}, p \notin drifted
      PROVE  StockSeen(p) = product[p].stock
  <2>1. \A c \in Calls : ~Repairs(call[c], p, rows)
    BY <1>1, PendingPends DEF Repairs, Pends, Mirrors
  <2>2. Follows(rows, product[p].stock, p)
    BY <1>1, <2>1 DEF MirrorInv, MirrorKept, Kept, Live
  <2>3. QED
    BY <2>2, FindIsRowAt, RowAtFinds DEF StockSeen, Follows
<1>2. MirrorInv => MirrorAgrees
  BY <1>1 DEF MirrorAgrees
<1>3. QED
  BY <1>2, Mirroring, PTL

(* A backfill that reports no failure leaves no product of its start       *)
(* without a row: it stops when a query finds none left, or gives up after *)
(* a batch in which every insert has failed.                               *)
THEOREM BackfillFills == Spec => []BackfillFillsGaps
<1>1. Init => BackfillFillsGaps
  BY DEF Init, BackfillFillsGaps, NewCall, At
<1>2. IInv /\ BackfillFillsGaps /\ [Next]_vars => BackfillFillsGaps'
  BY NextFills
<1>3. QED
  BY <1>1, <1>2, Typing, PTL DEF Spec

(* With no change of its own in flight the dialog lists the owner's        *)
(* variants as they are, unless its last load failed or, since the last    *)
(* load that had no other change of its own beside it, two of its changes  *)
(* overlapped or another client added, changed, renamed or removed one of  *)
(* the product's (a renamed default row that the mirror writes included).  *)
(* What makes it inductive: while nothing has marked the list, one call of *)
(* the dialog at most is under way, and a list that is not about to be     *)
(* loaded shows what the table holds or what this call has yet to write.   *)
THEOREM DialogShows == Spec => []DialogShowsVariants
<1>1. Init => DialogKept
  BY DEF Init, DialogKept, Keeps
<1>2. IInv /\ DialogKept /\ [Next]_vars => DialogKept'
  BY NextKeepsDialog
<1>3. DialogKept => DialogShowsVariants
  <2> SUFFICES ASSUME DialogKept, Ready, ~dialog.raced, DialogCalls = {}
               PROVE  \A i \in DOMAIN rows :
                        rows[i].product = dialog.product /\ rows[i].key # DefaultKey
                          => /\ i \in DOMAIN dialog.shown <=> rows[i].live
                             /\ rows[i].live => dialog.shown[i] = rows[i].stock
    BY DEF DialogShowsVariants
  <2>1. \A c \in Calls : ~Shows(call[c]) /\ ~Sets(call[c])
    BY DialogCallsShow, SettersShow DEF SetsShows
  <2>2. ShownAgree(dialog, rows, call)
    BY <2>1 DEF DialogKept, Keeps, Ready
  <2>3. QED
    BY <2>1, <2>2 DEF ShownAgree
<1>4. QED
  BY <1>1, <1>2, <1>3, Typing, PTL DEF Spec

=============================================================================
