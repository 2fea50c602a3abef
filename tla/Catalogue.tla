----------------------------- MODULE Catalogue -----------------------------
(***************************************************************************)
(* The products of one tenant and their variants: the dashboard's product  *)
(* form and its variants dialog, the synchronisation from the store, the   *)
(* sale that an order synchronisation records, and the backfill script.    *)
(*                                                                         *)
(* Every product has a stock of its own and, in product_variants, a row    *)
(* for no options at all (the default row) that mirrors this stock, beside *)
(* the rows the owner keeps per combination of options.  Product and       *)
(* mirror are written by separate statements: a call holds the value for   *)
(* the mirror from its write of the product until its write of the row.    *)
(*                                                                         *)
(* A call is one request, one run of the script or one synchronisation; a  *)
(* step is one database access.  A product is identified with its SKU, a   *)
(* variant row with its place in the order of insertion.  The sale is one  *)
(* step because order-sync.service runs it in one transaction.             *)
(***************************************************************************)
EXTENDS Integers, Sequences, FiniteSets

CONSTANTS
  Products,    (* SKUs                                                       *)
  Calls,       (* requests and script runs                                   *)
  Offers,      (* sets of options a client may send, as written              *)
  Stocks,      (* stock quantities a client or the store may send            *)
  BadRows,     (* products for which every insert of a variant row fails     *)
  BatchSize,   (* backfillDefaults: batchSize                                *)
  MaxSales,    (* bound on sales                                             *)
  MaxFaults,   (* bound on failed database accesses                          *)
  NoProduct,   (* the product of no call                                     *)
  NoStock      (* no quantity                                                *)

(* An option as a client writes it; styles are case and white space.       *)
Option == [name : STRING, value : STRING, style : STRING]

ASSUME CatalogueAssumption ==
  /\ IsFiniteSet(Products) /\ NoProduct \notin Products
  /\ \A attributes \in Offers : attributes \subseteq Option
  /\ Stocks \subseteq Nat /\ NoStock \notin Int
  /\ BadRows \subseteq Products
  /\ BatchSize \in Nat \ {0} /\ MaxSales \in Nat /\ MaxFaults \in Nat

VARIABLES
  product,   (* products: whether the row exists or is soft-deleted, its stock *)
  rows,      (* product_variants, in the order of insertion                    *)
  call,      (* where each call is and what it has read                        *)
  dialog,    (* the variants dialog of one browser: its product and its list   *)
  drifted,   (* products whose mirror has a known reason to differ             *)
  sales,     (* sales so far: a bound                                          *)
  faults     (* failed accesses so far: a bound                                *)

vars == <<product, rows, call, dialog, drifted, sales, faults>>

Stock == Stocks \cup {NoStock}

Product == [state : {"absent", "live", "deleted"}, stock : Int]

(* attributeKey: names and values without case, white space or order;      *)
(* options without a value do not count.                                   *)
AttributeKey(attributes) ==
  {<<o.name, o.value>> : o \in {x \in attributes : x.name # "" /\ x.value # ""}}

DefaultKey == {}

Row == [product : Products, attributes : Offers \cup {{}}, key : SUBSET (STRING \X STRING),
        stock : Int, live : BOOLEAN]

Operation == {"none", "create", "update", "delete", "sync", "add", "set", "rename", "remove", "backfill"}
CallState == {"idle", "editing", "checking", "writing", "mirroring", "mirrorFound", "next",
              "upserting", "finding", "saving", "reloading", "query", "filling", "done", "threw"}
Call == [pc : CallState, op : Operation, product : Products \cup {NoProduct}, row : Nat,
         stock : Int \cup {NoStock}, attributes : Offers \cup {{}}, todo : [Products -> Int \cup {NoStock}],
         clean : BOOLEAN, begun : SUBSET Products, created : Nat, failed : Nat, batch : Nat]
Nothing == [p \in Products |-> NoStock]
NewCall == [pc |-> "idle", op |-> "none", product |-> NoProduct, row |-> 0, stock |-> NoStock,
            attributes |-> {}, todo |-> Nothing, clean |-> TRUE, begun |-> {}, created |-> 0,
            failed |-> 0, batch |-> 0]

(* shown: the stock in the list, by row; loading: a load has replaced list *)
(* and form by a note; raced: the list has a known reason to differ from   *)
(* the table.                                                              *)
Closed == [product |-> NoProduct, shown |-> <<>>, loading |-> FALSE, raced |-> FALSE]

-----------------------------------------------------------------------------
(* Plausible faults: each is one of the definitions below as a bug would   *)
(* have it, and the property named breaks with it.  More stand further     *)
(* down, where the helpers they need are defined.                          *)

(* OneRowPerCombination: an ordinary index in place of the unique one.     *)
NotUnique(p, key, i) == i \in 0..Len(rows)

(* DialogShowsVariants: findByProduct without its deletedAt filter.        *)
ListsDeleted(p) == {i \in DOMAIN rows : rows[i].product = p}

(* BackfillFillsGaps: the script runs one page and stops.                  *)
GivesUpAfterPage(c) == call[c].batch > 0

-----------------------------------------------------------------------------
(* Helpers *)

At(c, pc) == call[c].pc = pc

Does(c, op) == call[c].op = op

Live(p) == product[p].state = "live"

(* findFirst by product and key: 0 if there is none.                       *)
Find(p, key) ==
  LET found == {i \in DOMAIN rows : rows[i].product = p /\ rows[i].key = key} IN
  IF found = {} THEN 0 ELSE CHOOSE i \in found : TRUE

HasRow(p) == \E i \in DOMAIN rows : rows[i].product = p

(* The unique index on product and key, for a row i that is to have them.  *)
Unique(p, key, i) == \A j \in DOMAIN rows \ {i} : ~(rows[j].product = p /\ rows[j].key = key)

(* The insert of a row is accepted.                                        *)
Insertable(p, key) == p \notin BadRows /\ Unique(p, key, 0)

NewRow(p, attributes, stock) ==
  [product |-> p, attributes |-> attributes, key |-> AttributeKey(attributes), stock |-> stock,
   live |-> TRUE]

(* Calls that will write the mirror of p from a value they already hold.   *)
Pending(p) ==
  {c \in Calls : \/ call[c].pc \in {"mirroring", "mirrorFound"} /\ call[c].product = p
                 \/ At(c, "filling") /\ call[c].todo[p] # NoStock}

(* A write of the stock of the products ps outdates what others hold.      *)
Outdated(calls, ps) ==
  [d \in Calls |-> IF \E p \in ps : d \in Pending(p) THEN [calls[d] EXCEPT !.clean = FALSE] ELSE calls[d]]

Goto(c, pc) == call' = [call EXCEPT ![c].pc = pc]
Throw(c) == Goto(c, "threw")

(* The calls of the open dialog; other clients' have clean FALSE.          *)
DialogCalls ==
  {c \in Calls : /\ call[c].op \in {"add", "set", "remove"} /\ call[c].clean
                 /\ call[c].pc \notin {"done", "threw"}}

(* The rows the dialog lists: findByProduct.                               *)
Listed(p) == {i \in DOMAIN rows : rows[i].product = p /\ rows[i].live}
Snapshot(p) == [i \in Listed(p) |-> rows[i].stock]

(* resolveStock for a customer who names no options, reads enabled.        *)
StockSeen(p) ==
  LET i == Find(p, DefaultKey) IN
  IF i # 0 /\ rows[i].live THEN rows[i].stock ELSE product[p].stock

-----------------------------------------------------------------------------
(* Products that predate the table of variants have no row; another has    *)
(* been mirrored since.                                                    *)
Init ==
  /\ product \in [Products -> {r \in [state : {"absent", "live"}, stock : Stocks \cup {0}] :
                               r.state = "absent" <=> r.stock = 0}]
  /\ rows \in {<<>>} \cup {<<NewRow(p, {}, product[p].stock)>> : p \in {q \in Products : Live(q)}}
  /\ call    = [c \in Calls |-> NewCall]
  /\ dialog  = Closed
  /\ drifted = {}
  /\ sales   = 0
  /\ faults  = 0

-----------------------------------------------------------------------------
(* Plausible faults, continued *)

(* MirrorAgrees: order-sync decrements the product alone.                  *)
SellSkipsMirror(items) ==
  /\ sales < MaxSales /\ items # {}
  /\ \A p \in items : product[p].state # "absent"
  /\ sales' = sales + 1
  /\ product' = [p \in Products |-> IF p \in items THEN [product[p] EXCEPT !.stock = @ - 1] ELSE product[p]]
  /\ call' = Outdated(call, items)
  /\ UNCHANGED <<rows, dialog, drifted, faults>>

(* TypeOK: a store that manages no stock sends none, and no default is     *)
(* put in its place (mapProduct).                                          *)
SyncFindsNull(c, p) ==
  /\ At(c, "next") /\ call[c].todo[p] # NoStock
  /\ call' = [call EXCEPT ![c] = [@ EXCEPT !.pc = "upserting", !.product = p, !.clean = TRUE,
                                          !.stock = NoStock, !.todo[p] = NoStock,
                                          !.row = IF product[p].state = "absent" THEN 0 ELSE 1]]
  /\ UNCHANGED <<product, rows, dialog, drifted, sales, faults>>

-----------------------------------------------------------------------------
(* ProductsService: the product form *)

(* createProduct: the row of the product.                                  *)
CreateProduct(c, p, stock) ==
  /\ At(c, "idle")
  /\ product[p].state = "absent"
  /\ product' = [product EXCEPT ![p] = [state |-> "live", stock |-> stock]]
  /\ call' = [call EXCEPT ![c] = [@ EXCEPT !.pc = "mirroring", !.op = "create", !.product = p,
                                          !.stock = stock]]
  /\ UNCHANGED <<rows, dialog, drifted, sales, faults>>

(* openModal: the form takes the stock from the list the page has loaded.  *)
OpenForm(c, p) ==
  /\ At(c, "idle") /\ Live(p)
  /\ call' = [call EXCEPT ![c] = [@ EXCEPT !.pc = "editing", !.op = "update", !.product = p,
                                          !.stock = product[p].stock]]
  /\ UNCHANGED <<product, rows, dialog, drifted, sales, faults>>

(* UpdateProductDto: a negative stock is refused.                          *)
Refused(stock) == stock < 0

(* handleSave: sends every field, the stock among them, typed over or not. *)
SaveForm(c) ==
  /\ At(c, "editing")
  /\ \E typed \in Stocks \cup {call[c].stock} :
       call' = [call EXCEPT ![c] = [@ EXCEPT !.pc = IF Refused(typed) THEN "threw" ELSE "checking",
                                             !.stock = typed]]
  /\ UNCHANGED <<product, rows, dialog, drifted, sales, faults>>

(* deleteProduct is called.                                                *)
StartDelete(c, p) ==
  /\ At(c, "idle") /\ Live(p)
  /\ call' = [call EXCEPT ![c] = [@ EXCEPT !.pc = "checking", !.op = "delete", !.product = p]]
  /\ UNCHANGED <<product, rows, dialog, drifted, sales, faults>>

(* getProduct, and the same check in ProductVariantService.create.         *)
CheckProduct(c) ==
  /\ At(c, "checking") /\ call[c].op \in {"update", "delete", "add"}
  /\ Goto(c, CASE ~Live(call[c].product) -> "threw"
                [] Live(call[c].product) /\ Does(c, "add") -> "finding"
                [] OTHER                  -> "writing")
  /\ UNCHANGED <<product, rows, dialog, drifted, sales, faults>>

(* updateProduct: product.update by id, whether deleted meanwhile or not.  *)
WriteProduct(c) ==
  /\ At(c, "writing") /\ Does(c, "update")
  /\ product' = [product EXCEPT ![call[c].product].stock = call[c].stock]
  /\ call' = [Outdated(call, {call[c].product}) EXCEPT ![c].pc = "mirroring"]
  /\ UNCHANGED <<rows, dialog, drifted, sales, faults>>

DeleteProduct(c) ==
  /\ At(c, "writing") /\ Does(c, "delete")
  /\ product' = [product EXCEPT ![call[c].product].state = "deleted"]
  /\ Goto(c, "done")
  /\ UNCHANGED <<rows, dialog, drifted, sales, faults>>

-----------------------------------------------------------------------------
(* ProductVariantService: the mirror *)

(* ensureDefaultVariant: findFirst.                                        *)
FindMirror(c) ==
  /\ At(c, "mirroring")
  /\ call' = [call EXCEPT ![c] = [@ EXCEPT !.pc = "mirrorFound", !.row = Find(call[c].product, DefaultKey)]]
  /\ UNCHANGED <<product, rows, dialog, drifted, sales, faults>>

(* A clean write of the mirror repairs it, an overtaken one spoils it.      *)
Mirrored(c) ==
  IF call[c].clean THEN drifted \ {call[c].product} ELSE drifted \cup {call[c].product}

(* ensureDefaultVariant: the update of the row found, by id (another call  *)
(* may have made it the row of some options), or the insert.               *)
WriteMirror(c) ==
  LET p == call[c].product
      i == call[c].row
      next == IF Does(c, "sync") THEN "next" ELSE "done" IN
  /\ At(c, "mirrorFound")
  /\ \/ /\ i # 0
        /\ rows' = [rows EXCEPT ![i] = [@ EXCEPT !.stock = call[c].stock, !.live = TRUE]]
        /\ dialog' = [dialog EXCEPT !.raced = @ \/ (dialog # Closed /\ rows[i].key # DefaultKey)]
        /\ Goto(c, next)
        /\ drifted' = IF rows[i].key = DefaultKey THEN Mirrored(c) ELSE drifted
     \/ /\ i = 0 /\ Insertable(p, DefaultKey)
        /\ rows' = Append(rows, NewRow(p, {}, call[c].stock))
        /\ Goto(c, next) /\ drifted' = Mirrored(c)
        /\ UNCHANGED dialog
     \/ /\ i = 0 /\ ~Insertable(p, DefaultKey)
        /\ Throw(c)
        /\ UNCHANGED <<rows, drifted, dialog>>
  /\ UNCHANGED <<product, sales, faults>>

(* decrementDefaultStock for the lines of an order; a default row that is  *)
(* missing or deleted is passed over.                                      *)
Decremented(items) ==
  [i \in DOMAIN rows |->
    IF rows[i].product \in items /\ rows[i].key = DefaultKey /\ rows[i].live
      THEN [rows[i] EXCEPT !.stock = @ - 1] ELSE rows[i]]

(* order-sync: the stock decrements of a synchronised order's lines.       *)
Sell(items) ==
  /\ sales < MaxSales /\ items # {}
  /\ \A p \in items : product[p].state # "absent"
  /\ sales' = sales + 1
  /\ product' = [p \in Products |-> IF p \in items THEN [product[p] EXCEPT !.stock = @ - 1] ELSE product[p]]
  /\ rows' = Decremented(items)
  /\ call' = Outdated(call, items)
  /\ UNCHANGED <<dialog, drifted, faults>>

-----------------------------------------------------------------------------
(* ProductSyncService *)

(* getProducts: what the store lists, with a stock for each; stocks it     *)
(* does not manage get a default (mapProduct).                             *)
Offered == [Products -> Stock] \ {Nothing}

(* syncProducts: initialize, getProducts.                                  *)
StartSync(c, offered) ==
  /\ At(c, "idle")
  /\ call' = [call EXCEPT ![c] = [@ EXCEPT !.pc = "next", !.op = "sync", !.todo = offered]]
  /\ UNCHANGED <<product, rows, dialog, drifted, sales, faults>>

(* The next product of the list: findFirst by external id or name, which   *)
(* also finds a deleted row; row 1 stands for "found".                     *)
SyncFind(c, p) ==
  /\ At(c, "next") /\ call[c].todo[p] # NoStock
  /\ call' = [call EXCEPT ![c] = [@ EXCEPT !.pc = "upserting", !.product = p, !.clean = TRUE,
                                          !.stock = call[c].todo[p], !.todo[p] = NoStock,
                                          !.row = IF product[p].state = "absent" THEN 0 ELSE 1]]
  /\ UNCHANGED <<product, rows, dialog, drifted, sales, faults>>

(* The update of the row found, or the insert; SKUs are unique.            *)
SyncWrite(c) ==
  LET p == call[c].product IN
  /\ At(c, "upserting")
  /\ \/ /\ call[c].row = 0 /\ product[p].state # "absent"
        /\ Throw(c)
        /\ UNCHANGED product
     \/ /\ call[c].row = 0 => product[p].state = "absent"
        /\ product' = [product EXCEPT ![p] =
                         [state |-> IF @.state = "absent" THEN "live" ELSE @.state, stock |-> call[c].stock]]
        /\ call' = [Outdated(call, {p}) EXCEPT ![c].pc = "mirroring"]
  /\ UNCHANGED <<rows, dialog, drifted, sales, faults>>

SyncEnd(c) ==
  /\ At(c, "next") /\ call[c].todo = Nothing
  /\ Goto(c, "done")
  /\ UNCHANGED <<product, rows, dialog, drifted, sales, faults>>

-----------------------------------------------------------------------------
(* ProductVariantService: the owner's variants *)

(* VariantsModal opens with an empty list and loads it.                    *)
OpenDialog(p) ==
  /\ dialog = Closed /\ Live(p)
  /\ dialog' = [product |-> p, shown |-> <<>>, loading |-> TRUE, raced |-> FALSE]
  /\ UNCHANGED <<product, rows, call, drifted, sales, faults>>

(* load on opening is answered, or fails and leaves the list empty; no     *)
(* change can be under way yet, and a reload belongs to a change.          *)
Load ==
  /\ dialog.loading /\ DialogCalls = {}
  /\ dialog' = [dialog EXCEPT !.shown = Snapshot(dialog.product), !.loading = FALSE, !.raced = FALSE]
  /\ UNCHANGED <<product, rows, call, drifted, sales, faults>>

LoadFails ==
  /\ dialog.loading /\ DialogCalls = {} /\ faults < MaxFaults
  /\ dialog' = [dialog EXCEPT !.loading = FALSE, !.raced = TRUE]
  /\ faults' = faults + 1
  /\ UNCHANGED <<product, rows, call, drifted, sales>>

(* onClose: the calls of a closed dialog go on without it.                 *)
CloseDialog ==
  /\ dialog # Closed
  /\ dialog' = Closed
  /\ call' = [c \in Calls |-> IF c \in DialogCalls THEN [call[c] EXCEPT !.clean = FALSE] ELSE call[c]]
  /\ UNCHANGED <<product, rows, drifted, sales, faults>>

(* List and form are there.                                                *)
Ready == dialog # Closed /\ ~dialog.loading

(* What the dialog does at the start of a call; the "Add variant" button   *)
(* is disabled during an addition, nothing else is.                        *)
Races == [dialog EXCEPT !.raced = @ \/ DialogCalls # {}]

(* What the form of the dialog lets the owner enter: options and a stock.  *)
Typed == Offers \X Stocks

(* handleAdd: POST /products/:id/variants, not without an option.          *)
StartAdd(c, attributes, stock) ==
  /\ At(c, "idle") /\ Ready
  /\ AttributeKey(attributes) # DefaultKey
  /\ \A d \in DialogCalls : ~Does(d, "add")
  /\ call' = [call EXCEPT ![c] = [@ EXCEPT !.pc = "checking", !.op = "add", !.product = dialog.product,
                                          !.attributes = attributes, !.stock = stock]]
  /\ dialog' = Races
  /\ UNCHANGED <<product, rows, drifted, sales, faults>>

(* create: findFirst by key, deleted rows included.                        *)
FindVariant(c) ==
  LET i == Find(call[c].product, AttributeKey(call[c].attributes)) IN
  /\ At(c, "finding")
  /\ IF i # 0 /\ rows[i].live
       THEN Throw(c)
       ELSE call' = [call EXCEPT ![c] = [@ EXCEPT !.pc = "saving", !.row = i]]
  /\ UNCHANGED <<product, rows, dialog, drifted, sales, faults>>

(* The product's mirror no longer follows it: its default row was written  *)
(* with a value of the owner's.                                            *)
Strays(p, key) == drifted' = IF key = DefaultKey THEN drifted \cup {p} ELSE drifted

(* A change of product p is written, with or without a reload to follow:   *)
(* the dialog's own reload hides its list; another client's change is one  *)
(* the list does not show.                                                 *)
Changed(c, p, reload) ==
  IF c \in DialogCalls THEN [dialog EXCEPT !.loading = @ \/ reload]
                       ELSE [dialog EXCEPT !.raced = @ \/ dialog.product = p]

(* handleStockChange after a refusal or a failure: setIsLoading of load.   *)
LoadsAgain(c) == IF c \in DialogCalls THEN [dialog EXCEPT !.loading = TRUE] ELSE dialog

(* create: revives the deleted row, or inserts one.                        *)
SaveVariant(c) ==
  LET p == call[c].product
      i == call[c].row
      new == NewRow(p, call[c].attributes, call[c].stock) IN
  /\ At(c, "saving")
  /\ \/ /\ i # 0 /\ Unique(p, new.key, i)
        /\ rows' = [rows EXCEPT ![i] = new]
        /\ Goto(c, "reloading") /\ Strays(p, new.key)
        /\ dialog' = Changed(c, p, TRUE)
     \/ /\ i = 0 /\ Insertable(p, new.key)
        /\ rows' = Append(rows, new)
        /\ Goto(c, "reloading") /\ Strays(p, new.key)
        /\ dialog' = Changed(c, p, TRUE)
     \/ /\ IF i = 0 THEN ~Insertable(p, new.key) ELSE ~Unique(p, new.key, i)
        /\ Throw(c)
        /\ UNCHANGED <<rows, drifted, dialog>>
  /\ UNCHANGED <<product, sales, faults>>

(* handleStockChange: the list changes at once, the PATCH follows.         *)
StartSet(c, i, stock) ==
  /\ At(c, "idle") /\ Ready /\ i \in DOMAIN dialog.shown
  /\ call' = [call EXCEPT ![c] = [@ EXCEPT !.pc = "checking", !.op = "set", !.row = i, !.stock = stock]]
  /\ dialog' = [Races EXCEPT !.shown[i] = stock]
  /\ UNCHANGED <<product, rows, drifted, sales, faults>>

(* handleDelete: DELETE /products/:id/variants/:id.                        *)
StartRemove(c, i) ==
  /\ At(c, "idle") /\ Ready /\ i \in DOMAIN dialog.shown
  /\ call' = [call EXCEPT ![c] = [@ EXCEPT !.pc = "checking", !.op = "remove", !.row = i]]
  /\ dialog' = Races
  /\ UNCHANGED <<product, rows, drifted, sales, faults>>

(* A request that is not the dialog's.                                     *)
Asks(c, request) == call' = [call EXCEPT ![c] = [request EXCEPT !.pc = "checking", !.clean = FALSE]]

(* Another client's POST, PATCH (of the stock or of the attributes) or     *)
(* DELETE: another browser, or one whose dialog shows another product.     *)
StartOther(c) ==
  /\ At(c, "idle")
  /\ \/ \E p \in Products, o \in Offers, n \in Stocks :
          /\ product[p].state # "absent"
          /\ Asks(c, [NewCall EXCEPT !.op = "add", !.product = p, !.attributes = o, !.stock = n])
     \/ \E i \in DOMAIN rows :
          /\ rows[i].live
          /\ \/ \E n \in Stocks : Asks(c, [NewCall EXCEPT !.op = "set", !.row = i, !.stock = n])
             \/ \E o \in Offers : Asks(c, [NewCall EXCEPT !.op = "rename", !.row = i, !.attributes = o])
             \/ Asks(c, [NewCall EXCEPT !.op = "remove", !.row = i])
  /\ UNCHANGED <<product, rows, dialog, drifted, sales, faults>>

(* update, remove: findFirst among the rows not deleted.                   *)
CheckVariant(c) ==
  /\ At(c, "checking") /\ call[c].op \in {"set", "rename", "remove"}
  /\ Goto(c, CASE rows[call[c].row].live -> "writing"
                [] ~rows[call[c].row].live /\ Does(c, "set") -> "reloading"
                [] OTHER -> "threw")
  /\ dialog' = IF ~rows[call[c].row].live /\ Does(c, "set") THEN LoadsAgain(c) ELSE dialog
  /\ UNCHANGED <<product, rows, drifted, sales, faults>>

(* update and remove: the write, by id.                                    *)
WriteVariant(c) ==
  LET i == call[c].row
      key == AttributeKey(call[c].attributes) IN
  /\ At(c, "writing") /\ call[c].op \in {"set", "rename", "remove"}
  /\ \/ /\ Does(c, "set")
        /\ rows' = [rows EXCEPT ![i].stock = call[c].stock]
        /\ Goto(c, "done") /\ Strays(rows[i].product, rows[i].key)
        /\ dialog' = Changed(c, rows[i].product, FALSE)
     \/ /\ Does(c, "remove")
        /\ rows' = [rows EXCEPT ![i].live = FALSE]
        /\ Goto(c, "reloading")
        /\ dialog' = Changed(c, rows[i].product, TRUE)
        /\ UNCHANGED drifted
     \/ /\ Does(c, "rename") /\ Unique(rows[i].product, key, i)
        /\ rows' = [rows EXCEPT ![i] = [@ EXCEPT !.attributes = call[c].attributes, !.key = key]]
        /\ Goto(c, "done") /\ Strays(rows[i].product, key)
        /\ dialog' = Changed(c, rows[i].product, FALSE)
     \/ /\ Does(c, "rename") /\ ~Unique(rows[i].product, key, i)
        /\ Throw(c)
        /\ UNCHANGED <<rows, dialog, drifted>>
  /\ UNCHANGED <<product, sales, faults>>

(* load after an addition, a removal or a failed change; once no other     *)
(* call of the dialog is under way, the list is the table's again.         *)
Reload(c) ==
  /\ At(c, "reloading")
  /\ dialog' = IF c \in DialogCalls
                 THEN [dialog EXCEPT !.shown = Snapshot(dialog.product), !.loading = FALSE,
                                     !.raced = DialogCalls # {c}]
                 ELSE dialog
  /\ Goto(c, "done")
  /\ UNCHANGED <<product, rows, drifted, sales, faults>>

-----------------------------------------------------------------------------
(* backfillDefaults, run by scripts/backfill-variants *)

StartBackfill(c) ==
  /\ At(c, "idle")
  /\ call' = [call EXCEPT ![c] = [@ EXCEPT !.pc = "query", !.op = "backfill",
                                          !.begun = {p \in Products : Live(p)}]]
  /\ UNCHANGED <<product, rows, dialog, drifted, sales, faults>>

Rowless == {p \in Products : Live(p) /\ ~HasRow(p)}

(* findMany with take: the products without any row, at most a batch.      *)
BackfillQuery(c) ==
  /\ At(c, "query")
  /\ \/ /\ Rowless = {}
        /\ Goto(c, "done")
     \/ \E batch \in SUBSET Rowless :
          /\ batch # {}
          /\ Cardinality(batch) <= BatchSize
          /\ Cardinality(batch) = BatchSize \/ batch = Rowless
          /\ call' = [call EXCEPT ![c] =
               [@ EXCEPT !.pc = "filling", !.batch = Cardinality(batch), !.clean = TRUE,
                         !.todo = [p \in Products |-> IF p \in batch THEN product[p].stock ELSE NoStock]]]
  /\ UNCHANGED <<product, rows, dialog, drifted, sales, faults>>

(* One product of the batch: its row is inserted, or the failure counted   *)
(* (up to the number of products, which is all the guard below can tell).  *)
BackfillOne(c, p) ==
  LET stock == call[c].todo[p]
      failed == call[c].failed IN
  /\ At(c, "filling") /\ stock # NoStock
  /\ \/ /\ Insertable(p, DefaultKey)
        /\ rows' = Append(rows, NewRow(p, {}, stock))
        /\ call' = [call EXCEPT ![c] = [@ EXCEPT !.todo[p] = NoStock, !.created = call[c].created + 1]]
        /\ drifted' = IF call[c].clean THEN drifted \ {p} ELSE drifted \cup {p}
     \/ /\ ~Insertable(p, DefaultKey)
        /\ call' = [call EXCEPT ![c] = [@ EXCEPT !.todo[p] = NoStock,
                         !.failed = IF failed < Cardinality(Products) THEN failed + 1 ELSE failed]]
        /\ UNCHANGED <<rows, drifted>>
  /\ UNCHANGED <<product, dialog, sales, faults>>

(* The guard after a batch: created and failed count since the start.      *)
GivesUp(c) == call[c].created = 0 /\ call[c].failed >= call[c].batch

BackfillBatchEnds(c) ==
  /\ At(c, "filling") /\ call[c].todo = Nothing
  /\ Goto(c, IF GivesUp(c) THEN "done" ELSE "query")
  /\ UNCHANGED <<product, rows, dialog, drifted, sales, faults>>

-----------------------------------------------------------------------------
(* A database access fails: the call throws.  A call that has written the  *)
(* product leaves its mirror behind; the dialog reloads after a failed     *)
(* change and otherwise shows what it showed.                              *)
Fail(c) ==
  LET p == call[c].product
      reloads == Does(c, "set") /\ call[c].pc \in {"checking", "writing"} IN
  /\ faults < MaxFaults
  /\ call[c].pc \in {"checking", "writing", "mirroring", "mirrorFound", "next", "upserting", "finding",
                     "saving", "reloading", "query"}
  /\ faults' = faults + 1
  /\ Goto(c, IF reloads THEN "reloading" ELSE "threw")
  /\ drifted' = IF call[c].pc \in {"mirroring", "mirrorFound"} THEN drifted \cup {p} ELSE drifted
  /\ dialog' = CASE reloads -> LoadsAgain(c)
                 [] At(c, "reloading") /\ c \in DialogCalls -> [dialog EXCEPT !.raced = TRUE, !.loading = FALSE]
                 [] OTHER -> dialog
  /\ UNCHANGED <<product, rows, sales>>

-----------------------------------------------------------------------------
(* The steps of a call once it has started *)
Step(c) ==
  \/ SaveForm(c) \/ CheckProduct(c) \/ WriteProduct(c) \/ DeleteProduct(c)
  \/ FindMirror(c) \/ WriteMirror(c)
  \/ (\E p \in Products : SyncFind(c, p)) \/ SyncWrite(c) \/ SyncEnd(c)
  \/ FindVariant(c) \/ SaveVariant(c) \/ CheckVariant(c) \/ WriteVariant(c) \/ Reload(c)
  \/ BackfillQuery(c) \/ (\E p \in Products : BackfillOne(c, p)) \/ BackfillBatchEnds(c)

Start(c) ==
  \/ \E p \in Products :
       \/ \E stock \in Stocks : CreateProduct(c, p, stock)
       \/ OpenForm(c, p) \/ StartDelete(c, p)
  \/ \E offered \in Offered : StartSync(c, offered)
  \/ \E entry \in Typed : StartAdd(c, entry[1], entry[2])
  \/ \E i \in DOMAIN rows :
       \/ \E stock \in Stocks : StartSet(c, i, stock)
       \/ StartRemove(c, i)
  \/ StartOther(c) \/ StartBackfill(c)

Next ==
  \/ \E c \in Calls : Start(c) \/ Step(c) \/ Fail(c)
  \/ \E items \in SUBSET Products : Sell(items)
  \/ \E p \in Products : OpenDialog(p)
  \/ Load \/ LoadFails \/ CloseDialog

Spec == Init /\ [][Next]_vars

(* Node runs every call whose database answers.                            *)
FairSpec == Spec /\ \A c \in Calls : WF_vars(Step(c))

-----------------------------------------------------------------------------
(* Properties *)

TypeOK ==
  /\ product \in [Products -> Product]
  /\ rows \in Seq(Row)
  /\ call \in [Calls -> Call]
  /\ dialog.product \in Products \cup {NoProduct}
  /\ DOMAIN dialog.shown \subseteq DOMAIN rows
  /\ drifted \subseteq Products
  /\ sales \in 0..MaxSales
  /\ faults \in 0..MaxFaults

(* However a combination of options is written, a product has one row for  *)
(* it, and the row's key says what its options are (attributeKey and the   *)
(* unique index; create, update and the mirror all go through both).       *)
OneRowPerCombination ==
  \A i, j \in DOMAIN rows :
    /\ rows[i].key = AttributeKey(rows[i].attributes)
    /\ rows[i].product = rows[j].product /\ rows[i].key = rows[j].key => i = j

(* A customer is told the product's stock whenever nobody is between the   *)
(* two writes, unless the mirror has one of the known reasons to differ:   *)
(* a value the owner gave the default row, a call that failed between the  *)
(* writes, or one that was overtaken there and not followed by a clean one *)
(* (ensureDefaultVariant, decrementDefaultStock, resolveStock).            *)
MirrorAgrees ==
  \A p \in Products :
    Live(p) /\ Pending(p) = {} /\ p \notin drifted => StockSeen(p) = product[p].stock

(* A backfill that reports no failure leaves no product of its start       *)
(* without a row (backfillDefaults: paging and its exits).                 *)
BackfillFillsGaps ==
  \A c \in Calls :
    At(c, "done") /\ Does(c, "backfill") /\ call[c].failed = 0
      => \A p \in call[c].begun : Live(p) => HasRow(p)

(* With no change of its own in flight the dialog lists the owner's        *)
(* variants as they are, unless its last load failed or, since the last    *)
(* load that had no other change of its own beside it, two of its changes  *)
(* overlapped or another client added, changed, renamed or removed one of  *)
(* the product's (a renamed default row that the mirror writes included).  *)
(* Failed changes do not spoil it (VariantsModal's optimistic update).     *)
DialogShowsVariants ==
  Ready /\ ~dialog.raced /\ DialogCalls = {}
    => \A i \in DOMAIN rows :
         rows[i].product = dialog.product /\ rows[i].key # DefaultKey
           => /\ i \in DOMAIN dialog.shown <=> rows[i].live
              /\ rows[i].live => dialog.shown[i] = rows[i].stock

(* A backfill ends, also when some row cannot be inserted                  *)
(* (product-variant.service: "one bad row must not abandon the rest").     *)
BackfillEnds ==
  \A c \in Calls : At(c, "query") ~> call[c].pc \in {"done", "threw"}

=============================================================================
