--------------------------- MODULE PipelineProofs ---------------------------
(***************************************************************************)
(* Theorems about Pipeline, for any number of messages, products and       *)
(* attempts, whatever the providers answer and the owner does.             *)
(***************************************************************************)
EXTENDS Pipeline, FiniteSetTheorems, FunctionTheorems, SequenceTheorems, TLAPS

HandlerState ==
  [pc : PC, attempts : 0..MaxAttempts - 1, enabled : BOOLEAN, threshold : 0..100,
   intent : Confidences \cup {0, 95},
   found : SUBSET Products, extraction : Extraction, demand : Reason, routing : Routing,
   duplicateOf : Nat, own : Nat, plausible : BOOLEAN, known : SUBSET Nat, searched : BOOLEAN]
DraftRow ==
  [message : Messages, kind : {"extracted", "confirmed"}, lines : Seq(Line), duplicateOf : Nat,
   status : Status, auto : BOOLEAN, plausible : BOOLEAN, ordered : BOOLEAN]

OutsideTyped ==
  /\ provider \in Providers
  /\ settings \in [enabled : BOOLEAN, threshold : Thresholds]
  /\ listed \subseteq Products /\ past \in BOOLEAN

(* A draft points at an earlier one, and was only approved by the machine, *)
(* on confidences between 0 and 1, for a customer with orders.             *)
DraftsRight ==
  /\ draft \in Seq(DraftRow) /\ aged \in 0..Len(draft)
  /\ \A i \in 1..Len(draft) :
       /\ draft[i].duplicateOf <= i - 1
       /\ draft[i].auto /\ draft[i].plausible => HasOrders

(* A route once taken to auto-approval stays justified: orders are not     *)
(* taken back.                                                             *)
HandlersRight ==
  /\ handler \in [Messages -> HandlerState]
  /\ \A m \in Messages :
       /\ handler[m].own <= Len(draft) /\ handler[m].duplicateOf <= Len(draft)
       /\ handler[m].routing = "auto_approve" /\ handler[m].plausible => HasOrders

(* The inductive invariant. *)
IInv == OutsideTyped /\ DraftsRight /\ HandlersRight

-----------------------------------------------------------------------------
(* The greatest of a set of positions. *)
LEMMA GreatestExists ==
  ASSUME NEW n \in Nat, NEW S \in SUBSET (1..n), S # {}
  PROVE  \E i \in S : \A j \in S : i >= j
<1> DEFINE Above(i) == {j \in S : j > i}
           T == {Above(i) : i \in S}
<1>1. IsFiniteSet(S)
  <2>1. IsFiniteSet(1..n)
    BY FS_Interval
  <2>2. S \subseteq 1..n
    OBVIOUS
  <2>3. QED
    BY <2>1, <2>2, FS_Subset
<1>2. T \subseteq FiniteSubsetsOf(S) /\ T # {}
  <2>1. FiniteSubsetsOf(S) = SUBSET S
    BY <1>1, FS_FiniteSubsetsOfFinite
  <2>2. \A i \in S : Above(i) \in SUBSET S
    OBVIOUS
  <2>3. PICK i \in S : TRUE
    OBVIOUS
  <2>4. Above(i) \in T
    OBVIOUS
  <2>5. T \subseteq SUBSET S
    <3> HIDE DEF Above
    <3>1. QED
      BY <2>2
  <2>6. QED
    BY <2>1, <2>4, <2>5
<1>3. PICK least \in T : \A other \in T : <<other, least>> \notin StrictSubsetOrdering(S)
  <2> HIDE DEF T
  <2>1. QED
    BY <1>2, FS_StrictSubsetOrderingWellFounded, WFMin
<1>4. PICK i \in S : least = Above(i)
  OBVIOUS
<1>5. ASSUME NEW j \in S PROVE i >= j
  <2>1. SUFFICES ASSUME j > i PROVE FALSE
    OBVIOUS
  <2>2. Above(j) \subseteq Above(i) /\ j \in Above(i) /\ j \notin Above(j)
    <3>1. i \in Int /\ j \in Int /\ \A k \in S : k \in Int
      OBVIOUS
    <3>2. \A k \in S : k > j => k > i
      BY <2>1, <3>1
    <3>3. j \in Above(i) /\ j \notin Above(j)
      BY <2>1, <3>1
    <3>4. QED
      BY <3>2, <3>3
  <2>3. <<Above(j), Above(i)>> \in StrictSubsetOrdering(S)
    BY <2>2 DEF StrictSubsetOrdering
  <2>4. QED
    BY <1>3, <1>4, <2>3
<1>6. QED
  BY <1>5

-----------------------------------------------------------------------------
(* What steps do to drafts and handlers *)

(* A step loses no draft and no order. *)
Keeps == Len(draft') >= Len(draft) /\ (HasOrders => HasOrders')

LEMMA SameDrafts ==
  ASSUME DraftsRight, UNCHANGED <<draft, aged, past>>
  PROVE  DraftsRight' /\ Keeps
<1>1. HasOrders' = HasOrders
  BY DEF HasOrders
<1>2. Len(draft) \in Nat
  BY LenProperties DEF DraftsRight
<1>3. QED
  BY <1>1, <1>2 DEF DraftsRight, Keeps

LEMMA DraftAdded ==
  ASSUME DraftsRight, NEW row \in DraftRow, row.duplicateOf <= Len(draft), ~row.auto,
         draft' = Append(draft, row), UNCHANGED <<aged, past>>
  PROVE  DraftsRight' /\ Keeps /\ Len(draft') = Len(draft) + 1
<1>1. /\ draft' \in Seq(DraftRow) /\ Len(draft') = Len(draft) + 1 /\ Len(draft) \in Nat
      /\ \A i \in 1..Len(draft) : draft'[i] = draft[i]
      /\ draft'[Len(draft) + 1] = row
  BY AppendProperties, LenProperties DEF DraftsRight
<1>2. HasOrders => HasOrders'
  BY <1>1 DEF HasOrders
<1>3. ASSUME NEW i \in 1..Len(draft')
      PROVE  draft'[i].duplicateOf <= i - 1 /\ (draft'[i].auto /\ draft'[i].plausible => HasOrders')
  <2>1. CASE i \in 1..Len(draft)
    BY <1>1, <1>2, <2>1 DEF DraftsRight
  <2>2. CASE i = Len(draft) + 1
    BY <1>1, <2>2
  <2>3. QED
    BY <1>1, <2>1, <2>2
<1>4. QED
  BY <1>1, <1>2, <1>3 DEF DraftsRight, Keeps

LEMMA DraftChanged ==
  ASSUME DraftsRight, NEW i \in 1..Len(draft), NEW row \in DraftRow,
         row.duplicateOf = draft[i].duplicateOf, draft[i].ordered => row.ordered,
         row.auto /\ row.plausible => (draft[i].auto /\ draft[i].plausible) \/ HasOrders,
         draft' = [draft EXCEPT ![i] = row], UNCHANGED <<aged, past>>
  PROVE  DraftsRight' /\ Keeps /\ Len(draft') = Len(draft)
<1>1. /\ draft' \in Seq(DraftRow) /\ Len(draft') = Len(draft) /\ Len(draft) \in Nat
      /\ \A j \in 1..Len(draft) : draft'[j] = IF j = i THEN row ELSE draft[j]
  BY ExceptSeq, LenProperties DEF DraftsRight
<1>2. HasOrders => HasOrders'
  BY <1>1 DEF HasOrders
<1>3. ASSUME NEW j \in 1..Len(draft')
      PROVE  draft'[j].duplicateOf <= j - 1 /\ (draft'[j].auto /\ draft'[j].plausible => HasOrders')
  BY <1>1, <1>2 DEF DraftsRight
<1>4. QED
  BY <1>1, <1>2, <1>3 DEF DraftsRight, Keeps

LEMMA HandlerBecomes ==
  ASSUME HandlersRight, DraftsRight, DraftsRight', Keeps, NEW m \in Messages, NEW new \in HandlerState, Become(m, new),
         new.own <= Len(draft'), new.duplicateOf <= Len(draft'),
         new.routing = "auto_approve" /\ new.plausible => HasOrders
  PROVE  HandlersRight'
<1>1. handler' \in [Messages -> HandlerState]
  BY DEF HandlersRight, Become
<1>2. Len(draft) \in Nat /\ Len(draft') \in Nat
  BY LenProperties DEF DraftsRight
<1>3. ASSUME NEW n \in Messages
      PROVE  /\ handler'[n].own <= Len(draft') /\ handler'[n].duplicateOf <= Len(draft')
             /\ handler'[n].routing = "auto_approve" /\ handler'[n].plausible => HasOrders'
  <2>1. CASE n = m
    <3>1. handler'[n] = new
      BY <2>1 DEF HandlersRight, Become
    <3>2. QED
      BY <3>1 DEF Keeps
  <2>2. CASE n # m
    <3>1. handler'[n] = handler[n] /\ handler[n] \in HandlerState
      BY <2>2 DEF HandlersRight, Become
    <3>2. handler[n].own \in Nat /\ handler[n].duplicateOf \in Nat
      BY <3>1 DEF HandlerState
    <3>3. QED
      BY <1>2, <3>1, <3>2 DEF HandlersRight, Keeps
  <2>3. QED
    BY <2>1, <2>2
<1>4. QED
  BY <1>1, <1>3 DEF HandlersRight

(* A handler that goes on without touching the drafts. *)
LEMMA HandlerMoves ==
  ASSUME IInv, NEW m \in Messages, NEW new \in HandlerState, Become(m, new),
         new.own <= Len(draft), new.duplicateOf <= Len(draft),
         new.routing = "auto_approve" /\ new.plausible => HasOrders, UNCHANGED <<outside, draft, aged>>
  PROVE  IInv'
<1>1. DraftsRight' /\ Keeps
  BY SameDrafts DEF IInv, outside
<1>2. HandlersRight'
  BY <1>1, HandlerBecomes DEF IInv
<1>3. OutsideTyped'
  BY DEF IInv, OutsideTyped, outside
<1>4. QED
  BY <1>1, <1>2, <1>3 DEF IInv

(* Handlers that only forget what they knew. *)
LEMMA HandlersForget ==
  ASSUME HandlersRight, DraftsRight, DraftsRight', Keeps, NEW i, Forgets(i)
  PROVE  HandlersRight'
<1>1. Len(draft) \in Nat /\ Len(draft') \in Nat
  BY LenProperties DEF DraftsRight
<1>2. ASSUME NEW m \in Messages
      PROVE  /\ handler'[m] \in HandlerState /\ handler'[m].own = handler[m].own
             /\ handler'[m].duplicateOf = handler[m].duplicateOf /\ handler'[m].routing = handler[m].routing
             /\ handler'[m].plausible = handler[m].plausible
  <2>1. handler[m] \in HandlerState
    BY DEF HandlersRight
  <2>2. handler'[m] = [handler[m] EXCEPT !.known = handler[m].known \ {i}]
    BY DEF Forgets
  <2>3. QED
    BY <2>1, <2>2 DEF HandlerState
<1>3. handler' \in [Messages -> HandlerState]
  <2>1. handler' = [m \in Messages |-> handler'[m]]
    BY DEF Forgets
  <2>2. QED
    BY <1>2, <2>1
<1>4. ASSUME NEW m \in Messages
      PROVE  /\ handler'[m].own <= Len(draft') /\ handler'[m].duplicateOf <= Len(draft')
             /\ handler'[m].routing = "auto_approve" /\ handler'[m].plausible => HasOrders'
  <2>1. handler[m].own \in Nat /\ handler[m].duplicateOf \in Nat
    BY DEF HandlersRight, HandlerState
  <2>2. QED
    BY <1>1, <1>2, <2>1 DEF HandlersRight, Keeps
<1>5. QED
  BY <1>3, <1>4 DEF HandlersRight

LEMMA HandlersSame ==
  ASSUME HandlersRight, DraftsRight, DraftsRight', Keeps, UNCHANGED handler
  PROVE  HandlersRight'
<1>1. Len(draft) \in Nat /\ Len(draft') \in Nat
  BY LenProperties DEF DraftsRight
<1>2. \A m \in Messages : handler[m].own \in Nat /\ handler[m].duplicateOf \in Nat
  BY DEF HandlersRight, HandlerState
<1>3. QED
  BY <1>1, <1>2 DEF HandlersRight, Keeps

-----------------------------------------------------------------------------
(* The stages *)

(* What a handler starts from and what it is left with. *)
LEMMA NewHandlerTyped ==
  ASSUME PipelineAssumption
  PROVE  /\ NewHandler \in HandlerState /\ EmptyExtraction \in Extraction
         /\ NewHandler.own = 0 /\ NewHandler.duplicateOf = 0 /\ NewHandler.routing = "none"
<1>1. EmptyExtraction \in Extraction
  <2>1. << >> \in Seq(Line)
    BY EmptySeq
  <2>2. QED
    BY <2>1 DEF EmptyExtraction, Extraction
<1>2. 0 \in 0..MaxAttempts - 1
  BY DEF PipelineAssumption
<1>3. QED
  BY <1>1, <1>2 DEF NewHandler, HandlerState, PC, Asking, Ended, Reason, Routing, NoDraft

(* Handler m as the invariant has it. *)
LEMMA HandlerIs ==
  ASSUME IInv, NEW m \in Messages
  PROVE  /\ handler[m] \in HandlerState
         /\ handler[m].own <= Len(draft) /\ handler[m].duplicateOf <= Len(draft)
         /\ handler[m].routing = "auto_approve" /\ handler[m].plausible => HasOrders
         /\ Len(draft) \in Nat
BY LenProperties DEF IInv, HandlersRight, DraftsRight

LEMMA Entered ==
  ASSUME PipelineAssumption, IInv, NEW m \in Messages, NEW pc \in PC
  PROVE  /\ Enter(m, pc) \in HandlerState /\ Enter(m, pc).pc = pc
         /\ Enter(m, pc).own = handler[m].own /\ Enter(m, pc).duplicateOf = handler[m].duplicateOf
         /\ Enter(m, pc).routing = handler[m].routing
         /\ Enter(m, pc).plausible = handler[m].plausible
         /\ Enter(m, pc).extraction = handler[m].extraction
<1>1. 0 \in 0..MaxAttempts - 1
  BY DEF PipelineAssumption
<1>2. handler[m] \in HandlerState
  BY HandlerIs
<1>3. QED
  BY <1>1, <1>2 DEF Enter, HandlerState

LEMMA Left ==
  ASSUME PipelineAssumption, IInv, NEW m \in Messages, NEW pc \in PC
  PROVE  /\ Leave(m, pc) \in HandlerState /\ Leave(m, pc).own = handler[m].own
         /\ Leave(m, pc).duplicateOf = 0 /\ Leave(m, pc).routing = "none"
BY HandlerIs, NewHandlerTyped DEF Leave, HandlerState

(* What the model or the mock reads from a message. *)
LEMMA ReadingsTyped ==
  ASSUME PipelineAssumption, IInv, NEW m \in Messages
  PROVE  Readings(m) \subseteq Extraction /\ Intents \subseteq Confidences \cup {0, 95}
<1>1. Intents \subseteq Confidences \cup {0, 95} /\ Extractions \subseteq Extraction
  BY DEF Intents, PipelineAssumption
<1>2. ASSUME NEW n \in {NoQuantity, 1, 2} PROVE Canned(handler[m].found, n) \subseteq Extraction
  <2>1. handler[m].found \subseteq Products
    BY HandlerIs DEF HandlerState
  <2>2. ASSUME NEW p \in Products \cup {NoProduct}, NEW q \in Queries
        PROVE  <<[product |-> p, query |-> q, quantity |-> n]>> \in Seq(Line)
    <3>1. [product |-> p, query |-> q, quantity |-> n] \in Line
      BY DEF Line
    <3>2. QED
      BY <3>1
  <2>3. ASSUME NEW reading \in Canned(handler[m].found, n) PROVE reading \in Extraction
    <3>1. PICK p \in Products \cup {NoProduct}, q \in Queries :
             /\ reading.lines = <<[product |-> p, query |-> q, quantity |-> n]>>
             /\ reading = [lines |-> reading.lines, missing |-> reading.missing, match |-> reading.match]
             /\ reading.missing \in 0..2 /\ reading.match \in 0..100
      BY <2>1 DEF Canned
    <3>2. reading.lines \in Seq(Line) /\ reading.match \in Int
      BY <2>2, <3>1
    <3>3. QED
      BY <3>1, <3>2 DEF Extraction
  <2>4. QED
    BY <2>3
<1>3. QED
  BY <1>1, <1>2 DEF Readings

(* Without an order in the past the composite stays below the floor. *)
LEMMA FirstOrderScoresLow ==
  ASSUME PipelineAssumption, NEW h \in HandlerState, NEW history \in BOOLEAN, Plausible(h),
         Route(h, Composite(h.intent, h.extraction, history)) = "auto_approve"
  PROVE  history
<1> DEFINE composite == Composite(h.intent, h.extraction, history)
<1>1. h.threshold \in 0..100 /\ h.intent \in 0..100 /\ h.extraction.match \in 0..100
  BY DEF HandlerState, Plausible
<1>2. EffectiveThreshold(h.threshold) >= 9500 /\ EffectiveThreshold(h.threshold) \in Int
  BY <1>1 DEF EffectiveThreshold, AutoApproveFloor
<1>3. composite >= EffectiveThreshold(h.threshold)
  BY DEF Route
<1>4. ~history => composite <= 9000 /\ composite \in Int
  <2>1. Completeness(h.extraction.missing) \in {0, 50, 100}
    BY DEF Completeness
  <2> DEFINE x == h.intent
             y == h.extraction.match
             z == Completeness(h.extraction.missing)
  <2>2. x \in 0..100 /\ y \in 0..100 /\ z \in {0, 50, 100}
    BY <1>1, <2>1
  <2>3. ~history => composite = Lower(10000, x * 25 + y * 40 + z * 25 + 0)
    BY DEF Composite
  <2> HIDE DEF x, y, z, composite
  <2>4. ~history => composite <= 9000 /\ composite \in Int
    BY <2>2, <2>3 DEF Lower
  <2>5. QED
    BY <2>4 DEF composite
<1>5. QED
  BY <1>2, <1>3, <1>4

LEMMA RoutesKnown ==
  ASSUME NEW h, NEW composite
  PROVE  Route(h, composite) \in {"gather_more_info", "human_review", "auto_approve"}
BY DEF Route

(* What is stored of the lines of an order. *)
LEMMA StoredTyped ==
  ASSUME NEW lines \in Seq(Line)
  PROVE  Stored(lines) \in Seq(Line)
<1>1. lines \in [1..Len(lines) -> Line] /\ DOMAIN lines = 1..Len(lines) /\ Len(lines) \in Nat
  BY LenProperties
<1>2. ASSUME NEW i \in 1..Len(lines)
      PROVE  [lines[i] EXCEPT !.quantity = Quantity(lines[i])] \in Line
  <2>1. lines[i] \in Line
    BY <1>1
  <2>2. Quantity(lines[i]) \in Int
    BY <2>1 DEF Quantity, Line
  <2>3. QED
    BY <2>1, <2>2 DEF Line
<1>3. Stored(lines) \in [1..Len(lines) -> Line]
  BY <1>1, <1>2 DEF Stored
<1>4. QED
  BY <1>1, <1>3, SeqDef

LEMMA NewDraftTyped ==
  ASSUME NEW m \in Messages, NEW kind \in {"extracted", "confirmed"}, NEW lines \in Seq(Line),
         NEW duplicateOf \in Nat
  PROVE  /\ NewDraft(m, kind, lines, duplicateOf) \in DraftRow
         /\ NewDraft(m, kind, lines, duplicateOf).duplicateOf = duplicateOf
         /\ ~NewDraft(m, kind, lines, duplicateOf).auto
BY StoredTyped DEF NewDraft, DraftRow, Status

(* The stages up to the score. *)
LEMMA ReadingSteps ==
  ASSUME PipelineAssumption, IInv, NEW m \in Messages,
         \/ Start(m) \/ Retry(m) \/ DetectOther(m) \/ Normalize(m) \/ ExtractFails(m)
         \/ \E c \in Intents : DetectOrder(m, c)
         \/ \E found \in SUBSET Products : Retrieve(m, found)
         \/ \E reading \in Readings(m) : Extract(m, reading)
         \/ \E lost \in BOOLEAN : RecordDemand(m, lost)
  PROVE  IInv'
<1>h. /\ handler[m] \in HandlerState /\ handler[m].own <= Len(draft) /\ handler[m].duplicateOf <= Len(draft)
      /\ handler[m].routing = "auto_approve" /\ handler[m].plausible => HasOrders
      /\ Len(draft) \in Nat
  BY HandlerIs
<1>1. CASE Start(m)
  <2> DEFINE new == [NewHandler EXCEPT !.pc = "detecting", !.enabled = settings.enabled,
                                       !.threshold = settings.threshold, !.known = Live]
  <2>1. settings.enabled \in BOOLEAN /\ settings.threshold \in 0..100
    BY DEF IInv, OutsideTyped, PipelineAssumption
  <2>2. Live \subseteq Nat
    BY <1>h DEF Live, IInv, DraftsRight
  <2>3. new \in HandlerState /\ new.own = 0 /\ new.duplicateOf = 0 /\ new.routing = "none"
    <3>1. "detecting" \in PC
      BY DEF PC, Asking
    <3>2. QED
      BY <2>1, <2>2, <3>1, NewHandlerTyped DEF HandlerState
  <2>4. Become(m, new) /\ UNCHANGED <<outside, draft, aged>>
    BY <1>1 DEF Start
  <2> HIDE DEF new
  <2>5. QED
    BY <1>h, <2>3, <2>4, HandlerMoves
<1>2. CASE Retry(m)
  <2> DEFINE new == Retried(handler[m])
  <2>1. handler[m].attempts + 1 \in 0..MaxAttempts - 1
    BY <1>h, <1>2 DEF Retry, AttemptsLeft, HandlerState, PipelineAssumption
  <2>2. /\ new \in HandlerState /\ new.own = handler[m].own /\ new.duplicateOf = handler[m].duplicateOf
        /\ new.routing = handler[m].routing /\ new.plausible = handler[m].plausible
    BY <1>h, <2>1 DEF Retried, HandlerState
  <2>3. Become(m, new) /\ UNCHANGED <<outside, draft, aged>>
    BY <1>2 DEF Retry
  <2> HIDE DEF new
  <2>4. QED
    BY <1>h, <2>2, <2>3, HandlerMoves
<1>3. CASE DetectOther(m)
  BY <1>h, <1>3, Left, HandlerMoves DEF DetectOther, PC, Ended
<1>4. CASE Normalize(m)
  BY <1>h, <1>4, Entered, HandlerMoves DEF Normalize, PC
<1>5. CASE \E c \in Intents : DetectOrder(m, c)
  <2>1. PICK c \in Intents : DetectOrder(m, c)
    BY <1>5
  <2> DEFINE new == [Enter(m, "normalizing") EXCEPT !.intent = c]
  <2>2. /\ Enter(m, "normalizing") \in HandlerState /\ Enter(m, "normalizing").own = handler[m].own
        /\ Enter(m, "normalizing").duplicateOf = handler[m].duplicateOf
        /\ Enter(m, "normalizing").routing = handler[m].routing
        /\ Enter(m, "normalizing").plausible = handler[m].plausible
    BY Entered DEF PC, Asking
  <2>3. /\ new \in HandlerState /\ new.own = handler[m].own /\ new.duplicateOf = handler[m].duplicateOf
        /\ new.routing = handler[m].routing /\ new.plausible = handler[m].plausible
    BY <2>2, ReadingsTyped DEF HandlerState
  <2>4. Become(m, new) /\ UNCHANGED <<outside, draft, aged>>
    BY <2>1 DEF DetectOrder
  <2> HIDE DEF new
  <2>5. QED
    BY <1>h, <2>3, <2>4, HandlerMoves
<1>6. CASE \E found \in SUBSET Products : Retrieve(m, found)
  <2>1. PICK found \in SUBSET Products : Retrieve(m, found)
    BY <1>6
  <2> DEFINE new == [Enter(m, "extracting") EXCEPT !.found = found]
  <2>2. /\ Enter(m, "extracting") \in HandlerState /\ Enter(m, "extracting").own = handler[m].own
        /\ Enter(m, "extracting").duplicateOf = handler[m].duplicateOf
        /\ Enter(m, "extracting").routing = handler[m].routing
        /\ Enter(m, "extracting").plausible = handler[m].plausible
    BY Entered DEF PC, Asking
  <2>3. /\ new \in HandlerState /\ new.own = handler[m].own /\ new.duplicateOf = handler[m].duplicateOf
        /\ new.routing = handler[m].routing /\ new.plausible = handler[m].plausible
    BY <2>2 DEF HandlerState
  <2>4. Become(m, new) /\ UNCHANGED <<outside, draft, aged>>
    BY <2>1 DEF Retrieve
  <2> HIDE DEF new
  <2>5. QED
    BY <1>h, <2>3, <2>4, HandlerMoves
<1>7. ASSUME NEW reading \in Extraction, Extracted(m, reading), UNCHANGED <<outside, draft, aged>>
      PROVE  IInv'
  <2> DEFINE next == IF Unmatched(reading.lines) = {} THEN "scoring" ELSE "recording"
             mid == Enter(m, next)
             new == [mid EXCEPT !.extraction = reading, !.found = IF next = "recording" THEN @ ELSE {}]
  <2>1. mid \in HandlerState /\ mid.own = handler[m].own
        /\ mid.duplicateOf = handler[m].duplicateOf /\ mid.routing = handler[m].routing
        /\ mid.plausible = handler[m].plausible
    <3>1. next \in PC
      BY DEF PC
    <3> HIDE DEF next
    <3>2. QED
      BY <3>1, Entered
  <2>2. Become(m, new)
    BY <1>7 DEF Extracted
  <2>a. (IF next = "recording" THEN mid.found ELSE {}) \in SUBSET Products
    BY <2>1 DEF HandlerState
  <2> HIDE DEF next, mid
  <2>b. new = [[mid EXCEPT !.extraction = reading]
                   EXCEPT !.found = IF next = "recording" THEN mid.found ELSE {}]
    BY <2>1 DEF HandlerState
  <2>3. /\ new \in HandlerState /\ new.own = handler[m].own /\ new.duplicateOf = handler[m].duplicateOf
        /\ new.routing = handler[m].routing /\ new.plausible = handler[m].plausible
    <3> DEFINE found == IF next = "recording" THEN mid.found ELSE {}
    <3>1. new = [[mid EXCEPT !.extraction = reading] EXCEPT !.found = found]
      BY <2>b
    <3>2. found \in SUBSET Products
      BY <2>a
    <3> HIDE DEF new, found
    <3>3. QED
      BY <1>7, <2>1, <3>1, <3>2 DEF HandlerState
  <2> HIDE DEF new
  <2>4. QED
    BY <1>h, <1>7, <2>2, <2>3, HandlerMoves
<1>8. CASE ExtractFails(m) \/ \E reading \in Readings(m) : Extract(m, reading)
  BY <1>7, <1>8, NewHandlerTyped, ReadingsTyped DEF ExtractFails, Extract
<1>9. CASE \E lost \in BOOLEAN : RecordDemand(m, lost)
  <2>1. PICK reason \in Reason : Become(m, [Enter(m, "scoring") EXCEPT !.found = {}, !.demand = reason])
    BY <1>9 DEF RecordDemand, Reason
  <2> DEFINE new == [Enter(m, "scoring") EXCEPT !.found = {}, !.demand = reason]
  <2>2. /\ Enter(m, "scoring") \in HandlerState /\ Enter(m, "scoring").own = handler[m].own
        /\ Enter(m, "scoring").duplicateOf = handler[m].duplicateOf
        /\ Enter(m, "scoring").routing = handler[m].routing
        /\ Enter(m, "scoring").plausible = handler[m].plausible
    BY Entered DEF PC
  <2>3. /\ new \in HandlerState /\ new.own = handler[m].own /\ new.duplicateOf = handler[m].duplicateOf
        /\ new.routing = handler[m].routing /\ new.plausible = handler[m].plausible
    BY <2>2 DEF HandlerState
  <2>4. UNCHANGED <<outside, draft, aged>>
    BY <1>9 DEF RecordDemand
  <2> HIDE DEF new
  <2>5. Become(m, new)
    BY <2>1 DEF new
  <2>6. QED
    BY <1>h, <2>3, <2>4, <2>5, HandlerMoves
<1>10. QED
  BY <1>1, <1>2, <1>3, <1>4, <1>5, <1>6, <1>8, <1>9

(* The score, the duplicate check, the draft and the end. *)
LEMMA RoutingSteps ==
  ASSUME PipelineAssumption, IInv, NEW m \in Messages,
         Score(m) \/ CheckDuplicate(m) \/ CheckFails(m) \/ Fail(m)
  PROVE  IInv'
<1>h. /\ handler[m] \in HandlerState /\ handler[m].own <= Len(draft) /\ handler[m].duplicateOf <= Len(draft)
      /\ handler[m].routing = "auto_approve" /\ handler[m].plausible => HasOrders
      /\ Len(draft) \in Nat
  BY HandlerIs
<1>1. CASE Score(m)
  <2> DEFINE routing == Route(handler[m], Composite(handler[m].intent, handler[m].extraction, HasOrders))
             next == IF routing = "gather_more_info" THEN "marking" ELSE "checking"
             mid == Enter(m, next)
             new == [mid EXCEPT !.routing = routing, !.plausible = Plausible(handler[m]),
                                !.intent = 0, !.enabled = FALSE, !.threshold = 100]
  <2>1. mid \in HandlerState /\ mid.own = handler[m].own /\ mid.duplicateOf = handler[m].duplicateOf
    <3>1. next \in PC
      BY DEF PC
    <3> HIDE DEF next
    <3>2. QED
      BY <3>1, Entered
  <2>2. Become(m, new) /\ UNCHANGED <<outside, draft, aged>>
    BY <1>1 DEF Score
  <2>3. HasOrders \in BOOLEAN
    BY DEF HasOrders, IInv, OutsideTyped
  <2>4. routing \in Routing /\ (routing = "auto_approve" /\ Plausible(handler[m]) => HasOrders)
    BY <1>h, <2>3, FirstOrderScoresLow, RoutesKnown DEF Routing
  <2> HIDE DEF routing, next, mid
  <2>5. /\ new \in HandlerState /\ new.own = handler[m].own /\ new.duplicateOf = handler[m].duplicateOf
        /\ new.routing = routing /\ new.plausible = Plausible(handler[m])
    <3> DEFINE plausible == Plausible(handler[m])
    <3>1. 100 \in 0..100 /\ plausible \in BOOLEAN
      BY DEF Plausible
    <3>2. mid \in HandlerState
      BY <2>1
    <3>3. routing \in Routing
      BY <2>4
    <3> HIDE DEF plausible
    <3>4. /\ new \in HandlerState /\ new.own = mid.own /\ new.duplicateOf = mid.duplicateOf
          /\ new.routing = routing /\ new.plausible = plausible
      <4>1. new = [mid EXCEPT !.routing = routing, !.plausible = plausible, !.intent = 0,
                              !.enabled = FALSE, !.threshold = 100]
        BY DEF plausible
      <4> HIDE DEF new
      <4>2. QED
        BY ONLY <3>1, <3>2, <3>3, <4>1 DEF HandlerState
    <3> HIDE DEF new
    <3>5. QED
      BY <2>1, <3>4 DEF plausible
  <2> HIDE DEF new
  <2>6. QED
    BY <1>h, <2>2, <2>4, <2>5, HandlerMoves
<1>2. CASE CheckDuplicate(m)
  <2> DEFINE same == Repeats(handler[m].extraction.lines)
             newest == IF same = {} THEN NoDraft ELSE CHOOSE i \in same : \A j \in same : i >= j
             mid == Enter(m, "creating")
             new == [mid EXCEPT !.duplicateOf = newest, !.searched = TRUE,
                                !.known = mid.known \cap Candidates]
  <2>1. newest \in Nat /\ newest <= Len(draft)
    <3>1. same \subseteq 1..Len(draft)
      BY <1>h DEF Repeats, Candidates, Live, IInv, DraftsRight
    <3>2. CASE same = {}
      BY <1>h, <3>2 DEF NoDraft
    <3>3. CASE same # {}
      <4> HIDE DEF same
      <4>1. \E i \in same : \A j \in same : i >= j
        BY <1>h, <3>1, <3>3, GreatestExists
      <4>2. newest \in same
        BY <3>3, <4>1
      <4> HIDE DEF newest
      <4>3. QED
        BY <1>h, <3>1, <4>2
    <3>4. QED
      BY <3>2, <3>3
  <2>2. mid \in HandlerState /\ mid.own = handler[m].own /\ mid.routing = handler[m].routing
        /\ mid.plausible = handler[m].plausible
    BY Entered DEF PC
  <2>3. Become(m, new) /\ UNCHANGED <<outside, draft, aged>>
    BY <1>2 DEF CheckDuplicate
  <2> HIDE DEF newest, mid
  <2>4. /\ new \in HandlerState /\ new.own = handler[m].own /\ new.duplicateOf = newest
        /\ new.routing = handler[m].routing /\ new.plausible = handler[m].plausible
    BY <2>1, <2>2 DEF HandlerState
  <2> HIDE DEF new
  <2>5. QED
    BY <1>h, <2>1, <2>3, <2>4, HandlerMoves
<1>3. CASE CheckFails(m)
  <2> DEFINE mid == Enter(m, "creating")
             new == [mid EXCEPT !.searched = FALSE]
  <2>1. /\ mid \in HandlerState /\ mid.own = handler[m].own /\ mid.routing = handler[m].routing
        /\ mid.plausible = handler[m].plausible
        /\ mid.duplicateOf = handler[m].duplicateOf
    BY Entered DEF PC
  <2>2. Become(m, new) /\ UNCHANGED <<outside, draft, aged>>
    BY <1>3 DEF CheckFails
  <2> HIDE DEF mid
  <2>3. /\ new \in HandlerState /\ new.own = handler[m].own /\ new.duplicateOf = handler[m].duplicateOf
        /\ new.routing = handler[m].routing /\ new.plausible = handler[m].plausible
    BY <2>1 DEF HandlerState
  <2> HIDE DEF new
  <2>4. QED
    BY <1>h, <2>2, <2>3, HandlerMoves
<1>4. CASE Fail(m)
  BY <1>h, <1>4, Left, HandlerMoves DEF Fail, PC, Ended
<1>5. QED
  BY <1>1, <1>2, <1>3, <1>4

LEMMA DraftingSteps ==
  ASSUME PipelineAssumption, IInv, NEW m \in Messages,
         CreateDraft(m) \/ Mark(m) \/ \E e \in Extractions : ConfirmContext(m, e)
  PROVE  IInv'
<1>h. /\ handler[m] \in HandlerState /\ handler[m].own <= Len(draft) /\ handler[m].duplicateOf <= Len(draft)
      /\ handler[m].routing = "auto_approve" /\ handler[m].plausible => HasOrders
      /\ Len(draft) \in Nat
  BY HandlerIs
<1>i. OutsideTyped /\ DraftsRight /\ HandlersRight
  BY DEF IInv
<1>1. CASE CreateDraft(m)
  <2> DEFINE h == handler[m]
             row == NewDraft(m, "extracted", h.extraction.lines, h.duplicateOf)
             mid == Enter(m, "marking")
             new == [mid EXCEPT !.own = Len(draft) + 1]
  <2>1. row \in DraftRow /\ row.duplicateOf = h.duplicateOf /\ ~row.auto
    BY <1>h, NewDraftTyped DEF HandlerState, Extraction
  <2>2. draft' = Append(draft, row) /\ Become(m, new) /\ UNCHANGED <<outside, aged>>
    BY <1>1 DEF CreateDraft
  <2>3. /\ mid \in HandlerState /\ mid.duplicateOf = h.duplicateOf /\ mid.routing = h.routing
        /\ mid.plausible = h.plausible
    BY Entered DEF PC
  <2> HIDE DEF row, mid
  <2>4. /\ new \in HandlerState /\ new.own = Len(draft) + 1 /\ new.duplicateOf = h.duplicateOf
        /\ new.routing = h.routing /\ new.plausible = h.plausible
    <3>1. Len(draft) + 1 \in Nat
      BY <1>h
    <3>2. QED
      BY <2>3, <3>1 DEF HandlerState
  <2> HIDE DEF new
  <2>5. DraftsRight' /\ Keeps /\ Len(draft') = Len(draft) + 1
    BY <1>h, <1>i, <2>1, <2>2, DraftAdded DEF outside
  <2>6. h.duplicateOf \in Nat
    BY <1>h DEF HandlerState
  <2>7. HandlersRight'
    BY <1>h, <1>i, <2>2, <2>4, <2>5, <2>6, HandlerBecomes
  <2>8. OutsideTyped'
    BY <1>i, <2>2 DEF OutsideTyped, outside
  <2>9. QED
    BY <2>5, <2>7, <2>8 DEF IInv
<1>2. CASE Mark(m)
  <2> DEFINE h == handler[m]
             row == [[draft[h.own] EXCEPT !.auto = TRUE] EXCEPT !.plausible = h.plausible]
             new == Leave(m, "done")
  <2>1. /\ new \in HandlerState /\ new.own = h.own /\ new.duplicateOf = 0 /\ new.routing = "none"
    BY Left DEF PC, Ended
  <2>2. Become(m, new) /\ UNCHANGED <<outside, aged>>
    BY <1>2 DEF Mark
  <2> HIDE DEF new
  <2>3. DraftsRight' /\ Keeps /\ Len(draft') = Len(draft)
    <3>1. CASE h.own # NoDraft /\ h.routing = "auto_approve"
      <4>1. h.own \in 1..Len(draft)
        BY <1>h, <3>1 DEF HandlerState, NoDraft
      <4>2. draft[h.own] \in DraftRow
        BY <1>i, <4>1, LenProperties DEF DraftsRight
      <4>3. row \in DraftRow /\ row.duplicateOf = draft[h.own].duplicateOf /\ row.ordered = draft[h.own].ordered
        BY <1>h, <4>2 DEF DraftRow, HandlerState
      <4>4. draft' = [draft EXCEPT ![h.own] = row]
        BY <1>2, <3>1 DEF Mark
      <4>5. row.auto /\ row.plausible => HasOrders
        BY <1>h, <3>1, <4>2 DEF DraftRow
      <4> HIDE DEF row
      <4>6. QED
        BY <1>i, <2>2, <4>1, <4>3, <4>4, <4>5, DraftChanged DEF outside
    <3>2. CASE ~(h.own # NoDraft /\ h.routing = "auto_approve")
      <4>1. draft' = draft
        BY <1>2, <3>2 DEF Mark
      <4>2. QED
        BY <1>i, <2>2, <4>1, SameDrafts DEF outside
    <3>3. QED
      BY <3>1, <3>2
  <2>4. HandlersRight'
    BY <1>h, <1>i, <2>1, <2>2, <2>3, HandlerBecomes
  <2>5. OutsideTyped'
    BY <1>i, <2>2 DEF OutsideTyped, outside
  <2>6. QED
    BY <2>3, <2>4, <2>5 DEF IInv
<1>3. CASE \E e \in Extractions : ConfirmContext(m, e)
  <2>1. PICK e \in Extractions : ConfirmContext(m, e)
    BY <1>3
  <2> DEFINE row == NewDraft(m, "confirmed", e.lines, NoDraft)
             new == [NewHandler EXCEPT !.pc = "done", !.own = Len(draft) + 1]
  <2>2. e.lines \in Seq(Line)
    BY DEF PipelineAssumption, Extraction
  <2>3. row \in DraftRow /\ row.duplicateOf = 0 /\ ~row.auto
    BY <2>2, NewDraftTyped DEF NoDraft
  <2>4. draft' = Append(draft, row) /\ Become(m, new) /\ UNCHANGED <<outside, aged>>
    BY <2>1 DEF ConfirmContext
  <2>5. /\ new \in HandlerState /\ new.own = Len(draft) + 1 /\ new.duplicateOf = 0
        /\ new.routing = "none"
    <3>1. "done" \in PC /\ Len(draft) + 1 \in Nat
      BY <1>h DEF PC, Ended
    <3>2. QED
      BY <3>1, NewHandlerTyped DEF HandlerState
  <2> HIDE DEF row, new
  <2>6. DraftsRight' /\ Keeps /\ Len(draft') = Len(draft) + 1
    BY <1>h, <1>i, <2>3, <2>4, DraftAdded DEF outside
  <2>7. HandlersRight'
    BY <1>h, <1>i, <2>4, <2>5, <2>6, HandlerBecomes
  <2>8. OutsideTyped'
    BY <1>i, <2>4 DEF OutsideTyped, outside
  <2>9. QED
    BY <2>6, <2>7, <2>8 DEF IInv
<1>4. QED
  BY <1>1, <1>2, <1>3

-----------------------------------------------------------------------------
(* The owner and the clock *)

LEMMA OwnerSteps ==
  ASSUME PipelineAssumption, IInv, Owner
  PROVE  IInv'
<1>i. OutsideTyped /\ DraftsRight /\ HandlersRight
  BY DEF IInv
<1>d. ASSUME NEW i \in 1..Len(draft) PROVE draft[i] \in DraftRow
  BY <1>i, LenProperties DEF DraftsRight
<1>1. ASSUME NEW i \in 1..Len(draft), Approve(i) PROVE IInv'
  <2> DEFINE row == [[draft[i] EXCEPT !.status = "APPROVED"] EXCEPT !.ordered = TRUE]
  <2>1. /\ row \in DraftRow /\ row.duplicateOf = draft[i].duplicateOf /\ row.ordered
        /\ row.auto = draft[i].auto /\ row.plausible = draft[i].plausible
    BY <1>d DEF DraftRow, Status
  <2>2. draft' = [draft EXCEPT ![i] = row] /\ UNCHANGED <<outside, handler, aged>>
    BY <1>1 DEF Approve
  <2> HIDE DEF row
  <2>3. DraftsRight' /\ Keeps
    BY <1>i, <2>1, <2>2, DraftChanged DEF outside
  <2>4. HandlersRight'
    BY <1>i, <2>2, <2>3, HandlersSame
  <2>5. QED
    BY <1>i, <2>2, <2>3, <2>4 DEF IInv, OutsideTyped, outside
<1>2. ASSUME NEW i \in 1..Len(draft), Reject(i) PROVE IInv'
  <2> DEFINE row == [draft[i] EXCEPT !.status = "REJECTED"]
  <2>1. /\ row \in DraftRow /\ row.duplicateOf = draft[i].duplicateOf
        /\ row.ordered = draft[i].ordered
        /\ row.auto = draft[i].auto /\ row.plausible = draft[i].plausible
    BY <1>d DEF DraftRow, Status
  <2>2. draft' = [draft EXCEPT ![i] = row] /\ Forgets(i) /\ UNCHANGED <<outside, aged>>
    BY <1>2 DEF Reject
  <2> HIDE DEF row
  <2>3. DraftsRight' /\ Keeps
    BY <1>i, <2>1, <2>2, DraftChanged DEF outside
  <2>4. HandlersRight'
    BY <1>i, <2>2, <2>3, HandlersForget
  <2>5. QED
    BY <1>i, <2>2, <2>3, <2>4 DEF IInv, OutsideTyped, outside
<1>3. ASSUME NEW i \in 1..Len(draft), NEW e \in Extractions, Correct(i, e) PROVE IInv'
  <2> DEFINE row == [[draft[i] EXCEPT !.status = "REVIEWED"] EXCEPT !.lines = Stored(e.lines)]
  <2>1. Stored(e.lines) \in Seq(Line)
    BY StoredTyped DEF PipelineAssumption, Extraction
  <2>2. /\ row \in DraftRow /\ row.duplicateOf = draft[i].duplicateOf
        /\ row.ordered = draft[i].ordered
        /\ row.auto = draft[i].auto /\ row.plausible = draft[i].plausible
    BY <1>d, <2>1 DEF DraftRow, Status
  <2>3. /\ draft' = [draft EXCEPT ![i] = row] /\ Forgets(i)
        /\ UNCHANGED <<provider, settings, listed, past, aged>>
    BY <1>3 DEF Correct
  <2> HIDE DEF row
  <2>4. DraftsRight' /\ Keeps
    BY <1>i, <2>2, <2>3, DraftChanged
  <2>5. HandlersRight'
    BY <1>i, <2>3, <2>4, HandlersForget
  <2>6. QED
    BY <1>i, <2>3, <2>4, <2>5 DEF IInv, OutsideTyped
<1>4. ASSUME \/ \E new \in [enabled : BOOLEAN, threshold : Thresholds] : ChangeSettings(new)
             \/ \E p \in Products : ChangeCatalogue(p)
      PROVE  IInv'
  <2>1. UNCHANGED <<provider, past, handler, draft, aged>>
    BY <1>4 DEF ChangeSettings, ChangeCatalogue
  <2>2. DraftsRight' /\ Keeps
    BY <1>i, <2>1, SameDrafts
  <2>3. HandlersRight'
    BY <1>i, <2>1, <2>2, HandlersSame
  <2>4. OutsideTyped'
    BY <1>i, <1>4 DEF OutsideTyped, ChangeSettings, ChangeCatalogue
  <2>5. QED
    BY <2>2, <2>3, <2>4 DEF IInv
<1>5. QED
  BY <1>1, <1>2, <1>3, <1>4 DEF Owner

LEMMA AgeStep ==
  ASSUME IInv, Age
  PROVE  IInv'
<1>i. OutsideTyped /\ DraftsRight /\ HandlersRight
  BY DEF IInv
<1>1. Len(draft) \in Nat
  BY <1>i, LenProperties DEF DraftsRight
<1>2. HasOrders' = HasOrders
  BY DEF Age, outside, HasOrders
<1>3. DraftsRight' /\ Keeps
  BY <1>i, <1>1, <1>2 DEF Age, DraftsRight, Keeps
<1>4. HandlersRight'
  BY <1>i, <1>3, HandlersForget DEF Age
<1>5. OutsideTyped'
  BY <1>i DEF Age, OutsideTyped, outside
<1>6. QED
  BY <1>3, <1>4, <1>5 DEF IInv

-----------------------------------------------------------------------------
LEMMA IInvInit ==
  ASSUME PipelineAssumption, Init
  PROVE  IInv
<1>1. OutsideTyped
  BY DEF Init, OutsideTyped
<1>2. DraftsRight
  <2>1. draft \in Seq(DraftRow) /\ Len(draft) = 0
    BY EmptySeq DEF Init
  <2>2. QED
    BY <2>1 DEF Init, DraftsRight
<1>3. HandlersRight
  <2>1. Len(draft) = 0
    BY DEF Init
  <2>2. QED
    BY <2>1, NewHandlerTyped DEF Init, HandlersRight
<1>4. QED
  BY <1>1, <1>2, <1>3 DEF IInv

LEMMA IInvStep ==
  ASSUME PipelineAssumption, IInv, [Next]_vars
  PROVE  IInv'
<1>1. CASE \E m \in Messages : Pipe(m) \/ \E e \in Extractions : ConfirmContext(m, e)
  BY <1>1, ReadingSteps, RoutingSteps, DraftingSteps DEF Pipe
<1>2. CASE Owner
  BY <1>2, OwnerSteps
<1>3. CASE Age
  BY <1>3, AgeStep
<1>4. CASE UNCHANGED vars
  <2>1. DraftsRight' /\ Keeps
    BY <1>4, SameDrafts DEF IInv, vars
  <2>2. HandlersRight'
    BY <1>4, <2>1, HandlersSame DEF IInv, vars
  <2>3. QED
    BY <1>4, <2>1, <2>2 DEF IInv, OutsideTyped, vars
<1>5. QED
  BY <1>1, <1>2, <1>3, <1>4 DEF Next

LEMMA Inductive == Spec => []IInv
<1>1. Init => IInv
  BY IInvInit, PipelineAssumption
<1>2. IInv /\ [Next]_vars => IInv'
  BY IInvStep, PipelineAssumption
<1>3. QED
  BY <1>1, <1>2, PTL DEF Spec

-----------------------------------------------------------------------------
(* Repeats *)

(* A part of an order: what is ordered, and how much of it.                *)
Part(line) == <<Key(line), Quantity(line)>>
Having(lines, p) == {i \in DOMAIN lines : Part(lines[i]) = p}
Parts(lines) == {Part(lines[i]) : i \in {j \in DOMAIN lines : Identified(lines[j])}}

LEMMA SignatureParts ==
  ASSUME NEW lines
  PROVE  Signature(lines) = [p \in Parts(lines) |-> Cardinality(Having(lines, p))]
BY DEF Signature, Parts, Having, Part

(* What is stored of a line is the part of the order it is.                *)
LEMMA StoredParts ==
  ASSUME NEW a \in Seq(Line), NEW b \in Seq(Line), NEW i \in DOMAIN a, NEW j \in DOMAIN b,
         Stored(a)[i] = Stored(b)[j]
  PROVE  Part(a[i]) = Part(b[j]) /\ (Identified(a[i]) <=> Identified(b[j]))
<1>1. a[i] \in Line /\ b[j] \in Line
  OBVIOUS
<1>2. [a[i] EXCEPT !.quantity = Quantity(a[i])] = [b[j] EXCEPT !.quantity = Quantity(b[j])]
  BY DEF Stored
<1>3. a[i].product = b[j].product /\ a[i].query = b[j].query /\ Quantity(a[i]) = Quantity(b[j])
  BY <1>1, <1>2 DEF Line
<1>4. QED
  BY <1>3 DEF Part, Key, Identified

(* Lists of lines that order the same have one signature, in whatever      *)
(* order they are.                                                         *)
LEMMA SameOrderSameSignature ==
  ASSUME NEW a \in Seq(Line), NEW b \in Seq(Line), SameOrder(a, b)
  PROVE  Signature(a) = Signature(b) /\ DOMAIN Signature(b) # {}
<1>1. PICK f \in Bijection(DOMAIN a, DOMAIN b) : \A i \in DOMAIN a : Stored(a)[i] = Stored(b)[f[i]]
  BY DEF SameOrder
<1>2. /\ f \in [DOMAIN a -> DOMAIN b]
      /\ \A i, j \in DOMAIN a : f[i] = f[j] => i = j
      /\ \A j \in DOMAIN b : \E i \in DOMAIN a : f[i] = j
  BY Fun_BijectionProperties
<1>3. ASSUME NEW i \in DOMAIN a
      PROVE  Part(a[i]) = Part(b[f[i]]) /\ (Identified(a[i]) <=> Identified(b[f[i]]))
  <2>1. f[i] \in DOMAIN b /\ Stored(a)[i] = Stored(b)[f[i]]
    BY <1>1, <1>2
  <2>2. QED
    BY <2>1, StoredParts
<1>4. Parts(a) = Parts(b)
  <2>1. \A j \in DOMAIN b : Identified(b[j]) => \E i \in DOMAIN a : Identified(a[i]) /\ Part(a[i]) = Part(b[j])
    BY <1>2, <1>3
  <2>2. \A i \in DOMAIN a : Identified(a[i]) => \E j \in DOMAIN b : Identified(b[j]) /\ Part(b[j]) = Part(a[i])
    BY <1>2, <1>3
  <2>3. QED
    BY <2>1, <2>2 DEF Parts
<1>5. ASSUME NEW p PROVE Cardinality(Having(a, p)) = Cardinality(Having(b, p))
  <2> DEFINE g == [i \in Having(a, p) |-> f[i]]
  <2>1. g \in [Having(a, p) -> Having(b, p)]
    BY <1>2, <1>3 DEF Having
  <2>2. \A i, j \in Having(a, p) : g[i] = g[j] => i = j
    BY <1>2 DEF Having
  <2>3. \A j \in Having(b, p) : \E i \in Having(a, p) : g[i] = j
    BY <1>2, <1>3 DEF Having
  <2> HIDE DEF g
  <2>4. g \in Bijection(Having(a, p), Having(b, p))
    BY <2>1, <2>2, <2>3, Fun_IsBij
  <2>5. ExistsBijection(Having(a, p), Having(b, p))
    BY <2>4 DEF ExistsBijection
  <2>6. IsFiniteSet(Having(a, p))
    <3>1. IsFiniteSet(1..Len(a)) /\ DOMAIN a = 1..Len(a)
      BY FS_Interval, LenProperties
    <3>2. Having(a, p) \subseteq 1..Len(a)
      BY <3>1 DEF Having
    <3>3. QED
      BY <3>1, <3>2, FS_Subset
  <2>7. QED
    BY <2>5, <2>6, FS_Bijection
<1>6. Signature(a) = Signature(b)
  BY <1>4, <1>5, SignatureParts
<1>7. Parts(a) # {}
  BY DEF SameOrder, Parts
<1>8. DOMAIN Signature(b) = Parts(b)
  BY SignatureParts
<1>9. QED
  BY <1>4, <1>6, <1>7, <1>8

(* What a handler knows of is live; it has a draft of its own only at the  *)
(* end; and once it has looked and found no duplicate, it knows of none.   *)
Looked(h, drafts) ==
  /\ h.pc = "creating" \/ (h.pc = "marking" /\ h.own # NoDraft)
  /\ h.searched /\ h.duplicateOf = NoDraft
  => \A i \in h.known : ~SameOrder(drafts[i].lines, h.extraction.lines)

LooksRight(h, live, drafts) ==
  /\ h.known \subseteq live
  /\ h.pc \notin Ended \cup {"marking"} => h.own = NoDraft
  /\ Looked(h, drafts)

RepeatsKnown == \A m \in Messages : LooksRight(handler[m], Live, draft)

LEMMA LooksStay ==
  ASSUME NEW h, LooksRight(h, Live, draft), NEW k, k.pc = h.pc, k.own = h.own, k.duplicateOf = h.duplicateOf,
         k.searched = h.searched, k.extraction = h.extraction, k.known \subseteq h.known,
         \A i \in k.known : i \in Live => i \in Live' /\ draft'[i].lines = draft[i].lines
  PROVE  LooksRight(k, Live', draft')
BY DEF LooksRight, Looked

(* A handler before it looks, and one that has ended.                      *)
LEMMA EarlyLooksRight ==
  ASSUME NEW k, k.known \subseteq Live, k.pc \notin {"creating", "marking"}, k.pc \in Ended \/ k.own = NoDraft
  PROVE  LooksRight(k, Live, draft)
BY DEF LooksRight, Looked

LEMMA LookerMoves ==
  ASSUME IInv, RepeatsKnown, NEW m \in Messages, NEW new, Become(m, new), LooksRight(new, Live, draft),
         UNCHANGED <<draft, aged>>
  PROVE  RepeatsKnown'
<1>1. Live' = Live
  BY DEF Live
<1>2. \A n \in Messages : LooksRight(handler'[n], Live, draft)
  BY DEF Become, RepeatsKnown, IInv, HandlersRight
<1>3. QED
  BY <1>1, <1>2 DEF RepeatsKnown

LEMMA EnteredKnows ==
  ASSUME PipelineAssumption, IInv, NEW m \in Messages, NEW pc \in PC
  PROVE  /\ Enter(m, pc) \in HandlerState /\ Enter(m, pc).pc = pc
         /\ Enter(m, pc).own = handler[m].own /\ Enter(m, pc).known = handler[m].known
         /\ Enter(m, pc).extraction = handler[m].extraction
         /\ Enter(m, pc).searched = handler[m].searched
<1>1. handler[m] \in HandlerState
  BY HandlerIs
<1>2. QED
  BY <1>1, Entered DEF Enter, HandlerState

LEMMA LeftKnows ==
  ASSUME PipelineAssumption, IInv, RepeatsKnown, NEW m \in Messages, NEW pc \in Ended,
         Become(m, Leave(m, pc)), UNCHANGED <<draft, aged>>
  PROVE  RepeatsKnown'
<1> DEFINE new == Leave(m, pc)
<1>1. new.known = {} /\ new.pc = pc
  BY DEF Leave, NewHandler
<1>2. pc \notin {"creating", "marking"}
  BY DEF Ended
<1> HIDE DEF new
<1>3. LooksRight(new, Live, draft)
  BY <1>1, <1>2, EarlyLooksRight
<1>4. QED
  BY <1>3, LookerMoves DEF new

LEMMA ReadersLook ==
  ASSUME PipelineAssumption, IInv, RepeatsKnown, NEW m \in Messages,
         \/ Start(m) \/ Retry(m) \/ DetectOther(m) \/ Normalize(m) \/ ExtractFails(m)
         \/ \E c \in Intents : DetectOrder(m, c)
         \/ \E found \in SUBSET Products : Retrieve(m, found)
         \/ \E reading \in Readings(m) : Extract(m, reading)
         \/ \E lost \in BOOLEAN : RecordDemand(m, lost)
  PROVE  RepeatsKnown'
<1>h. handler[m] \in HandlerState /\ LooksRight(handler[m], Live, draft)
  BY HandlerIs DEF RepeatsKnown
<1>k. handler[m].known \subseteq Live /\ (handler[m].pc \notin Ended \cup {"marking"} => handler[m].own = NoDraft)
  BY <1>h DEF LooksRight
<1>u. UNCHANGED <<draft, aged>>
  BY DEF Start, Retry, DetectOther, Normalize, ExtractFails, DetectOrder, Retrieve, Extract, RecordDemand
<1>e. ASSUME NEW new, Become(m, new), new.known = handler[m].known, new.own = handler[m].own,
             handler[m].pc \in {"detecting", "normalizing", "retrieving", "extracting", "recording"},
             new.pc \in {"detecting", "normalizing", "retrieving", "extracting", "recording", "scoring"}
      PROVE  RepeatsKnown'
  <2>1. new.own = NoDraft /\ new.known \subseteq Live
    BY <1>k, <1>e DEF Ended
  <2>2. LooksRight(new, Live, draft)
    BY <1>e, <2>1, EarlyLooksRight
  <2>3. QED
    BY <1>e, <1>u, <2>2, LookerMoves
<1>1. CASE Start(m)
  <2> DEFINE new == [NewHandler EXCEPT !.pc = "detecting", !.enabled = settings.enabled,
                                       !.threshold = settings.threshold, !.known = Live]
  <2>1. new.known = Live /\ new.pc = "detecting" /\ new.own = NoDraft
    BY DEF NewHandler
  <2>2. Become(m, new)
    BY <1>1 DEF Start
  <2> HIDE DEF new
  <2>3. LooksRight(new, Live, draft)
    BY <2>1, EarlyLooksRight
  <2>4. QED
    BY <1>u, <2>2, <2>3, LookerMoves
<1>2. CASE Retry(m)
  <2> DEFINE new == Retried(handler[m])
  <2>1. /\ new.known = handler[m].known /\ new.own = handler[m].own /\ new.pc = handler[m].pc
        /\ handler[m].pc \in {"detecting", "normalizing", "extracting"}
    BY <1>h, <1>2 DEF Retry, Retried, HandlerState, Asking
  <2>2. Become(m, new)
    BY <1>2 DEF Retry
  <2> HIDE DEF new
  <2>3. QED
    BY <1>e, <2>1, <2>2
<1>3. CASE DetectOther(m)
  BY <1>3, <1>u, LeftKnows DEF DetectOther, Ended
<1>4. CASE Normalize(m)
  <2>1. handler[m].pc = "normalizing" /\ Become(m, Enter(m, "retrieving"))
    BY <1>4 DEF Normalize, At
  <2>2. QED
    BY <1>e, <2>1, EnteredKnows DEF PC
<1>5. CASE \E c \in Intents : DetectOrder(m, c)
  <2>1. PICK c \in Intents : DetectOrder(m, c)
    BY <1>5
  <2> DEFINE mid == Enter(m, "normalizing")
             new == [mid EXCEPT !.intent = c]
  <2>2. /\ mid \in HandlerState /\ mid.pc = "normalizing" /\ mid.own = handler[m].own
        /\ mid.known = handler[m].known
    BY EnteredKnows DEF PC, Asking
  <2>3. Become(m, new) /\ handler[m].pc = "detecting"
    BY <2>1 DEF DetectOrder, At
  <2> HIDE DEF mid
  <2>4. new.pc = "normalizing" /\ new.own = handler[m].own /\ new.known = handler[m].known
    BY <2>2 DEF HandlerState
  <2> HIDE DEF new
  <2>5. QED
    BY <1>e, <2>3, <2>4
<1>6. CASE \E found \in SUBSET Products : Retrieve(m, found)
  <2>1. PICK found \in SUBSET Products : Retrieve(m, found)
    BY <1>6
  <2> DEFINE mid == Enter(m, "extracting")
             new == [mid EXCEPT !.found = found]
  <2>2. /\ mid \in HandlerState /\ mid.pc = "extracting" /\ mid.own = handler[m].own
        /\ mid.known = handler[m].known
    BY EnteredKnows DEF PC, Asking
  <2>3. Become(m, new) /\ handler[m].pc = "retrieving"
    BY <2>1 DEF Retrieve, At
  <2> HIDE DEF mid
  <2>4. new.pc = "extracting" /\ new.own = handler[m].own /\ new.known = handler[m].known
    BY <2>2 DEF HandlerState
  <2> HIDE DEF new
  <2>5. QED
    BY <1>e, <2>3, <2>4
<1>7. ASSUME NEW reading, Extracted(m, reading), handler[m].pc = "extracting" PROVE RepeatsKnown'
  <2> DEFINE next == IF Unmatched(reading.lines) = {} THEN "scoring" ELSE "recording"
             mid == Enter(m, next)
             new == [mid EXCEPT !.extraction = reading, !.found = IF next = "recording" THEN @ ELSE {}]
  <2>1. next \in {"scoring", "recording"}
    OBVIOUS
  <2>2. Become(m, new)
    BY <1>7 DEF Extracted
  <2> HIDE DEF next
  <2>3. mid \in HandlerState /\ mid.pc = next /\ mid.own = handler[m].own /\ mid.known = handler[m].known
    BY <2>1, EnteredKnows DEF PC
  <2> HIDE DEF mid
  <2>4. new.pc = next /\ new.own = handler[m].own /\ new.known = handler[m].known
    BY <2>3 DEF HandlerState
  <2> HIDE DEF new
  <2>5. QED
    BY <1>e, <1>7, <2>1, <2>2, <2>4
<1>8. CASE ExtractFails(m) \/ \E reading \in Readings(m) : Extract(m, reading)
  BY <1>7, <1>8 DEF ExtractFails, Extract, At
<1>9. CASE \E lost \in BOOLEAN : RecordDemand(m, lost)
  <2>1. PICK reason : Become(m, [Enter(m, "scoring") EXCEPT !.found = {}, !.demand = reason])
    BY <1>9 DEF RecordDemand
  <2> DEFINE mid == Enter(m, "scoring")
             new == [mid EXCEPT !.found = {}, !.demand = reason]
  <2>2. /\ mid \in HandlerState /\ mid.pc = "scoring" /\ mid.own = handler[m].own
        /\ mid.known = handler[m].known
    BY EnteredKnows DEF PC
  <2>3. Become(m, new) /\ handler[m].pc = "recording"
    BY <1>9, <2>1 DEF RecordDemand, At
  <2> HIDE DEF mid
  <2>4. new.pc = "scoring" /\ new.own = handler[m].own /\ new.known = handler[m].known
    BY <2>2 DEF HandlerState
  <2> HIDE DEF new
  <2>5. QED
    BY <1>e, <2>3, <2>4
<1>10. QED
  BY <1>1, <1>2, <1>3, <1>4, <1>5, <1>6, <1>8, <1>9

LEMMA DecidersLook ==
  ASSUME PipelineAssumption, IInv, RepeatsKnown, NEW m \in Messages,
         Score(m) \/ CheckDuplicate(m) \/ CheckFails(m) \/ Fail(m)
  PROVE  RepeatsKnown'
<1> DEFINE h == handler[m]
<1>h. /\ h \in HandlerState /\ h.known \subseteq Live /\ Len(draft) \in Nat
      /\ h.pc \notin Ended \cup {"marking"} => h.own = NoDraft
  BY HandlerIs DEF RepeatsKnown, LooksRight
<1>u. UNCHANGED <<draft, aged>>
  BY DEF Score, CheckDuplicate, CheckFails, Fail
<1>1. CASE Score(m)
  <2> DEFINE routing == Route(h, Composite(h.intent, h.extraction, HasOrders))
             next == IF routing = "gather_more_info" THEN "marking" ELSE "checking"
             mid == Enter(m, next)
             new == [mid EXCEPT !.routing = routing, !.plausible = Plausible(handler[m]),
                                !.intent = 0, !.enabled = FALSE, !.threshold = 100]
  <2>1. next \in {"marking", "checking"}
    OBVIOUS
  <2>2. Become(m, new) /\ h.pc = "scoring"
    BY <1>1 DEF Score, At
  <2> HIDE DEF next, routing
  <2>3. mid \in HandlerState /\ mid.pc = next /\ mid.own = h.own /\ mid.known = h.known
    BY <2>1, EnteredKnows DEF PC
  <2> HIDE DEF mid
  <2>4. new.pc = next /\ new.own = h.own /\ new.known = h.known
    BY <2>3 DEF HandlerState
  <2> HIDE DEF new
  <2>5. h.own = NoDraft
    BY <1>h, <2>2 DEF Ended
  <2>6. LooksRight(new, Live, draft)
    BY <1>h, <2>1, <2>4, <2>5 DEF LooksRight, Looked
  <2>7. QED
    BY <1>u, <2>2, <2>6, LookerMoves
<1>2. CASE CheckDuplicate(m)
  <2> DEFINE same == Repeats(h.extraction.lines)
             newest == IF same = {} THEN NoDraft ELSE CHOOSE i \in same : \A j \in same : i >= j
             mid == Enter(m, "creating")
             new == [mid EXCEPT !.duplicateOf = newest, !.searched = TRUE,
                                !.known = mid.known \cap Candidates]
  <2>1. newest = NoDraft => same = {}
    <3>1. same \subseteq 1..Len(draft)
      BY <1>h DEF Repeats, Candidates, Live, IInv, DraftsRight
    <3>2. CASE same = {}
      BY <3>2
    <3>3. CASE same # {}
      <4> HIDE DEF same
      <4>1. \E i \in same : \A j \in same : i >= j
        BY <1>h, <3>1, <3>3, GreatestExists
      <4>2. newest \in same
        BY <3>3, <4>1
      <4> HIDE DEF newest
      <4>3. QED
        BY <1>h, <3>1, <4>2 DEF NoDraft
    <3>4. QED
      BY <3>2, <3>3
  <2>2. ASSUME NEW i \in h.known \cap Candidates, SameOrder(draft[i].lines, h.extraction.lines) PROVE i \in same
    <3>1. i \in Live /\ i \in 1..Len(draft)
      BY <1>h DEF Live, IInv, DraftsRight
    <3>2. draft[i].lines \in Seq(Line) /\ h.extraction.lines \in Seq(Line)
      <4>1. draft[i] \in DraftRow
        BY <3>1, LenProperties DEF IInv, DraftsRight
      <4>2. QED
        BY <1>h, <4>1 DEF DraftRow, HandlerState, Extraction
    <3>3. /\ Signature(draft[i].lines) = Signature(h.extraction.lines)
          /\ DOMAIN Signature(h.extraction.lines) # {}
      BY <2>2, <3>2, SameOrderSameSignature
    <3>4. QED
      BY <2>2, <3>3 DEF Repeats
  <2>3. Become(m, new) /\ h.pc = "checking"
    BY <1>2 DEF CheckDuplicate, At
  <2>4. /\ mid \in HandlerState /\ mid.pc = "creating" /\ mid.own = h.own /\ mid.known = h.known
        /\ mid.extraction = h.extraction
    BY EnteredKnows DEF PC
  <2> HIDE DEF mid, newest, same
  <2>5. /\ new.pc = "creating" /\ new.own = h.own /\ new.known = h.known \cap Candidates
        /\ new.extraction = h.extraction /\ new.duplicateOf = newest
    BY <2>4 DEF HandlerState
  <2> HIDE DEF new
  <2>6. h.own = NoDraft
    BY <1>h, <2>3 DEF Ended
  <2>7. new.duplicateOf = NoDraft => \A i \in new.known : ~SameOrder(draft[i].lines, new.extraction.lines)
    <3> HIDE DEF h
    <3>1. QED
      BY <2>1, <2>2, <2>5
  <2>8. LooksRight(new, Live, draft)
    BY <1>h, <2>5, <2>6, <2>7 DEF LooksRight, Looked
  <2>9. QED
    BY <1>u, <2>3, <2>8, LookerMoves
<1>3. CASE CheckFails(m)
  <2> DEFINE mid == Enter(m, "creating")
             new == [mid EXCEPT !.searched = FALSE]
  <2>1. mid \in HandlerState /\ mid.pc = "creating" /\ mid.own = h.own /\ mid.known = h.known
    BY EnteredKnows DEF PC
  <2>2. Become(m, new) /\ h.pc = "checking"
    BY <1>3 DEF CheckFails, At
  <2> HIDE DEF mid
  <2>3. new.pc = "creating" /\ new.own = h.own /\ new.known = h.known /\ ~new.searched
    BY <2>1 DEF HandlerState
  <2> HIDE DEF new
  <2>4. h.own = NoDraft
    BY <1>h, <2>2 DEF Ended
  <2>5. LooksRight(new, Live, draft)
    BY <1>h, <2>3, <2>4 DEF LooksRight, Looked
  <2>6. QED
    BY <1>u, <2>2, <2>5, LookerMoves
<1>4. CASE Fail(m)
  BY <1>4, <1>u, LeftKnows DEF Fail, Ended
<1>5. QED
  BY <1>1, <1>2, <1>3, <1>4

(* A handler that writes drafts; no other handler's known drafts change.   *)
LEMMA WriterLooks ==
  ASSUME IInv, RepeatsKnown, NEW m \in Messages, NEW new, Become(m, new), LooksRight(new, Live', draft'),
         \A i \in Live : i \in Live' /\ draft'[i].lines = draft[i].lines
  PROVE  RepeatsKnown'
<1>1. ASSUME NEW n \in Messages PROVE LooksRight(handler'[n], Live', draft')
  <2>1. CASE n = m
    BY <2>1 DEF Become, IInv, HandlersRight
  <2>2. CASE n # m
    <3>1. handler'[n] = handler[n] /\ LooksRight(handler[n], Live, draft)
      BY <2>2 DEF Become, RepeatsKnown, IInv, HandlersRight
    <3>2. QED
      BY <3>1, LooksStay
  <2>3. QED
    BY <2>1, <2>2
<1>2. QED
  BY <1>1 DEF RepeatsKnown

LEMMA AddedStaysLive ==
  ASSUME IInv, NEW row, draft' = Append(draft, row), UNCHANGED aged
  PROVE  \A i \in Live : i \in Live' /\ draft'[i] = draft[i]
<1>1. Len(draft) \in Nat /\ aged \in Nat /\ DOMAIN draft = 1..Len(draft)
  BY LenProperties DEF IInv, DraftsRight
<1>2. Len(draft') = Len(draft) + 1 /\ \A i \in 1..Len(draft) : draft'[i] = draft[i]
  BY <1>1
<1>3. QED
  BY <1>1, <1>2 DEF Live

LEMMA WritersLook ==
  ASSUME PipelineAssumption, IInv, RepeatsKnown, NEW m \in Messages,
         CreateDraft(m) \/ Mark(m) \/ \E e \in Extractions : ConfirmContext(m, e)
  PROVE  RepeatsKnown'
<1> DEFINE h == handler[m]
<1>h. h \in HandlerState /\ LooksRight(h, Live, draft) /\ Len(draft) \in Nat
  BY HandlerIs DEF RepeatsKnown
<1>1. CASE CreateDraft(m)
  <2> DEFINE mid == Enter(m, "marking")
             new == [mid EXCEPT !.own = Len(draft) + 1]
             row == NewDraft(m, "extracted", h.extraction.lines, h.duplicateOf)
  <2>1. Become(m, new) /\ h.pc = "creating" /\ draft' = Append(draft, row) /\ UNCHANGED aged
    BY <1>1 DEF CreateDraft, At
  <2>2. /\ mid \in HandlerState /\ mid.pc = "marking" /\ mid.known = h.known /\ mid.extraction = h.extraction
        /\ mid.duplicateOf = h.duplicateOf /\ mid.searched = h.searched
    BY EnteredKnows, Entered DEF PC
  <2> HIDE DEF mid, row
  <2>3. /\ new.pc = "marking" /\ new.known = h.known /\ new.extraction = h.extraction
        /\ new.duplicateOf = h.duplicateOf /\ new.searched = h.searched
    BY <2>2 DEF HandlerState
  <2> HIDE DEF new
  <2>4. \A i \in Live : i \in Live' /\ draft'[i] = draft[i]
    BY <2>1, AddedStaysLive
  <2>5. LooksRight(new, Live', draft')
    BY <1>h, <2>1, <2>3, <2>4 DEF LooksRight, Looked
  <2>6. QED
    BY <2>1, <2>4, <2>5, WriterLooks
<1>2. ASSUME NEW new, new.known = {}, new.pc = "done" PROVE LooksRight(new, Live', draft')
  BY <1>2 DEF LooksRight, Looked, Ended
<1>3. CASE Mark(m)
  <2> DEFINE new == Leave(m, "done")
  <2>1. new.known = {} /\ new.pc = "done" /\ Become(m, new)
    BY <1>3 DEF Mark, Leave, NewHandler
  <2> HIDE DEF new
  <2>2. LooksRight(new, Live', draft')
    BY <1>2, <2>1
  <2>3. \A i \in Live : i \in Live' /\ draft'[i].lines = draft[i].lines
    <3>1. CASE draft' = draft
      BY <1>3, <3>1 DEF Mark, Live
    <3>2. CASE draft' = [draft EXCEPT ![h.own].auto = TRUE, ![h.own].plausible = h.plausible]
      <4>1. draft \in Seq(DraftRow) /\ aged \in Nat /\ aged' = aged
        BY <1>3 DEF IInv, DraftsRight, Mark
      <4>2. Len(draft') = Len(draft)
        BY <3>2, <4>1
      <4>3. ASSUME NEW i \in 1..Len(draft) PROVE draft'[i].lines = draft[i].lines /\ draft'[i].status = draft[i].status
        <5>1. draft[i] \in DraftRow
          BY <4>1
        <5>2. \/ draft'[i] = draft[i]
              \/ draft'[i] = [[draft[i] EXCEPT !.auto = TRUE] EXCEPT !.plausible = h.plausible]
          <6> DEFINE row == [[draft[h.own] EXCEPT !.auto = TRUE] EXCEPT !.plausible = h.plausible]
          <6>1. draft' = [draft EXCEPT ![h.own] = row]
            BY <3>2
          <6>2. i = h.own => row = [[draft[i] EXCEPT !.auto = TRUE] EXCEPT !.plausible = h.plausible]
            OBVIOUS
          <6> HIDE DEF row
          <6>3. draft'[i] = IF i = h.own THEN row ELSE draft[i]
            BY <4>1, <6>1
          <6>4. QED
            BY <6>2, <6>3
        <5>3. QED
          BY <5>1, <5>2 DEF DraftRow
      <4>4. QED
        BY <1>h, <4>1, <4>2, <4>3 DEF Live
    <3>3. QED
      BY <1>3, <3>1, <3>2 DEF Mark
  <2>4. QED
    BY <2>1, <2>2, <2>3, WriterLooks
<1>4. CASE \E e \in Extractions : ConfirmContext(m, e)
  <2>1. PICK e \in Extractions : ConfirmContext(m, e)
    BY <1>4
  <2> DEFINE new == [NewHandler EXCEPT !.pc = "done", !.own = Len(draft) + 1]
             row == NewDraft(m, "confirmed", e.lines, NoDraft)
  <2>2. Become(m, new) /\ draft' = Append(draft, row) /\ UNCHANGED aged
    BY <2>1 DEF ConfirmContext
  <2>3. new.known = {} /\ new.pc = "done"
    BY DEF NewHandler
  <2> HIDE DEF new, row
  <2>4. LooksRight(new, Live', draft')
    BY <1>2, <2>3
  <2>5. \A i \in Live : i \in Live' /\ draft'[i] = draft[i]
    BY <2>2, AddedStaysLive
  <2>6. QED
    BY <2>2, <2>4, <2>5, WriterLooks
<1>5. QED
  BY <1>1, <1>3, <1>4

(* The owner and the clock: a draft that changes is forgotten.             *)
LEMMA ForgottenLook ==
  ASSUME IInv, RepeatsKnown, NEW i, Forgets(i),
         \A j \in Live \ {i} : j \in Live' /\ draft'[j].lines = draft[j].lines
  PROVE  RepeatsKnown'
<1>1. ASSUME NEW m \in Messages PROVE LooksRight(handler'[m], Live', draft')
  <2>1. handler[m] \in HandlerState /\ LooksRight(handler[m], Live, draft)
    BY HandlerIs DEF RepeatsKnown
  <2>2. handler'[m] = [handler[m] EXCEPT !.known = handler[m].known \ {i}]
    BY DEF Forgets
  <2>3. /\ handler'[m].pc = handler[m].pc /\ handler'[m].own = handler[m].own
        /\ handler'[m].duplicateOf = handler[m].duplicateOf /\ handler'[m].extraction = handler[m].extraction
        /\ handler'[m].known = handler[m].known \ {i} /\ handler'[m].searched = handler[m].searched
    BY <2>1, <2>2 DEF HandlerState
  <2>4. QED
    BY <2>1, <2>3, LooksStay
<1>2. QED
  BY <1>1 DEF RepeatsKnown

LEMMA ChangedStaysLive ==
  ASSUME IInv, NEW i \in 1..Len(draft), NEW row, draft' = [draft EXCEPT ![i] = row], UNCHANGED aged
  PROVE  /\ \A j \in Live \ {i} : j \in Live' /\ draft'[j].lines = draft[j].lines
         /\ Len(draft') = Len(draft) /\ Len(draft) \in Nat /\ draft'[i] = row
<1>1. draft \in Seq(DraftRow) /\ aged \in Nat /\ Len(draft) \in Nat
  BY LenProperties DEF IInv, DraftsRight
<1>2. Len(draft') = Len(draft) /\ \A j \in 1..Len(draft) : draft'[j] = IF j = i THEN row ELSE draft[j]
  BY <1>1
<1>3. QED
  BY <1>1, <1>2 DEF Live

LEMMA OwnerLooks ==
  ASSUME PipelineAssumption, IInv, RepeatsKnown, Owner
  PROVE  RepeatsKnown'
<1>1. ASSUME NEW i \in 1..Len(draft), Approve(i) PROVE RepeatsKnown'
  <2> DEFINE row == [[draft[i] EXCEPT !.status = "APPROVED"] EXCEPT !.ordered = TRUE]
  <2>1. draft' = [draft EXCEPT ![i] = row] /\ UNCHANGED <<handler, aged>>
    BY <1>1 DEF Approve
  <2>2. row.lines = draft[i].lines /\ row.status = "APPROVED"
    <3>1. draft[i] \in DraftRow
      BY LenProperties DEF IInv, DraftsRight
    <3>2. QED
      BY <3>1 DEF DraftRow
  <2> HIDE DEF row
  <2>3. /\ \A j \in Live \ {i} : j \in Live' /\ draft'[j].lines = draft[j].lines
        /\ Len(draft') = Len(draft) /\ Len(draft) \in Nat /\ draft'[i] = row
    BY <2>1, ChangedStaysLive
  <2>4. \A j \in Live : j \in Live' /\ draft'[j].lines = draft[j].lines
    BY <2>1, <2>2, <2>3 DEF Live, LiveStatuses
  <2>5. QED
    BY <2>1, <2>4, LooksStay DEF RepeatsKnown
<1>2. ASSUME NEW i \in 1..Len(draft), Reject(i) \/ \E e \in Extractions : Correct(i, e) PROVE RepeatsKnown'
  <2>1. PICK row : draft' = [draft EXCEPT ![i] = row]
    BY <1>2 DEF Reject, Correct
  <2>2. Forgets(i) /\ UNCHANGED aged
    BY <1>2 DEF Reject, Correct
  <2>3. \A j \in Live \ {i} : j \in Live' /\ draft'[j].lines = draft[j].lines
    BY <2>1, <2>2, ChangedStaysLive
  <2>4. QED
    BY <2>2, <2>3, ForgottenLook
<1>3. ASSUME UNCHANGED <<handler, draft, aged>> PROVE RepeatsKnown'
  BY <1>3 DEF RepeatsKnown, Live
<1>4. QED
  BY <1>1, <1>2, <1>3 DEF Owner, ChangeSettings, ChangeCatalogue

LEMMA AgeLooks ==
  ASSUME IInv, RepeatsKnown, Age
  PROVE  RepeatsKnown'
<1>1. aged \in Nat /\ aged' = aged + 1 /\ Forgets(aged + 1) /\ draft' = draft /\ Len(draft) \in Nat
  BY LenProperties DEF IInv, DraftsRight, Age
<1>2. \A j \in Live \ {aged + 1} : j \in Live' /\ draft'[j].lines = draft[j].lines
  BY <1>1 DEF Live
<1>3. QED
  BY <1>1, <1>2, ForgottenLook

LEMMA RepeatsStep ==
  ASSUME PipelineAssumption, IInv, RepeatsKnown, [Next]_vars
  PROVE  RepeatsKnown'
<1>1. CASE \E m \in Messages : Pipe(m) \/ \E e \in Extractions : ConfirmContext(m, e)
  BY <1>1, ReadersLook, DecidersLook, WritersLook DEF Pipe
<1>2. CASE Owner
  BY <1>2, OwnerLooks
<1>3. CASE Age
  BY <1>3, AgeLooks
<1>4. CASE UNCHANGED vars
  BY <1>4 DEF vars, RepeatsKnown, Live
<1>5. QED
  BY <1>1, <1>2, <1>3, <1>4 DEF Next

-----------------------------------------------------------------------------
(* The tables and the handlers hold what they can: no provider is asked    *)
(* more often than its attempts allow, and a draft that repeats another    *)
(* points at an earlier one (AiEngineService, DuplicateDetectorService).   *)
THEOREM TypeCorrect == Spec => []TypeOK
<1>1. PipelineAssumption /\ IInv => TypeOK
  <2> SUFFICES ASSUME PipelineAssumption, IInv PROVE TypeOK
    OBVIOUS
  <2>1. Len(draft) \in Nat
    BY LenProperties DEF IInv, DraftsRight
  <2>2. ASSUME NEW m \in Messages
        PROVE  /\ handler[m].pc \in PC
               /\ handler[m].attempts \in 0..MaxAttempts - 1
               /\ handler[m].intent \in Confidences \cup {0, 95}
               /\ handler[m].extraction \in Extraction
               /\ handler[m].demand \in Reason
               /\ handler[m].routing \in Routing
               /\ handler[m].own \in 0..Len(draft)
               /\ handler[m].duplicateOf \in 0..Len(draft)
    BY <2>1, HandlerIs DEF HandlerState
  <2>3. ASSUME NEW i \in 1..Len(draft)
        PROVE  /\ draft[i].status \in Status
               /\ draft[i].lines \in Seq(Line)
               /\ draft[i].duplicateOf \in 0..i - 1
    <3>1. draft[i] \in DraftRow
      BY LenProperties DEF IInv, DraftsRight
    <3>2. QED
      BY <2>1, <3>1 DEF DraftRow, IInv, DraftsRight
  <2>4. QED
    BY <2>2, <2>3 DEF IInv, OutsideTyped, DraftsRight, TypeOK
<1>2. QED
  BY <1>1, Inductive, PipelineAssumption, PTL

(* A customer's first order is never approved by the machine, whatever     *)
(* threshold the tenant sets, on confidences that are between 0 and 1:     *)
(* nothing in the code sees to that, and beyond 1 the weights of           *)
(* ConfidenceScorer do not hold an order back.                             *)
THEOREM FirstReviewed == Spec => []FirstOrderIsReviewed
<1>1. IInv => FirstOrderIsReviewed
  BY DEF IInv, DraftsRight, FirstOrderIsReviewed
<1>2. QED
  BY <1>1, Inductive, PTL

(* A message that repeats a draft its customer already had when it came,   *)
(* live and recent ever since and one of the MaxCandidates newest of these *)
(* at the look-up, is flagged if the look-up is enabled and succeeds,      *)
(* however its lines are ordered and whether or not it names the quantity  *)
(* one (findRecentDuplicate and what createDraftOrder stores).  What makes *)
(* it inductive: what a handler knew at its start and has not been told of *)
(* since is still live when it looks, and orders that say the same have    *)
(* the same signature.                                                     *)
THEOREM RepeatsFlagged == Spec => []RepeatsAreFlagged
<1>1. Init => RepeatsKnown
  BY DEF Init, RepeatsKnown, LooksRight, Looked, NewHandler, NoDraft
<1>2. PipelineAssumption /\ IInv /\ RepeatsKnown /\ [Next]_vars => RepeatsKnown'
  BY RepeatsStep
<1>3. RepeatsKnown => RepeatsAreFlagged
  BY DEF RepeatsKnown, LooksRight, Looked, RepeatsAreFlagged
<1>4. QED
  BY <1>1, <1>2, <1>3, Inductive, PipelineAssumption, PTL DEF Spec
=============================================================================
