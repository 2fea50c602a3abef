------------------------------ MODULE Pipeline ------------------------------
(***************************************************************************)
(* The AI pipeline over the messages of one customer of a tenant: intent,  *)
(* query, retrieval, extraction, score, draft (AiEngineService).           *)
(*                                                                         *)
(* Nothing orders the messages: the webhook handler of each runs its own   *)
(* pipeline, and every stage awaits a provider or the database, where the  *)
(* other messages, the owner and the clock move on.  A provider answers    *)
(* what it likes.  What a message says is abstracted to what is extracted  *)
(* from it; confidences are hundredths and the composite ten-thousandths,  *)
(* computed exactly where the code uses floating point.                    *)
(***************************************************************************)
EXTENDS Integers, FiniteSets, Sequences, Functions

CONSTANTS
  Messages,    (* the customer's messages                                    *)
  Products,    (* the tenant's products                                      *)
  Queries,     (* product_query texts, in normal form                        *)
  Extractions, (* what the extraction model may answer                       *)
  Confidences, (* the confidence an intent may be given                      *)
  Thresholds,  (* the tenant's autoApproveThreshold, in hundredths           *)
  Providers,   (* the text providers a deployment may be configured with     *)
  MaxAttempts, (* GROQ_MAX_ATTEMPTS, GEMINI_MAX_ATTEMPTS                     *)
  MaxCandidates, (* how many drafts a look-up for duplicates takes: 10       *)
  MaxEdits,    (* bound on the owner's changes                               *)
  NoProduct,   (* matched_product_id null                                    *)
  Invented,    (* an id that is no row of products                           *)
  NoQuery,     (* a blank product_query                                      *)
  NoQuantity   (* quantity null                                              *)

VARIABLES
  provider, (* the text provider and its key                                 *)
  settings, (* the tenant's autoApproveEnabled and autoApproveThreshold      *)
  listed,   (* products active and not deleted                               *)
  past,     (* the customer had orders before these messages                 *)
  handler,  (* message -> its processMessage                                 *)
  draft,    (* the customer's AIDraftOrders in the order of createdAt        *)
  aged,     (* how many of them are older than DUPLICATE_WINDOW_MINUTES      *)
  edits     (* the owner's changes so far                                    *)

vars == <<provider, settings, listed, past, handler, draft, aged, edits>>
outside == <<provider, settings, listed, past, edits>>

NoDraft == 0

(* What a model answers is taken as it is: a confidence may be beyond 1, a *)
(* quantity below 1.  match is the average of the lines.                   *)
Line == [product : Products \cup {NoProduct, Invented}, query : Queries \cup {NoQuery},
         quantity : Int \cup {NoQuantity}]
Extraction == [lines : Seq(Line), missing : 0..2, match : Int]

(* emptyExtraction: missing_fields is product and quantity *)
EmptyExtraction == [lines |-> <<>>, missing |-> 2, match |-> 0]

ASSUME PipelineAssumption ==
  /\ MaxAttempts \in Nat \ {0}
  /\ MaxCandidates \in Nat /\ MaxEdits \in Nat
  /\ Extractions \subseteq Extraction
  /\ Confidences \subseteq Int
  /\ Thresholds \subseteq 0..100
  /\ Providers \subseteq [name : {"groq", "gemini"}, key : {"none", "invalid", "valid"}]
  /\ NoProduct \notin Products /\ Invented \notin Products /\ NoProduct # Invented
  /\ NoQuantity \notin Int

Asking == {"detecting", "normalizing", "extracting"}
Ended == {"done", "failed"}
PC == {"idle", "retrieving", "recording", "scoring", "checking", "creating", "marking"}
        \cup Asking \cup Ended
Routing == {"none", "gather_more_info", "human_review", "auto_approve"}
Reason == {"none", "NO_CATALOG_MATCH", "EMPTY_CATALOG"}
NewHandler ==
  [pc |-> "idle", attempts |-> 0, enabled |-> FALSE, threshold |-> 100, intent |-> 0,
   found |-> {}, extraction |-> EmptyExtraction, demand |-> "none", routing |-> "none",
   duplicateOf |-> NoDraft, own |-> NoDraft, plausible |-> TRUE, known |-> {}, searched |-> FALSE]

Init ==
  /\ provider \in Providers
  /\ settings \in [enabled : BOOLEAN, threshold : Thresholds]
  /\ listed \in SUBSET Products
  /\ past \in BOOLEAN
  /\ handler = [m \in Messages |-> NewHandler]
  /\ draft = <<>>
  /\ aged = 0
  /\ edits = 0

-----------------------------------------------------------------------------
(* The text providers.  Without a key, and when Gemini rejects it, the     *)
(* answers are canned; with any key a request can time out or be limited.  *)
Mocked == provider.key = "none" \/ provider = [name |-> "gemini", key |-> "invalid"]
MayAnswer == Mocked \/ provider.key = "valid"
MayFail == provider.key # "none"

(* The mock takes a product of the catalogue in the prompt, if there is one. *)
Canned(found, quantity) ==
  LET none == found = {}
      unread == IF quantity = NoQuantity THEN 1 ELSE 0
  IN {[lines |-> <<[product |-> p, query |-> q, quantity |-> quantity]>>,
       missing |-> IF none THEN 1 + unread ELSE unread,
       match |-> IF none THEN 0 ELSE 95] :
         p \in IF none THEN {NoProduct} ELSE found, q \in Queries}

Intents == IF Mocked THEN {95} ELSE Confidences
Readings(m) ==
  IF Mocked THEN UNION {Canned(handler[m].found, n) : n \in {NoQuantity, 1, 2}} ELSE Extractions

-----------------------------------------------------------------------------
(* Drafts as the duplicate detector sees them. *)
LiveStatuses == {"PENDING", "REVIEWED", "APPROVED"}
Live == {i \in aged + 1..Len(draft) : draft[i].status \in LiveStatuses}

Quantity(line) == IF line.quantity = NoQuantity THEN 1 ELSE line.quantity
Key(line) == IF line.product # NoProduct THEN line.product ELSE line.query
Identified(line) == line.product # NoProduct \/ line.query # NoQuery

(* RepeatsAreFlagged: a missing quantity does not count as the one that is stored. *)
SignatureOfNull(lines) ==
  LET part(l) == <<Key(l), l.quantity>>
      parts == {part(lines[i]) : i \in {j \in DOMAIN lines : Identified(lines[j])}}
  IN [p \in parts |-> Cardinality({i \in DOMAIN lines : part(lines[i]) = p})]

(* Each part with how many lines have it: the order of lines is no matter. *)
Signature(lines) ==
  LET part(l) == <<Key(l), Quantity(l)>>
      parts == {part(lines[i]) : i \in {j \in DOMAIN lines : Identified(lines[j])}}
  IN [p \in parts |-> Cardinality({i \in DOMAIN lines : part(lines[i]) = p})]

Candidates == {i \in Live : Cardinality({j \in Live : j > i}) < MaxCandidates}
Repeats(lines) ==
  {i \in Candidates : DOMAIN Signature(lines) # {} /\ Signature(draft[i].lines) = Signature(lines)}

HasOrders == past \/ \E i \in 1..Len(draft) : draft[i].ordered

-----------------------------------------------------------------------------
(* The stages of processMessage.  A stage that ends writes its             *)
(* AIProcessingLog row; if the database fails there, processMessage throws. *)
At(m, pc) == handler[m].pc = pc
Become(m, new) == handler' = [handler EXCEPT ![m] = new]
Enter(m, pc) == [handler[m] EXCEPT !.pc = pc, !.attempts = 0]

(* What the rest of processMessage has no use for is forgotten. *)
Leave(m, pc) == [NewHandler EXCEPT !.pc = pc, !.own = handler[m].own, !.demand = handler[m].demand]

Start(m) ==
  /\ At(m, "idle")
  /\ Become(m, [NewHandler EXCEPT !.pc = "detecting", !.enabled = settings.enabled,
                                  !.threshold = settings.threshold, !.known = Live])
  /\ UNCHANGED <<outside, draft, aged>>

Retried(h) == [h EXCEPT !.attempts = @ + 1]

(* TypeOK: the last attempt is retried as well. *)
LeftAfterLast(h) == h.attempts < MaxAttempts

AttemptsLeft(h) == h.attempts + 1 < MaxAttempts

(* A transient failure with attempts left waits and asks again. *)
Retry(m) ==
  /\ handler[m].pc \in Asking
  /\ MayFail
  /\ AttemptsLeft(handler[m])
  /\ Become(m, Retried(handler[m]))
  /\ UNCHANGED <<outside, draft, aged>>

DetectOrder(m, confidence) ==
  /\ At(m, "detecting") /\ MayAnswer
  /\ Become(m, [Enter(m, "normalizing") EXCEPT !.intent = confidence])
  /\ UNCHANGED <<outside, draft, aged>>

(* Another intent, a failure, or an answer that is no JSON. *)
DetectOther(m) ==
  /\ At(m, "detecting")
  /\ Become(m, Leave(m, "done"))
  /\ UNCHANGED <<outside, draft, aged>>

(* A failed or unusable phrase leaves the search on the message itself. *)
Normalize(m) ==
  /\ At(m, "normalizing")
  /\ Become(m, Enter(m, "retrieving"))
  /\ UNCHANGED <<outside, draft, aged>>

Retrieve(m, found) ==
  /\ At(m, "retrieving") /\ found \subseteq listed
  /\ Become(m, [Enter(m, "extracting") EXCEPT !.found = found])
  /\ UNCHANGED <<outside, draft, aged>>

Unmatched(lines) ==
  {i \in DOMAIN lines : lines[i].product = NoProduct /\ lines[i].query # NoQuery}

Extracted(m, reading) ==
  LET next == IF Unmatched(reading.lines) = {} THEN "scoring" ELSE "recording"
  IN Become(m, [Enter(m, next) EXCEPT
                  !.extraction = reading,
                  !.found = IF next = "recording" THEN @ ELSE {}])

Extract(m, reading) ==
  /\ At(m, "extracting") /\ MayAnswer
  /\ Extracted(m, reading)
  /\ UNCHANGED <<outside, draft, aged>>

ExtractFails(m) ==
  /\ At(m, "extracting") /\ MayFail
  /\ Extracted(m, EmptyExtraction)
  /\ UNCHANGED <<outside, draft, aged>>

(* record never throws: a demand that cannot be written is lost. *)
RecordDemand(m, lost) ==
  /\ At(m, "recording")
  /\ LET empty == handler[m].found = {} /\ listed = {}
     IN Become(m, [Enter(m, "scoring") EXCEPT
                     !.found = {},
                     !.demand = IF lost THEN "none"
                                ELSE IF empty THEN "EMPTY_CATALOG" ELSE "NO_CATALOG_MATCH"])
  /\ UNCHANGED <<outside, draft, aged>>

-----------------------------------------------------------------------------
(* The score and the route. *)
AutoApproveFloor == 9500
HumanReviewFloor == 8000

Lower(a, b) == IF a < b THEN a ELSE b
Completeness(missing) == IF missing = 0 THEN 100 ELSE IF missing = 1 THEN 50 ELSE 0
Composite(intent, e, history) ==
  Lower(10000, intent * 25 + e.match * 40 + Completeness(e.missing) * 25
                 + IF history THEN 1000 ELSE 0)

(* FirstOrderIsReviewed: the tenant's threshold may loosen the rule. *)
TenantThreshold(threshold) == threshold * 100

EffectiveThreshold(threshold) ==
  IF threshold * 100 > AutoApproveFloor THEN threshold * 100 ELSE AutoApproveFloor

Route(h, composite) ==
  IF h.extraction.missing > 0 \/ composite < HumanReviewFloor THEN "gather_more_info"
  ELSE IF h.enabled /\ composite >= EffectiveThreshold(h.threshold) THEN "auto_approve"
  ELSE "human_review"

(* For the history: what the model claims to be a confidence is one.       *)
Plausible(h) == h.intent \in 0..100 /\ h.extraction.match \in 0..100

Score(m) ==
  /\ At(m, "scoring")
  /\ LET h == handler[m]
         routing == Route(h, Composite(h.intent, h.extraction, HasOrders))
         next == IF routing = "gather_more_info" THEN "marking" ELSE "checking"
     IN Become(m, [Enter(m, next) EXCEPT !.routing = routing, !.plausible = Plausible(h),
                                         !.intent = 0, !.enabled = FALSE, !.threshold = 100])
  /\ UNCHANGED <<outside, draft, aged>>

(* The newest live draft that says the same, of those the look-up takes;   *)
(* for the history, which of the known drafts are among these.             *)
CheckDuplicate(m) ==
  /\ At(m, "checking")
  /\ LET same == Repeats(handler[m].extraction.lines)
         newest == IF same = {} THEN NoDraft ELSE CHOOSE i \in same : \A j \in same : i >= j
     IN Become(m, [Enter(m, "creating") EXCEPT !.duplicateOf = newest, !.searched = TRUE,
                                               !.known = @ \cap Candidates])
  /\ UNCHANGED <<outside, draft, aged>>

(* findRecentDuplicate never throws: what it cannot read, or is configured *)
(* not to look for, is no duplicate.                                       *)
CheckFails(m) ==
  /\ At(m, "checking")
  /\ Become(m, [Enter(m, "creating") EXCEPT !.searched = FALSE])
  /\ UNCHANGED <<outside, draft, aged>>

Stored(lines) == [i \in DOMAIN lines |-> [lines[i] EXCEPT !.quantity = Quantity(lines[i])]]
NewDraft(m, kind, lines, duplicateOf) ==
  [message |-> m, kind |-> kind, lines |-> Stored(lines), duplicateOf |-> duplicateOf,
   status |-> "PENDING", auto |-> FALSE, plausible |-> TRUE, ordered |-> FALSE]

(* The foreign key of an item refuses an id that is no product's. *)
Insertable(lines) == \A i \in DOMAIN lines : lines[i].product # Invented

CreateDraft(m) ==
  LET h == handler[m] IN
  /\ At(m, "creating")
  /\ Insertable(h.extraction.lines)
  /\ draft' = Append(draft, NewDraft(m, "extracted", h.extraction.lines, h.duplicateOf))
  /\ Become(m, [Enter(m, "marking") EXCEPT !.own = Len(draft) + 1])
  /\ UNCHANGED <<outside, aged>>

(* aiProcessed is written, then the event goes out. *)
Mark(m) ==
  LET h == handler[m] IN
  /\ At(m, "marking")
  /\ Become(m, Leave(m, "done"))
  /\ draft' = IF h.own # NoDraft /\ h.routing = "auto_approve"
                THEN [draft EXCEPT ![h.own].auto = TRUE, ![h.own].plausible = h.plausible]
                ELSE draft
  /\ UNCHANGED <<outside, aged>>

Fail(m) ==
  /\ handler[m].pc \notin Ended \cup {"idle"}
  /\ Become(m, Leave(m, "failed"))
  /\ UNCHANGED <<outside, draft, aged>>

(* createDraftFromContext: the order of a conversation, confirmed.  It is  *)
(* not compared with the customer's other drafts.                          *)
ConfirmContext(m, reading) ==
  /\ At(m, "idle")
  /\ Insertable(reading.lines)
  /\ draft' = Append(draft, NewDraft(m, "confirmed", reading.lines, NoDraft))
  /\ Become(m, [NewHandler EXCEPT !.pc = "done", !.own = Len(draft) + 1])
  /\ UNCHANGED <<outside, aged>>

-----------------------------------------------------------------------------
(* The owner and the clock.  A review checks the draft's status before it  *)
(* writes, and another review may come between (module OrderLifecycle): a  *)
(* draft is at most once ordered, and may be written to after that.        *)
Forgets(i) == handler' = [m \in Messages |-> [handler[m] EXCEPT !.known = @ \ {i}]]

Approve(i) ==
  /\ ~draft[i].ordered
  /\ draft' = [draft EXCEPT ![i].status = "APPROVED", ![i].ordered = TRUE]
  /\ UNCHANGED <<outside, handler, aged>>

Reject(i) ==
  /\ draft[i].status # "REJECTED"
  /\ draft' = [draft EXCEPT ![i].status = "REJECTED"]
  /\ Forgets(i)
  /\ UNCHANGED <<outside, aged>>

Edit == edits < MaxEdits /\ edits' = edits + 1

Correct(i, reading) ==
  /\ Edit
  /\ Insertable(reading.lines)
  /\ draft' = [draft EXCEPT ![i].status = "REVIEWED", ![i].lines = Stored(reading.lines)]
  /\ Forgets(i)
  /\ UNCHANGED <<provider, settings, listed, past, aged>>

ChangeSettings(new) ==
  /\ Edit
  /\ settings' = new
  /\ UNCHANGED <<provider, listed, past, handler, draft, aged>>

ChangeCatalogue(p) ==
  /\ Edit
  /\ listed' = IF p \in listed THEN listed \ {p} ELSE listed \cup {p}
  /\ UNCHANGED <<provider, settings, past, handler, draft, aged>>

(* The window of the oldest draft passes. *)
Age ==
  /\ aged < Len(draft)
  /\ aged' = aged + 1
  /\ Forgets(aged + 1)
  /\ UNCHANGED <<outside, draft>>

-----------------------------------------------------------------------------
Pipe(m) ==
  \/ Start(m) \/ Retry(m)
  \/ \E c \in Intents : DetectOrder(m, c)
  \/ DetectOther(m)
  \/ Normalize(m)
  \/ \E found \in SUBSET Products : Retrieve(m, found)
  \/ \E reading \in Readings(m) : Extract(m, reading)
  \/ ExtractFails(m)
  \/ \E lost \in BOOLEAN : RecordDemand(m, lost)
  \/ Score(m) \/ CheckDuplicate(m) \/ CheckFails(m) \/ CreateDraft(m) \/ Mark(m)
  \/ Fail(m)

Owner ==
  \/ \E i \in 1..Len(draft) : Approve(i) \/ Reject(i) \/ \E e \in Extractions : Correct(i, e)
  \/ \E new \in [enabled : BOOLEAN, threshold : Thresholds] : ChangeSettings(new)
  \/ \E p \in Products : ChangeCatalogue(p)

Next ==
  \/ \E m \in Messages : Pipe(m) \/ \E e \in Extractions : ConfirmContext(m, e)
  \/ Owner
  \/ Age

Spec == Init /\ [][Next]_vars

-----------------------------------------------------------------------------
Status == {"PENDING", "REVIEWED", "APPROVED", "REJECTED"}

(* The variables hold what the tables and the handlers can. *)
TypeOK ==
  /\ provider \in Providers
  /\ settings \in [enabled : BOOLEAN, threshold : Thresholds]
  /\ listed \subseteq Products
  /\ past \in BOOLEAN
  /\ \A m \in Messages :
       /\ handler[m].pc \in PC
       /\ handler[m].attempts \in 0..MaxAttempts - 1
       /\ handler[m].intent \in Confidences \cup {0, 95}
       /\ handler[m].extraction \in Extraction
       /\ handler[m].demand \in Reason
       /\ handler[m].routing \in Routing
       /\ handler[m].own \in 0..Len(draft)
       /\ handler[m].duplicateOf \in 0..Len(draft)
  /\ \A i \in 1..Len(draft) :
       /\ draft[i].status \in Status
       /\ draft[i].lines \in Seq(Line)
       /\ draft[i].duplicateOf \in 0..i - 1
  /\ aged \in 0..Len(draft)

(* The two lists of lines order the same, in whatever order.               *)
SameOrder(a, b) ==
  /\ \E i \in DOMAIN a : Identified(a[i])
  /\ \E f \in Bijection(DOMAIN a, DOMAIN b) : \A i \in DOMAIN a : Stored(a)[i] = Stored(b)[f[i]]

(* A message that repeats a draft the customer already had when it came,   *)
(* that has been live and recent ever since, and that was one of the       *)
(* MaxCandidates newest of these at the look-up, is flagged: its draft     *)
(* points at an earlier one.  The look-up must be enabled and succeed, and *)
(* two messages under way at once may escape, each looking before the      *)
(* other has written.  findRecentDuplicate, and the quantity it supposes   *)
(* where createDraftOrder stores one.                                      *)
RepeatsAreFlagged ==
  \A m \in Messages :
    LET h == handler[m] IN
    h.pc = "marking" /\ h.own # NoDraft /\ h.searched /\ h.duplicateOf = NoDraft =>
      \A i \in h.known : ~SameOrder(draft[i].lines, h.extraction.lines)

(* A customer's first order is never approved by the machine, whatever the *)
(* tenant's threshold and the owner's timing, as long as the confidences   *)
(* the model claims are between 0 and 1, which nothing checks: the weights *)
(* leave 0.90 to a customer without orders (ConfidenceScorer).             *)
FirstOrderIsReviewed ==
  \A i \in 1..Len(draft) : draft[i].auto /\ draft[i].plausible => HasOrders

(* The same of whatever the model claims: a confidence beyond 1 makes up   *)
(* for the missing history.  A configuration of its own refutes it.        *)
EveryFirstOrderIsReviewed == \A i \in 1..Len(draft) : draft[i].auto => HasOrders

(* Business rule 18: potential duplicates require owner review. *)
DuplicatesWaitForOwner == \A i \in 1..Len(draft) : draft[i].auto => draft[i].duplicateOf = NoDraft
=============================================================================
