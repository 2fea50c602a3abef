---------------------------- MODULE Conversation ----------------------------
(***************************************************************************)
(* The conversation with one WhatsApp number of one tenant: from the       *)
(* webhook that delivers a message to the reply, with the Redis session,   *)
(* the conversations table and the job that looks for abandoned            *)
(* conversations.                                                          *)
(*                                                                         *)
(* A handler is one run of WhatsAppService.processIncomingText.  A step    *)
(* runs from one await to the next and performs one access to Redis, to    *)
(* the database or to the messenger, so handlers interleave at every       *)
(* await.  The session is read whole, changed in memory and written back   *)
(* whole (ConversationStateService), with no lock: held is the copy that a *)
(* handler has read and not yet written.                                   *)
(*                                                                         *)
(* A conversation's id is made by the handler that starts it (uuidv4), so  *)
(* a conversation is identified with that handler; likewise a message with *)
(* the first handler it was delivered to.  What a session has gathered     *)
(* (partialOrderData) is the set of handlers whose extraction was merged   *)
(* into it.                                                                *)
(***************************************************************************)
EXTENDS Integers, FiniteSets

CONSTANTS
  Handlers,          (* deliveries; also the ids of messages and conversations *)
  Results,           (* what the AI pipeline may make of a message            *)
  MaxClarifications, (* HANDOFF_MAX_CLARIFICATIONS                            *)
  MaxLive,           (* bound on deliveries in progress at once               *)
  MaxFaults,         (* bound on failed accesses, lost sessions and restarts  *)
  NoConversation,    (* the conversation of no session                        *)
  NoMessage,         (* the message of a handler not yet called               *)
  NoResult           (* the result of a handler that ran no pipeline          *)

Stage   == {"ACTIVE", "GATHERING_INFO", "CONFIRMING", "PENDING_ORDER", "CLOSED", "ABANDONED"}
Missing == {"none", "optional", "required"}

(* An intent with, for an order, the missing fields, the composite         *)
(* confidence in percent and whether close alternatives were found.        *)
Result == [order : BOOLEAN, missing : Missing, confidence : 0..100, alternatives : BOOLEAN]

ASSUME ConversationAssumption ==
  /\ IsFiniteSet(Handlers)
  /\ Results \subseteq Result
  /\ NoResult \notin Results
  /\ NoConversation \notin Handlers
  /\ NoMessage \notin Handlers
  /\ MaxClarifications \in Nat \ {0}
  /\ MaxLive \in Nat \ {0}
  /\ MaxFaults \in Nat

VARIABLES
  known,     (* the customer's row exists                                     *)
  rows,      (* conversations, by id                                          *)
  session,   (* the Redis key conv:tenant:phone                               *)
  stored,    (* whatsapp_messages: the handler that stored each message       *)
  handler,   (* where each delivery is and what it has read                   *)
  drafts,    (* ai_draft_orders, by the handler that created them             *)
  notified,  (* handlers that emitted conversation.handoff_requested          *)
  job,       (* the check-abandoned job of each conversation                  *)
  faults     (* failed accesses, lost sessions and restarts so far: a bound   *)

vars == <<known, rows, session, stored, handler, drafts, notified, job, faults>>

Session == [conversation : Handlers \cup {NoConversation}, stage : Stage,
            items : SUBSET Handlers, attempts : Nat, handedOff : BOOLEAN]
NewSession(c) == [conversation |-> c, stage |-> "ACTIVE", items |-> {}, attempts |-> 0,
                  handedOff |-> FALSE]
NoSession == NewSession(NoConversation)

RowStatus == {"NONE", "ACTIVE", "COMPLETED", "ABANDONED"}
ConversationRow == [status : RowStatus, stage : Stage]

HandlerState ==
  {"idle", "received", "new", "unknown", "customer", "sessionless", "starting", "hydrating", "entered",
   "stored", "appending", "confirming", "transition", "transitionRow", "drafting", "acknowledging",
   "pipeline", "extracted", "updating", "updateRow", "deciding", "asking", "escalating",
   "handingOff", "apologising", "replying", "noting", "registering", "counting", "scheduling",
   "deleting", "completing", "cancelling", "done"}
Reply == {"none", "acknowledgement", "cancelled", "fallback", "alternatives", "handoff",
          "question", "prompt"}
Handler == [pc : HandlerState, message : Handlers \cup {NoMessage}, entry : Session,
            held : Session, next : Stage, result : Results \cup {NoResult}, sent : Reply]
NewHandler == [pc |-> "idle", message |-> NoMessage, entry |-> NoSession, held |-> NoSession,
               next |-> "ACTIVE", result |-> NoResult, sent |-> "none"]

DraftKind == {"none", "extracted", "confirmed"}
Draft == [kind : DraftKind, items : SUBSET Handlers]
JobState == {"none", "scheduled", "deleting", "closing", "sending", "done"}

Init ==
  /\ known     = FALSE
  /\ rows      = [c \in Handlers |-> [status |-> "NONE", stage |-> "ACTIVE"]]
  /\ session   = NoSession
  /\ stored    = [m \in Handlers |-> {}]
  /\ handler   = [h \in Handlers |-> NewHandler]
  /\ drafts    = [h \in Handlers |-> [kind |-> "none", items |-> {}]]
  /\ notified  = {}
  /\ job       = [c \in Handlers |-> "none"]
  /\ faults    = 0

-----------------------------------------------------------------------------
(* Helpers *)

Live == {h \in Handlers : handler[h].pc \notin {"idle", "done"}}

RowsWith(status) == {c \in Handlers : rows[c].status = status}

At(h, pc) == handler[h].pc = pc

(* Moves handler h to state pc. *)
Goto(h, pc) == handler' = [handler EXCEPT ![h].pc = pc]

(* The handler returns, or throws into the webhook's catch: its locals go. *)
Finished(old) == [old EXCEPT !.pc = "done", !.entry = NoSession, !.held = NoSession,
                             !.next = "ACTIVE"]
Return(h) == handler' = [handler EXCEPT ![h] = Finished(@)]

(* One getSession of handler h, which keeps the copy. *)
Hold(h, pc) == handler' = [handler EXCEPT ![h] = [@ EXCEPT !.pc = pc, !.held = session]]

(* One saveSession; a caller that read no session writes none. *)
Save(h, new) == session' = IF handler[h].held = NoSession THEN session ELSE new

-----------------------------------------------------------------------------
(* Plausible faults: each is one of the definitions below as a bug would   *)
(* have it, and the property named breaks with it.                         *)

(* TypeOK: the status is written to the stage column as well. *)
CloseWritesStatus(status, stage) ==
  [c \in Handlers |-> IF rows[c].status = "ACTIVE" THEN [status |-> status, stage |-> status] ELSE rows[c]]

(* OneDraftPerMessage: externalMessageId without its unique index. *)
StoreAgain(h) ==
  LET m == handler[h].message IN
  /\ At(h, "entered")
  /\ Goto(h, "stored") /\ stored' = [stored EXCEPT ![m] = @ \cup {h}]
  /\ UNCHANGED <<known, rows, session, drafts, notified, job, faults>>

(* ConfirmationTakesTwoTurns: a clear first message is put to the customer *)
(* for confirmation at once.                                               *)
NextStageAtOnce(stage, result) ==
  IF result.missing = "required"
  THEN "GATHERING_INFO"
  ELSE IF result.confidence > 80 THEN "CONFIRMING" ELSE stage

(* QuestionsBeforeHandoff: the limit is reached one question early. *)
EscalatesEarly == session.handedOff \/ session.attempts + 1 >= MaxClarifications

(* RepliesMatchDrafts: the routing looks at the confidence alone. *)
DraftedByScore(result) == result.order /\ result.confidence >= 80

(* ClosedConversationsStay: updateMany without the status. *)
SetStageOfAll(stage) ==
  [c \in Handlers |-> IF rows[c].status # "NONE" THEN [rows[c] EXCEPT !.stage = stage] ELSE rows[c]]

(* ConfirmedOnce: the draft is made before the session leaves CONFIRMING. *)
YesDraftsFirst(h) ==
  /\ At(h, "confirming")
  /\ Goto(h, "drafting")
  /\ UNCHANGED <<known, rows, session, stored, drafts, notified, job, faults>>

(* StaysEscalated: the session is rebuilt without handedOffAt. *)
UpdateRebuilds(h) ==
  LET held == handler[h].held
      next == NextStageAtOnce(held.stage, handler[h].result)
  IN
  /\ At(h, "updating")
  /\ session' = [NewSession(held.conversation) EXCEPT !.stage = next, !.items = held.items \cup {h},
                                                     !.attempts = held.attempts]
  /\ handler' = [handler EXCEPT ![h] = [@ EXCEPT !.pc = "updateRow", !.next = next]]
  /\ UNCHANGED <<known, rows, stored, drafts, notified, job, faults>>

-----------------------------------------------------------------------------
(* The database's and the services' rules *)

(* updateMany where { tenantId, phone, status: ACTIVE }: the new rows. *)
SetStage(stage) ==
  [c \in Handlers |-> IF rows[c].status = "ACTIVE" THEN [rows[c] EXCEPT !.stage = stage] ELSE rows[c]]
CloseAs(status, stage) ==
  [c \in Handlers |-> IF rows[c].status = "ACTIVE" THEN [status |-> status, stage |-> stage] ELSE rows[c]]

(* @@unique([tenantId, phone, status]): closing an ACTIVE conversation      *)
(* fails when the number has one closed that way already.                  *)
CloseClashes(status) == RowsWith("ACTIVE") # {} /\ RowsWith(status) # {}

(* ConfidenceScorer's routing is not gather_more_info. *)
Drafted(result) == result.order /\ result.missing = "none" /\ result.confidence >= 80

(* updateAfterExtraction: the stage that follows. *)
NextStage(stage, result) ==
  IF result.missing = "required"
  THEN IF stage = "ACTIVE" THEN "GATHERING_INFO" ELSE stage
  ELSE CASE stage = "ACTIVE" ->
              (IF result.confidence > 60 THEN "PENDING_ORDER" ELSE "GATHERING_INFO")
         [] stage = "GATHERING_INFO" /\ result.confidence > 80 -> "CONFIRMING"
         [] stage = "GATHERING_INFO" /\ result.confidence \in 61..80 -> "PENDING_ORDER"
         [] OTHER -> stage

(* HumanHandoffService.shouldEscalate, of the session it reads. *)
MustEscalate == session.handedOff \/ session.attempts >= MaxClarifications

(* The reply asks for what is missing. *)
Unclear(h) == handler[h].next = "GATHERING_INFO" /\ handler[h].result.missing # "none"

-----------------------------------------------------------------------------
(* Delivery: webhook to stored message *)

(* A webhook delivers message m, for the first time or again. *)
Receive(h, m) ==
  /\ At(h, "idle")
  /\ m = h \/ handler[m].message = m
  /\ Cardinality(Live) < MaxLive
  /\ handler' = [handler EXCEPT ![h] = [@ EXCEPT !.pc = "received", !.message = m]]
  /\ UNCHANGED <<known, rows, session, stored, drafts, notified, job, faults>>

(* Step 1: a message that is stored already is skipped. *)
Deduplicate(h) ==
  /\ At(h, "received")
  /\ IF stored[handler[h].message] # {}
     THEN Return(h)
     ELSE Goto(h, "new")
  /\ UNCHANGED <<known, rows, session, stored, drafts, notified, job, faults>>

(* findOrCreateCustomer: the customer's row is there, or has to be made. *)
FindCustomer(h) ==
  /\ At(h, "new")
  /\ Goto(h, IF known THEN "customer" ELSE "unknown")
  /\ UNCHANGED <<known, rows, session, stored, drafts, notified, job, faults>>

(* customer.create: the unique index on tenant and phone refuses a second. *)
CreateCustomer(h) ==
  /\ At(h, "unknown")
  /\ IF known THEN Return(h) ELSE Goto(h, "customer")
  /\ known' = TRUE
  /\ UNCHANGED <<rows, session, stored, drafts, notified, job, faults>>

(* findOrCreateConversation: Redis first. *)
FindSession(h) ==
  /\ At(h, "customer")
  /\ IF session = NoSession
     THEN Goto(h, "sessionless")
     ELSE handler' = [handler EXCEPT ![h] = [@ EXCEPT !.pc = "entered", !.entry = session]]
  /\ UNCHANGED <<known, rows, session, stored, drafts, notified, job, faults>>

(* Then an ACTIVE row, whose session is created anew. *)
FindRow(h) ==
  /\ At(h, "sessionless")
  /\ IF RowsWith("ACTIVE") = {}
     THEN Goto(h, "starting")
     ELSE \E c \in RowsWith("ACTIVE") :
            handler' = [handler EXCEPT ![h] = [@ EXCEPT !.pc = "hydrating", !.entry = NewSession(c)]]
  /\ UNCHANGED <<known, rows, session, stored, drafts, notified, job, faults>>

(* conversation.create: the unique index refuses a second ACTIVE one. *)
StartConversation(h) ==
  /\ At(h, "starting")
  /\ RowsWith("ACTIVE") = {}
  /\ rows' = [rows EXCEPT ![h] = [status |-> "ACTIVE", stage |-> "ACTIVE"]]
  /\ handler' = [handler EXCEPT ![h] = [@ EXCEPT !.pc = "hydrating", !.entry = NewSession(h)]]
  /\ UNCHANGED <<known, session, stored, drafts, notified, job, faults>>

StartFails(h) ==
  /\ At(h, "starting")
  /\ RowsWith("ACTIVE") # {}
  /\ Return(h)
  /\ UNCHANGED <<known, rows, session, stored, drafts, notified, job, faults>>

(* createSession overwrites whatever the key holds by now. *)
CreateSession(h) ==
  /\ At(h, "hydrating")
  /\ session' = handler[h].entry
  /\ Goto(h, "entered")
  /\ UNCHANGED <<known, rows, stored, drafts, notified, job, faults>>

(* whatsAppMessage.create: externalMessageId is unique. *)
StoreMessage(h) ==
  LET m == handler[h].message IN
  /\ At(h, "entered")
  /\ IF stored[m] = {}
     THEN Goto(h, "stored") /\ stored' = [stored EXCEPT ![m] = {h}]
     ELSE Return(h) /\ UNCHANGED stored
  /\ UNCHANGED <<known, rows, session, drafts, notified, job, faults>>

(* addCustomerMessage: the history grows and the TTL starts again. *)
ReadToAppend(h) ==
  /\ At(h, "stored")
  /\ Hold(h, "appending")
  /\ UNCHANGED <<known, rows, session, stored, drafts, notified, job, faults>>

AppendMessage(h) ==
  /\ At(h, "appending")
  /\ Save(h, handler[h].held)
  /\ Goto(h, IF handler[h].entry.stage = "CONFIRMING" THEN "confirming" ELSE "pipeline")
  /\ UNCHANGED <<known, rows, stored, drafts, notified, job, faults>>

-----------------------------------------------------------------------------
(* The customer answers a confirmation prompt *)

(* Yes and No first read the session for transitionStage. *)
AnswerYes(h) ==
  /\ At(h, "confirming")
  /\ handler' = [handler EXCEPT ![h] = [@ EXCEPT !.pc = "transition", !.next = "PENDING_ORDER",
                                                !.held = session]]
  /\ UNCHANGED <<known, rows, session, stored, drafts, notified, job, faults>>

AnswerNo(h) ==
  /\ At(h, "confirming")
  /\ handler' = [handler EXCEPT ![h] = [@ EXCEPT !.pc = "transition", !.next = "ACTIVE",
                                                !.held = session]]
  /\ UNCHANGED <<known, rows, session, stored, drafts, notified, job, faults>>

(* Anything else: "Please reply with Yes to confirm ... or No to cancel". *)
AnswerOther(h) ==
  /\ At(h, "confirming")
  /\ handler' = [handler EXCEPT ![h] = [@ EXCEPT !.pc = "replying", !.sent = "fallback"]]
  /\ UNCHANGED <<known, rows, session, stored, drafts, notified, job, faults>>

Transition(h) ==
  /\ At(h, "transition")
  /\ Save(h, [handler[h].held EXCEPT !.stage = handler[h].next])
  /\ Goto(h, "transitionRow")
  /\ UNCHANGED <<known, rows, stored, drafts, notified, job, faults>>

TransitionRow(h) ==
  /\ At(h, "transitionRow")
  /\ rows' = SetStage(handler[h].next)
  /\ Goto(h, IF handler[h].next = "PENDING_ORDER" THEN "drafting" ELSE "deleting")
  /\ UNCHANGED <<known, session, stored, drafts, notified, job, faults>>

(* createDraftFromContext, from the session as it was read on entry. *)
CreateDraftFromContext(h) ==
  /\ At(h, "drafting")
  /\ drafts' = [drafts EXCEPT ![h] = [kind |-> "confirmed", items |-> handler[h].entry.items]]
  /\ Goto(h, "acknowledging")
  /\ UNCHANGED <<known, rows, session, stored, notified, job, faults>>

SendAcknowledgement(h) ==
  /\ At(h, "acknowledging")
  /\ handler' = [handler EXCEPT ![h] = [@ EXCEPT !.pc = "replying", !.sent = "acknowledgement"]]
  /\ UNCHANGED <<known, rows, session, stored, drafts, notified, job, faults>>

(* completeConversation: the session first, then the row. *)
DeleteSession(h) ==
  /\ At(h, "deleting")
  /\ session' = NoSession
  /\ Goto(h, "completing")
  /\ UNCHANGED <<known, rows, stored, drafts, notified, job, faults>>

(* A No is answered after the conversation is completed. *)
CompleteRow(h) ==
  /\ At(h, "completing")
  /\ ~CloseClashes("COMPLETED")
  /\ rows' = CloseAs("COMPLETED", "CLOSED")
  /\ IF drafts[h].kind = "none" THEN Goto(h, "cancelling") ELSE Return(h)
  /\ UNCHANGED <<known, session, stored, drafts, notified, job, faults>>

CompleteFails(h) ==
  /\ At(h, "completing")
  /\ CloseClashes("COMPLETED")
  /\ Return(h)
  /\ UNCHANGED <<known, rows, session, stored, drafts, notified, job, faults>>

(* "Your order draft has been cancelled." *)
SendCancelled(h) ==
  /\ At(h, "cancelling")
  /\ handler' = [handler EXCEPT ![h] = [Finished(@) EXCEPT !.sent = "cancelled"]]
  /\ UNCHANGED <<known, rows, session, stored, drafts, notified, job, faults>>

-----------------------------------------------------------------------------
(* The AI pipeline and what it makes of the conversation *)

(* aiEngine.processMessage: a complete and confident order becomes a draft. *)
RunPipeline(h, result) ==
  /\ At(h, "pipeline")
  /\ handler' = [handler EXCEPT ![h] =
                   IF result.order THEN [@ EXCEPT !.pc = "extracted", !.result = result]
                                   ELSE [Finished(@) EXCEPT !.result = result]]
  /\ drafts' = IF Drafted(result)
               THEN [drafts EXCEPT ![h] = [kind |-> "extracted", items |-> {h}]] ELSE drafts
  /\ UNCHANGED <<known, rows, session, stored, notified, job, faults>>

(* updateAfterExtraction throws when the session is gone. *)
ReadToUpdate(h) ==
  /\ At(h, "extracted")
  /\ IF session = NoSession THEN Return(h) ELSE Hold(h, "updating")
  /\ UNCHANGED <<known, rows, session, stored, drafts, notified, job, faults>>

UpdateSession(h) ==
  LET held == handler[h].held
      next == NextStage(held.stage, handler[h].result)
  IN
  /\ At(h, "updating")
  /\ session' = [held EXCEPT !.stage = next, !.items = @ \cup {h}]
  /\ handler' = [handler EXCEPT ![h] = [@ EXCEPT !.pc = "updateRow", !.next = next]]
  /\ UNCHANGED <<known, rows, stored, drafts, notified, job, faults>>

UpdateRow(h) ==
  /\ At(h, "updateRow")
  /\ rows' = SetStage(handler[h].next)
  /\ Goto(h, "deciding")
  /\ UNCHANGED <<known, session, stored, drafts, notified, job, faults>>

-----------------------------------------------------------------------------
(* The reply: the first case that applies *)

SendAlternatives(h) ==
  /\ At(h, "deciding") /\ Unclear(h) /\ handler[h].result.alternatives
  /\ handler' = [handler EXCEPT ![h] = [@ EXCEPT !.pc = "replying", !.sent = "alternatives"]]
  /\ UNCHANGED <<known, rows, session, stored, drafts, notified, job, faults>>

(* shouldEscalate *)
ReadHandoff(h) ==
  /\ At(h, "deciding") /\ Unclear(h) /\ ~handler[h].result.alternatives
  /\ Goto(h, IF MustEscalate THEN "escalating" ELSE "asking")
  /\ UNCHANGED <<known, rows, session, stored, drafts, notified, job, faults>>

(* escalate reads the session again and does nothing the second time. *)
ReadToEscalate(h) ==
  /\ At(h, "escalating")
  /\ IF session = NoSession \/ session.handedOff THEN Return(h) ELSE Hold(h, "handingOff")
  /\ UNCHANGED <<known, rows, session, stored, drafts, notified, job, faults>>

(* The session is marked, then conversation.handoff_requested is emitted. *)
Escalate(h) ==
  /\ At(h, "handingOff")
  /\ session' = [handler[h].held EXCEPT !.handedOff = TRUE]
  /\ notified' = notified \cup {h}
  /\ Goto(h, "apologising")
  /\ UNCHANGED <<known, rows, stored, drafts, job, faults>>

SendHandoff(h) ==
  /\ At(h, "apologising")
  /\ handler' = [handler EXCEPT ![h] = [@ EXCEPT !.pc = "replying", !.sent = "handoff"]]
  /\ UNCHANGED <<known, rows, session, stored, drafts, notified, job, faults>>

SendQuestion(h) ==
  /\ At(h, "asking")
  /\ handler' = [handler EXCEPT ![h] = [@ EXCEPT !.pc = "replying", !.sent = "question"]]
  /\ UNCHANGED <<known, rows, session, stored, drafts, notified, job, faults>>

SendPrompt(h) ==
  /\ At(h, "deciding") /\ handler[h].next = "CONFIRMING"
  /\ handler' = [handler EXCEPT ![h] = [@ EXCEPT !.pc = "replying", !.sent = "prompt"]]
  /\ UNCHANGED <<known, rows, session, stored, drafts, notified, job, faults>>

AcknowledgeDraft(h) ==
  /\ At(h, "deciding") /\ ~Unclear(h) /\ handler[h].next # "CONFIRMING"
  /\ drafts[h].kind # "none"
  /\ handler' = [handler EXCEPT ![h] = [@ EXCEPT !.pc = "replying", !.sent = "acknowledgement"]]
  /\ UNCHANGED <<known, rows, session, stored, drafts, notified, job, faults>>

(* No case applies: the customer hears nothing. *)
StaySilent(h) ==
  /\ At(h, "deciding") /\ ~Unclear(h) /\ handler[h].next # "CONFIRMING"
  /\ drafts[h].kind = "none"
  /\ Return(h)
  /\ UNCHANGED <<known, rows, session, stored, drafts, notified, job, faults>>

(* addBotReply: the reply joins the history. *)
ReadToReply(h) ==
  /\ At(h, "replying")
  /\ Hold(h, "noting")
  /\ UNCHANGED <<known, rows, session, stored, drafts, notified, job, faults>>

NoteReply(h) ==
  /\ At(h, "noting")
  /\ Save(h, handler[h].held)
  /\ CASE handler[h].sent = "acknowledgement" -> Goto(h, "deleting")
       [] handler[h].sent = "question" -> Goto(h, "registering")
       [] OTHER -> Return(h)
  /\ UNCHANGED <<known, rows, stored, drafts, notified, job, faults>>

(* registerClarification *)
ReadToRegister(h) ==
  /\ At(h, "registering")
  /\ Hold(h, "counting")
  /\ UNCHANGED <<known, rows, session, stored, drafts, notified, job, faults>>

RegisterClarification(h) ==
  /\ At(h, "counting")
  /\ Save(h, [handler[h].held EXCEPT !.attempts = @ + 1])
  /\ Goto(h, "scheduling")
  /\ UNCHANGED <<known, rows, stored, drafts, notified, job, faults>>

(* queue.add with jobId abandoned:<conversation>: Bull keeps the first. *)
ScheduleCheck(h) ==
  LET c == handler[h].entry.conversation IN
  /\ At(h, "scheduling")
  /\ job' = [job EXCEPT ![c] = IF @ = "none" THEN "scheduled" ELSE @]
  /\ Return(h)
  /\ UNCHANGED <<known, rows, session, stored, drafts, notified, faults>>

-----------------------------------------------------------------------------
(* ConversationsProcessor: check-abandoned, for conversation c *)

(* Still ACTIVE and gathering, and the customer silent for long enough:    *)
(* abandonConversation is called.  The delay and the threshold are not     *)
(* modelled: any moment may be late enough.                                *)
CheckFindsAbandoned(c) ==
  /\ job[c] = "scheduled"
  /\ rows[c] = [status |-> "ACTIVE", stage |-> "GATHERING_INFO"]
  /\ job' = [job EXCEPT ![c] = "deleting"]
  /\ UNCHANGED <<known, rows, session, stored, handler, drafts, notified, faults>>

(* It is in another stage, closed, or was active not long ago: there is no  *)
(* second check.                                                           *)
CheckSkips(c) ==
  /\ job[c] = "scheduled"
  /\ job' = [job EXCEPT ![c] = "done"]
  /\ UNCHANGED <<known, rows, session, stored, handler, drafts, notified, faults>>

AbandonSession(c) ==
  /\ job[c] = "deleting"
  /\ session' = NoSession
  /\ job' = [job EXCEPT ![c] = "closing"]
  /\ UNCHANGED <<known, rows, stored, handler, drafts, notified, faults>>

(* The number's ACTIVE conversation, whichever it is by now. *)
AbandonRow(c) ==
  /\ job[c] = "closing"
  /\ IF CloseClashes("ABANDONED")
     THEN job' = [job EXCEPT ![c] = "done"] /\ UNCHANGED rows
     ELSE /\ job' = [job EXCEPT ![c] = "sending"]
          /\ rows' = [b \in Handlers |->
                       IF rows[b].status = "ACTIVE" THEN [rows[b] EXCEPT !.status = "ABANDONED"]
                                                    ELSE rows[b]]
  /\ UNCHANGED <<known, session, stored, handler, drafts, notified, faults>>

(* "Would you like to continue?" *)
SendFollowUp(c) ==
  /\ job[c] = "sending"
  /\ job' = [job EXCEPT ![c] = "done"]
  /\ UNCHANGED <<known, rows, session, stored, handler, drafts, notified, faults>>

-----------------------------------------------------------------------------
(* Faults *)

(* An awaited access throws; the webhook's catch swallows it, so the        *)
(* message is not delivered again.                                         *)
Fail(h) ==
  /\ h \in Live
  /\ faults < MaxFaults
  /\ faults' = faults + 1
  /\ Return(h)
  /\ UNCHANGED <<known, rows, session, stored, drafts, notified, job>>

(* The session's TTL runs out, or Redis loses the key. *)
Expire ==
  /\ faults < MaxFaults
  /\ session # NoSession
  /\ session' = NoSession
  /\ faults' = faults + 1
  /\ UNCHANGED <<known, rows, stored, handler, drafts, notified, job>>

(* The server restarts: the handlers are gone, and Bull runs a job that was *)
(* interrupted again.                                                      *)
Crash ==
  /\ faults < MaxFaults
  /\ faults' = faults + 1
  /\ handler' = [h \in Handlers |-> IF h \in Live THEN Finished(handler[h]) ELSE handler[h]]
  /\ job' = [c \in Handlers |->
               IF job[c] \in {"deleting", "closing", "sending"} THEN "scheduled" ELSE job[c]]
  /\ UNCHANGED <<known, rows, session, stored, drafts, notified>>

-----------------------------------------------------------------------------
Delivery(h) ==
  \/ \E m \in Handlers : Receive(h, m)
  \/ Deduplicate(h)
  \/ FindCustomer(h)
  \/ CreateCustomer(h)
  \/ FindSession(h)
  \/ FindRow(h)
  \/ StartConversation(h)
  \/ StartFails(h)
  \/ CreateSession(h)
  \/ StoreMessage(h)
  \/ ReadToAppend(h)
  \/ AppendMessage(h)

Answer(h) ==
  \/ AnswerYes(h)
  \/ AnswerNo(h)
  \/ AnswerOther(h)
  \/ Transition(h)
  \/ TransitionRow(h)
  \/ CreateDraftFromContext(h)
  \/ SendAcknowledgement(h)
  \/ DeleteSession(h)
  \/ CompleteRow(h)
  \/ CompleteFails(h)
  \/ SendCancelled(h)

Extraction(h) ==
  \/ \E result \in Results : RunPipeline(h, result)
  \/ ReadToUpdate(h)
  \/ UpdateSession(h)
  \/ UpdateRow(h)

Replying(h) ==
  \/ SendAlternatives(h)
  \/ ReadHandoff(h)
  \/ ReadToEscalate(h)
  \/ Escalate(h)
  \/ SendHandoff(h)
  \/ SendQuestion(h)
  \/ SendPrompt(h)
  \/ AcknowledgeDraft(h)
  \/ StaySilent(h)
  \/ ReadToReply(h)
  \/ NoteReply(h)
  \/ ReadToRegister(h)
  \/ RegisterClarification(h)
  \/ ScheduleCheck(h)

CheckAbandoned(c) ==
  \/ CheckFindsAbandoned(c)
  \/ CheckSkips(c)
  \/ AbandonSession(c)
  \/ AbandonRow(c)
  \/ SendFollowUp(c)

Next ==
  \/ \E h \in Handlers : Delivery(h) \/ Answer(h) \/ Extraction(h) \/ Replying(h) \/ Fail(h)
  \/ \E c \in Handlers : CheckAbandoned(c)
  \/ Expire
  \/ Crash

Spec == Init /\ [][Next]_vars

-----------------------------------------------------------------------------
(* Properties *)

(* Every variable has its type. *)
TypeOK ==
  /\ known \in BOOLEAN
  /\ rows \in [Handlers -> ConversationRow]
  /\ session \in Session
  /\ stored \in [Handlers -> SUBSET Handlers]
  /\ handler \in [Handlers -> Handler]
  /\ drafts \in [Handlers -> Draft]
  /\ notified \subseteq Handlers
  /\ job \in [Handlers -> JobState]
  /\ faults \in 0..MaxFaults

(* However often and however concurrently a message is delivered, it gives *)
(* at most one draft, and it is stored before it does (BUSINESS_RULES      *)
(* section 6).                                                             *)
OneDraftPerMessage ==
  \A h \in Handlers : drafts[h].kind # "none" => stored[handler[h].message] = {h}

(* An order is only drafted on a Yes after two earlier messages: one that  *)
(* left something to ask, and one that answered it with high confidence.   *)
(* The Yes itself is none of them.                                         *)
ConfirmationTakesTwoTurns ==
  \A h \in Handlers :
    drafts[h].kind = "confirmed" =>
      \E asked, answered \in drafts[h].items \ {h} :
        /\ asked # answered
        /\ handler[answered].result.confidence > 80
        /\ handler[answered].result.missing # "required"

(* The owner is called only after the customer was asked as often as       *)
(* HANDOFF_MAX_CLARIFICATIONS allows, whatever updates of the counter are  *)
(* lost.                                                                   *)
Questions == {h \in Handlers : handler[h].sent = "question"}
QuestionsBeforeHandoff == notified # {} => Cardinality(Questions) >= MaxClarifications

(* The scorer's routing and the stage machine agree: a customer who is     *)
(* asked, offered alternatives or handed over has no draft of that         *)
(* message, and one who is thanked for an order has one.                   *)
RepliesMatchDrafts ==
  \A h \in Handlers :
    /\ handler[h].sent \in {"question", "alternatives", "handoff", "fallback", "cancelled"}
         => drafts[h].kind = "none"
    /\ handler[h].sent = "acknowledgement" => drafts[h].kind # "none"

(* A conversation that was completed or abandoned is never changed again,  *)
(* also by a handler or job that read it when it was open.                 *)
ClosedConversationsStay ==
  [][\A c \in Handlers :
       rows[c].status \in {"COMPLETED", "ABANDONED"} => rows'[c] = rows[c]]_vars

(* With one delivery at a time: what was confirmed once is not confirmed   *)
(* again, wherever a failure or restart interrupts the confirmation.       *)
ConfirmedOnce ==
  \A h1, h2 \in Handlers :
    drafts[h1].kind = "confirmed" /\ drafts[h2].kind = "confirmed" /\ h1 # h2 =>
      drafts[h1].items \cap drafts[h2].items = {}

(* With one delivery at a time: a session that was handed over stays so    *)
(* for as long as it lives.                                                *)
StaysEscalated ==
  [][session.handedOff => session'.handedOff \/ session' = NoSession]_vars

-----------------------------------------------------------------------------
(* What the repository says and the code does not do *)

(* completeConversation marks the conversation COMPLETED: the update meets *)
(* no conversation of the same number that was completed before.           *)
CompletionIsRecorded == \A h \in Handlers : At(h, "completing") => ~CloseClashes("COMPLETED")

(* "Your order draft has been cancelled": no message of the conversation   *)
(* has left a draft.                                                       *)
CancelledMeansNoDraft ==
  \A h \in Handlers :
    At(h, "cancelling") => \A g \in handler[h].entry.items : drafts[g].kind = "none"

=============================================================================
