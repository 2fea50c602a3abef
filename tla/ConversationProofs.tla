------------------------- MODULE ConversationProofs -------------------------
(***************************************************************************)
(* Theorems about Conversation, for any number of deliveries, of handlers  *)
(* in progress, of clarifications and of faults, and any results of the    *)
(* pipeline.                                                               *)
(***************************************************************************)
EXTENDS Conversation, FiniteSetTheorems, TLAPS

(* Handlers hs whose extraction a session may hold: the pipeline has run   *)
(* and they are past the update.                                           *)
Merged(hs) == {g \in Handlers : hs[g].result # NoResult /\ hs[g].pc \notin {"extracted", "updating"}}

(* Handlers hs whose question a session may have counted. *)
Asked(hs) == {g \in Handlers : hs[g].sent = "question" /\ hs[g].pc \in {"scheduling", "done"}}
Enough(hs) == Cardinality(Asked(hs)) >= MaxClarifications

(* One message left something to ask, another answered it confidently. *)
TwoTurns(hs, items) ==
  \E asked, answered \in items :
    asked # answered /\ hs[answered].result.confidence > 80 /\ hs[answered].result.missing # "required"

(* What a session or a copy of it says is true of the handlers: of what is *)
(* lost to a later write a copy only says less.                            *)
Fits(hs, s) ==
  /\ s.items \subseteq Merged(hs)
  /\ s.stage = "GATHERING_INFO" => s.items # {}
  /\ s.stage = "CONFIRMING" => TwoTurns(hs, s.items)
  /\ s.attempts <= Cardinality(Asked(hs))
  /\ s.handedOff => Enough(hs)

Unborn == {"idle", "received", "new", "unknown", "customer", "sessionless", "starting"}
Unstored == Unborn \cup {"hydrating", "entered", "done"}
Answering == {"confirming", "transition", "transitionRow", "drafting"}
Early == Unborn \cup {"hydrating", "entered", "stored", "appending", "pipeline"} \cup Answering
Extracting == {"extracted", "updating", "updateRow", "deciding"}

(* What is true of handler h in state r with its draft d. *)
Sound(h, r, d, st) ==
  /\ r.pc # "idle" => r.message \in Handlers
  /\ r.pc \notin Unstored \/ d.kind # "none" => r.message \in Handlers /\ st[r.message] = {h}
  /\ r.pc \in Early => d.kind = "none" /\ r.result = NoResult /\ r.sent = "none"
  /\ r.pc \in {"confirming", "drafting"} => r.entry.stage = "CONFIRMING"
  /\ r.pc \in {"transition", "transitionRow"} => r.next \in {"PENDING_ORDER", "ACTIVE"}
  /\ r.pc \in {"transition", "transitionRow"} /\ r.next = "PENDING_ORDER" => r.entry.stage = "CONFIRMING"
  /\ r.pc \in Extracting => r.result \in Results /\ (d.kind # "none" => r.result.missing = "none")
  /\ r.pc \in {"asking", "escalating", "handingOff", "apologising", "cancelling"} => d.kind = "none"
  /\ r.pc = "acknowledging" => d.kind # "none"
  /\ r.pc \in {"registering", "counting", "scheduling"} => r.sent = "question"
  /\ r.sent \in {"question", "alternatives", "handoff", "fallback", "cancelled"} => d.kind = "none"
  /\ r.sent = "acknowledgement" => d.kind # "none"

(* What is true of a draft that was confirmed. *)
Backed(hs, h, d) ==
  d.kind = "confirmed" => h \notin d.items /\ d.items \subseteq Merged(hs) /\ TwoTurns(hs, d.items)

DataTyped ==
  /\ session \in Session
  /\ stored \in [Handlers -> SUBSET Handlers]
  /\ handler \in [Handlers -> Handler]
  /\ drafts \in [Handlers -> Draft]
  /\ notified \subseteq Handlers

Data ==
  /\ DataTyped
  /\ Fits(handler, session)
  /\ notified # {} => Enough(handler)
  /\ \A h \in Handlers :
       /\ Fits(handler, handler[h].entry) /\ Fits(handler, handler[h].held)
       /\ Sound(h, handler[h], drafts[h], stored)
       /\ Backed(handler, h, drafts[h])
       /\ handler[h].pc \in {"escalating", "handingOff"} => Enough(handler)

(* A conversation has a row when its handler has made one. *)
RowsFit ==
  /\ known \in BOOLEAN /\ faults \in 0..MaxFaults
  /\ rows \in [Handlers -> ConversationRow]
  /\ job \in [Handlers -> JobState]
  /\ \A h \in Handlers : handler[h].pc \in Unborn => rows[h].status = "NONE"

(* The inductive invariant. *)
IInv == Data /\ RowsFit

-----------------------------------------------------------------------------
(* What a step may do to one handler *)

(* What was read, merged or asked is never taken back. *)
Grows(old, new) ==
  /\ old.result # NoResult =>
       /\ new.result = old.result
       /\ old.pc \notin {"extracted", "updating"} => new.pc \notin {"extracted", "updating"}
  /\ old.sent = "question" /\ old.pc \in {"scheduling", "done"} =>
       new.sent = "question" /\ new.pc \in {"scheduling", "done"}
  /\ new.pc \in Unborn => old.pc \in Unborn

AllGrow == \A g \in Handlers : Grows(handler[g], handler'[g])

(* The handlers are finitely many, so those who asked can be counted. *)
LEMMA AskedFinite ==
  ASSUME ConversationAssumption, NEW hs
  PROVE  IsFiniteSet(Asked(hs)) /\ Cardinality(Asked(hs)) \in Nat
BY FS_Subset, FS_CardinalityType DEF ConversationAssumption, Asked

(* What is true of a session stays true of it. *)
LEMMA FitsStays ==
  ASSUME ConversationAssumption, AllGrow, NEW s \in Session, Fits(handler, s)
  PROVE  Fits(handler', s)
<1>1. Merged(handler) \subseteq Merged(handler')
  BY DEF AllGrow, Grows, Merged
<1>2. Asked(handler) \subseteq Asked(handler')
  BY DEF AllGrow, Grows, Asked
<1>3. /\ Cardinality(Asked(handler)) \in Nat /\ Cardinality(Asked(handler')) \in Nat
      /\ Cardinality(Asked(handler)) <= Cardinality(Asked(handler'))
  BY <1>2, AskedFinite, FS_Subset
<1>4. s.stage = "CONFIRMING" => TwoTurns(handler', s.items)
  BY DEF AllGrow, Grows, Merged, TwoTurns, Fits
<1>5. s.attempts \in Nat /\ MaxClarifications \in Nat
  BY DEF Session, ConversationAssumption
<1>6. s.attempts <= Cardinality(Asked(handler'))
  BY <1>3, <1>5 DEF Fits
<1>7. s.handedOff => Enough(handler')
  BY <1>3, <1>5 DEF Fits, Enough
<1>8. QED
  BY <1>1, <1>4, <1>6, <1>7 DEF Fits

LEMMA EnoughStays ==
  ASSUME ConversationAssumption, AllGrow, Enough(handler)
  PROVE  Enough(handler')
<1>1. Asked(handler) \subseteq Asked(handler')
  BY DEF AllGrow, Grows, Asked
<1>2. /\ Cardinality(Asked(handler)) \in Nat /\ Cardinality(Asked(handler')) \in Nat
      /\ Cardinality(Asked(handler)) <= Cardinality(Asked(handler'))
  BY <1>1, AskedFinite, FS_Subset
<1>3. QED
  BY <1>2 DEF Enough, ConversationAssumption

LEMMA BackedStays ==
  ASSUME AllGrow, NEW h \in Handlers, NEW d \in Draft, Backed(handler, h, d)
  PROVE  Backed(handler', h, d)
<1>1. Merged(handler) \subseteq Merged(handler')
  BY DEF AllGrow, Grows, Merged
<1>2. d.items \subseteq Merged(handler) /\ TwoTurns(handler, d.items) => TwoTurns(handler', d.items)
  BY DEF AllGrow, Grows, Merged, TwoTurns
<1>3. QED
  BY <1>1, <1>2 DEF Backed

(* A new session says nothing yet. *)
LEMMA NewFits ==
  ASSUME ConversationAssumption, NEW hs, NEW c \in Handlers \cup {NoConversation}
  PROVE  NewSession(c) \in Session /\ Fits(hs, NewSession(c))
<1>1. NewSession(c) \in Session
  BY DEF NewSession, Session, Stage
<1>2. NewSession(c).attempts <= Cardinality(Asked(hs))
  BY AskedFinite DEF NewSession
<1>3. QED
  BY <1>1, <1>2 DEF NewSession, Fits

LEMMA NoFits ==
  ASSUME ConversationAssumption, NEW hs
  PROVE  NoSession \in Session /\ Fits(hs, NoSession)
BY NewFits DEF NoSession

(* A good move of handler h. *)
Good(h) ==
  /\ handler'[h] \in Handler
  /\ Grows(handler[h], handler'[h])
  /\ Fits(handler, handler'[h].entry) /\ Fits(handler, handler'[h].held)
  /\ Sound(h, handler'[h], drafts'[h], stored')
  /\ Backed(handler, h, drafts'[h])
  /\ handler'[h].pc \in {"escalating", "handingOff"} => Enough(handler)

(* What a step must come to. *)
GoodStep == Data' /\ AllGrow

LEMMA HandlersMove ==
  ASSUME ConversationAssumption, Data, DataTyped', \A h \in Handlers : Good(h),
         Fits(handler, session') \/ Fits(handler', session'), notified' # {} => Enough(handler)
  PROVE  GoodStep
<1>1. AllGrow
  BY DEF AllGrow, Good
<1>2. Fits(handler', session')
  BY <1>1, FitsStays DEF DataTyped
<1>3. notified' # {} => Enough(handler')
  BY <1>1, EnoughStays
<1>4. ASSUME NEW h \in Handlers
      PROVE  /\ Fits(handler', handler'[h].entry) /\ Fits(handler', handler'[h].held)
             /\ Sound(h, handler'[h], drafts'[h], stored')
             /\ Backed(handler', h, drafts'[h])
             /\ handler'[h].pc \in {"escalating", "handingOff"} => Enough(handler')
  <2>1. Good(h)
    OBVIOUS
  <2>2. handler'[h].entry \in Session /\ handler'[h].held \in Session
    BY <2>1 DEF Good, Handler
  <2>3. drafts'[h] \in Draft
    BY DEF DataTyped
  <2>4. QED
    BY <1>1, <2>1, <2>2, <2>3, FitsStays, BackedStays, EnoughStays DEF Good
<1>5. QED
  BY <1>1, <1>2, <1>3, <1>4 DEF GoodStep, Data

(* A handler that does not move. *)
LEMMA StaysGood ==
  ASSUME Data, NEW h \in Handlers, handler'[h] = handler[h], drafts'[h] = drafts[h],
         \A m \in Handlers : stored[m] # {} => stored'[m] = stored[m]
  PROVE  Good(h)
<1>1. handler[h] \in Handler
  BY DEF Data, DataTyped
<1>2. Sound(h, handler[h], drafts[h], stored)
  BY DEF Data
<1>3. Sound(h, handler[h], drafts[h], stored')
  BY <1>2 DEF Sound
<1>4. QED
  BY <1>1, <1>3 DEF Good, Grows, Data

(* One handler moves and changes nothing else that handlers rely on. *)
LEMMA OneMoves ==
  ASSUME ConversationAssumption, Data, NEW h \in Handlers, NEW new \in Handler,
         handler' = [handler EXCEPT ![h] = new], UNCHANGED <<stored, drafts, notified>>,
         session' \in Session, Fits(handler, session') \/ Fits(handler', session'),
         Grows(handler[h], new), Fits(handler, new.entry), Fits(handler, new.held),
         Sound(h, new, drafts[h], stored),
         new.pc \in {"escalating", "handingOff"} => Enough(handler)
  PROVE  GoodStep
<1>1. DataTyped'
  BY DEF Data, DataTyped
<1>2. handler'[h] = new /\ \A g \in Handlers \ {h} : handler'[g] = handler[g]
  BY DEF Data, DataTyped
<1>3. Good(h)
  BY <1>2 DEF Good, Data
<1>4. \A g \in Handlers \ {h} : Good(g)
  BY <1>2, StaysGood
<1>5. notified' # {} => Enough(handler)
  BY DEF Data
<1>6. QED
  BY <1>1, <1>3, <1>4, <1>5, HandlersMove

(* A handler that ends, whatever it was doing. *)
LEMMA FinishesGood ==
  ASSUME ConversationAssumption, Data, NEW h \in Handlers, handler[h].pc # "idle",
         handler'[h] = Finished(handler[h]), UNCHANGED <<drafts, stored>>
  PROVE  Good(h)
<1>1. handler[h] \in Handler /\ Sound(h, handler[h], drafts[h], stored)
  BY DEF Data, DataTyped
<1>2. handler'[h] \in Handler
  BY <1>1, NoFits DEF Finished, Handler, HandlerState, Stage
<1>3. /\ handler'[h].pc = "done" /\ handler'[h].entry = NoSession /\ handler'[h].held = NoSession
      /\ handler'[h].sent = handler[h].sent /\ handler'[h].result = handler[h].result
      /\ handler'[h].message = handler[h].message
  BY <1>1 DEF Finished, Handler
<1>4. Sound(h, handler'[h], drafts[h], stored) /\ Grows(handler[h], handler'[h])
  BY <1>1, <1>3 DEF Sound, Grows, Unborn, Unstored, Answering, Early, Extracting
<1>5. QED
  BY <1>2, <1>3, <1>4, NoFits DEF Good, Data

(* A handler returns. *)
LEMMA Returns ==
  ASSUME ConversationAssumption, Data, NEW h \in Handlers, handler[h].pc # "idle", Return(h),
         session' \in Session, Fits(handler, session'), UNCHANGED <<stored, drafts, notified>>
  PROVE  GoodStep
<1>1. /\ handler'[h] = Finished(handler[h])
      /\ \A g \in Handlers \ {h} : handler'[g] = handler[g]
      /\ handler' = [g \in Handlers |-> handler'[g]]
  BY DEF Return, Data, DataTyped
<1>2. Good(h)
  BY <1>1, FinishesGood
<1>3. \A g \in Handlers \ {h} : Good(g)
  BY <1>1, StaysGood
<1>4. DataTyped'
  BY <1>1, <1>2, <1>3 DEF Good, Data, DataTyped
<1>5. notified' # {} => Enough(handler)
  BY DEF Data
<1>6. QED
  BY <1>2, <1>3, <1>4, <1>5, HandlersMove

(* A handler goes on to pc. *)
LEMMA Goes ==
  ASSUME ConversationAssumption, Data, NEW h \in Handlers, NEW pc \in HandlerState, Goto(h, pc),
         Sound(h, [handler[h] EXCEPT !.pc = pc], drafts[h], stored),
         Grows(handler[h], [handler[h] EXCEPT !.pc = pc]),
         pc \in {"escalating", "handingOff"} => Enough(handler),
         session' \in Session, Fits(handler, session') \/ Fits(handler', session'),
         UNCHANGED <<stored, drafts, notified>>
  PROVE  GoodStep
<1> DEFINE new == [handler[h] EXCEPT !.pc = pc]
<1>1. handler[h] \in Handler
  BY DEF Data, DataTyped
<1>2. new \in Handler /\ new.pc = pc /\ new.entry = handler[h].entry /\ new.held = handler[h].held
  BY <1>1 DEF Handler
<1>3. handler' = [handler EXCEPT ![h] = new]
  BY DEF Goto
<1>4. Fits(handler, new.entry) /\ Fits(handler, new.held)
  BY <1>2 DEF Data
<1> HIDE DEF new
<1>5. Sound(h, new, drafts[h], stored) /\ Grows(handler[h], new)
  BY DEF new
<1>6. QED
  BY <1>2, <1>3, <1>4, <1>5, OneMoves

(* Handler h as the invariant has it. *)
LEMMA HandlerIs ==
  ASSUME ConversationAssumption, Data, NEW h \in Handlers
  PROVE  /\ handler[h] \in Handler /\ Sound(h, handler[h], drafts[h], stored)
         /\ Fits(handler, handler[h].entry) /\ Fits(handler, handler[h].held)
         /\ session \in Session /\ Fits(handler, session)
         /\ handler[h].entry \in Session /\ handler[h].held \in Session
BY DEF Data, DataTyped, Handler

-----------------------------------------------------------------------------
(* Delivery *)

(* A conversation is found or made for a handler without a session. *)
LEMMA Hydrates ==
  ASSUME ConversationAssumption, Data, NEW h \in Handlers, NEW c \in Handlers,
         At(h, "sessionless") \/ At(h, "starting"),
         handler' = [handler EXCEPT ![h] = [@ EXCEPT !.pc = "hydrating", !.entry = NewSession(c)]],
         UNCHANGED <<session, stored, drafts, notified>>
  PROVE  GoodStep
<1>h. /\ handler[h] \in Handler /\ Sound(h, handler[h], drafts[h], stored)
      /\ session \in Session /\ Fits(handler, session) /\ Fits(handler, handler[h].held)
  BY HandlerIs
<1> DEFINE new == [handler[h] EXCEPT !.pc = "hydrating", !.entry = NewSession(c)]
<1>1. /\ new \in Handler /\ new.pc = "hydrating"
      /\ new.entry = NewSession(c) /\ new.held = handler[h].held
  BY <1>h, NewFits DEF Handler, HandlerState
<1>2. Sound(h, new, drafts[h], stored) /\ Grows(handler[h], new)
  BY <1>h DEF At, Handler, Sound, Grows, Unborn, Unstored, Answering, Early, Extracting
<1> HIDE DEF new
<1>3. handler' = [handler EXCEPT ![h] = new]
  BY DEF new
<1>4. Fits(handler, new.entry) /\ Fits(handler, new.held)
  BY <1>h, <1>1, NewFits
<1>5. session' \in Session /\ Fits(handler, session')
  BY <1>h
<1>6. QED
  BY <1>1, <1>2, <1>3, <1>4, <1>5, OneMoves

(* The message is stored, by the first who comes. *)
LEMMA StoreSteps ==
  ASSUME ConversationAssumption, Data, NEW h \in Handlers, StoreMessage(h)
  PROVE  GoodStep
<1>h. /\ handler[h] \in Handler /\ Sound(h, handler[h], drafts[h], stored)
      /\ Fits(handler, handler[h].entry) /\ Fits(handler, handler[h].held)
      /\ session \in Session /\ Fits(handler, session)
  BY HandlerIs
<1>1. CASE stored[handler[h].message] # {}
  BY <1>h, <1>1, Returns DEF StoreMessage, At
<1>2. CASE stored[handler[h].message] = {}
  <2> DEFINE new == [handler[h] EXCEPT !.pc = "stored"]
  <2>1. new \in Handler /\ new.pc = "stored" /\ new.entry = handler[h].entry /\ new.held = handler[h].held
    BY <1>h DEF Handler, HandlerState
  <2>2. /\ handler' = [handler EXCEPT ![h] = new]
        /\ stored' = [stored EXCEPT ![handler[h].message] = {h}]
        /\ UNCHANGED <<session, drafts, notified>>
    BY <1>2 DEF StoreMessage, Goto
  <2>3. handler[h].message \in Handlers
    BY <1>h DEF StoreMessage, At, Sound
  <2>4. DataTyped'
    BY <2>1, <2>2 DEF Data, DataTyped
  <2>5. Sound(h, new, drafts[h], stored') /\ Grows(handler[h], new)
    BY <1>h, <2>2, <2>3 DEF StoreMessage, At, Handler, Sound, Grows, Data, DataTyped, Unborn, Unstored, Answering, Early, Extracting
  <2> HIDE DEF new
  <2>6. handler'[h] = new /\ \A g \in Handlers \ {h} : handler'[g] = handler[g]
    BY <2>2 DEF Data, DataTyped
  <2>7. Good(h)
    BY <1>h, <2>1, <2>2, <2>5, <2>6 DEF Good, Data
  <2>8. \A m \in Handlers : stored[m] # {} => stored'[m] = stored[m]
    BY <1>2, <2>2 DEF Data, DataTyped
  <2>9. \A g \in Handlers \ {h} : Good(g)
    BY <2>2, <2>6, <2>8, StaysGood
  <2>10. notified' # {} => Enough(handler)
    BY <2>2 DEF Data
  <2>11. QED
    BY <1>h, <2>2, <2>4, <2>7, <2>9, <2>10, HandlersMove
<1>3. QED
  BY <1>1, <1>2

LEMMA DeliverySteps ==
  ASSUME ConversationAssumption, Data, NEW h \in Handlers, Delivery(h)
  PROVE  GoodStep
<1>h. /\ handler[h] \in Handler /\ Sound(h, handler[h], drafts[h], stored)
      /\ Fits(handler, handler[h].entry) /\ Fits(handler, handler[h].held)
      /\ session \in Session /\ Fits(handler, session)
      /\ handler[h].entry \in Session /\ handler[h].held \in Session
  BY HandlerIs
<1>1. CASE \E m \in Handlers : Receive(h, m)
  <2> PICK m \in Handlers : Receive(h, m)
    BY <1>1
  <2> DEFINE new == [handler[h] EXCEPT !.pc = "received", !.message = m]
  <2>1. handler' = [handler EXCEPT ![h] = new] /\ UNCHANGED <<session, stored, drafts, notified>>
    BY <1>1 DEF Receive
  <2>2. new \in Handler
    <3>1. "received" \in HandlerState
      BY DEF HandlerState, Reply, Stage
    <3>2. QED
      BY <1>h, <3>1 DEF Handler
  <2>3. /\ new.pc = "received" /\ new.message = m
        /\ new.entry = handler[h].entry /\ new.held = handler[h].held /\ new.next = handler[h].next /\ new.result = handler[h].result /\ new.sent = handler[h].sent
    BY <1>h DEF Handler
  <2> HIDE DEF new
  <2>4. Sound(h, new, drafts[h], stored) /\ Grows(handler[h], new)
    BY <1>h, <1>1, <2>3 DEF Receive, At, Sound, Grows, Unborn, Unstored, Answering, Early, Extracting
  <2>5. QED
    BY <1>h, <2>1, <2>2, <2>3, <2>4, NewFits, NoFits, OneMoves
<1>2. CASE Deduplicate(h)
  <2>1. session' \in Session /\ Fits(handler, session') /\ UNCHANGED <<stored, drafts, notified>>
    BY <1>h, <1>2 DEF Deduplicate
  <2>2. CASE Return(h)
    BY <1>2, <2>1, <2>2, Returns DEF Deduplicate, At
  <2>3. CASE Goto(h, "new")
    <3>2. Sound(h, [handler[h] EXCEPT !.pc = "new"], drafts[h], stored)
      BY <1>h, <1>2 DEF Deduplicate, At, Handler, Sound, Unborn, Unstored, Answering, Early, Extracting
    <3>3. Grows(handler[h], [handler[h] EXCEPT !.pc = "new"])
      BY <1>h, <1>2 DEF Deduplicate, At, Handler, Grows, Sound, Unborn, Unstored, Answering, Early, Extracting
    <3>4. QED
      BY <2>1, <2>3, <3>2, <3>3, Goes DEF HandlerState
  <2>4. QED
    BY <1>2, <2>2, <2>3 DEF Deduplicate
<1>3. CASE FindCustomer(h)
  <2>1. session' \in Session /\ Fits(handler, session') /\ UNCHANGED <<stored, drafts, notified>>
    BY <1>h, <1>3 DEF FindCustomer
  <2>2. CASE \E pc \in {"unknown", "customer"} : Goto(h, pc)
    <3>1. PICK pc \in {"unknown", "customer"} : Goto(h, pc)
      BY <2>2
    <3>2. Sound(h, [handler[h] EXCEPT !.pc = pc], drafts[h], stored)
      BY <1>h, <1>3 DEF FindCustomer, At, Handler, Sound, Unborn, Unstored, Answering, Early, Extracting
    <3>3. Grows(handler[h], [handler[h] EXCEPT !.pc = pc])
      BY <1>h, <1>3 DEF FindCustomer, At, Handler, Grows, Sound, Unborn, Unstored, Answering, Early, Extracting
    <3>4. QED
      BY <2>1, <3>1, <3>2, <3>3, Goes DEF HandlerState
  <2>3. QED
    BY <1>3, <2>2 DEF FindCustomer
<1>4. CASE CreateCustomer(h)
  <2>1. session' \in Session /\ Fits(handler, session') /\ UNCHANGED <<stored, drafts, notified>>
    BY <1>h, <1>4 DEF CreateCustomer
  <2>2. CASE Return(h)
    BY <1>4, <2>1, <2>2, Returns DEF CreateCustomer, At
  <2>3. CASE Goto(h, "customer")
    <3>2. Sound(h, [handler[h] EXCEPT !.pc = "customer"], drafts[h], stored)
      BY <1>h, <1>4 DEF CreateCustomer, At, Handler, Sound, Unborn, Unstored, Answering, Early, Extracting
    <3>3. Grows(handler[h], [handler[h] EXCEPT !.pc = "customer"])
      BY <1>h, <1>4 DEF CreateCustomer, At, Handler, Grows, Sound, Unborn, Unstored, Answering, Early, Extracting
    <3>4. QED
      BY <2>1, <2>3, <3>2, <3>3, Goes DEF HandlerState
  <2>4. QED
    BY <1>4, <2>2, <2>3 DEF CreateCustomer
<1>5. CASE FindSession(h)
  <2>1. CASE Goto(h, "sessionless")
    <3>1. Sound(h, [handler[h] EXCEPT !.pc = "sessionless"], drafts[h], stored)
      BY <1>h, <1>5 DEF FindSession, At, Handler, Sound, Unborn, Unstored, Answering, Early, Extracting
    <3>2. Grows(handler[h], [handler[h] EXCEPT !.pc = "sessionless"])
      BY <1>h, <1>5 DEF FindSession, At, Handler, Grows, Sound, Unborn, Unstored, Answering, Early, Extracting
    <3>3. QED
      BY <1>h, <1>5, <2>1, <3>1, <3>2, Goes DEF FindSession, HandlerState
  <2>2. CASE handler' = [handler EXCEPT ![h] = [@ EXCEPT !.pc = "entered", !.entry = session]]
    <3> DEFINE new == [handler[h] EXCEPT !.pc = "entered", !.entry = session]
    <3>1. new \in Handler /\ new.pc = "entered" /\ new.entry = session /\ new.held = handler[h].held
      BY <1>h DEF Handler, HandlerState
    <3>2. Sound(h, new, drafts[h], stored) /\ Grows(handler[h], new)
      BY <1>h, <1>5 DEF FindSession, At, Handler, Sound, Grows, Unborn, Unstored, Answering, Early, Extracting
    <3>3. handler' = [handler EXCEPT ![h] = new] /\ UNCHANGED <<session, stored, drafts, notified>>
      BY <1>5, <2>2 DEF FindSession
    <3> HIDE DEF new
    <3>4. QED
      BY <1>h, <3>1, <3>2, <3>3, OneMoves
  <2>3. QED
    BY <1>5, <2>1, <2>2 DEF FindSession
<1>6. CASE FindRow(h)
  <2>1. CASE Goto(h, "starting")
    <3>1. Sound(h, [handler[h] EXCEPT !.pc = "starting"], drafts[h], stored)
      BY <1>h, <1>6 DEF FindRow, At, Handler, Sound, Unborn, Unstored, Answering, Early, Extracting
    <3>2. Grows(handler[h], [handler[h] EXCEPT !.pc = "starting"])
      BY <1>h, <1>6 DEF FindRow, At, Handler, Grows, Sound, Unborn, Unstored, Answering, Early, Extracting
    <3>3. QED
      BY <1>h, <1>6, <2>1, <3>1, <3>2, Goes DEF FindRow, HandlerState
  <2>2. CASE \E c \in Handlers :
               handler' = [handler EXCEPT ![h] = [@ EXCEPT !.pc = "hydrating", !.entry = NewSession(c)]]
    <3>1. PICK c \in Handlers :
            handler' = [handler EXCEPT ![h] = [@ EXCEPT !.pc = "hydrating", !.entry = NewSession(c)]]
      BY <2>2
    <3>2. UNCHANGED <<session, stored, drafts, notified>>
      BY <1>6 DEF FindRow
    <3>3. At(h, "sessionless")
      BY <1>6 DEF FindRow
    <3>4. QED
      BY <3>1, <3>2, <3>3, Hydrates
  <2>3. QED
    BY <1>6, <2>1, <2>2 DEF FindRow, RowsWith
<1>7. CASE StartConversation(h)
  BY <1>7, Hydrates DEF StartConversation
<1>8. CASE StartFails(h)
  BY <1>h, <1>8, Returns DEF StartFails, At
<1>9. CASE CreateSession(h)
  <2>1. session' \in Session /\ Fits(handler, session') /\ UNCHANGED <<stored, drafts, notified>>
    BY <1>h, <1>9, NoFits DEF CreateSession
  <2>2. CASE Goto(h, "entered")
    <3>2. Sound(h, [handler[h] EXCEPT !.pc = "entered"], drafts[h], stored)
      BY <1>h, <1>9 DEF CreateSession, At, Handler, Sound, Unborn, Unstored, Answering, Early, Extracting
    <3>3. Grows(handler[h], [handler[h] EXCEPT !.pc = "entered"])
      BY <1>h, <1>9 DEF CreateSession, At, Handler, Grows, Sound, Unborn, Unstored, Answering, Early, Extracting
    <3>4. QED
      BY <2>1, <2>2, <3>2, <3>3, Goes DEF HandlerState
  <2>3. QED
    BY <1>9, <2>2 DEF CreateSession
<1>10. CASE StoreMessage(h)
  BY <1>10, StoreSteps
<1>11. CASE ReadToAppend(h)
  <2> DEFINE new == [handler[h] EXCEPT !.pc = "appending", !.held = session]
  <2>1. handler' = [handler EXCEPT ![h] = new] /\ UNCHANGED <<session, stored, drafts, notified>>
    BY <1>11 DEF ReadToAppend, Hold
  <2>2. new \in Handler
    <3>1. "appending" \in HandlerState
      BY DEF HandlerState, Reply, Stage
    <3>2. QED
      BY <1>h, <3>1 DEF Handler
  <2>3. /\ new.pc = "appending" /\ new.held = session
        /\ new.message = handler[h].message /\ new.entry = handler[h].entry /\ new.next = handler[h].next /\ new.result = handler[h].result /\ new.sent = handler[h].sent
    BY <1>h DEF Handler
  <2> HIDE DEF new
  <2>4. Sound(h, new, drafts[h], stored) /\ Grows(handler[h], new)
    BY <1>h, <1>11, <2>3 DEF ReadToAppend, At, Sound, Grows, Unborn, Unstored, Answering, Early, Extracting
  <2>5. QED
    BY <1>h, <2>1, <2>2, <2>3, <2>4, NewFits, NoFits, OneMoves
<1>12. CASE AppendMessage(h)
  <2>1. session' \in Session /\ Fits(handler, session') /\ UNCHANGED <<stored, drafts, notified>>
    BY <1>h, <1>12 DEF AppendMessage, Save
  <2>2. CASE handler[h].entry.stage = "CONFIRMING"
    <3>1. Sound(h, [handler[h] EXCEPT !.pc = "confirming"], drafts[h], stored)
      BY <1>h, <1>12, <2>2 DEF AppendMessage, At, Handler, Sound, Unborn, Unstored, Answering, Early, Extracting
    <3>2. Grows(handler[h], [handler[h] EXCEPT !.pc = "confirming"])
      BY <1>h, <1>12 DEF AppendMessage, At, Handler, Grows, Sound, Unborn, Unstored, Answering, Early, Extracting
    <3>3. QED
      BY <1>12, <2>1, <2>2, <3>1, <3>2, Goes DEF AppendMessage, HandlerState
  <2>3. CASE ~(handler[h].entry.stage = "CONFIRMING")
    <3>1. Sound(h, [handler[h] EXCEPT !.pc = "pipeline"], drafts[h], stored)
      BY <1>h, <1>12, <2>3 DEF AppendMessage, At, Handler, Sound, Unborn, Unstored, Answering, Early, Extracting
    <3>2. Grows(handler[h], [handler[h] EXCEPT !.pc = "pipeline"])
      BY <1>h, <1>12 DEF AppendMessage, At, Handler, Grows, Sound, Unborn, Unstored, Answering, Early, Extracting
    <3>3. QED
      BY <1>12, <2>1, <2>3, <3>1, <3>2, Goes DEF AppendMessage, HandlerState
  <2>4. QED
    BY <2>2, <2>3
<1>13. QED
  BY <1>1, <1>2, <1>3, <1>4, <1>5, <1>6, <1>7, <1>8, <1>9, <1>10, <1>11, <1>12 DEF Delivery

-----------------------------------------------------------------------------
(* Answers to a confirmation prompt *)

(* The order of the conversation becomes a draft. *)
LEMMA ConfirmSteps ==
  ASSUME ConversationAssumption, Data, NEW h \in Handlers, CreateDraftFromContext(h)
  PROVE  GoodStep
<1>h. /\ handler[h] \in Handler /\ Sound(h, handler[h], drafts[h], stored)
      /\ Fits(handler, handler[h].entry) /\ Fits(handler, handler[h].held)
      /\ session \in Session /\ Fits(handler, session)
      /\ handler[h].entry \in Session /\ handler[h].held \in Session
  BY HandlerIs
<1> DEFINE new == [handler[h] EXCEPT !.pc = "acknowledging"]
           draft == [kind |-> "confirmed", items |-> handler[h].entry.items]
<1>1. new \in Handler /\ new.pc = "acknowledging" /\ new.entry = handler[h].entry /\ new.held = handler[h].held
  BY <1>h DEF Handler, HandlerState
<1>2. draft \in Draft /\ draft.kind = "confirmed" /\ draft.items = handler[h].entry.items
  BY <1>h DEF Draft, DraftKind, Session
<1>3. /\ handler' = [handler EXCEPT ![h] = new] /\ drafts' = [drafts EXCEPT ![h] = draft]
      /\ UNCHANGED <<session, stored, notified>>
  BY DEF CreateDraftFromContext, Goto
<1>4. DataTyped'
  BY <1>1, <1>2, <1>3 DEF Data, DataTyped
<1>5. Sound(h, new, draft, stored) /\ Grows(handler[h], new)
  BY <1>h, <1>2 DEF CreateDraftFromContext, At, Handler, Sound, Grows, Unborn, Unstored, Answering, Early, Extracting
<1>6. Backed(handler, h, draft)
  <2>1. handler[h].entry.stage = "CONFIRMING" /\ handler[h].result = NoResult
    BY <1>h DEF CreateDraftFromContext, At, Sound, Unborn, Unstored, Answering, Early, Extracting
  <2>2. h \notin Merged(handler)
    BY <2>1 DEF Merged
  <2>3. QED
    BY <1>h, <1>2, <2>1, <2>2 DEF Fits, Backed
<1> HIDE DEF new, draft
<1>7. /\ handler'[h] = new /\ drafts'[h] = draft
      /\ \A g \in Handlers \ {h} : handler'[g] = handler[g] /\ drafts'[g] = drafts[g]
  BY <1>3 DEF Data, DataTyped
<1>8. Good(h)
  BY <1>h, <1>1, <1>3, <1>5, <1>6, <1>7 DEF Good
<1>9. \A g \in Handlers \ {h} : Good(g)
  BY <1>3, <1>7, StaysGood
<1>10. notified' # {} => Enough(handler)
  BY <1>3 DEF Data
<1>11. QED
  BY <1>h, <1>3, <1>4, <1>8, <1>9, <1>10, HandlersMove

LEMMA AnswerSteps ==
  ASSUME ConversationAssumption, Data, NEW h \in Handlers, Answer(h)
  PROVE  GoodStep
<1>h. /\ handler[h] \in Handler /\ Sound(h, handler[h], drafts[h], stored)
      /\ Fits(handler, handler[h].entry) /\ Fits(handler, handler[h].held)
      /\ session \in Session /\ Fits(handler, session)
      /\ handler[h].entry \in Session /\ handler[h].held \in Session
  BY HandlerIs
<1>1. CASE AnswerYes(h)
  <2> DEFINE new == [handler[h] EXCEPT !.pc = "transition", !.next = "PENDING_ORDER", !.held = session]
  <2>1. handler' = [handler EXCEPT ![h] = new] /\ UNCHANGED <<session, stored, drafts, notified>>
    BY <1>1 DEF AnswerYes
  <2>2. new \in Handler
    <3>1. "transition" \in HandlerState /\ "PENDING_ORDER" \in Stage
      BY DEF HandlerState, Reply, Stage
    <3>2. QED
      BY <1>h, <3>1 DEF Handler
  <2>3. /\ new.pc = "transition" /\ new.next = "PENDING_ORDER" /\ new.held = session
        /\ new.message = handler[h].message /\ new.entry = handler[h].entry /\ new.result = handler[h].result /\ new.sent = handler[h].sent
    BY <1>h DEF Handler
  <2> HIDE DEF new
  <2>4. Sound(h, new, drafts[h], stored) /\ Grows(handler[h], new)
    BY <1>h, <1>1, <2>3 DEF AnswerYes, At, Sound, Grows, Unborn, Unstored, Answering, Early, Extracting
  <2>5. QED
    BY <1>h, <2>1, <2>2, <2>3, <2>4, NewFits, NoFits, OneMoves
<1>2. CASE AnswerNo(h)
  <2> DEFINE new == [handler[h] EXCEPT !.pc = "transition", !.next = "ACTIVE", !.held = session]
  <2>1. handler' = [handler EXCEPT ![h] = new] /\ UNCHANGED <<session, stored, drafts, notified>>
    BY <1>2 DEF AnswerNo
  <2>2. new \in Handler
    <3>1. "transition" \in HandlerState /\ "ACTIVE" \in Stage
      BY DEF HandlerState, Reply, Stage
    <3>2. QED
      BY <1>h, <3>1 DEF Handler
  <2>3. /\ new.pc = "transition" /\ new.next = "ACTIVE" /\ new.held = session
        /\ new.message = handler[h].message /\ new.entry = handler[h].entry /\ new.result = handler[h].result /\ new.sent = handler[h].sent
    BY <1>h DEF Handler
  <2> HIDE DEF new
  <2>4. Sound(h, new, drafts[h], stored) /\ Grows(handler[h], new)
    BY <1>h, <1>2, <2>3 DEF AnswerNo, At, Sound, Grows, Unborn, Unstored, Answering, Early, Extracting
  <2>5. QED
    BY <1>h, <2>1, <2>2, <2>3, <2>4, NewFits, NoFits, OneMoves
<1>3. CASE AnswerOther(h)
  <2> DEFINE new == [handler[h] EXCEPT !.pc = "replying", !.sent = "fallback"]
  <2>1. handler' = [handler EXCEPT ![h] = new] /\ UNCHANGED <<session, stored, drafts, notified>>
    BY <1>3 DEF AnswerOther
  <2>2. new \in Handler
    <3>1. "replying" \in HandlerState /\ "fallback" \in Reply
      BY DEF HandlerState, Reply, Stage
    <3>2. QED
      BY <1>h, <3>1 DEF Handler
  <2>3. /\ new.pc = "replying" /\ new.sent = "fallback"
        /\ new.message = handler[h].message /\ new.entry = handler[h].entry /\ new.held = handler[h].held /\ new.next = handler[h].next /\ new.result = handler[h].result
    BY <1>h DEF Handler
  <2> HIDE DEF new
  <2>4. Sound(h, new, drafts[h], stored) /\ Grows(handler[h], new)
    BY <1>h, <1>3, <2>3 DEF AnswerOther, At, Sound, Grows, Unborn, Unstored, Answering, Early, Extracting
  <2>5. QED
    BY <1>h, <2>1, <2>2, <2>3, <2>4, NewFits, NoFits, OneMoves
<1>4. CASE Transition(h)
  <2>1. session' \in Session /\ Fits(handler, session') /\ UNCHANGED <<stored, drafts, notified>>
    <3>1. handler[h].next \in {"PENDING_ORDER", "ACTIVE"}
      BY <1>h, <1>4 DEF Transition, At, Sound
    <3>2. [handler[h].held EXCEPT !.stage = handler[h].next] \in Session
      BY <1>h, <3>1 DEF Session, Stage
    <3>3. Fits(handler, [handler[h].held EXCEPT !.stage = handler[h].next])
      BY <1>h, <3>1 DEF Session, Fits
    <3>4. QED
      BY <1>h, <1>4, <3>2, <3>3 DEF Transition, Save
  <2>2. CASE Goto(h, "transitionRow")
    <3>2. Sound(h, [handler[h] EXCEPT !.pc = "transitionRow"], drafts[h], stored)
      BY <1>h, <1>4 DEF Transition, At, Handler, Sound, Unborn, Unstored, Answering, Early, Extracting
    <3>3. Grows(handler[h], [handler[h] EXCEPT !.pc = "transitionRow"])
      BY <1>h, <1>4 DEF Transition, At, Handler, Grows, Sound, Unborn, Unstored, Answering, Early, Extracting
    <3>4. QED
      BY <2>1, <2>2, <3>2, <3>3, Goes DEF HandlerState
  <2>3. QED
    BY <1>4, <2>2 DEF Transition
<1>5. CASE TransitionRow(h)
  <2>1. session' \in Session /\ Fits(handler, session') /\ UNCHANGED <<stored, drafts, notified>>
    BY <1>h, <1>5 DEF TransitionRow
  <2>2. CASE handler[h].next = "PENDING_ORDER"
    <3>1. Sound(h, [handler[h] EXCEPT !.pc = "drafting"], drafts[h], stored)
      BY <1>h, <1>5, <2>2 DEF TransitionRow, At, Handler, Sound, Unborn, Unstored, Answering, Early, Extracting
    <3>2. Grows(handler[h], [handler[h] EXCEPT !.pc = "drafting"])
      BY <1>h, <1>5 DEF TransitionRow, At, Handler, Grows, Sound, Unborn, Unstored, Answering, Early, Extracting
    <3>3. QED
      BY <1>5, <2>1, <2>2, <3>1, <3>2, Goes DEF TransitionRow, HandlerState
  <2>3. CASE ~(handler[h].next = "PENDING_ORDER")
    <3>1. Sound(h, [handler[h] EXCEPT !.pc = "deleting"], drafts[h], stored)
      BY <1>h, <1>5, <2>3 DEF TransitionRow, At, Handler, Sound, Unborn, Unstored, Answering, Early, Extracting
    <3>2. Grows(handler[h], [handler[h] EXCEPT !.pc = "deleting"])
      BY <1>h, <1>5 DEF TransitionRow, At, Handler, Grows, Sound, Unborn, Unstored, Answering, Early, Extracting
    <3>3. QED
      BY <1>5, <2>1, <2>3, <3>1, <3>2, Goes DEF TransitionRow, HandlerState
  <2>4. QED
    BY <2>2, <2>3
<1>6. CASE CreateDraftFromContext(h)
  BY <1>6, ConfirmSteps
<1>7. CASE SendAcknowledgement(h)
  <2> DEFINE new == [handler[h] EXCEPT !.pc = "replying", !.sent = "acknowledgement"]
  <2>1. handler' = [handler EXCEPT ![h] = new] /\ UNCHANGED <<session, stored, drafts, notified>>
    BY <1>7 DEF SendAcknowledgement
  <2>2. new \in Handler
    <3>1. "replying" \in HandlerState /\ "acknowledgement" \in Reply
      BY DEF HandlerState, Reply, Stage
    <3>2. QED
      BY <1>h, <3>1 DEF Handler
  <2>3. /\ new.pc = "replying" /\ new.sent = "acknowledgement"
        /\ new.message = handler[h].message /\ new.entry = handler[h].entry /\ new.held = handler[h].held /\ new.next = handler[h].next /\ new.result = handler[h].result
    BY <1>h DEF Handler
  <2> HIDE DEF new
  <2>4. Sound(h, new, drafts[h], stored) /\ Grows(handler[h], new)
    BY <1>h, <1>7, <2>3 DEF SendAcknowledgement, At, Sound, Grows, Unborn, Unstored, Answering, Early, Extracting
  <2>5. QED
    BY <1>h, <2>1, <2>2, <2>3, <2>4, NewFits, NoFits, OneMoves
<1>8. CASE DeleteSession(h)
  <2>1. session' \in Session /\ Fits(handler, session') /\ UNCHANGED <<stored, drafts, notified>>
    BY <1>h, <1>8, NoFits DEF DeleteSession
  <2>2. CASE Goto(h, "completing")
    <3>2. Sound(h, [handler[h] EXCEPT !.pc = "completing"], drafts[h], stored)
      BY <1>h, <1>8 DEF DeleteSession, At, Handler, Sound, Unborn, Unstored, Answering, Early, Extracting
    <3>3. Grows(handler[h], [handler[h] EXCEPT !.pc = "completing"])
      BY <1>h, <1>8 DEF DeleteSession, At, Handler, Grows, Sound, Unborn, Unstored, Answering, Early, Extracting
    <3>4. QED
      BY <2>1, <2>2, <3>2, <3>3, Goes DEF HandlerState
  <2>3. QED
    BY <1>8, <2>2 DEF DeleteSession
<1>9. CASE CompleteRow(h)
  <2>1. session' \in Session /\ Fits(handler, session') /\ UNCHANGED <<stored, drafts, notified>>
    BY <1>h, <1>9 DEF CompleteRow
  <2>2. CASE drafts[h].kind = "none"
    <3>1. Sound(h, [handler[h] EXCEPT !.pc = "cancelling"], drafts[h], stored)
      BY <1>h, <1>9, <2>2 DEF CompleteRow, At, Handler, Sound, Unborn, Unstored, Answering, Early, Extracting
    <3>2. Grows(handler[h], [handler[h] EXCEPT !.pc = "cancelling"])
      BY <1>h, <1>9 DEF CompleteRow, At, Handler, Grows, Sound, Unborn, Unstored, Answering, Early, Extracting
    <3>3. QED
      BY <1>9, <2>1, <2>2, <3>1, <3>2, Goes DEF CompleteRow, HandlerState
  <2>3. CASE ~(drafts[h].kind = "none")
    BY <1>9, <2>1, <2>3, Returns DEF CompleteRow, At
  <2>4. QED
    BY <2>2, <2>3
<1>10. CASE CompleteFails(h)
  BY <1>h, <1>10, Returns DEF CompleteFails, At
<1>11. CASE SendCancelled(h)
  <2> DEFINE new == [Finished(handler[h]) EXCEPT !.sent = "cancelled"]
  <2>1. handler' = [handler EXCEPT ![h] = new] /\ UNCHANGED <<session, stored, drafts, notified>>
    BY <1>11 DEF SendCancelled
  <2>2. new \in Handler
    <3>1. "done" \in HandlerState /\ "cancelled" \in Reply /\ "ACTIVE" \in Stage
      BY DEF HandlerState, Reply, Stage
    <3>2. QED
      BY <1>h, <3>1, NoFits DEF Finished, Handler
  <2>3. /\ new.pc = "done" /\ new.sent = "cancelled" /\ new.entry = NoSession /\ new.held = NoSession
        /\ new.message = handler[h].message /\ new.result = handler[h].result
    BY <1>h DEF Handler, Finished
  <2> HIDE DEF new
  <2>4. Sound(h, new, drafts[h], stored) /\ Grows(handler[h], new)
    BY <1>h, <1>11, <2>3 DEF SendCancelled, At, Sound, Grows, Unborn, Unstored, Answering, Early, Extracting
  <2>5. QED
    BY <1>h, <2>1, <2>2, <2>3, <2>4, NoFits, OneMoves
<1>12. QED
  BY <1>1, <1>2, <1>3, <1>4, <1>5, <1>6, <1>7, <1>8, <1>9, <1>10, <1>11 DEF Answer

-----------------------------------------------------------------------------
(* The pipeline and the update of the session *)

(* The pipeline answers, and drafts a complete and confident order. *)
LEMMA PipelineSteps ==
  ASSUME ConversationAssumption, Data, NEW h \in Handlers, NEW result \in Results, RunPipeline(h, result)
  PROVE  GoodStep
<1>h. /\ handler[h] \in Handler /\ Sound(h, handler[h], drafts[h], stored)
      /\ Fits(handler, handler[h].entry) /\ Fits(handler, handler[h].held)
      /\ session \in Session /\ Fits(handler, session)
  BY HandlerIs
<1> DEFINE new == handler'[h]
           d == drafts'[h]
<1>1. /\ new \in Handler /\ new.result = result /\ new.message = handler[h].message
      /\ new.pc = IF result.order THEN "extracted" ELSE "done"
      /\ new.sent = handler[h].sent
      /\ new.entry \in {handler[h].entry, NoSession} /\ new.held \in {handler[h].held, NoSession}
  <2>1. "extracted" \in HandlerState /\ "done" \in HandlerState /\ "ACTIVE" \in Stage
    BY DEF HandlerState, Stage
  <2>2. CASE result.order
    <3>1. new = [handler[h] EXCEPT !.pc = "extracted", !.result = result]
      BY <2>2 DEF RunPipeline, Data, DataTyped
    <3>2. QED
      BY <1>h, <2>1, <2>2, <3>1 DEF Handler
  <2>3. CASE ~result.order
    <3>1. new = [Finished(handler[h]) EXCEPT !.result = result]
      BY <2>3 DEF RunPipeline, Data, DataTyped
    <3>2. QED
      BY <1>h, <2>1, <2>3, <3>1, NoFits DEF Handler, Finished
  <2>4. QED
    BY <2>2, <2>3
<1>2. /\ d \in Draft /\ d.kind # "confirmed"
      /\ d.kind # "none" => result.order /\ result.missing = "none"
  <2>1. drafts[h] \in Draft /\ drafts[h].kind = "none"
    BY <1>h DEF RunPipeline, At, Sound, Data, DataTyped, Unborn, Unstored, Answering, Early, Extracting
  <2>2. CASE Drafted(result)
    <3>1. d = [kind |-> "extracted", items |-> {h}]
      BY <2>2 DEF RunPipeline, Data, DataTyped
    <3>2. QED
      BY <2>2, <3>1 DEF Draft, DraftKind, Drafted
  <2>3. CASE ~Drafted(result)
    BY <2>1, <2>3 DEF RunPipeline
  <2>4. QED
    BY <2>2, <2>3
<1>3. /\ \A g \in Handlers \ {h} : handler'[g] = handler[g] /\ drafts'[g] = drafts[g]
      /\ UNCHANGED <<session, stored, notified>>
  BY DEF RunPipeline, Data, DataTyped
<1>4. DataTyped'
  <2>1. DOMAIN handler' = Handlers /\ handler' = [g \in Handlers |-> handler'[g]]
    BY DEF RunPipeline, Data, DataTyped
  <2>2. drafts' = [g \in Handlers |-> drafts'[g]]
    BY DEF RunPipeline, Data, DataTyped
  <2>3. (\A g \in Handlers : handler'[g] \in Handler) /\ (\A g \in Handlers : drafts'[g] \in Draft)
    BY <1>1, <1>2, <1>3 DEF Data, DataTyped
  <2>4. QED
    BY <1>3, <2>1, <2>2, <2>3 DEF Data, DataTyped
<1> HIDE DEF new, d
<1>5. Sound(h, new, d, stored)
  BY <1>h, <1>1, <1>2 DEF RunPipeline, At, Sound, Unborn, Unstored, Answering, Early, Extracting
<1>6. Grows(handler[h], new)
  BY <1>h, <1>1 DEF RunPipeline, At, Sound, Grows, Unborn, Unstored, Answering, Early, Extracting
<1>7. Good(h)
  <2>1. Fits(handler, new.entry) /\ Fits(handler, new.held)
    BY <1>h, <1>1, NoFits
  <2>2. Backed(handler, h, d) /\ new.pc \notin {"escalating", "handingOff"}
    BY <1>1, <1>2 DEF Backed
  <2>3. QED
    BY <1>1, <1>3, <1>5, <1>6, <2>1, <2>2 DEF Good, new, d
<1>8. \A g \in Handlers \ {h} : Good(g)
  BY <1>3, StaysGood
<1>9. notified' # {} => Enough(handler)
  BY <1>3 DEF Data
<1>10. QED
  BY <1>h, <1>3, <1>4, <1>7, <1>8, <1>9, HandlersMove

(* What was extracted joins the session, and may complete two turns. *)
LEMMA UpdateSteps ==
  ASSUME ConversationAssumption, Data, NEW h \in Handlers, UpdateSession(h)
  PROVE  GoodStep
<1>h. /\ handler[h] \in Handler /\ Sound(h, handler[h], drafts[h], stored)
      /\ Fits(handler, handler[h].entry) /\ Fits(handler, handler[h].held)
      /\ handler[h].held \in Session
  BY HandlerIs
<1> DEFINE held == handler[h].held
           result == handler[h].result
           next == NextStage(held.stage, result)
           new == [handler[h] EXCEPT !.pc = "updateRow", !.next = next]
           s == [held EXCEPT !.stage = next, !.items = @ \cup {h}]
<1>1. result \in Results /\ result # NoResult /\ handler[h].pc = "updating"
  BY <1>h DEF UpdateSession, At, Sound, Unborn, Unstored, Answering, Early, Extracting, ConversationAssumption
<1>2. next \in Stage
  BY <1>h DEF NextStage, Stage, Session
<1>3. /\ new \in Handler /\ new.pc = "updateRow" /\ new.entry = handler[h].entry /\ new.held = held
      /\ new.result = result /\ new.sent = handler[h].sent /\ new.message = handler[h].message
  <2>1. "updateRow" \in HandlerState
    BY DEF HandlerState
  <2>2. QED
    BY <1>h, <1>2, <2>1 DEF Handler
<1>4. /\ s \in Session /\ s.stage = next /\ s.items = held.items \cup {h}
      /\ s.attempts = held.attempts /\ s.handedOff = held.handedOff
  BY <1>h, <1>2 DEF Session
<1>5. /\ handler' = [handler EXCEPT ![h] = new] /\ session' = s
      /\ UNCHANGED <<stored, drafts, notified>>
  BY DEF UpdateSession
<1>6. next = "CONFIRMING" =>
        \/ held.stage = "CONFIRMING"
        \/ (held.stage = "GATHERING_INFO" /\ result.confidence > 80 /\ result.missing # "required")
  <2>1. held.stage \in Stage /\ result.confidence \in 0..100
    BY <1>h, <1>1 DEF Session, Result, ConversationAssumption
  <2>2. CASE result.missing = "required"
    BY <2>1, <2>2 DEF NextStage, Stage
  <2>3. CASE result.missing # "required" /\ held.stage = "ACTIVE"
    BY <2>1, <2>3 DEF NextStage
  <2>4. CASE result.missing # "required" /\ held.stage = "GATHERING_INFO"
    <3>1. CASE result.confidence > 80
      BY <2>4, <3>1
    <3>2. CASE result.confidence \in 61..80
      BY <2>1, <2>4, <3>2 DEF NextStage
    <3>3. CASE result.confidence \in 0..60
      BY <2>1, <2>4, <3>3 DEF NextStage
    <3>4. QED
      BY <2>1, <3>1, <3>2, <3>3
  <2>5. CASE result.missing # "required" /\ held.stage \notin {"ACTIVE", "GATHERING_INFO"}
    BY <2>1, <2>5 DEF NextStage
  <2>6. QED
    BY <2>2, <2>3, <2>4, <2>5
<1> HIDE DEF s, next, new
<1>7. Sound(h, new, drafts[h], stored) /\ Grows(handler[h], new)
  BY <1>h, <1>1, <1>3 DEF Sound, Grows, Unborn, Unstored, Answering, Early, Extracting
<1>8. handler'[h] = new /\ \A g \in Handlers \ {h} : handler'[g] = handler[g]
  BY <1>5 DEF Data, DataTyped
<1>9. Fits(handler', s)
  <2>1. AllGrow
    BY <1>7, <1>8 DEF AllGrow, Grows
  <2>2. Fits(handler', held)
    BY <1>h, <2>1, FitsStays
  <2>3. h \in Merged(handler') /\ h \notin Merged(handler)
    BY <1>1, <1>3, <1>8 DEF Merged
  <2>4. next = "CONFIRMING" => TwoTurns(handler', s.items)
    <3>1. CASE held.stage = "CONFIRMING"
      BY <1>4, <2>2, <3>1 DEF Fits, TwoTurns
    <3>2. CASE held.stage = "GATHERING_INFO" /\ result.confidence > 80 /\ result.missing # "required"
      <4>1. PICK asked \in held.items : asked # h
        BY <1>h, <2>3, <3>2 DEF Fits
      <4>2. handler'[h].result = result
        BY <1>3, <1>8
      <4>3. QED
        BY <1>4, <3>2, <4>1, <4>2 DEF TwoTurns
    <3>3. QED
      BY <1>6, <3>1, <3>2
  <2>5. QED
    BY <1>4, <2>2, <2>3, <2>4 DEF Fits
<1>10. QED
  BY <1>h, <1>3, <1>4, <1>5, <1>7, <1>9, OneMoves

LEMMA ExtractionSteps ==
  ASSUME ConversationAssumption, Data, NEW h \in Handlers, Extraction(h)
  PROVE  GoodStep
<1>h. /\ handler[h] \in Handler /\ Sound(h, handler[h], drafts[h], stored)
      /\ Fits(handler, handler[h].entry) /\ Fits(handler, handler[h].held)
      /\ session \in Session /\ Fits(handler, session)
      /\ handler[h].entry \in Session /\ handler[h].held \in Session
  BY HandlerIs
<1>1. CASE \E result \in Results : RunPipeline(h, result)
  BY <1>1, PipelineSteps
<1>2. CASE ReadToUpdate(h)
  <2>1. CASE Return(h)
    BY <1>h, <1>2, <2>1, Returns DEF ReadToUpdate, At
  <2>2. CASE Hold(h, "updating")
    <3> DEFINE new == [handler[h] EXCEPT !.pc = "updating", !.held = session]
    <3>1. handler' = [handler EXCEPT ![h] = new] /\ UNCHANGED <<session, stored, drafts, notified>>
      BY <1>2, <2>2 DEF ReadToUpdate, Hold
    <3>2. new \in Handler
      <4>1. "updating" \in HandlerState
        BY DEF HandlerState
      <4>2. QED
        BY <1>h, <4>1 DEF Handler
    <3>3. /\ new.pc = "updating" /\ new.held = session /\ new.entry = handler[h].entry /\ new.next = handler[h].next
          /\ new.message = handler[h].message /\ new.result = handler[h].result /\ new.sent = handler[h].sent
      BY <1>h DEF Handler
    <3> HIDE DEF new
    <3>4. Sound(h, new, drafts[h], stored) /\ Grows(handler[h], new)
      BY <1>h, <1>2, <3>3 DEF ReadToUpdate, At, Sound, Grows, Unborn, Unstored, Answering, Early, Extracting
    <3>5. new.pc \in {"escalating", "handingOff"} => Enough(handler)
      BY <1>2, <3>3 DEF ReadToUpdate, At, Data
    <3>6. QED
      BY <1>h, <3>1, <3>2, <3>3, <3>4, <3>5, OneMoves
  <2>3. QED
    BY <1>2, <2>1, <2>2 DEF ReadToUpdate
<1>3. CASE UpdateSession(h)
  BY <1>3, UpdateSteps
<1>4. CASE UpdateRow(h)
  <2>1. session' \in Session /\ Fits(handler, session') /\ UNCHANGED <<stored, drafts, notified>>
    BY <1>h, <1>4 DEF UpdateRow
  <2>2. CASE Goto(h, "deciding")
    <3>2. Sound(h, [handler[h] EXCEPT !.pc = "deciding"], drafts[h], stored)
      BY <1>h, <1>4 DEF UpdateRow, At, Handler, Sound, Unborn, Unstored, Answering, Early, Extracting
    <3>3. Grows(handler[h], [handler[h] EXCEPT !.pc = "deciding"])
      BY <1>h, <1>4 DEF UpdateRow, At, Handler, Grows, Sound, Unborn, Unstored, Answering, Early, Extracting
    <3>4. QED
      BY <2>1, <2>2, <3>2, <3>3, Goes DEF HandlerState
  <2>3. QED
    BY <1>4, <2>2 DEF UpdateRow
<1>5. QED
  BY <1>1, <1>2, <1>3, <1>4 DEF Extraction

-----------------------------------------------------------------------------
(* The reply *)

(* Whoever finds the limit reached finds that as many questions were asked. *)
LEMMA HandoffSteps ==
  ASSUME ConversationAssumption, Data, NEW h \in Handlers, ReadHandoff(h) \/ Escalate(h)
  PROVE  GoodStep
<1>h. /\ handler[h] \in Handler /\ Sound(h, handler[h], drafts[h], stored)
      /\ Fits(handler, handler[h].entry) /\ Fits(handler, handler[h].held)
      /\ session \in Session /\ Fits(handler, session) /\ handler[h].held \in Session
  BY HandlerIs
<1>1. CASE ReadHandoff(h)
  <2>1. UNCHANGED <<session, stored, drafts, notified>>
    BY <1>1 DEF ReadHandoff
  <2>2. MustEscalate => Enough(handler)
    <3>1. Cardinality(Asked(handler)) \in Nat /\ session.attempts \in Nat /\ MaxClarifications \in Nat
      BY <1>h, AskedFinite DEF Session, ConversationAssumption
    <3>2. QED
      BY <1>h, <3>1 DEF MustEscalate, Fits, Enough
  <2>3. PICK pc \in {"escalating", "asking"} : Goto(h, pc) /\ (pc = "escalating" => MustEscalate)
    BY <1>1 DEF ReadHandoff
  <2>4. Sound(h, [handler[h] EXCEPT !.pc = pc], drafts[h], stored)
    BY <1>h, <1>1 DEF ReadHandoff, At, Unclear, Handler, Sound, Unborn, Unstored, Answering, Early, Extracting
  <2>5. Grows(handler[h], [handler[h] EXCEPT !.pc = pc])
    BY <1>h, <1>1 DEF ReadHandoff, At, Handler, Grows, Sound, Unborn, Unstored, Answering, Early, Extracting
  <2>6. QED
    BY <1>h, <2>1, <2>2, <2>3, <2>4, <2>5, Goes DEF HandlerState
<1>2. CASE Escalate(h)
  <2> DEFINE new == [handler[h] EXCEPT !.pc = "apologising"]
             s == [handler[h].held EXCEPT !.handedOff = TRUE]
  <2>1. Enough(handler)
    BY <1>2 DEF Escalate, At, Data
  <2>2. /\ s \in Session /\ Fits(handler, s)
    BY <1>h, <2>1 DEF Session, Fits
  <2>3. /\ new \in Handler /\ new.pc = "apologising" /\ new.entry = handler[h].entry /\ new.held = handler[h].held
    BY <1>h DEF Handler, HandlerState
  <2>4. Sound(h, new, drafts[h], stored) /\ Grows(handler[h], new)
    BY <1>h, <1>2 DEF Escalate, At, Handler, Sound, Grows, Unborn, Unstored, Answering, Early, Extracting
  <2>5. /\ handler' = [handler EXCEPT ![h] = new] /\ session' = s
        /\ notified' = notified \cup {h} /\ UNCHANGED <<stored, drafts>>
    BY <1>2 DEF Escalate, Goto
  <2> HIDE DEF new, s
  <2>6. DataTyped'
    BY <2>2, <2>3, <2>5 DEF Data, DataTyped
  <2>7. handler'[h] = new /\ \A g \in Handlers \ {h} : handler'[g] = handler[g]
    BY <2>5 DEF Data, DataTyped
  <2>8. Good(h)
    BY <1>h, <2>3, <2>4, <2>5, <2>7 DEF Good, Data
  <2>9. \A g \in Handlers \ {h} : Good(g)
    BY <2>5, <2>7, StaysGood
  <2>10. QED
    BY <2>1, <2>2, <2>5, <2>6, <2>8, <2>9, HandlersMove
<1>3. QED
  BY <1>1, <1>2

(* A count that a session gains is a question more. *)
LEMMA CountSteps ==
  ASSUME ConversationAssumption, Data, NEW h \in Handlers, RegisterClarification(h)
  PROVE  GoodStep
<1>h. /\ handler[h] \in Handler /\ Sound(h, handler[h], drafts[h], stored)
      /\ Fits(handler, handler[h].entry) /\ Fits(handler, handler[h].held)
      /\ session \in Session /\ Fits(handler, session) /\ handler[h].held \in Session
  BY HandlerIs
<1> DEFINE new == [handler[h] EXCEPT !.pc = "scheduling"]
           s == [handler[h].held EXCEPT !.attempts = @ + 1]
<1>1. /\ new \in Handler /\ new.pc = "scheduling" /\ new.entry = handler[h].entry /\ new.held = handler[h].held
      /\ new.sent = handler[h].sent
  BY <1>h DEF Handler, HandlerState
<1>2. Sound(h, new, drafts[h], stored) /\ Grows(handler[h], new)
  BY <1>h DEF RegisterClarification, At, Handler, Sound, Grows, Unborn, Unstored, Answering, Early, Extracting
<1>3. /\ handler' = [handler EXCEPT ![h] = new] /\ session' \in {session, s}
      /\ UNCHANGED <<stored, drafts, notified>>
  BY DEF RegisterClarification, Goto, Save
<1>4. /\ s \in Session /\ s.stage = handler[h].held.stage /\ s.items = handler[h].held.items
      /\ s.attempts = handler[h].held.attempts + 1 /\ s.handedOff = handler[h].held.handedOff
      /\ handler[h].held.attempts \in Nat
  BY <1>h DEF Session
<1>5. handler'[h] = new /\ \A g \in Handlers \ {h} : handler'[g] = handler[g]
  BY <1>3 DEF Data, DataTyped
<1> HIDE DEF new, s
<1>6. AllGrow
  BY <1>2, <1>5 DEF AllGrow, Grows
<1>7. Fits(handler', s)
  <2>1. Fits(handler', handler[h].held)
    BY <1>h, <1>6, FitsStays
  <2>2. handler[h].sent = "question" /\ handler[h].pc = "counting"
    BY <1>h DEF RegisterClarification, At, Sound
  <2>3. h \notin Asked(handler) /\ h \in Asked(handler') /\ Asked(handler) \subseteq Asked(handler')
    BY <1>1, <1>5, <1>6, <2>2 DEF Asked, AllGrow, Grows
  <2>4. Cardinality(Asked(handler) \cup {h}) = Cardinality(Asked(handler)) + 1
    BY <2>3, AskedFinite, FS_AddElement
  <2>5. Cardinality(Asked(handler) \cup {h}) <= Cardinality(Asked(handler'))
    BY <2>3, AskedFinite, FS_Subset
  <2>6. s.attempts <= Cardinality(Asked(handler'))
    <3>1. Cardinality(Asked(handler)) \in Nat /\ Cardinality(Asked(handler')) \in Nat
      BY AskedFinite
    <3>2. QED
      BY <1>h, <1>4, <2>4, <2>5, <3>1 DEF Fits
  <2>7. QED
    BY <1>4, <2>1, <2>6 DEF Fits
<1>8. session' \in Session /\ (Fits(handler, session') \/ Fits(handler', session'))
  BY <1>h, <1>3, <1>4, <1>7
<1>9. QED
  BY <1>h, <1>1, <1>2, <1>3, <1>8, OneMoves

LEMMA ReplySteps ==
  ASSUME ConversationAssumption, Data, NEW h \in Handlers, Replying(h)
  PROVE  GoodStep
<1>h. /\ handler[h] \in Handler /\ Sound(h, handler[h], drafts[h], stored)
      /\ Fits(handler, handler[h].entry) /\ Fits(handler, handler[h].held)
      /\ session \in Session /\ Fits(handler, session)
      /\ handler[h].entry \in Session /\ handler[h].held \in Session
  BY HandlerIs
<1>1. CASE SendAlternatives(h)
  <2> DEFINE new == [handler[h] EXCEPT !.pc = "replying", !.sent = "alternatives"]
  <2>1. handler' = [handler EXCEPT ![h] = new] /\ UNCHANGED <<session, stored, drafts, notified>>
    BY <1>1 DEF SendAlternatives
  <2>2. new \in Handler
    <3>1. "replying" \in HandlerState /\ "alternatives" \in Reply
      BY DEF HandlerState, Reply, Stage
    <3>2. QED
      BY <1>h, <3>1 DEF Handler
  <2>3. /\ new.pc = "replying" /\ new.sent = "alternatives"
        /\ new.message = handler[h].message /\ new.entry = handler[h].entry /\ new.held = handler[h].held /\ new.next = handler[h].next /\ new.result = handler[h].result
    BY <1>h DEF Handler
  <2> HIDE DEF new
  <2>4. Sound(h, new, drafts[h], stored) /\ Grows(handler[h], new)
    BY <1>h, <1>1, <2>3 DEF SendAlternatives, At, Sound, Grows, Unborn, Unstored, Answering, Early, Extracting, Unclear
  <2>5. QED
    BY <1>h, <2>1, <2>2, <2>3, <2>4, NewFits, NoFits, OneMoves
<1>2. CASE ReadHandoff(h)
  BY <1>2, HandoffSteps
<1>3. CASE ReadToEscalate(h)
  <2>1. CASE Return(h)
    BY <1>h, <1>3, <2>1, Returns DEF ReadToEscalate, At
  <2>2. CASE Hold(h, "handingOff")
    <3> DEFINE new == [handler[h] EXCEPT !.pc = "handingOff", !.held = session]
    <3>1. handler' = [handler EXCEPT ![h] = new] /\ UNCHANGED <<session, stored, drafts, notified>>
      BY <1>3, <2>2 DEF ReadToEscalate, Hold
    <3>2. new \in Handler
      <4>1. "handingOff" \in HandlerState
        BY DEF HandlerState
      <4>2. QED
        BY <1>h, <4>1 DEF Handler
    <3>3. /\ new.pc = "handingOff" /\ new.held = session /\ new.entry = handler[h].entry /\ new.next = handler[h].next
          /\ new.message = handler[h].message /\ new.result = handler[h].result /\ new.sent = handler[h].sent
      BY <1>h DEF Handler
    <3> HIDE DEF new
    <3>4. Sound(h, new, drafts[h], stored) /\ Grows(handler[h], new)
      BY <1>h, <1>3, <3>3 DEF ReadToEscalate, At, Sound, Grows, Unborn, Unstored, Answering, Early, Extracting
    <3>5. new.pc \in {"escalating", "handingOff"} => Enough(handler)
      BY <1>3, <3>3 DEF ReadToEscalate, At, Data
    <3>6. QED
      BY <1>h, <3>1, <3>2, <3>3, <3>4, <3>5, OneMoves
  <2>3. QED
    BY <1>3, <2>1, <2>2 DEF ReadToEscalate
<1>4. CASE Escalate(h)
  BY <1>4, HandoffSteps
<1>5. CASE SendHandoff(h)
  <2> DEFINE new == [handler[h] EXCEPT !.pc = "replying", !.sent = "handoff"]
  <2>1. handler' = [handler EXCEPT ![h] = new] /\ UNCHANGED <<session, stored, drafts, notified>>
    BY <1>5 DEF SendHandoff
  <2>2. new \in Handler
    <3>1. "replying" \in HandlerState /\ "handoff" \in Reply
      BY DEF HandlerState, Reply, Stage
    <3>2. QED
      BY <1>h, <3>1 DEF Handler
  <2>3. /\ new.pc = "replying" /\ new.sent = "handoff"
        /\ new.message = handler[h].message /\ new.entry = handler[h].entry /\ new.held = handler[h].held /\ new.next = handler[h].next /\ new.result = handler[h].result
    BY <1>h DEF Handler
  <2> HIDE DEF new
  <2>4. Sound(h, new, drafts[h], stored) /\ Grows(handler[h], new)
    BY <1>h, <1>5, <2>3 DEF SendHandoff, At, Sound, Grows, Unborn, Unstored, Answering, Early, Extracting
  <2>5. QED
    BY <1>h, <2>1, <2>2, <2>3, <2>4, NewFits, NoFits, OneMoves
<1>6. CASE SendQuestion(h)
  <2> DEFINE new == [handler[h] EXCEPT !.pc = "replying", !.sent = "question"]
  <2>1. handler' = [handler EXCEPT ![h] = new] /\ UNCHANGED <<session, stored, drafts, notified>>
    BY <1>6 DEF SendQuestion
  <2>2. new \in Handler
    <3>1. "replying" \in HandlerState /\ "question" \in Reply
      BY DEF HandlerState, Reply, Stage
    <3>2. QED
      BY <1>h, <3>1 DEF Handler
  <2>3. /\ new.pc = "replying" /\ new.sent = "question"
        /\ new.message = handler[h].message /\ new.entry = handler[h].entry /\ new.held = handler[h].held /\ new.next = handler[h].next /\ new.result = handler[h].result
    BY <1>h DEF Handler
  <2> HIDE DEF new
  <2>4. Sound(h, new, drafts[h], stored) /\ Grows(handler[h], new)
    BY <1>h, <1>6, <2>3 DEF SendQuestion, At, Sound, Grows, Unborn, Unstored, Answering, Early, Extracting
  <2>5. QED
    BY <1>h, <2>1, <2>2, <2>3, <2>4, NewFits, NoFits, OneMoves
<1>7. CASE SendPrompt(h)
  <2> DEFINE new == [handler[h] EXCEPT !.pc = "replying", !.sent = "prompt"]
  <2>1. handler' = [handler EXCEPT ![h] = new] /\ UNCHANGED <<session, stored, drafts, notified>>
    BY <1>7 DEF SendPrompt
  <2>2. new \in Handler
    <3>1. "replying" \in HandlerState /\ "prompt" \in Reply
      BY DEF HandlerState, Reply, Stage
    <3>2. QED
      BY <1>h, <3>1 DEF Handler
  <2>3. /\ new.pc = "replying" /\ new.sent = "prompt"
        /\ new.message = handler[h].message /\ new.entry = handler[h].entry /\ new.held = handler[h].held /\ new.next = handler[h].next /\ new.result = handler[h].result
    BY <1>h DEF Handler
  <2> HIDE DEF new
  <2>4. Sound(h, new, drafts[h], stored) /\ Grows(handler[h], new)
    BY <1>h, <1>7, <2>3 DEF SendPrompt, At, Sound, Grows, Unborn, Unstored, Answering, Early, Extracting
  <2>5. QED
    BY <1>h, <2>1, <2>2, <2>3, <2>4, NewFits, NoFits, OneMoves
<1>8. CASE AcknowledgeDraft(h)
  <2> DEFINE new == [handler[h] EXCEPT !.pc = "replying", !.sent = "acknowledgement"]
  <2>1. handler' = [handler EXCEPT ![h] = new] /\ UNCHANGED <<session, stored, drafts, notified>>
    BY <1>8 DEF AcknowledgeDraft
  <2>2. new \in Handler
    <3>1. "replying" \in HandlerState /\ "acknowledgement" \in Reply
      BY DEF HandlerState, Reply, Stage
    <3>2. QED
      BY <1>h, <3>1 DEF Handler
  <2>3. /\ new.pc = "replying" /\ new.sent = "acknowledgement"
        /\ new.message = handler[h].message /\ new.entry = handler[h].entry /\ new.held = handler[h].held /\ new.next = handler[h].next /\ new.result = handler[h].result
    BY <1>h DEF Handler
  <2> HIDE DEF new
  <2>4. Sound(h, new, drafts[h], stored) /\ Grows(handler[h], new)
    BY <1>h, <1>8, <2>3 DEF AcknowledgeDraft, At, Sound, Grows, Unborn, Unstored, Answering, Early, Extracting
  <2>5. QED
    BY <1>h, <2>1, <2>2, <2>3, <2>4, NewFits, NoFits, OneMoves
<1>9. CASE StaySilent(h)
  BY <1>h, <1>9, Returns DEF StaySilent, At
<1>10. CASE ReadToReply(h)
  <2> DEFINE new == [handler[h] EXCEPT !.pc = "noting", !.held = session]
  <2>1. handler' = [handler EXCEPT ![h] = new] /\ UNCHANGED <<session, stored, drafts, notified>>
    BY <1>10 DEF ReadToReply, Hold
  <2>2. new \in Handler
    <3>1. "noting" \in HandlerState
      BY DEF HandlerState, Reply, Stage
    <3>2. QED
      BY <1>h, <3>1 DEF Handler
  <2>3. /\ new.pc = "noting" /\ new.held = session
        /\ new.message = handler[h].message /\ new.entry = handler[h].entry /\ new.next = handler[h].next /\ new.result = handler[h].result /\ new.sent = handler[h].sent
    BY <1>h DEF Handler
  <2> HIDE DEF new
  <2>4. Sound(h, new, drafts[h], stored) /\ Grows(handler[h], new)
    BY <1>h, <1>10, <2>3 DEF ReadToReply, At, Sound, Grows, Unborn, Unstored, Answering, Early, Extracting
  <2>5. QED
    BY <1>h, <2>1, <2>2, <2>3, <2>4, NewFits, NoFits, OneMoves
<1>11. CASE NoteReply(h)
  <2>1. session' \in Session /\ Fits(handler, session') /\ UNCHANGED <<stored, drafts, notified>>
    BY <1>h, <1>11 DEF NoteReply, Save
  <2>2. CASE handler[h].sent \notin {"acknowledgement", "question"}
    BY <1>11, <2>1, <2>2, Returns DEF NoteReply, At
  <2>3. ASSUME NEW pc \in {"deleting", "registering"}, Goto(h, pc), pc = "registering" => handler[h].sent = "question"
        PROVE  GoodStep
    <3>1. Sound(h, [handler[h] EXCEPT !.pc = pc], drafts[h], stored)
      BY <1>h, <1>11, <2>3 DEF NoteReply, At, Handler, Sound, Unborn, Unstored, Answering, Early, Extracting
    <3>2. Grows(handler[h], [handler[h] EXCEPT !.pc = pc])
      BY <1>h, <1>11, <2>3 DEF NoteReply, At, Handler, Grows, Sound, Unborn, Unstored, Answering, Early, Extracting
    <3>3. QED
      BY <2>1, <2>3, <3>1, <3>2, Goes DEF HandlerState
  <2>4. QED
    BY <1>11, <2>2, <2>3 DEF NoteReply
<1>12. CASE ReadToRegister(h)
  <2> DEFINE new == [handler[h] EXCEPT !.pc = "counting", !.held = session]
  <2>1. handler' = [handler EXCEPT ![h] = new] /\ UNCHANGED <<session, stored, drafts, notified>>
    BY <1>12 DEF ReadToRegister, Hold
  <2>2. new \in Handler
    <3>1. "counting" \in HandlerState
      BY DEF HandlerState, Reply, Stage
    <3>2. QED
      BY <1>h, <3>1 DEF Handler
  <2>3. /\ new.pc = "counting" /\ new.held = session
        /\ new.message = handler[h].message /\ new.entry = handler[h].entry /\ new.next = handler[h].next /\ new.result = handler[h].result /\ new.sent = handler[h].sent
    BY <1>h DEF Handler
  <2> HIDE DEF new
  <2>4. Sound(h, new, drafts[h], stored) /\ Grows(handler[h], new)
    BY <1>h, <1>12, <2>3 DEF ReadToRegister, At, Sound, Grows, Unborn, Unstored, Answering, Early, Extracting
  <2>5. QED
    BY <1>h, <2>1, <2>2, <2>3, <2>4, NewFits, NoFits, OneMoves
<1>13. CASE RegisterClarification(h)
  BY <1>13, CountSteps
<1>14. CASE ScheduleCheck(h)
  BY <1>h, <1>14, Returns DEF ScheduleCheck, At
<1>15. QED
  BY <1>1, <1>2, <1>3, <1>4, <1>5, <1>6, <1>7, <1>8, <1>9, <1>10, <1>11, <1>12, <1>13, <1>14 DEF Replying

-----------------------------------------------------------------------------
(* Faults and the job *)

(* A handler that throws returns; those that a restart ends return at once. *)
LEMMA FaultSteps ==
  ASSUME ConversationAssumption, Data, Crash \/ Expire \/ \E h \in Handlers : Fail(h)
  PROVE  GoodStep
<1>s. session \in Session /\ Fits(handler, session) /\ (notified # {} => Enough(handler))
  BY DEF Data, DataTyped
<1>1. ASSUME NEW h \in Handlers, Fail(h) PROVE GoodStep
  BY <1>s, <1>1, Returns DEF Fail, Live
<1>2. CASE Expire
  <2>1. session' = NoSession /\ UNCHANGED <<handler, stored, drafts, notified>>
    BY <1>2 DEF Expire
  <2>2. DataTyped'
    BY <2>1, NoFits DEF Data, DataTyped
  <2>3. \A g \in Handlers : Good(g)
    BY <2>1, StaysGood
  <2>4. QED
    BY <1>s, <2>1, <2>2, <2>3, NoFits, HandlersMove
<1>3. CASE Crash
  <2>1. /\ \A h \in Handlers : handler'[h] = IF h \in Live THEN Finished(handler[h]) ELSE handler[h]
        /\ handler' = [h \in Handlers |-> handler'[h]]
        /\ UNCHANGED <<session, stored, drafts, notified>>
    BY <1>3 DEF Crash
  <2>2. ASSUME NEW h \in Handlers PROVE Good(h)
    <3>1. CASE h \notin Live
      BY <2>1, <3>1, StaysGood
    <3>2. CASE h \in Live
      BY <2>1, <3>2, FinishesGood DEF Live
    <3>3. QED
      BY <3>1, <3>2
  <2>3. DataTyped'
    BY <2>1, <2>2 DEF Data, DataTyped, Good
  <2>4. QED
    BY <1>s, <2>1, <2>2, <2>3, HandlersMove
<1>4. QED
  BY <1>1, <1>2, <1>3

(* The job only deletes the session. *)
LEMMA JobSteps ==
  ASSUME ConversationAssumption, Data, NEW c \in Handlers, CheckAbandoned(c)
  PROVE  GoodStep
<1>1. session' \in {session, NoSession} /\ UNCHANGED <<handler, stored, drafts, notified>>
  BY DEF CheckAbandoned, CheckFindsAbandoned, CheckSkips, AbandonSession, AbandonRow, SendFollowUp
<1>2. session' \in Session /\ Fits(handler, session')
  BY <1>1, NoFits DEF Data, DataTyped
<1>3. DataTyped'
  BY <1>1, <1>2 DEF Data, DataTyped
<1>4. \A g \in Handlers : Good(g)
  BY <1>1, StaysGood
<1>5. notified' # {} => Enough(handler)
  BY <1>1 DEF Data
<1>6. QED
  BY <1>2, <1>3, <1>4, <1>5, HandlersMove

LEMMA DataSteps ==
  ASSUME ConversationAssumption, Data, [Next]_vars
  PROVE  GoodStep
<1>1. CASE UNCHANGED vars
  <2>1. UNCHANGED <<handler, session, stored, drafts, notified>>
    BY <1>1 DEF vars
  <2>2. DataTyped' /\ Fits(handler, session') /\ (notified' # {} => Enough(handler))
    BY <2>1 DEF Data, DataTyped
  <2>3. \A g \in Handlers : Good(g)
    BY <2>1, StaysGood
  <2>4. QED
    BY <2>2, <2>3, HandlersMove
<1>2. CASE Next
  BY <1>2, DeliverySteps, AnswerSteps, ExtractionSteps, ReplySteps, FaultSteps, JobSteps DEF Next
<1>3. QED
  BY <1>1, <1>2

-----------------------------------------------------------------------------
(* The rows of the conversations *)

(* What a step does to a row: a handler makes its own, and ACTIVE ones are *)
(* restaged or closed.                                                     *)
RowMoves(c) ==
  \/ rows'[c] = rows[c]
  \/ handler[c].pc \in Unborn /\ handler'[c].pc \notin Unborn /\ rows[c].status = "NONE"
  \/ rows[c].status = "ACTIVE" /\ rows'[c].status # "NONE"

LEMMA RowSteps ==
  ASSUME ConversationAssumption, IInv, [Next]_vars
  PROVE  rows' \in [Handlers -> ConversationRow] /\ \A c \in Handlers : RowMoves(c)
<1> DEFINE Result2 == rows' \in [Handlers -> ConversationRow] /\ \A c \in Handlers : RowMoves(c)
<1>r. /\ rows \in [Handlers -> ConversationRow]
      /\ \A h \in Handlers : handler[h].pc \in Unborn => rows[h].status = "NONE"
  BY DEF IInv, RowsFit
<1>1. ASSUME UNCHANGED rows PROVE Result2
  BY <1>r, <1>1 DEF RowMoves
<1>2. ASSUME NEW stage \in Stage, rows' = SetStage(stage) PROVE Result2
  <2>1. ASSUME NEW c \in Handlers PROVE rows'[c] \in ConversationRow /\ RowMoves(c)
    BY <1>r, <1>2 DEF SetStage, ConversationRow, RowMoves
  <2>2. rows' = [c \in Handlers |-> rows'[c]]
    BY <1>2 DEF SetStage
  <2>3. QED
    BY <2>1, <2>2
<1>3. ASSUME NEW status \in RowStatus \ {"NONE"}, NEW stage \in Stage, rows' = CloseAs(status, stage)
      PROVE  Result2
  <2>1. ASSUME NEW c \in Handlers PROVE rows'[c] \in ConversationRow /\ RowMoves(c)
    BY <1>r, <1>3 DEF CloseAs, ConversationRow, RowMoves
  <2>2. rows' = [c \in Handlers |-> rows'[c]]
    BY <1>3 DEF CloseAs
  <2>3. QED
    BY <2>1, <2>2
<1>4. ASSUME NEW h \in Handlers, StartConversation(h) PROVE Result2
  <2>1. handler[h].pc \in Unborn /\ rows[h].status = "NONE"
    BY <1>r, <1>4 DEF StartConversation, At, Unborn
  <2>2. handler'[h].pc \notin Unborn
    <3>1. handler \in [Handlers -> Handler]
      BY DEF IInv, Data, DataTyped
    <3>2. handler'[h].pc = "hydrating"
      BY <1>4, <3>1 DEF StartConversation, Handler
    <3>3. QED
      BY <3>2 DEF Unborn
  <2>3. rows' = [rows EXCEPT ![h] = [status |-> "ACTIVE", stage |-> "ACTIVE"]]
    BY <1>4 DEF StartConversation
  <2>4. QED
    BY <1>r, <2>1, <2>2, <2>3 DEF ConversationRow, RowStatus, Stage, RowMoves
<1>5. ASSUME NEW c \in Handlers, AbandonRow(c) PROVE Result2
  <2>1. CASE UNCHANGED rows
    BY <1>1, <2>1
  <2>2. CASE rows' = [b \in Handlers |->
                       IF rows[b].status = "ACTIVE" THEN [rows[b] EXCEPT !.status = "ABANDONED"]
                                                    ELSE rows[b]]
    <3>1. ASSUME NEW b \in Handlers PROVE rows'[b] \in ConversationRow /\ RowMoves(b)
      BY <1>r, <2>2 DEF ConversationRow, RowStatus, RowMoves
    <3>2. QED
      BY <2>2, <3>1
  <2>3. QED
    BY <1>5, <2>1, <2>2 DEF AbandonRow
<1>6. ASSUME NEW h \in Handlers, TransitionRow(h) \/ UpdateRow(h) PROVE Result2
  <2>1. handler[h].next \in Stage
    BY DEF IInv, Data, DataTyped, Handler
  <2>2. QED
    BY <1>2, <1>6, <2>1 DEF TransitionRow, UpdateRow
<1>7. ASSUME NEW h \in Handlers, CompleteRow(h) PROVE Result2
  <2>1. rows' = CloseAs("COMPLETED", "CLOSED")
    BY <1>7 DEF CompleteRow
  <2>2. QED
    BY <1>3, <2>1 DEF RowStatus, Stage
<1>8. ASSUME NEW h \in Handlers, Delivery(h) PROVE Result2
  <2>1. CASE StartConversation(h)
    BY <1>4, <2>1
  <2>2. CASE ~StartConversation(h)
    BY <1>1, <1>8, <2>2 DEF Delivery, Receive, Deduplicate, FindCustomer, CreateCustomer, FindSession,
         FindRow, StartFails, CreateSession, StoreMessage, ReadToAppend, AppendMessage
  <2>3. QED
    BY <2>1, <2>2
<1>9. ASSUME NEW h \in Handlers, Answer(h) PROVE Result2
  BY <1>1, <1>6, <1>7, <1>9 DEF Answer, AnswerYes, AnswerNo, AnswerOther, Transition,
       CreateDraftFromContext, SendAcknowledgement, DeleteSession, CompleteFails, SendCancelled
<1>10. ASSUME NEW h \in Handlers, Extraction(h) PROVE Result2
  BY <1>1, <1>6, <1>10 DEF Extraction, RunPipeline, ReadToUpdate, UpdateSession
<1>11. ASSUME NEW h \in Handlers, Replying(h) PROVE Result2
  BY <1>1, <1>11 DEF Replying, SendAlternatives, ReadHandoff, ReadToEscalate, Escalate, SendHandoff,
       SendQuestion, SendPrompt, AcknowledgeDraft, StaySilent, ReadToReply, NoteReply, ReadToRegister,
       RegisterClarification, ScheduleCheck
<1>12. ASSUME NEW c \in Handlers, CheckAbandoned(c) PROVE Result2
  BY <1>1, <1>5, <1>12 DEF CheckAbandoned, CheckFindsAbandoned, CheckSkips, AbandonSession, SendFollowUp
<1>13. CASE Crash \/ Expire \/ (\E h \in Handlers : Fail(h)) \/ UNCHANGED vars
  BY <1>1, <1>13 DEF Crash, Expire, Fail, vars
<1>14. QED
  BY <1>8, <1>9, <1>10, <1>11, <1>12, <1>13 DEF Next

(* The other variables that no handler reads. *)
LEMMA OtherSteps ==
  ASSUME ConversationAssumption, IInv, [Next]_vars
  PROVE  known' \in BOOLEAN /\ faults' \in 0..MaxFaults /\ job' \in [Handlers -> JobState]
<1>t. known \in BOOLEAN /\ faults \in 0..MaxFaults /\ job \in [Handlers -> JobState]
  BY DEF IInv, RowsFit
<1> DEFINE Typed == known' \in BOOLEAN /\ faults' \in 0..MaxFaults /\ job' \in [Handlers -> JobState]
<1>1. ASSUME NEW h \in Handlers, Delivery(h) PROVE Typed
  <2>1. UNCHANGED <<faults, job>> /\ known' \in {known, TRUE}
    BY <1>1 DEF Delivery, Receive, Deduplicate, FindCustomer, CreateCustomer, FindSession,
         FindRow, StartConversation, StartFails, CreateSession, StoreMessage, ReadToAppend, AppendMessage
  <2>2. QED
    BY <1>t, <2>1
<1>2. ASSUME NEW h \in Handlers, Answer(h) \/ Extraction(h) PROVE Typed
  <2>1. UNCHANGED <<faults, job, known>>
    BY <1>2 DEF Answer, AnswerYes, AnswerNo, AnswerOther, Transition, TransitionRow,
         CreateDraftFromContext, SendAcknowledgement, DeleteSession, CompleteRow, CompleteFails,
         SendCancelled, Extraction, RunPipeline, ReadToUpdate, UpdateSession, UpdateRow
  <2>2. QED
    BY <1>t, <2>1
<1>3. ASSUME NEW h \in Handlers, Replying(h) PROVE Typed
  <2>1. UNCHANGED <<faults, known>>
    BY <1>3 DEF Replying, SendAlternatives, ReadHandoff, ReadToEscalate, Escalate, SendHandoff,
         SendQuestion, SendPrompt, AcknowledgeDraft, StaySilent, ReadToReply, NoteReply, ReadToRegister,
         RegisterClarification, ScheduleCheck
  <2>2. CASE ScheduleCheck(h)
    BY <1>t, <2>1, <2>2 DEF ScheduleCheck, JobState
  <2>3. CASE ~ScheduleCheck(h)
    <3>1. UNCHANGED job
      BY <1>3, <2>3 DEF Replying, SendAlternatives, ReadHandoff, ReadToEscalate, Escalate, SendHandoff,
           SendQuestion, SendPrompt, AcknowledgeDraft, StaySilent, ReadToReply, NoteReply, ReadToRegister,
           RegisterClarification
    <3>2. QED
      BY <1>t, <2>1, <3>1
  <2>4. QED
    BY <2>2, <2>3
<1>4. ASSUME NEW c \in Handlers, CheckAbandoned(c) PROVE Typed
  <2>1. UNCHANGED <<faults, known>> /\ job' \in [Handlers -> JobState]
    BY <1>t, <1>4 DEF CheckAbandoned, CheckFindsAbandoned, CheckSkips, AbandonSession, AbandonRow,
         SendFollowUp, JobState
  <2>2. QED
    BY <1>t, <2>1
<1>5. CASE Expire \/ \E h \in Handlers : Fail(h)
  <2>1. faults < MaxFaults /\ faults' = faults + 1 /\ UNCHANGED <<known, job>>
    BY <1>5 DEF Expire, Fail
  <2>2. QED
    BY <1>t, <2>1 DEF ConversationAssumption
<1>6. CASE Crash
  <2>1. faults < MaxFaults /\ faults' = faults + 1 /\ UNCHANGED known
    BY <1>6 DEF Crash
  <2>2. job' \in [Handlers -> JobState]
    BY <1>t, <1>6 DEF Crash, JobState
  <2>3. QED
    BY <1>t, <2>1, <2>2 DEF ConversationAssumption
<1>7. CASE UNCHANGED vars
  BY <1>t, <1>7 DEF vars
<1>8. QED
  BY <1>1, <1>2, <1>3, <1>4, <1>5, <1>6, <1>7 DEF Next

-----------------------------------------------------------------------------
LEMMA IInvInit ==
  ASSUME ConversationAssumption, Init
  PROVE  IInv
<1>1. NewHandler \in Handler /\ NewHandler.pc = "idle" /\ NewHandler.entry = NoSession
      /\ NewHandler.held = NoSession /\ NewHandler.sent = "none" /\ NewHandler.result = NoResult
  <2>1. "idle" \in HandlerState /\ "none" \in Reply /\ "ACTIVE" \in Stage
    BY DEF HandlerState, Reply, Stage
  <2>2. QED
    BY <2>1, NoFits DEF NewHandler, Handler
<1>2. [kind |-> "none", items |-> {}] \in Draft
  BY DEF Draft, DraftKind
<1>3. DataTyped
  BY <1>1, <1>2, NoFits DEF Init, DataTyped
<1>4. ASSUME NEW h \in Handlers
      PROVE  /\ Fits(handler, handler[h].entry) /\ Fits(handler, handler[h].held)
             /\ Sound(h, handler[h], drafts[h], stored)
             /\ Backed(handler, h, drafts[h])
             /\ handler[h].pc \in {"escalating", "handingOff"} => Enough(handler)
  <2>1. handler[h] = NewHandler /\ drafts[h].kind = "none"
    BY DEF Init
  <2>2. Sound(h, handler[h], drafts[h], stored)
    BY <1>1, <2>1 DEF Sound, Unborn, Unstored, Answering, Early, Extracting
  <2>3. QED
    BY <1>1, <2>1, <2>2, NoFits DEF Backed
<1>5. Data
  BY <1>3, <1>4, NoFits DEF Init, Data
<1>6. RowsFit
  <2>1. faults \in 0..MaxFaults
    BY DEF Init, ConversationAssumption
  <2>2. rows \in [Handlers -> ConversationRow] /\ \A h \in Handlers : rows[h].status = "NONE"
    BY DEF Init, ConversationRow, RowStatus, Stage
  <2>3. job \in [Handlers -> JobState] /\ known \in BOOLEAN
    BY DEF Init, JobState
  <2>4. QED
    BY <2>1, <2>2, <2>3 DEF RowsFit
<1>7. QED
  BY <1>5, <1>6 DEF IInv

LEMMA IInvStep ==
  ASSUME ConversationAssumption, IInv, [Next]_vars
  PROVE  IInv'
<1>1. Data' /\ AllGrow
  BY DataSteps DEF GoodStep, IInv
<1>2. rows' \in [Handlers -> ConversationRow] /\ \A c \in Handlers : RowMoves(c)
  BY RowSteps
<1>3. \A h \in Handlers : handler'[h].pc \in Unborn => rows'[h].status = "NONE"
  <2> TAKE h \in Handlers
  <2>1. handler'[h].pc \in Unborn => handler[h].pc \in Unborn
    BY <1>1 DEF AllGrow, Grows
  <2>2. handler[h].pc \in Unborn => rows[h].status = "NONE"
    BY DEF IInv, RowsFit
  <2>3. QED
    BY <1>2, <2>1, <2>2 DEF RowMoves
<1>4. QED
  BY <1>1, <1>2, <1>3, OtherSteps DEF IInv, RowsFit

LEMMA Inductive == Spec => []IInv
<1>1. Init => IInv
  BY IInvInit, ConversationAssumption
<1>2. IInv /\ [Next]_vars => IInv'
  BY IInvStep, ConversationAssumption
<1>3. QED
  BY <1>1, <1>2, PTL DEF Spec

-----------------------------------------------------------------------------
(* Every variable keeps its type, whatever the handlers, the job and the   *)
(* faults interleave to.                                                   *)
THEOREM TypeCorrect == Spec => []TypeOK
<1>1. IInv => TypeOK
  BY DEF IInv, Data, DataTyped, RowsFit, TypeOK
<1>2. QED
  BY <1>1, Inductive, PTL

(* However often and however concurrently a message is delivered, and      *)
(* whatever fails, it gives at most one draft (processIncomingText).       *)
THEOREM OneDraft == Spec => []OneDraftPerMessage
<1>1. IInv => OneDraftPerMessage
  BY DEF IInv, Data, Sound, OneDraftPerMessage
<1>2. QED
  BY <1>1, Inductive, PTL

(* Lost updates of the session never make a Yes confirm what was not asked *)
(* for and answered in earlier messages (nextStage).                       *)
THEOREM TwoTurnsTaken == Spec => []ConfirmationTakesTwoTurns
<1>1. IInv => ConfirmationTakesTwoTurns
  BY DEF IInv, Data, Backed, TwoTurns, ConfirmationTakesTwoTurns
<1>2. QED
  BY <1>1, Inductive, PTL

(* Updates of the counter that are lost only delay the call of the owner   *)
(* (HumanHandoffService).                                                  *)
THEOREM QuestionsComeFirst == Spec => []QuestionsBeforeHandoff
<1>1. ConversationAssumption /\ IInv => QuestionsBeforeHandoff
  <2> SUFFICES ASSUME ConversationAssumption, IInv, notified # {}
               PROVE  Cardinality(Questions) >= MaxClarifications
    BY DEF QuestionsBeforeHandoff
  <2>1. Asked(handler) \subseteq Questions /\ IsFiniteSet(Questions)
    BY FS_Subset DEF Asked, Questions, ConversationAssumption
  <2>2. /\ Cardinality(Asked(handler)) \in Nat /\ Cardinality(Questions) \in Nat
        /\ Cardinality(Asked(handler)) <= Cardinality(Questions)
    BY <2>1, FS_Subset, FS_CardinalityType
  <2>3. Enough(handler)
    BY DEF IInv, Data
  <2>4. QED
    BY <2>2, <2>3 DEF Enough, ConversationAssumption
<1>2. QED
  BY <1>1, Inductive, ConversationAssumption, PTL

(* What the customer is told agrees with what was drafted (processMessage  *)
(* and createDraftFromContext against the replies).                        *)
THEOREM RepliesMatch == Spec => []RepliesMatchDrafts
<1>1. IInv => RepliesMatchDrafts
  BY DEF IInv, Data, Sound, RepliesMatchDrafts
<1>2. QED
  BY <1>1, Inductive, PTL

(* No handler or job changes a conversation that was closed in the         *)
(* meantime (completeConversation, abandonConversation, updateStage).      *)
THEOREM ClosedStay == Spec => ClosedConversationsStay
<1>1. ASSUME ConversationAssumption, IInv, [Next]_vars
      PROVE  [\A c \in Handlers :
                rows[c].status \in {"COMPLETED", "ABANDONED"} => rows'[c] = rows[c]]_vars
  BY <1>1, RowSteps DEF RowMoves
<1>2. QED
  BY <1>1, Inductive, ConversationAssumption, PTL DEF Spec, ClosedConversationsStay

-----------------------------------------------------------------------------
(* One delivery at a time *)

(* The items of the drafts ds that were confirmed. *)
ConfirmedOf(ds) == {f \in Handlers : ds[f].kind = "confirmed"}
Taken(ds) == {g \in Handlers : \E f \in ConfirmedOf(ds) : g \in ds[f].items}

(* A session whose items were confirmed has left CONFIRMING for good. *)
Unspent(taken, s) == s.items \cap taken # {} => s.stage = "PENDING_ORDER"

(* Where a handler is about to start a session, where it knows the session *)
(* of its entry, and where it writes the session it holds.                 *)
Starting  == {"sessionless", "starting", "hydrating"}
Entering  == {"entered", "stored", "appending", "confirming", "transition"}
Holding   == {"appending", "transition", "updating", "handingOff", "noting", "counting"}
Involved  == Starting \cup Entering \cup Holding \cup {"transitionRow", "drafting"}

(* A Yes was written to the session. *)
Confirming(r) == r.pc = "drafting" \/ (r.pc = "transitionRow" /\ r.next = "PENDING_ORDER")

(* Handler state r is the only one: session s is the one it read, or lost. *)
Alone(r, s, taken) ==
  /\ r.pc \in Starting => s = NoSession
  /\ r.pc = "hydrating" => r.entry.items = {}
  /\ r.pc \in Entering => s \in {NoSession, r.entry}
  /\ r.pc \in Entering \cup {"transitionRow", "drafting"} => Unspent(taken, r.entry)
  /\ r.pc \in Holding => s \in {NoSession, r.held} /\ Unspent(taken, r.held)
  /\ r.pc \in {"appending", "transition"} => r.held \in {NoSession, r.entry}
  /\ r.pc \in {"confirming", "transition"} => r.entry.stage = "CONFIRMING"
  /\ Confirming(r) => s = NoSession \/ s.stage = "PENDING_ORDER"

(* What is inductive besides IInv when deliveries come one at a time. *)
TurnInv ==
  /\ \A g, h \in Live : g = h
  /\ Unspent(Taken(drafts), session)
  /\ ConfirmedOnce
  /\ \A h \in Live : Alone(handler[h], session, Taken(drafts))

(* What a step must come to. *)
Escalated == session.handedOff => session'.handedOff \/ session' = NoSession
TurnStep == TurnInv' /\ Escalated

LEMMA NoSessionIs ==
  /\ NoSession.items = {} /\ ~NoSession.handedOff /\ NoSession.stage = "ACTIVE"
  /\ \A c : NewSession(c).items = {} /\ ~NewSession(c).handedOff
  /\ \A taken : Unspent(taken, NoSession)
BY DEF NoSession, NewSession, Unspent

(* What the invariants say of the handler that moves. *)
LEMMA AloneIs ==
  ASSUME Data, TurnInv, NEW h \in Handlers, handler[h].pc \notin {"idle", "done"}
  PROVE  /\ handler[h] \in Handler /\ Sound(h, handler[h], drafts[h], stored)
         /\ session \in Session /\ handler[h].held \in Session /\ handler[h].entry \in Session
         /\ Alone(handler[h], session, Taken(drafts)) /\ Unspent(Taken(drafts), session)
BY DEF Data, DataTyped, TurnInv, Live, Handler

(* Only handler h moves. *)
Only(h) ==
  /\ handler[h].pc \notin {"idle", "done"}
  /\ \A g \in Handlers \ {h} : handler'[g] = handler[g]

LEMMA OneTurns ==
  ASSUME TurnInv, NEW h \in Handlers, Only(h), ConfirmedOnce', Taken(drafts)' = Taken(drafts),
         handler'[h].pc \in {"idle", "done"} \/ Alone(handler'[h], session', Taken(drafts)),
         Unspent(Taken(drafts), session'), Escalated
  PROVE  TurnStep
<1>1. \A g \in Live' : g = h
  BY DEF TurnInv, Only, Live
<1>2. Live' # {} => handler'[h].pc \notin {"idle", "done"}
  BY <1>1 DEF Live
<1>3. \A g \in Live' : Alone(handler'[g], session', Taken(drafts)')
  BY <1>1, <1>2
<1>4. QED
  BY <1>1, <1>3 DEF TurnStep, TurnInv

LEMMA DraftsStay ==
  ASSUME ConfirmedOnce, UNCHANGED drafts
  PROVE  ConfirmedOnce' /\ Taken(drafts)' = Taken(drafts)
BY DEF ConfirmedOnce, Taken, ConfirmedOf

(* Handler h goes where the session does not concern it. *)
LEMMA GoesFree ==
  ASSUME TurnInv, NEW h \in Handlers, Only(h), handler'[h].pc \notin Involved,
         UNCHANGED drafts, UNCHANGED session
  PROVE  TurnStep
<1>1. Alone(handler'[h], session', Taken(drafts))
  BY DEF Alone, Confirming, Involved, Starting, Entering, Holding
<1>2. Unspent(Taken(drafts), session') /\ Escalated
  BY DEF TurnInv, Escalated
<1>3. ConfirmedOnce' /\ Taken(drafts)' = Taken(drafts)
  BY DraftsStay DEF TurnInv
<1>4. QED
  BY <1>1, <1>2, <1>3, OneTurns

LEMMA ReturnIs ==
  ASSUME Data, NEW h \in Handlers, handler[h].pc \notin {"idle", "done"}, Return(h)
  PROVE  Only(h) /\ handler'[h].pc = "done"
BY DEF Data, DataTyped, Return, Finished, Handler, Only

LEMMA ReturnFree ==
  ASSUME Data, TurnInv, NEW h \in Handlers, handler[h].pc \notin {"idle", "done"}, Return(h),
         UNCHANGED drafts, UNCHANGED session
  PROVE  TurnStep
BY ReturnIs, GoesFree DEF Involved, Starting, Entering, Holding

LEMMA GotoIs ==
  ASSUME Data, NEW h \in Handlers, handler[h].pc \notin {"idle", "done"}, NEW pc, Goto(h, pc)
  PROVE  /\ Only(h) /\ handler'[h].pc = pc /\ handler'[h].entry = handler[h].entry
         /\ handler'[h].held = handler[h].held /\ handler'[h].next = handler[h].next
BY DEF Data, DataTyped, Goto, Handler, Only

LEMMA HoldIs ==
  ASSUME Data, NEW h \in Handlers, handler[h].pc \notin {"idle", "done"}, NEW pc, Hold(h, pc)
  PROVE  /\ Only(h) /\ handler'[h].pc = pc /\ handler'[h].entry = handler[h].entry
         /\ handler'[h].held = session /\ handler'[h].next = handler[h].next
BY DEF Data, DataTyped, Hold, Handler, Only

(* The session is lost. *)
LEMMA SessionLost ==
  ASSUME NEW r, NEW s, NEW taken, Alone(r, s, taken)
  PROVE  Alone(r, NoSession, taken)
BY DEF Alone

LEMMA OtherTurns ==
  ASSUME TurnInv, UNCHANGED <<handler, drafts>>, session' = session \/ session' = NoSession
  PROVE  TurnStep
<1>1. Live' = Live /\ ConfirmedOnce' /\ Taken(drafts)' = Taken(drafts)
  BY DraftsStay DEF Live, TurnInv
<1>2. \A h \in Live : Alone(handler[h], session', Taken(drafts))
  BY SessionLost DEF TurnInv
<1>3. Unspent(Taken(drafts), session') /\ Escalated
  BY NoSessionIs DEF TurnInv, Escalated
<1>4. QED
  BY <1>1, <1>2, <1>3 DEF TurnInv, TurnStep

LEMMA DeliveryTurns ==
  ASSUME ConversationAssumption, MaxLive = 1, Data, TurnInv, NEW h \in Handlers, Delivery(h)
  PROVE  TurnStep
<1>a. h \in Live =>
        /\ handler[h] \in Handler /\ Sound(h, handler[h], drafts[h], stored)
        /\ session \in Session /\ handler[h].held \in Session /\ handler[h].entry \in Session
        /\ Alone(handler[h], session, Taken(drafts)) /\ Unspent(Taken(drafts), session)
  BY AloneIs DEF Live
<1>d. UNCHANGED drafts /\ ConfirmedOnce' /\ Taken(drafts)' = Taken(drafts)
  BY DraftsStay DEF TurnInv, Delivery, Receive, Deduplicate, FindCustomer, CreateCustomer, FindSession,
       FindRow, StartConversation, StartFails, CreateSession, StoreMessage, ReadToAppend, AppendMessage
<1>1. CASE \E m \in Handlers : Receive(h, m)
  <2> PICK m \in Handlers : Receive(h, m)
    BY <1>1
  <2>1. IsFiniteSet(Live)
    BY FS_Subset DEF Live, ConversationAssumption
  <2>2. Cardinality(Live) = 0
    BY <2>1, FS_CardinalityType DEF Receive
  <2>3. Live = {}
    BY <2>1, <2>2, FS_EmptySet
  <2>4. handler'[h].pc = "received" /\ \A g \in Handlers \ {h} : handler'[g] = handler[g]
    BY DEF Receive, Data, DataTyped, Handler
  <2>5. Live' \subseteq {h}
    BY <2>3, <2>4 DEF Live
  <2>6. Alone(handler'[h], session', Taken(drafts))
    BY <2>4 DEF Alone, Confirming, Starting, Entering, Holding
  <2>7. session' = session
    BY DEF Receive
  <2>8. QED
    BY <1>d, <2>5, <2>6, <2>7 DEF TurnStep, TurnInv, Escalated
<1>2. CASE Deduplicate(h) \/ FindCustomer(h) \/ CreateCustomer(h) \/ StartFails(h)
  <2>1. handler[h].pc \notin {"idle", "done"} /\ UNCHANGED session
    BY <1>2 DEF Deduplicate, FindCustomer, CreateCustomer, StartFails, At
  <2>2. Return(h) \/ Goto(h, "new") \/ Goto(h, "customer") \/ Goto(h, "unknown")
    BY <1>2 DEF Deduplicate, FindCustomer, CreateCustomer, StartFails
  <2>3. CASE Return(h)
    BY <1>d, <2>1, <2>3, ReturnFree
  <2>4. CASE \E pc \in {"new", "customer", "unknown"} : Goto(h, pc)
    <3>1. Only(h) /\ handler'[h].pc \in {"new", "customer", "unknown"}
      BY <2>1, <2>4, GotoIs
    <3>2. QED
      BY <1>d, <2>1, <3>1, GoesFree DEF Involved, Starting, Entering, Holding
  <2>5. QED
    BY <2>2, <2>3, <2>4
<1>3. CASE FindSession(h)
  <2>1. handler[h].pc = "customer" /\ UNCHANGED session
    BY <1>3 DEF FindSession, At
  <2>2. Only(h)
    BY <1>3, <2>1 DEF FindSession, Goto, Only, Data, DataTyped
  <2>3. CASE session = NoSession
    <3>1. handler'[h].pc = "sessionless"
      BY <1>3, <2>1, <2>3, GotoIs DEF FindSession
    <3>2. Alone(handler'[h], session', Taken(drafts))
      BY <2>1, <2>3, <3>1 DEF Alone, Confirming, Starting, Entering, Holding
    <3>3. QED
      BY <1>d, <2>1, <2>2, <3>2, OneTurns DEF TurnInv, Escalated
  <2>4. CASE session # NoSession
    <3>1. handler'[h].pc = "entered" /\ handler'[h].entry = session
      <4>1. handler'[h] = [handler[h] EXCEPT !.pc = "entered", !.entry = session]
        BY <1>3, <2>4 DEF FindSession, Data, DataTyped
      <4>2. handler[h] \in Handler
        BY <1>a, <2>1 DEF Live
      <4>3. QED
        BY <4>1, <4>2 DEF Handler
    <3>2. Alone(handler'[h], session', Taken(drafts))
      BY <2>1, <3>1 DEF Alone, Confirming, Starting, Entering, Holding, TurnInv
    <3>3. QED
      BY <1>d, <2>1, <2>2, <3>2, OneTurns DEF TurnInv, Escalated
  <2>5. QED
    BY <2>3, <2>4
<1>4. CASE FindRow(h) \/ StartConversation(h)
  <2>1. handler[h].pc \in {"sessionless", "starting"} /\ UNCHANGED session
    BY <1>4 DEF FindRow, StartConversation, At
  <2>2. session = NoSession
    BY <1>a, <2>1 DEF Alone, Starting, Live
  <2>3. CASE Goto(h, "starting")
    <3>1. Only(h) /\ handler'[h].pc = "starting"
      BY <2>1, <2>3, GotoIs
    <3>2. Alone(handler'[h], session', Taken(drafts))
      BY <2>1, <2>2, <3>1 DEF Alone, Confirming, Starting, Entering, Holding
    <3>3. QED
      BY <1>d, <2>1, <3>1, <3>2, OneTurns DEF TurnInv, Escalated
  <2>4. CASE \E c \in Handlers :
               handler' = [handler EXCEPT ![h] = [@ EXCEPT !.pc = "hydrating", !.entry = NewSession(c)]]
    <3>1. Only(h) /\ handler'[h].pc = "hydrating" /\ handler'[h].entry.items = {}
      BY <2>1, <2>4, NoSessionIs DEF Only, Data, DataTyped, Handler
    <3>2. Alone(handler'[h], session', Taken(drafts))
      BY <2>1, <2>2, <3>1 DEF Alone, Confirming, Starting, Entering, Holding
    <3>3. QED
      BY <1>d, <2>1, <3>1, <3>2, OneTurns DEF TurnInv, Escalated
  <2>5. QED
    BY <1>4, <2>3, <2>4 DEF FindRow, StartConversation, RowsWith
<1>5. CASE CreateSession(h)
  <2>1. handler[h].pc = "hydrating" /\ session' = handler[h].entry /\ Goto(h, "entered")
    BY <1>5 DEF CreateSession, At
  <2>2. /\ Only(h) /\ handler'[h].pc = "entered" /\ handler'[h].entry = handler[h].entry
    BY <2>1, GotoIs
  <2>3. session = NoSession /\ handler[h].entry.items = {}
    BY <1>a, <2>1 DEF Alone, Starting, Live
  <2>4. Alone(handler'[h], session', Taken(drafts)) /\ Unspent(Taken(drafts), session') /\ Escalated
    BY <2>1, <2>2, <2>3, NoSessionIs DEF Alone, Confirming, Starting, Entering, Holding, Unspent, Escalated
  <2>5. QED
    BY <1>d, <2>2, <2>4, OneTurns
<1>6. CASE StoreMessage(h)
  <2>1. handler[h].pc = "entered" /\ UNCHANGED session
    BY <1>6 DEF StoreMessage, At
  <2>2. CASE Return(h)
    BY <1>d, <2>1, <2>2, ReturnFree
  <2>3. CASE Goto(h, "stored")
    <3>1. Only(h) /\ handler'[h].pc = "stored" /\ handler'[h].entry = handler[h].entry
      BY <2>1, <2>3, GotoIs
    <3>2. Alone(handler'[h], session', Taken(drafts))
      BY <1>a, <2>1, <3>1 DEF Alone, Confirming, Starting, Entering, Holding, Live
    <3>3. QED
      BY <1>d, <2>1, <3>1, <3>2, OneTurns DEF TurnInv, Escalated
  <2>4. QED
    BY <1>6, <2>2, <2>3 DEF StoreMessage
<1>7. CASE ReadToAppend(h)
  <2>1. handler[h].pc = "stored" /\ UNCHANGED session /\ Hold(h, "appending")
    BY <1>7 DEF ReadToAppend, At
  <2>2. /\ Only(h) /\ handler'[h].pc = "appending" /\ handler'[h].entry = handler[h].entry
        /\ handler'[h].held = session
    BY <2>1, HoldIs
  <2>3. Alone(handler'[h], session', Taken(drafts))
    BY <1>a, <2>1, <2>2 DEF Alone, Confirming, Starting, Entering, Holding, Live
  <2>4. QED
    BY <1>d, <2>1, <2>2, <2>3, OneTurns DEF TurnInv, Escalated
<1>8. CASE AppendMessage(h)
  <2> DEFINE pc == IF handler[h].entry.stage = "CONFIRMING" THEN "confirming" ELSE "pipeline"
  <2>1. handler[h].pc = "appending" /\ Save(h, handler[h].held) /\ Goto(h, pc)
    BY <1>8 DEF AppendMessage, At
  <2>2. Only(h) /\ handler'[h].pc = pc /\ handler'[h].entry = handler[h].entry
    BY <2>1, GotoIs
  <2>3. /\ session \in {NoSession, handler[h].held} /\ session \in {NoSession, handler[h].entry}
        /\ handler[h].held \in {NoSession, handler[h].entry}
        /\ Unspent(Taken(drafts), handler[h].entry)
    BY <1>a, <2>1 DEF Alone, Entering, Holding, Live
  <2>4. session' \in {NoSession, handler[h].entry} /\ Escalated
    BY <2>1, <2>3, NoSessionIs DEF Save, Escalated
  <2>5. Alone(handler'[h], session', Taken(drafts)) /\ Unspent(Taken(drafts), session')
    BY <2>2, <2>3, <2>4, NoSessionIs DEF Alone, Confirming, Starting, Entering, Holding
  <2>6. QED
    BY <1>d, <2>2, <2>4, <2>5, OneTurns
<1>9. QED
  BY <1>1, <1>2, <1>3, <1>4, <1>5, <1>6, <1>7, <1>8 DEF Delivery

LEMMA AnswerTurns ==
  ASSUME ConversationAssumption, Data, TurnInv, NEW h \in Handlers, Answer(h)
  PROVE  TurnStep
<1>a. /\ handler[h] \in Handler /\ Sound(h, handler[h], drafts[h], stored)
      /\ session \in Session /\ handler[h].held \in Session /\ handler[h].entry \in Session
      /\ Alone(handler[h], session, Taken(drafts)) /\ Unspent(Taken(drafts), session)
      /\ handler[h].pc \notin {"idle", "done"}
  <2>1. handler[h].pc \notin {"idle", "done"}
    BY DEF Answer, AnswerYes, AnswerNo, AnswerOther, Transition, TransitionRow, CreateDraftFromContext,
         SendAcknowledgement, DeleteSession, CompleteRow, CompleteFails, SendCancelled, At
  <2>2. QED
    BY <2>1, AloneIs
<1>1. CASE AnswerYes(h) \/ AnswerNo(h)
  <2>1. handler[h].pc = "confirming" /\ UNCHANGED <<session, drafts>>
    BY <1>1 DEF AnswerYes, AnswerNo, At
  <2>2. /\ Only(h) /\ handler'[h].pc = "transition" /\ handler'[h].entry = handler[h].entry
        /\ handler'[h].held = session
    <3>1. PICK next \in Stage :
             handler' = [handler EXCEPT ![h] = [@ EXCEPT !.pc = "transition", !.next = next,
                                                         !.held = session]]
      BY <1>1 DEF AnswerYes, AnswerNo, Stage
    <3>2. /\ handler'[h] = [handler[h] EXCEPT !.pc = "transition", !.next = next, !.held = session]
          /\ \A g \in Handlers \ {h} : handler'[g] = handler[g]
      BY <3>1 DEF Data, DataTyped
    <3>3. QED
      BY <1>a, <3>2 DEF Only, Handler
  <2>3. Alone(handler'[h], session', Taken(drafts))
    BY <1>a, <2>1, <2>2 DEF Alone, Confirming, Starting, Entering, Holding
  <2>4. QED
    BY <1>a, <2>1, <2>2, <2>3, OneTurns, DraftsStay DEF TurnInv, Escalated
<1>2. CASE AnswerOther(h) \/ SendAcknowledgement(h)
  <2>1. UNCHANGED <<session, drafts>>
    BY <1>2 DEF AnswerOther, SendAcknowledgement
  <2>2. Only(h) /\ handler'[h].pc = "replying"
    <3>1. PICK sent \in Reply : handler' = [handler EXCEPT ![h] = [@ EXCEPT !.pc = "replying", !.sent = sent]]
      BY <1>2 DEF AnswerOther, SendAcknowledgement, Reply
    <3>2. /\ handler'[h] = [handler[h] EXCEPT !.pc = "replying", !.sent = sent]
          /\ \A g \in Handlers \ {h} : handler'[g] = handler[g]
      BY <3>1 DEF Data, DataTyped
    <3>3. QED
      BY <1>a, <3>2 DEF Only, Handler
  <2>3. QED
    BY <2>1, <2>2, GoesFree DEF Involved, Starting, Entering, Holding
<1>3. CASE Transition(h)
  <2> DEFINE new == [handler[h].held EXCEPT !.stage = handler[h].next]
  <2>1. handler[h].pc = "transition" /\ UNCHANGED drafts /\ Goto(h, "transitionRow") /\ Save(h, new)
    BY <1>3 DEF Transition, At
  <2>2. /\ Only(h) /\ handler'[h].pc = "transitionRow" /\ handler'[h].entry = handler[h].entry
        /\ handler'[h].next = handler[h].next
    BY <2>1, <1>a, GotoIs
  <2>3. /\ session \in {NoSession, handler[h].held} /\ handler[h].held \in {NoSession, handler[h].entry}
        /\ Unspent(Taken(drafts), handler[h].entry) /\ handler[h].entry.stage = "CONFIRMING"
    BY <1>a, <2>1 DEF Alone, Entering, Holding
  <2>4. /\ new.stage = handler[h].next /\ new.items = handler[h].held.items
        /\ new.handedOff = handler[h].held.handedOff
    BY <1>a DEF Session
  <2> HIDE DEF new
  <2>5. session' = NoSession \/ (session' = new /\ handler[h].held = handler[h].entry)
    BY <2>1, <2>3 DEF Save
  <2>6. Unspent(Taken(drafts), session') /\ Escalated
    BY <2>3, <2>4, <2>5, NoSessionIs DEF Unspent, Escalated
  <2>7. Alone(handler'[h], session', Taken(drafts))
    BY <2>2, <2>3, <2>4, <2>5 DEF Alone, Confirming, Starting, Entering, Holding
  <2>8. QED
    BY <2>1, <2>2, <2>6, <2>7, OneTurns, DraftsStay DEF TurnInv
<1>4. CASE TransitionRow(h)
  <2> DEFINE pc == IF handler[h].next = "PENDING_ORDER" THEN "drafting" ELSE "deleting"
  <2>1. handler[h].pc = "transitionRow" /\ UNCHANGED <<session, drafts>> /\ Goto(h, pc)
    BY <1>4 DEF TransitionRow, At
  <2>2. Only(h) /\ handler'[h].pc = pc /\ handler'[h].entry = handler[h].entry
    BY <2>1, <1>a, GotoIs
  <2>3. Alone(handler'[h], session', Taken(drafts))
    BY <1>a, <2>1, <2>2 DEF Alone, Confirming, Starting, Entering, Holding
  <2>4. QED
    BY <1>a, <2>1, <2>2, <2>3, OneTurns, DraftsStay DEF TurnInv, Escalated
<1>5. CASE CreateDraftFromContext(h)
  <2> DEFINE new == [kind |-> "confirmed", items |-> handler[h].entry.items]
  <2>1. /\ handler[h].pc = "drafting" /\ UNCHANGED session /\ Goto(h, "acknowledging")
        /\ drafts' = [drafts EXCEPT ![h] = new]
    BY <1>5 DEF CreateDraftFromContext, At
  <2>2. Only(h) /\ handler'[h].pc = "acknowledging"
    BY <2>1, <1>a, GotoIs
  <2>3. /\ session = NoSession \/ session.stage = "PENDING_ORDER"
        /\ handler[h].entry.items \cap Taken(drafts) = {}
    BY <1>a, <2>1 DEF Alone, Confirming, Sound, Unspent
  <2>4. /\ drafts'[h].kind = "confirmed" /\ drafts'[h].items = handler[h].entry.items
        /\ \A g \in Handlers \ {h} : drafts'[g] = drafts[g]
    BY <2>1 DEF Data, DataTyped
  <2>5. ConfirmedOnce'
    <3>1. \A g \in Handlers \ {h} : drafts[g].kind = "confirmed" => drafts[g].items \cap handler[h].entry.items = {}
      <4> SUFFICES ASSUME NEW g \in Handlers \ {h}, drafts[g].kind = "confirmed",
                          NEW i \in drafts[g].items, i \in handler[h].entry.items
                   PROVE  FALSE
        OBVIOUS
      <4>1. i \in Handlers
        BY <1>a DEF Session
      <4>2. QED
        BY <2>3, <4>1 DEF Taken, ConfirmedOf
    <3>2. QED
      BY <2>4, <3>1 DEF ConfirmedOnce, TurnInv
  <2>6. Unspent(Taken(drafts)', session') /\ Escalated
    BY <2>1, <2>3, NoSessionIs DEF Unspent, Escalated
  <2>7. Alone(handler'[h], session', Taken(drafts)')
    BY <2>2 DEF Alone, Confirming, Starting, Entering, Holding
  <2>8. \A g \in Live' : g = h
    BY <2>2 DEF Live, Only, TurnInv
  <2>9. QED
    BY <2>5, <2>6, <2>7, <2>8 DEF TurnStep, TurnInv
<1>6. CASE DeleteSession(h)
  <2>1. session' = NoSession /\ UNCHANGED drafts /\ Goto(h, "completing")
    BY <1>6 DEF DeleteSession
  <2>2. Only(h) /\ handler'[h].pc = "completing"
    BY <2>1, <1>a, GotoIs
  <2>3. Alone(handler'[h], session', Taken(drafts)) /\ Unspent(Taken(drafts), session') /\ Escalated
    BY <2>1, <2>2, NoSessionIs DEF Alone, Confirming, Starting, Entering, Holding, Escalated
  <2>4. QED
    BY <2>1, <2>2, <2>3, OneTurns, DraftsStay DEF TurnInv
<1>7. CASE CompleteRow(h) \/ CompleteFails(h)
  <2>1. UNCHANGED <<session, drafts>> /\ (Return(h) \/ Goto(h, "cancelling"))
    BY <1>7 DEF CompleteRow, CompleteFails
  <2>2. CASE Return(h)
    BY <1>a, <2>1, <2>2, ReturnFree
  <2>3. CASE Goto(h, "cancelling")
    <3>1. Only(h) /\ handler'[h].pc = "cancelling"
      BY <1>a, <2>3, GotoIs
    <3>2. QED
      BY <2>1, <3>1, GoesFree DEF Involved, Starting, Entering, Holding
  <2>4. QED
    BY <2>1, <2>2, <2>3
<1>8. CASE SendCancelled(h)
  <2>1. UNCHANGED <<session, drafts>>
    BY <1>8 DEF SendCancelled
  <2>2. Only(h) /\ handler'[h].pc = "done"
    BY <1>8, <1>a DEF SendCancelled, Finished, Only, Data, DataTyped, Handler
  <2>3. QED
    BY <2>1, <2>2, GoesFree DEF Involved, Starting, Entering, Holding
<1>9. QED
  BY <1>1, <1>2, <1>3, <1>4, <1>5, <1>6, <1>7, <1>8 DEF Answer

(* A draft that was extracted is not one that was confirmed. *)
LEMMA ExtractedIsNotTaken ==
  ASSUME Data, ConfirmedOnce, NEW h \in Handlers, handler[h].pc = "pipeline",
         drafts' = drafts \/ drafts' = [drafts EXCEPT ![h] = [kind |-> "extracted", items |-> {h}]]
  PROVE  ConfirmedOnce' /\ Taken(drafts)' = Taken(drafts)
<1>1. drafts[h].kind = "none"
  BY DEF Data, Sound, Early
<1>2. drafts'[h].kind # "confirmed" /\ \A g \in Handlers \ {h} : drafts'[g] = drafts[g]
  BY <1>1 DEF Data, DataTyped
<1>3. \A g \in Handlers : drafts'[g].kind = "confirmed" => drafts[g].kind = "confirmed"
  BY <1>2
<1>4. \A g \in Handlers : drafts[g].kind = "confirmed" => drafts'[g] = drafts[g]
  BY <1>1, <1>2
<1>5. ConfirmedOnce'
  BY <1>3, <1>4 DEF ConfirmedOnce
<1>6. Taken(drafts') = Taken(drafts)
  BY <1>3, <1>4 DEF Taken, ConfirmedOf
<1>7. QED
  BY <1>5, <1>6

LEMMA ExtractionTurns ==
  ASSUME ConversationAssumption, Data, TurnInv, NEW h \in Handlers, Extraction(h)
  PROVE  TurnStep
<1>a. /\ handler[h] \in Handler /\ Sound(h, handler[h], drafts[h], stored)
      /\ session \in Session /\ handler[h].held \in Session /\ handler[h].entry \in Session
      /\ Alone(handler[h], session, Taken(drafts)) /\ Unspent(Taken(drafts), session)
      /\ handler[h].pc \notin {"idle", "done"}
  <2>1. handler[h].pc \notin {"idle", "done"}
    BY DEF Extraction, RunPipeline, ReadToUpdate, UpdateSession, UpdateRow, At
  <2>2. QED
    BY <2>1, AloneIs
<1>1. CASE \E result \in Results : RunPipeline(h, result)
  <2> PICK result \in Results : RunPipeline(h, result)
    BY <1>1
  <2>1. /\ handler[h].pc = "pipeline" /\ UNCHANGED session
        /\ drafts' = drafts \/ drafts' = [drafts EXCEPT ![h] = [kind |-> "extracted", items |-> {h}]]
    BY DEF RunPipeline, At
  <2>2. /\ \/ handler'[h] = [handler[h] EXCEPT !.pc = "extracted", !.result = result]
           \/ handler'[h] = [Finished(handler[h]) EXCEPT !.result = result]
        /\ \A g \in Handlers \ {h} : handler'[g] = handler[g]
    BY DEF RunPipeline, Data, DataTyped
  <2>3. Only(h) /\ handler'[h].pc \in {"extracted", "done"}
    BY <1>a, <2>2 DEF Only, Finished, Handler
  <2>4. ConfirmedOnce' /\ Taken(drafts)' = Taken(drafts)
    BY <2>1, ExtractedIsNotTaken DEF TurnInv
  <2>5. Alone(handler'[h], session', Taken(drafts))
    BY <2>3 DEF Alone, Confirming, Starting, Entering, Holding
  <2>6. QED
    BY <1>a, <2>1, <2>3, <2>4, <2>5, OneTurns DEF Escalated
<1>2. CASE ReadToUpdate(h)
  <2>1. UNCHANGED <<session, drafts>> /\ (Return(h) \/ Hold(h, "updating"))
    BY <1>2 DEF ReadToUpdate
  <2>2. CASE Return(h)
    BY <1>a, <2>1, <2>2, ReturnFree
  <2>3. CASE Hold(h, "updating")
    <3>1. Only(h) /\ handler'[h].pc = "updating" /\ handler'[h].held = session
      BY <1>a, <2>3, HoldIs
    <3>2. Alone(handler'[h], session', Taken(drafts))
      BY <1>a, <2>1, <3>1 DEF Alone, Confirming, Starting, Entering, Holding
    <3>3. QED
      BY <1>a, <2>1, <3>1, <3>2, OneTurns, DraftsStay DEF TurnInv, Escalated
  <2>4. QED
    BY <2>1, <2>2, <2>3
<1>3. CASE UpdateSession(h)
  <2> DEFINE next == NextStage(handler[h].held.stage, handler[h].result)
             new  == [handler[h].held EXCEPT !.stage = next, !.items = @ \cup {h}]
  <2>1. /\ handler[h].pc = "updating" /\ UNCHANGED drafts /\ session' = new
        /\ handler' = [handler EXCEPT ![h] = [@ EXCEPT !.pc = "updateRow", !.next = next]]
    BY <1>3 DEF UpdateSession, At
  <2>2. session \in {NoSession, handler[h].held} /\ Unspent(Taken(drafts), handler[h].held)
    BY <1>a, <2>1 DEF Alone, Holding
  <2>3. /\ new.stage = next /\ new.items = handler[h].held.items \cup {h}
        /\ new.handedOff = handler[h].held.handedOff
    BY <1>a DEF Session
  <2>4. handler[h].held.stage = "PENDING_ORDER" => next = "PENDING_ORDER"
    BY DEF NextStage
  <2> HIDE DEF next, new
  <2>5. /\ handler'[h] = [handler[h] EXCEPT !.pc = "updateRow", !.next = next]
        /\ \A g \in Handlers \ {h} : handler'[g] = handler[g]
    BY <2>1 DEF Data, DataTyped
  <2>6. Only(h) /\ handler'[h].pc = "updateRow"
    BY <1>a, <2>5 DEF Only, Handler
  <2>7. h \notin Taken(drafts)
    BY <2>1 DEF Taken, ConfirmedOf, Data, Backed, Merged
  <2>8. Unspent(Taken(drafts), session') /\ Escalated
    BY <2>1, <2>2, <2>3, <2>4, <2>7, NoSessionIs DEF Unspent, Escalated
  <2>9. Alone(handler'[h], session', Taken(drafts))
    BY <2>6 DEF Alone, Confirming, Starting, Entering, Holding
  <2>10. QED
    BY <2>1, <2>6, <2>8, <2>9, OneTurns, DraftsStay DEF TurnInv
<1>4. CASE UpdateRow(h)
  <2>1. UNCHANGED <<session, drafts>> /\ Goto(h, "deciding")
    BY <1>4 DEF UpdateRow
  <2>2. Only(h) /\ handler'[h].pc = "deciding"
    BY <1>a, <2>1, GotoIs
  <2>3. QED
    BY <2>1, <2>2, GoesFree DEF Involved, Starting, Entering, Holding
<1>5. QED
  BY <1>1, <1>2, <1>3, <1>4 DEF Extraction

(* A handler sends something, decides what to send or schedules the check. *)
Sends(h) ==
  \/ SendAlternatives(h) \/ ReadHandoff(h) \/ SendHandoff(h) \/ SendQuestion(h) \/ SendPrompt(h)
  \/ AcknowledgeDraft(h) \/ StaySilent(h) \/ ScheduleCheck(h)

LEMMA SendTurns ==
  ASSUME Data, TurnInv, NEW h \in Handlers, Sends(h)
  PROVE  TurnStep
<1>1. handler[h].pc \notin {"idle", "done"}
  BY DEF Sends, SendAlternatives, ReadHandoff, SendHandoff, SendQuestion, SendPrompt, AcknowledgeDraft,
       StaySilent, ScheduleCheck, At
<1>2. UNCHANGED session /\ UNCHANGED drafts
  BY DEF Sends, SendAlternatives, ReadHandoff, SendHandoff, SendQuestion, SendPrompt, AcknowledgeDraft,
       StaySilent, ScheduleCheck
<1>3. CASE Return(h)
  BY <1>1, <1>2, <1>3, ReturnFree
<1>4. CASE \E pc \in {"escalating", "asking"} : Goto(h, pc)
  <2>1. Only(h) /\ handler'[h].pc \in {"escalating", "asking"}
    BY <1>1, <1>4, GotoIs
  <2>2. QED
    BY <1>2, <2>1, GoesFree DEF Involved, Starting, Entering, Holding
<1>5. CASE \E sent \in Reply : handler' = [handler EXCEPT ![h] = [@ EXCEPT !.pc = "replying", !.sent = sent]]
  <2>1. PICK sent \in Reply : handler' = [handler EXCEPT ![h] = [@ EXCEPT !.pc = "replying", !.sent = sent]]
    BY <1>5
  <2>2. /\ handler'[h] = [handler[h] EXCEPT !.pc = "replying", !.sent = sent]
        /\ \A g \in Handlers \ {h} : handler'[g] = handler[g]
    BY <2>1 DEF Data, DataTyped
  <2>3. handler[h] \in Handler
    BY DEF Data, DataTyped
  <2>4. Only(h) /\ handler'[h].pc = "replying"
    BY <1>1, <2>2, <2>3 DEF Only, Handler
  <2>5. QED
    BY <1>2, <2>4, GoesFree DEF Involved, Starting, Entering, Holding
<1>6. CASE SendAlternatives(h) \/ SendHandoff(h) \/ SendQuestion(h) \/ SendPrompt(h) \/ AcknowledgeDraft(h)
  BY <1>5, <1>6 DEF SendAlternatives, SendHandoff, SendQuestion, SendPrompt, AcknowledgeDraft, Reply
<1>7. QED
  BY <1>3, <1>4, <1>6 DEF Sends, ReadHandoff, StaySilent, ScheduleCheck

LEMMA ReplyTurns ==
  ASSUME ConversationAssumption, Data, TurnInv, NEW h \in Handlers, Replying(h)
  PROVE  TurnStep
<1>1. CASE Sends(h)
  BY <1>1, SendTurns
<1> SUFFICES ASSUME ~Sends(h)
             PROVE  TurnStep
  BY <1>1
<1>a. /\ handler[h] \in Handler
      /\ session \in Session /\ handler[h].held \in Session
      /\ Alone(handler[h], session, Taken(drafts)) /\ Unspent(Taken(drafts), session)
      /\ handler[h].pc \notin {"idle", "done"} /\ UNCHANGED drafts
  <2>1. handler[h].pc \notin {"idle", "done"} /\ UNCHANGED drafts
    BY DEF Replying, Sends, ReadToEscalate, Escalate, ReadToReply, NoteReply, ReadToRegister,
         RegisterClarification, At
  <2>2. QED
    BY <2>1, AloneIs
<1>d. ConfirmedOnce' /\ Taken(drafts)' = Taken(drafts)
  BY <1>a, DraftsStay DEF TurnInv
<1>2. CASE ReadToEscalate(h) \/ ReadToReply(h) \/ ReadToRegister(h)
  <2>1. UNCHANGED session /\ (Return(h) \/ \E pc \in {"handingOff", "noting", "counting"} : Hold(h, pc))
    BY <1>2 DEF ReadToEscalate, ReadToReply, ReadToRegister
  <2>2. CASE Return(h)
    BY <1>a, <2>1, <2>2, ReturnFree
  <2>3. CASE \E pc \in {"handingOff", "noting", "counting"} : Hold(h, pc)
    <3>1. Only(h) /\ handler'[h].pc \in {"handingOff", "noting", "counting"} /\ handler'[h].held = session
      BY <1>a, <2>3, HoldIs
    <3>2. Alone(handler'[h], session', Taken(drafts))
      BY <1>a, <2>1, <3>1 DEF Alone, Confirming, Starting, Entering, Holding
    <3>3. QED
      BY <1>a, <1>d, <2>1, <3>1, <3>2, OneTurns DEF Escalated
  <2>4. QED
    BY <2>1, <2>2, <2>3
<1>3. CASE Escalate(h) \/ RegisterClarification(h)
  <2>1. PICK s : /\ s.stage = handler[h].held.stage /\ s.items = handler[h].held.items
                 /\ handler[h].held.handedOff => s.handedOff
                 /\ session' = s \/ (session' = session /\ handler[h].held = NoSession)
    <3>1. CASE Escalate(h)
      BY <1>a, <3>1 DEF Escalate, Session
    <3>2. CASE RegisterClarification(h)
      BY <1>a, <3>2 DEF RegisterClarification, Save, Session
    <3>3. QED
      BY <1>3, <3>1, <3>2
  <2>2. /\ handler[h].pc \in {"handingOff", "counting"}
        /\ Goto(h, "apologising") \/ Goto(h, "scheduling")
    BY <1>3 DEF Escalate, RegisterClarification, At
  <2>3. Only(h) /\ handler'[h].pc \in {"apologising", "scheduling"}
    BY <1>a, <2>2, GotoIs
  <2>4. session \in {NoSession, handler[h].held} /\ Unspent(Taken(drafts), handler[h].held)
    BY <1>a, <2>2 DEF Alone, Holding
  <2>5. Unspent(Taken(drafts), session') /\ Escalated
    BY <1>a, <2>1, <2>4, NoSessionIs DEF Unspent, Escalated
  <2>6. Alone(handler'[h], session', Taken(drafts))
    BY <2>3 DEF Alone, Confirming, Starting, Entering, Holding
  <2>7. QED
    BY <1>d, <2>3, <2>5, <2>6, OneTurns
<1>4. CASE NoteReply(h)
  <2>1. /\ handler[h].pc = "noting" /\ Save(h, handler[h].held)
        /\ Return(h) \/ \E pc \in {"deleting", "registering"} : Goto(h, pc)
    BY <1>4 DEF NoteReply, At
  <2>2. Only(h) /\ handler'[h].pc \in {"deleting", "registering", "done"}
    BY <1>a, <2>1, GotoIs, ReturnIs
  <2>3. session \in {NoSession, handler[h].held} /\ Unspent(Taken(drafts), handler[h].held)
    BY <1>a, <2>1 DEF Alone, Holding
  <2>4. session' \in {NoSession, handler[h].held} /\ Escalated
    BY <2>1, <2>3, NoSessionIs DEF Save, Escalated
  <2>5. Unspent(Taken(drafts), session')
    BY <2>3, <2>4, NoSessionIs
  <2>6. Alone(handler'[h], session', Taken(drafts))
    BY <2>2 DEF Alone, Confirming, Starting, Entering, Holding
  <2>7. QED
    BY <1>d, <2>2, <2>4, <2>5, <2>6, OneTurns
<1>5. QED
  BY <1>2, <1>3, <1>4 DEF Replying, Sends

(* A handler fails, a session runs out or is deleted, the server restarts. *)
LEMMA FaultTurns ==
  ASSUME Data, TurnInv,
         (\E h \in Handlers : Fail(h)) \/ (\E c \in Handlers : CheckAbandoned(c)) \/ Expire \/ Crash
  PROVE  TurnStep
<1>1. CASE \E h \in Handlers : Fail(h)
  <2> PICK h \in Handlers : Fail(h)
    BY <1>1
  <2>1. handler[h].pc \notin {"idle", "done"} /\ Return(h) /\ UNCHANGED drafts /\ UNCHANGED session
    BY DEF Fail, Live
  <2>2. QED
    BY <2>1, ReturnFree
<1>2. CASE \E c \in Handlers : CheckAbandoned(c)
  BY <1>2, OtherTurns DEF CheckAbandoned, CheckFindsAbandoned, CheckSkips, AbandonSession, AbandonRow, SendFollowUp
<1>3. CASE Expire
  BY <1>3, OtherTurns DEF Expire
<1>4. CASE Crash
  <2>1. \A h \in Handlers : handler'[h] = IF h \in Live THEN Finished(handler[h]) ELSE handler[h]
    BY <1>4 DEF Crash
  <2>2. \A h \in Handlers : handler[h] \in Handler
    BY DEF Data, DataTyped
  <2>3. Live' = {}
    BY <2>1, <2>2 DEF Live, Finished, Handler
  <2>4. UNCHANGED <<session, drafts>>
    BY <1>4 DEF Crash
  <2>5. QED
    BY <2>3, <2>4, DraftsStay DEF TurnInv, TurnStep, Escalated
<1>5. QED
  BY <1>1, <1>2, <1>3, <1>4

LEMMA Turns ==
  ASSUME ConversationAssumption, MaxLive = 1, IInv, TurnInv, [Next]_vars
  PROVE  TurnStep
<1>1. Data
  BY DEF IInv
<1>2. CASE Next
  BY <1>1, <1>2, DeliveryTurns, AnswerTurns, ExtractionTurns, ReplyTurns, FaultTurns DEF Next
<1>3. CASE UNCHANGED vars
  BY <1>3, OtherTurns DEF vars
<1>4. QED
  BY <1>2, <1>3

LEMMA TurnInit ==
  ASSUME Init
  PROVE  TurnInv
<1>1. Live = {}
  BY DEF Init, NewHandler, Live
<1>2. \A h \in Handlers : drafts[h].kind = "none"
  BY DEF Init
<1>3. QED
  BY <1>1, <1>2, NoSessionIs DEF Init, TurnInv, ConfirmedOnce

LEMMA TurnsHold ==
  ASSUME MaxLive = 1
  PROVE  Spec => [](IInv /\ TurnInv)
<1>1. Init => IInv /\ TurnInv
  BY IInvInit, TurnInit, ConversationAssumption
<1>2. IInv /\ TurnInv /\ [Next]_vars => (IInv /\ TurnInv)'
  BY IInvStep, Turns, ConversationAssumption DEF TurnStep
<1>3. QED
  BY <1>1, <1>2, PTL DEF Spec

-----------------------------------------------------------------------------
(* With one delivery at a time a Yes that is interrupted by a failure, a   *)
(* lost session or a restart is not drafted again from the same items: the *)
(* session leaves CONFIRMING before the draft is made (processIncomingText *)
(* calls transitionStage before createDraftFromContext).                   *)
THEOREM ConfirmsOnce ==
  ASSUME MaxLive = 1
  PROVE  Spec => []ConfirmedOnce
<1>1. IInv /\ TurnInv => ConfirmedOnce
  BY DEF TurnInv
<1>2. QED
  BY <1>1, TurnsHold, PTL

(* With one delivery at a time no write of the session takes handedOffAt   *)
(* back: only the end of the session does (HumanHandoffService.escalate    *)
(* and every saveSession of ConversationStateService).                     *)
THEOREM EscalationStays ==
  ASSUME MaxLive = 1
  PROVE  Spec => StaysEscalated
<1>1. ASSUME IInv, TurnInv, [Next]_vars
      PROVE  [session.handedOff => session'.handedOff \/ session' = NoSession]_vars
  BY <1>1, Turns, ConversationAssumption DEF TurnStep, Escalated
<1>2. QED
  BY <1>1, TurnsHold, PTL DEF Spec, StaysEscalated
=============================================================================
