-------------------------- MODULE ReviewQueueProofs --------------------------
(***************************************************************************)
(* Theorems about ReviewQueue, for any number of drafts, requests, letters *)
(* under way, restarts and failures.                                       *)
(***************************************************************************)
EXTENDS ReviewQueue, TLAPS

LetterState == [pc : {"none", "queued", "reading", "sending", "sent", "auditing", "failing", "done"},
                row : {"none", "PENDING", "SENT", "FAILED"}, arrived : BOOLEAN,
                refused : BOOLEAN, failed : BOOLEAN]
FetchState == [pc : {"idle", "asked", "answered"}, got : SUBSET Drafts]
PanelState == [draft : Drafts \cup {NoDraft}, pc : {"closed", "open", "corrected"}]

(* Each draft has its three letters. *)
LEMMA LetterOfDraft ==
  ASSUME NEW d \in Drafts, NEW kind \in {"review", "approved", "rejected"}
  PROVE  <<kind, d>> \in Letters
BY DEF Letters

-----------------------------------------------------------------------------
(* What a step may do to one letter, whoever takes it. *)
Queued(old, new) == old.pc = "none" /\ new = [old EXCEPT !.pc = "queued"]
Begun(old, new) == old.pc = "queued" /\ new = [old EXCEPT !.pc = "reading"]
Rowed(old, new) == old.pc = "reading" /\ new = [old EXCEPT !.pc = "sending", !.row = "PENDING"]
Delivered(old, new) == old.pc = "sending" /\ new = [old EXCEPT !.pc = "sent", !.arrived = TRUE]
Refused(old, new, owner) ==
  /\ old.pc = "sending"
  /\ \E arrived \in BOOLEAN :
       new = [old EXCEPT !.pc = IF owner THEN "failing" ELSE "sent", !.refused = TRUE,
                         !.arrived = arrived]
Marked(old, new) == old.pc = "sent" /\ new = [old EXCEPT !.pc = "auditing", !.row = "SENT"]
Miscarried(old, new) ==
  old.pc \in {"sent", "auditing"} /\ new = [old EXCEPT !.pc = "failing", !.failed = TRUE]
Unmarked(old, new) == old.pc = "failing" /\ new = [old EXCEPT !.pc = "done", !.failed = TRUE]
Failed(old, new) == old.pc = "failing" /\ new = [old EXCEPT !.pc = "done", !.row = "FAILED"]
Unheard(old, new, owner) ==
  /\ old.pc = "reading"
  /\ new = [old EXCEPT !.pc = IF owner THEN "done" ELSE "failing", !.row = "PENDING", !.failed = TRUE]
Ended(old, new) == old.pc \in {"queued", "auditing"} /\ new = [old EXCEPT !.pc = "done"]
Broken(old, new) == old.pc # "none" /\ new = [old EXCEPT !.pc = "done", !.failed = TRUE]

LetterMove(old, new, owner) ==
  \/ new = old
  \/ Queued(old, new) \/ Begun(old, new) \/ Rowed(old, new) \/ Delivered(old, new)
  \/ Refused(old, new, owner) \/ Marked(old, new) \/ Miscarried(old, new)
  \/ Unmarked(old, new) \/ Failed(old, new) \/ Unheard(old, new, owner) \/ Ended(old, new)
  \/ Broken(old, new)

LettersMove == \A l \in Letters : LetterMove(letter[l], letter'[l], Owner(l))

(* The open panel shows a draft. *)
PanelShowsDraft == panel.pc # "closed" => panel.draft \in Drafts

(* Every step leaves each letter alone or moves it once. *)
LEMMA EveryLetterMoves ==
  ASSUME letter \in [Letters -> LetterState], PanelShowsDraft, [Next]_vars
  PROVE  letter' \in [Letters -> LetterState] /\ LettersMove
<1> DEFINE Result == letter' \in [Letters -> LetterState] /\ LettersMove
<1>1. ASSUME UNCHANGED letter PROVE Result
  BY <1>1 DEF LettersMove, LetterMove
<1>2. ASSUME NEW l \in Letters, NEW new \in LetterState, letter' = [letter EXCEPT ![l] = new],
             LetterMove(letter[l], new, Owner(l))
      PROVE  Result
  BY <1>2 DEF LettersMove, LetterMove
<1>3. ASSUME NEW l \in Letters, Queue(l) PROVE Result
  <2> DEFINE new == [letter[l] EXCEPT !.pc = "queued"]
  <2>1. new \in LetterState
    BY DEF LetterState
  <2>2. LetterMove(letter[l], new, Owner(l))
    BY <1>3 DEF Queue, LetterMove, Queued
  <2>3. letter' = [letter EXCEPT ![l] = new]
    BY <1>3 DEF Queue
  <2>4. QED
    BY <1>2, <2>1, <2>2, <2>3
<1>4. ASSUME NEW d \in Drafts, NEW from, NEW kind \in {"approved", "rejected"}, Settle(d, from, kind)
      PROVE  Result
  BY <1>3, <1>4, LetterOfDraft DEF Settle
<1>5. ASSUME NEW d \in Drafts,
             CreateDraft(d) \/ DecideElsewhere(d) \/ Announce(d) \/ AnnounceFails(d) \/ ShowFrame(d)
               \/ OpenPanel(d)
      PROVE  Result
  <2>1. CASE CreateDraft(d)
    BY <1>3, <2>1, LetterOfDraft DEF CreateDraft
  <2>2. CASE DecideElsewhere(d)
    BY <1>1, <1>4, <2>2 DEF DecideElsewhere
  <2>3. CASE Announce(d) \/ AnnounceFails(d) \/ ShowFrame(d) \/ OpenPanel(d)
    BY <1>1, <2>3 DEF Announce, AnnounceFails, ShowFrame, OpenPanel
  <2>4. QED
    BY <1>5, <2>1, <2>2, <2>3
<1>6. ASSUME NEW f \in Fetches, Browse(f) PROVE Result
  <2>1. ASSUME NEW d \in Drafts, DecideOnCard(d, f) PROVE Result
    BY <1>4, <2>1 DEF DecideOnCard
  <2>2. CASE DecideInPanel(f)
    BY <1>4, <2>2 DEF DecideInPanel, PanelShowsDraft
  <2>3. CASE AnswerFetch(f) \/ ShowAnswer(f) \/ FetchFails(f) \/ Mount(f) \/ Refresh(f) \/ ClosePanel(f)
    BY <1>1, <2>3 DEF AnswerFetch, ShowAnswer, FetchFails, Mount, Refresh, ClosePanel
  <2>4. QED
    BY <1>6, <2>1, <2>2, <2>3 DEF Browse
<1>7. ASSUME NEW l \in Letters, WriteLetter(l) PROVE Result
  <2> DEFINE old == letter[l]
  <2>1. old \in LetterState
    OBVIOUS
  <2>2. PICK new \in LetterState : Put(l, new) /\ LetterMove(old, new, Owner(l))
    <3>0. CASE NoRow(l) \/ RowUnheard(l)
      BY <2>1, <3>0 DEF NoRow, RowUnheard, LetterMove, Broken, Unheard, LetterState
    <3>1. CASE SkipLetter(l) \/ Audit(l)
      BY <2>1, <3>1 DEF SkipLetter, Audit, LetterMove, Ended, LetterState
    <3>2. CASE StartLetter(l)
      BY <2>1, <3>2 DEF StartLetter, LetterMove, Begun, LetterState
    <3>3. CASE CreateRow(l)
      BY <2>1, <3>3 DEF CreateRow, LetterMove, Rowed, LetterState
    <3>4. CASE Send(l)
      BY <2>1, <3>4 DEF Send, LetterMove, Delivered, LetterState
    <3>5. CASE SendRefused(l)
      BY <2>1, <3>5 DEF SendRefused, AfterRefusal, LetterMove, Refused, LetterState
    <3>6. CASE MarkSent(l)
      BY <2>1, <3>6 DEF MarkSent, LetterMove, Marked, LetterState
    <3>7. CASE RecordFails(l)
      BY <2>1, <3>7 DEF RecordFails, LetterMove, Miscarried, LetterState
    <3>8. CASE MarkFailed(l)
      BY <2>1, <3>8 DEF MarkFailed, LetterMove, Failed, LetterState
    <3>9. CASE MarkFailedFails(l)
      BY <2>1, <3>9 DEF MarkFailedFails, LetterMove, Unmarked, LetterState
    <3>10. QED
      BY <1>7, <3>0, <3>1, <3>2, <3>3, <3>4, <3>5, <3>6, <3>7, <3>8, <3>9 DEF WriteLetter
  <2>3. QED
    BY <1>2, <2>2 DEF Put
<1>8. CASE Crash
  <2>1. ASSUME NEW l \in Letters
        PROVE  letter'[l] \in LetterState /\ LetterMove(letter[l], letter'[l], Owner(l))
    <3>1. letter[l] \in LetterState
      OBVIOUS
    <3>2. CASE l \in UnderWay
      BY <1>8, <3>1, <3>2 DEF Crash, UnderWay, LetterMove, Broken, LetterState
    <3>3. CASE l \notin UnderWay
      BY <1>8, <3>1, <3>3 DEF Crash, LetterMove
    <3>4. QED
      BY <3>2, <3>3
  <2>2. letter' = [l \in Letters |-> letter'[l]]
    BY <1>8 DEF Crash
  <2>3. QED
    BY <2>1, <2>2 DEF LettersMove
<1>9. CASE Connect \/ Disconnect \/ Unmount \/ SaveEdits \/ ApprovalRefused \/ UNCHANGED vars
  BY <1>1, <1>9 DEF Connect, Disconnect, Unmount, SaveEdits, ApprovalRefused, vars
<1>10. QED
  BY <1>5, <1>6, <1>7, <1>8, <1>9 DEF Next

-----------------------------------------------------------------------------
(* What is true of a letter at each point of its handler. *)
LetterOK(l, owner) ==
  /\ l.pc \in {"none", "queued", "reading"} => l.row = "none" /\ ~l.arrived
  /\ l.pc = "sending" => l.row = "PENDING"
  /\ l.pc = "sent" => l.row = "PENDING"
  /\ l.pc = "auditing" => l.row = "SENT"
  /\ l.pc \in {"sent", "auditing"} => l.arrived \/ (l.refused /\ ~owner)
  /\ l.pc = "failing" => l.row # "none" /\ (l.failed \/ (l.refused /\ owner))
  /\ l.row = "SENT" => l.arrived \/ (l.refused /\ ~owner)
  /\ l.row = "FAILED" => l.pc = "done" /\ (l.failed \/ (l.refused /\ owner))
  /\ l.row = "PENDING" /\ l.pc = "done" => l.failed
  /\ l.row = "none" => ~l.arrived

LettersOK == \A l \in Letters : LetterOK(letter[l], Owner(l))

(* A move keeps a letter's row true to it. *)
LEMMA MoveKeepsLetterOK ==
  ASSUME NEW old \in LetterState, NEW new, NEW owner \in BOOLEAN,
         LetterOK(old, owner), LetterMove(old, new, owner)
  PROVE  LetterOK(new, owner)
<1>1. CASE new = old
  BY <1>1
<1>2. CASE Queued(old, new) \/ Begun(old, new) \/ Rowed(old, new) \/ Ended(old, new)
  BY <1>2 DEF Queued, Begun, Rowed, Ended, LetterOK, LetterState
<1>3. CASE Delivered(old, new) \/ Marked(old, new)
  BY <1>3 DEF Delivered, Marked, LetterOK, LetterState
<1>4. CASE Refused(old, new, owner)
  BY <1>4 DEF Refused, LetterOK, LetterState
<1>5. CASE Miscarried(old, new) \/ Unmarked(old, new) \/ Failed(old, new) \/ Broken(old, new)
             \/ Unheard(old, new, owner)
  BY <1>5 DEF Miscarried, Unmarked, Failed, Broken, Unheard, LetterOK, LetterState
<1>6. QED
  BY <1>1, <1>2, <1>3, <1>4, <1>5 DEF LetterMove
-----------------------------------------------------------------------------
(* Everything but the letters: the page, the stream and the drafts. *)
PageTyped ==
  /\ status \in [Drafts -> {"none", "PENDING", "REVIEWED", "APPROVED", "REJECTED"}]
  /\ announced \in [Drafts -> {"none", "queued", "done"}]
  /\ stream \in {"off", "connecting", "on", "lost"}
  /\ frames \subseteq Drafts /\ list \subseteq Drafts
  /\ missed \subseteq Drafts /\ dropped \subseteq Drafts /\ overwritten \subseteq Drafts
  /\ fetch \in [Fetches -> FetchState]
  /\ loading \in BOOLEAN
  /\ panel \in PanelState
  /\ faults \in 0..MaxFaults

(* What an answer brings was stored, as what is shown and what is on its    *)
(* way is; a draft is on the stream only once it is stored.                *)
OnlyStored ==
  /\ \A d \in list \cup frames : status[d] # "none"
  /\ \A f \in Fetches : \A d \in fetch[f].got : status[d] # "none"
  /\ \A d \in Drafts : announced[d] = "none" <=> status[d] = "none"

(* PendingIsShown while the stream is not yet up or lost, too. *)
Shown ==
  stream # "off" =>
    \A d \in Drafts \ (missed \cup dropped \cup overwritten) :
      status[d] = "PENDING" => d \in list \cup frames \/ announced[d] = "queued"

PageOK == PageTyped /\ PanelShowsDraft /\ OnlyStored /\ Shown

(* How a decision moves one draft. *)
Decided(d, new) ==
  /\ d \in Drafts
  /\ status[d] # "none"
  /\ new \in {"REVIEWED", "APPROVED", "REJECTED"}
  /\ status' = [status EXCEPT ![d] = new]

(* An approval or a rejection is a decision. *)
LEMMA SettleDecides ==
  ASSUME NEW d \in Drafts, NEW from, NEW kind, "none" \notin from, Settle(d, from, kind)
  PROVE  \E new : Decided(d, new)
BY DEF Settle, Decided

(* So is a correction. *)
LEMMA CorrectDecides ==
  ASSUME NEW d \in Drafts, NEW from, "none" \notin from, Correct(d, from)
  PROVE  Decided(d, "REVIEWED")
BY DEF Correct, Decided

(* A decision with the page as it was, or asking anew, keeps PageOK. *)
LEMMA DecisionKeepsPage ==
  ASSUME PageOK, NEW d, NEW new, Decided(d, new),
         UNCHANGED <<announced, stream, frames, list, missed, dropped, overwritten, faults>>,
         fetch' \in [Fetches -> FetchState],
         \A f \in Fetches : fetch'[f].got = fetch[f].got,
         loading' \in BOOLEAN, panel' \in PanelState, PanelShowsDraft'
  PROVE  PageOK'
<1>1. status' \in [Drafts -> {"none", "PENDING", "REVIEWED", "APPROVED", "REJECTED"}]
  BY DEF PageOK, PageTyped, Decided
<1>2. \A e \in Drafts : status'[e] = status[e] \/ (status[e] # "none" /\ status'[e] \notin {"none", "PENDING"})
  BY DEF PageOK, PageTyped, Decided
<1>3. PageTyped'
  BY <1>1 DEF PageOK, PageTyped
<1>4. OnlyStored'
  BY <1>2 DEF PageOK, OnlyStored, PageTyped, FetchState
<1>5. Shown'
  BY <1>2 DEF PageOK, Shown
<1>6. QED
  BY <1>3, <1>4, <1>5 DEF PageOK

(* A request for the drafts changes nothing of what was answered. *)
LEMMA AskKeepsFetches ==
  ASSUME PageTyped, NEW f \in Fetches, Ask(f)
  PROVE  /\ fetch' \in [Fetches -> FetchState]
         /\ \A g \in Fetches : fetch'[g].got = fetch[g].got
         /\ loading' \in BOOLEAN
<1>1. fetch \in [Fetches -> FetchState]
  BY DEF PageTyped
<1>2. QED
  BY <1>1 DEF Ask, FetchState

(* Every step keeps the page true to the drafts. *)
LEMMA PageStep ==
  ASSUME ReviewQueueAssumption, PageOK, [Next]_vars
  PROVE  PageOK'
<1> USE DEF page
<1>t. PageTyped /\ PanelShowsDraft /\ OnlyStored /\ Shown
  BY DEF PageOK
<1>f. ASSUME Fault PROVE faults' \in 0..MaxFaults
  BY <1>f, <1>t DEF Fault, PageTyped, ReviewQueueAssumption
<1>n. NoFetch \in FetchState /\ NoPanel \in PanelState
  BY DEF NoFetch, FetchState, NoPanel, PanelState
<1>1. ASSUME NEW d \in Drafts, CreateDraft(d) PROVE PageOK'
  <2>1. status' = [status EXCEPT ![d] = "PENDING"] /\ announced' = [announced EXCEPT ![d] = "queued"]
        /\ UNCHANGED <<stream, frames, list, fetch, loading, panel, missed, dropped, overwritten, faults>>
    BY <1>1 DEF CreateDraft
  <2>2. PageTyped' /\ PanelShowsDraft'
    BY <1>t, <2>1 DEF PageTyped, PanelShowsDraft
  <2>3. OnlyStored'
    BY <1>t, <2>1 DEF PageTyped, OnlyStored
  <2>4. Shown'
    BY <1>t, <2>1 DEF PageTyped, Shown
  <2>5. QED
    BY <2>2, <2>3, <2>4 DEF PageOK
<1>2. ASSUME NEW d \in Drafts, DecideElsewhere(d) PROVE PageOK'
  <2>1. PICK new : Decided(d, new)
    BY <1>2, SettleDecides, CorrectDecides DEF DecideElsewhere, Waiting
  <2>2. UNCHANGED <<announced, page, faults>>
    BY <1>2 DEF DecideElsewhere
  <2>3. QED
    BY <1>t, <2>1, <2>2, DecisionKeepsPage DEF PageTyped, PanelShowsDraft
<1>3. ASSUME NEW d \in Drafts, Announce(d) \/ AnnounceFails(d) PROVE PageOK'
  <2>1. PageTyped' /\ PanelShowsDraft'
    BY <1>t, <1>3, <1>f DEF Announce, AnnounceFails, PageTyped, PanelShowsDraft
  <2>2. OnlyStored'
    BY <1>t, <1>3 DEF Announce, AnnounceFails, PageTyped, OnlyStored
  <2>3. Shown'
    BY <1>t, <1>3 DEF Announce, AnnounceFails, PageTyped, Shown
  <2>4. QED
    BY <2>1, <2>2, <2>3 DEF PageOK
<1>4. ASSUME NEW d \in Drafts, ShowFrame(d) PROVE PageOK'
  <2>1. PageTyped' /\ PanelShowsDraft'
    BY <1>t, <1>4 DEF ShowFrame, WithFrame, PageTyped, PanelShowsDraft
  <2>2. OnlyStored' /\ Shown'
    BY <1>t, <1>4 DEF ShowFrame, WithFrame, PageTyped, OnlyStored, Shown
  <2>3. QED
    BY <2>1, <2>2 DEF PageOK
<1>5. ASSUME NEW d \in Drafts, OpenPanel(d) PROVE PageOK'
  BY <1>t, <1>5 DEF OpenPanel, PageOK, PageTyped, PanelShowsDraft, PanelState, OnlyStored, Shown
<1>6. ASSUME NEW f \in Fetches, AnswerFetch(f) PROVE PageOK'
  <2>1. PageTyped' /\ PanelShowsDraft'
    BY <1>t, <1>6 DEF AnswerFetch, PageTyped, PanelShowsDraft, FetchState
  <2>2. OnlyStored' /\ Shown'
    BY <1>t, <1>6 DEF AnswerFetch, PageTyped, OnlyStored, Shown, FetchState
  <2>3. QED
    BY <2>1, <2>2 DEF PageOK
<1>7. ASSUME NEW f \in Fetches, ShowAnswer(f) PROVE PageOK'
  <2>1. fetch[f].got \subseteq Drafts
    BY <1>t DEF PageTyped, FetchState
  <2>2. PageTyped' /\ PanelShowsDraft'
    BY <1>t, <1>n, <1>7, <2>1 DEF ShowAnswer, PageTyped, PanelShowsDraft
  <2>3. OnlyStored' /\ Shown'
    BY <1>t, <1>7, <2>1 DEF ShowAnswer, PageTyped, OnlyStored, Shown, NoFetch
  <2>4. QED
    BY <2>2, <2>3 DEF PageOK
<1>8. ASSUME NEW f \in Fetches, FetchFails(f) PROVE PageOK'
  <2>1. PageTyped' /\ PanelShowsDraft'
    BY <1>t, <1>n, <1>f, <1>8 DEF FetchFails, PageTyped, PanelShowsDraft
  <2>2. OnlyStored' /\ Shown'
    BY <1>t, <1>8 DEF FetchFails, PageTyped, OnlyStored, Shown, NoFetch
  <2>3. QED
    BY <2>1, <2>2 DEF PageOK
<1>9. ASSUME NEW f \in Fetches, Mount(f) PROVE PageOK'
  <2>1. PageTyped' /\ PanelShowsDraft'
    BY <1>t, <1>9, AskKeepsFetches DEF Mount, PageTyped, PanelShowsDraft
  <2>2. OnlyStored' /\ Shown'
    BY <1>t, <1>9, AskKeepsFetches DEF Mount, PageTyped, OnlyStored, Shown, FetchState
  <2>3. QED
    BY <2>1, <2>2 DEF PageOK
<1>10. ASSUME NEW f \in Fetches, Refresh(f) PROVE PageOK'
  <2>1. PageTyped' /\ PanelShowsDraft'
    BY <1>t, <1>10, AskKeepsFetches DEF Refresh, PageTyped, PanelShowsDraft
  <2>2. OnlyStored' /\ Shown'
    BY <1>t, <1>10, AskKeepsFetches DEF Refresh, PageTyped, OnlyStored, Shown, FetchState
  <2>3. QED
    BY <2>1, <2>2 DEF PageOK
<1>11. ASSUME NEW f \in Fetches, NEW d \in Drafts, DecideOnCard(d, f) PROVE PageOK'
  <2>1. PICK new : Decided(d, new)
    BY <1>11, SettleDecides DEF DecideOnCard, Waiting
  <2>2. UNCHANGED <<announced, stream, frames, list, panel, missed, dropped, overwritten, faults>> /\ Ask(f)
    BY <1>11 DEF DecideOnCard
  <2>3. QED
    BY <1>t, <2>1, <2>2, AskKeepsFetches, DecisionKeepsPage DEF PageOK, PageTyped, PanelShowsDraft
<1>12. ASSUME NEW f \in Fetches, DecideInPanel(f) PROVE PageOK'
  <2>1. panel.draft \in Drafts
    BY <1>t, <1>12 DEF DecideInPanel, PanelShowsDraft
  <2>2. PICK new : Decided(panel.draft, new)
    BY <1>12, <2>1, SettleDecides DEF DecideInPanel, Waiting
  <2>3. UNCHANGED <<announced, stream, frames, list, missed, dropped, overwritten, faults>> /\ Ask(f)
        /\ panel' = NoPanel
    BY <1>12 DEF DecideInPanel
  <2>4. PanelShowsDraft'
    BY <2>3 DEF PanelShowsDraft, NoPanel
  <2>5. QED
    BY <1>t, <1>n, <2>2, <2>3, <2>4, AskKeepsFetches, DecisionKeepsPage
<1>13. ASSUME NEW f \in Fetches, ClosePanel(f) PROVE PageOK'
  <2>1. PageTyped' /\ PanelShowsDraft'
    BY <1>t, <1>n, <1>13, AskKeepsFetches DEF ClosePanel, PageTyped, PanelShowsDraft, NoPanel
  <2>2. OnlyStored' /\ Shown'
    BY <1>t, <1>13, AskKeepsFetches DEF ClosePanel, PageTyped, OnlyStored, Shown, FetchState
  <2>3. QED
    BY <2>1, <2>2 DEF PageOK
<1>14. ASSUME NEW l \in Letters, WriteLetter(l) PROVE PageOK'
  <2>1. UNCHANGED <<status, announced, page>>
    BY <1>14 DEF WriteLetter, SkipLetter, StartLetter, CreateRow, NoRow, RowUnheard, Send, SendRefused,
                 MarkSent, Audit, RecordFails, MarkFailed, MarkFailedFails
  <2>2. faults' \in 0..MaxFaults
    BY <1>t, <1>f, <1>14
       DEF WriteLetter, SkipLetter, StartLetter, CreateRow, NoRow, RowUnheard, Send, SendRefused, MarkSent,
           Audit, RecordFails, MarkFailed, MarkFailedFails, PageTyped
  <2>3. QED
    BY <1>t, <2>1, <2>2 DEF PageOK, PageTyped, PanelShowsDraft, OnlyStored, Shown
<1>15. CASE Connect \/ Disconnect
  <2>1. PageTyped' /\ PanelShowsDraft'
    BY <1>t, <1>f, <1>15 DEF Connect, Disconnect, PageTyped, PanelShowsDraft
  <2>2. OnlyStored' /\ Shown'
    BY <1>t, <1>15 DEF Connect, Disconnect, PageTyped, OnlyStored, Shown
  <2>3. QED
    BY <2>1, <2>2 DEF PageOK
<1>16. CASE Unmount
  <2>1. PageTyped' /\ PanelShowsDraft'
    BY <1>t, <1>n, <1>16 DEF Unmount, PageTyped, PanelShowsDraft, NoPanel
  <2>2. OnlyStored' /\ Shown'
    BY <1>t, <1>16 DEF Unmount, OnlyStored, Shown, NoFetch
  <2>3. QED
    BY <2>1, <2>2 DEF PageOK
<1>17. CASE SaveEdits
  <2>1. panel.draft \in Drafts
    BY <1>t, <1>17 DEF SaveEdits, PanelShowsDraft
  <2>2. Decided(panel.draft, "REVIEWED")
    BY <1>17, <2>1, CorrectDecides DEF SaveEdits, Waiting
  <2>3. panel' \in PanelState /\ PanelShowsDraft'
    BY <1>t, <1>17, <2>1 DEF SaveEdits, PageTyped, PanelState, PanelShowsDraft
  <2>4. UNCHANGED <<announced, stream, frames, list, fetch, loading, missed, dropped, overwritten, faults>>
    BY <1>17 DEF SaveEdits
  <2>5. QED
    BY <1>t, <2>2, <2>3, <2>4, DecisionKeepsPage DEF PageTyped
<1>18. CASE ApprovalRefused
  <2>1. PageTyped' /\ PanelShowsDraft'
    BY <1>t, <1>18 DEF ApprovalRefused, PageTyped, PanelState, PanelShowsDraft
  <2>2. OnlyStored' /\ Shown'
    BY <1>t, <1>18 DEF ApprovalRefused, OnlyStored, Shown
  <2>3. QED
    BY <2>1, <2>2 DEF PageOK
<1>19. CASE Crash
  <2>1. PageTyped' /\ PanelShowsDraft'
    <3>1. announced' \in [Drafts -> {"none", "queued", "done"}] /\ fetch' \in [Fetches -> FetchState]
      BY <1>t, <1>n, <1>19 DEF Crash, PageTyped
    <3>2. QED
      BY <1>t, <1>f, <1>19, <3>1 DEF Crash, PageTyped, PanelShowsDraft
  <2>2. OnlyStored' /\ Shown'
    BY <1>t, <1>19 DEF Crash, PageTyped, OnlyStored, Shown, NoFetch
  <2>3. QED
    BY <2>1, <2>2 DEF PageOK
<1>20. CASE UNCHANGED vars
  BY <1>t, <1>20 DEF vars, PageOK, PageTyped, PanelShowsDraft, OnlyStored, Shown
<1>21. QED
  BY <1>1, <1>2, <1>3, <1>4, <1>5, <1>6, <1>7, <1>8, <1>9, <1>10, <1>11, <1>12, <1>13, <1>14,
     <1>15, <1>16, <1>17, <1>18, <1>19, <1>20 DEF Next, Browse
-----------------------------------------------------------------------------
(* A decision is told only of a draft that was decided. *)
ToldIsDecided ==
  \A d \in Drafts, kind \in {"approved", "rejected"} :
    letter[<<kind, d>>].pc # "none" => status[d] \notin {"none", "PENDING"}

(* No step lets a decision be told that was not made. *)
LEMMA ToldStep ==
  ASSUME letter \in [Letters -> LetterState], PageOK, ToldIsDecided, [Next]_vars
  PROVE  ToldIsDecided'
<1>l. \A d \in Drafts, kind \in {"approved", "rejected"} : <<kind, d>> \in Letters
  BY DEF Letters
<1>s. PageTyped /\ PanelShowsDraft /\ OnlyStored
  BY DEF PageOK
<1>1. ASSUME NEW d \in Drafts, CreateDraft(d) PROVE ToldIsDecided'
  <2>1. letter' = [letter EXCEPT ![<<"review", d>>].pc = "queued"]
    BY <1>1 DEF CreateDraft, Queue
  <2>2. status' = [status EXCEPT ![d] = "PENDING"] /\ status[d] = "none"
    BY <1>1 DEF CreateDraft
  <2>3. QED
    BY <1>l, <1>s, <2>1, <2>2 DEF ToldIsDecided, PageTyped
<1>2. ASSUME NEW d \in Drafts, NEW from, "none" \notin from, NEW kind \in {"approved", "rejected"},
             Settle(d, from, kind)
      PROVE  ToldIsDecided'
  <2>1. letter' = [letter EXCEPT ![<<kind, d>>].pc = "queued"]
    BY <1>2 DEF Settle, Queue
  <2>2. PICK new \in {"APPROVED", "REJECTED"} : status' = [status EXCEPT ![d] = new]
    BY <1>2 DEF Settle
  <2>3. QED
    BY <1>l, <1>s, <2>1, <2>2 DEF ToldIsDecided, PageTyped
<1>3. ASSUME NEW d \in Drafts, NEW from, Correct(d, from), UNCHANGED letter PROVE ToldIsDecided'
  BY <1>l, <1>s, <1>3 DEF Correct, ToldIsDecided, PageTyped
<1>4. ASSUME UNCHANGED <<status, letter>> PROVE ToldIsDecided'
  BY <1>4 DEF ToldIsDecided
<1>5. ASSUME NEW d \in Drafts, DecideElsewhere(d) PROVE ToldIsDecided'
  BY <1>2, <1>3, <1>5 DEF DecideElsewhere, Waiting
<1>6. ASSUME NEW f \in Fetches, NEW d \in Drafts, DecideOnCard(d, f) PROVE ToldIsDecided'
  BY <1>2, <1>6 DEF DecideOnCard, Waiting
<1>7. ASSUME NEW f \in Fetches, DecideInPanel(f) PROVE ToldIsDecided'
  BY <1>2, <1>7, <1>s DEF DecideInPanel, Waiting, PanelShowsDraft
<1>8. CASE SaveEdits
  BY <1>3, <1>8, <1>s DEF SaveEdits, PanelShowsDraft
<1>9. ASSUME NEW l \in Letters, WriteLetter(l) PROVE ToldIsDecided'
  <2>1. PICK new : letter' = [letter EXCEPT ![l] = new]
    BY <1>9 DEF WriteLetter, SkipLetter, StartLetter, CreateRow, NoRow, RowUnheard, Send, SendRefused,
                MarkSent, Audit, RecordFails, MarkFailed, MarkFailedFails, Put
  <2>2. letter[l].pc # "none" /\ UNCHANGED status
    BY <1>9 DEF WriteLetter, SkipLetter, StartLetter, CreateRow, NoRow, RowUnheard, Send, SendRefused,
                MarkSent, Audit, RecordFails, MarkFailed, MarkFailedFails
  <2>3. QED
    BY <1>l, <2>1, <2>2 DEF ToldIsDecided
<1>10. CASE Crash
  <2>1. \A l \in Letters : letter'[l].pc # "none" => letter[l].pc # "none"
    BY <1>10 DEF Crash, UnderWay
  <2>2. UNCHANGED status
    BY <1>10 DEF Crash
  <2>3. QED
    BY <1>l, <2>1, <2>2 DEF ToldIsDecided
<1>11. QED
  <2>1. ASSUME NEW d \in Drafts, Announce(d) \/ AnnounceFails(d) \/ ShowFrame(d) \/ OpenPanel(d)
        PROVE  ToldIsDecided'
    BY <1>4, <2>1 DEF Announce, AnnounceFails, ShowFrame, OpenPanel
  <2>2. ASSUME NEW f \in Fetches,
               AnswerFetch(f) \/ ShowAnswer(f) \/ FetchFails(f) \/ Mount(f) \/ Refresh(f) \/ ClosePanel(f)
        PROVE  ToldIsDecided'
    BY <1>4, <2>2 DEF AnswerFetch, ShowAnswer, FetchFails, Mount, Refresh, ClosePanel
  <2>3. CASE Connect \/ Disconnect \/ Unmount \/ ApprovalRefused \/ UNCHANGED vars
    BY <1>4, <2>3 DEF Connect, Disconnect, Unmount, ApprovalRefused, vars
  <2>4. QED
    BY <1>1, <1>5, <1>6, <1>7, <1>8, <1>9, <1>10, <2>1, <2>2, <2>3 DEF Next, Browse

-----------------------------------------------------------------------------
(* The inductive invariant: what the theorems need of letters and page. *)
IInv ==
  /\ letter \in [Letters -> LetterState]
  /\ PageOK
  /\ LettersOK
  /\ ToldIsDecided

(* It holds at first. *)
LEMMA IInvInit ==
  ASSUME ReviewQueueAssumption, Init
  PROVE  IInv
<1>1. NoLetter \in LetterState /\ NoFetch \in FetchState /\ NoPanel \in PanelState
  BY DEF NoLetter, LetterState, NoFetch, FetchState, NoPanel, PanelState
<1>2. letter \in [Letters -> LetterState]
  BY <1>1 DEF Init
<1>3. PageTyped
  <2>1. faults \in 0..MaxFaults
    BY DEF Init, ReviewQueueAssumption
  <2>2. fetch \in [Fetches -> FetchState] /\ panel \in PanelState
    BY <1>1 DEF Init
  <2>3. QED
    BY <2>1, <2>2 DEF Init, PageTyped
<1>4. PanelShowsDraft /\ OnlyStored /\ Shown
  BY DEF Init, PanelShowsDraft, NoPanel, OnlyStored, NoFetch, Shown
<1>5. LettersOK
  <2>1. ASSUME NEW l \in Letters PROVE LetterOK(letter[l], Owner(l))
    BY DEF Init, NoLetter, LetterOK
  <2>2. QED
    BY <2>1 DEF LettersOK
<1>6. ToldIsDecided
  BY DEF Init, ToldIsDecided, NoLetter, Letters
<1>7. QED
  BY <1>2, <1>3, <1>4, <1>5, <1>6 DEF IInv, PageOK

(* Every step keeps it. *)
LEMMA IInvStep ==
  ASSUME ReviewQueueAssumption, IInv, [Next]_vars
  PROVE  IInv'
<1>1. letter' \in [Letters -> LetterState] /\ LettersMove
  BY EveryLetterMoves DEF IInv, PageOK
<1>2. LettersOK'
  <2>1. ASSUME NEW l \in Letters PROVE LetterOK(letter'[l], Owner(l))
    <3>1. letter[l] \in LetterState /\ LetterOK(letter[l], Owner(l))
      BY DEF IInv, LettersOK
    <3>2. LetterMove(letter[l], letter'[l], Owner(l)) /\ Owner(l) \in BOOLEAN
      BY <1>1 DEF LettersMove, Owner
    <3>3. QED
      BY <3>1, <3>2, MoveKeepsLetterOK
  <2>2. QED
    BY <2>1 DEF LettersOK
<1>3. PageOK' /\ ToldIsDecided'
  BY PageStep, ToldStep DEF IInv
<1>4. QED
  BY <1>1, <1>2, <1>3 DEF IInv

(* So it always holds. *)
LEMMA Inductive == Spec => []IInv
<1>1. Init => IInv
  BY IInvInit, ReviewQueueAssumption
<1>2. IInv /\ [Next]_vars => IInv'
  BY IInvStep, ReviewQueueAssumption
<1>3. QED
  BY <1>1, <1>2, PTL DEF Spec

(* The tables and the page hold what they can, nothing is shown that was   *)
(* never stored and no decision is told that was not made (orders.service, *)
(* lib/sse.ts, the orders page and the two listeners).                     *)
THEOREM TypeCorrect == Spec => []TypeOK
<1>1. IInv => TypeOK
  BY DEF IInv, PageOK, PageTyped, OnlyStored, ToldIsDecided, TypeOK, LetterState, FetchState,
         PanelState
<1>2. QED
  BY <1>1, Inductive, PTL

(* A connected page shows every PENDING draft, or has it on its way, but   *)
(* for one announced while it was not connected, one whose announcement    *)
(* failed, and one that a late answer took from the list (fetchDrafts,     *)
(* handleDraftCreated, the orders page).                                   *)
THEOREM PendingShown == Spec => []PendingIsShown
<1>1. IInv => PendingIsShown
  BY DEF IInv, PageOK, Shown, PendingIsShown
<1>2. QED
  BY <1>1, Inductive, PTL

(* The rows of notifications: a mail marked SENT was accepted, a notice    *)
(* delivered or refused; FAILED is a mail's send that threw, whether or    *)
(* not the mail was accepted, and FAILED otherwise or PENDING at the end   *)
(* is a failed access to the database or the process's death (the two      *)
(* notification listeners and sendEmail).                                  *)
THEOREM RowsTrue == Spec => []RowsTellTheTruth
<1>1. IInv => RowsTellTheTruth
  BY DEF IInv, LettersOK, LetterOK, RowsTellTheTruth
<1>2. QED
  BY <1>1, Inductive, PTL
=============================================================================
