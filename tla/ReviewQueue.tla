---------------------------- MODULE ReviewQueue ----------------------------
(***************************************************************************)
(* How a draft and its decision reach people: the owner's list of drafts   *)
(* (orders/page.tsx, lib/sse.ts, OrdersService's event stream), the mail   *)
(* to the owner and the WhatsApp notice to the customer (the two           *)
(* notification listeners, NotificationsService).                          *)
(*                                                                         *)
(* One page is fed by answers to GET drafts and by frames of the stream;   *)
(* other owners decide elsewhere.  A draft's statuses are those of         *)
(* OrderLifecycle, whose races show here as a decision taken over an       *)
(* approval.  Each event is handled in the background and lost in a        *)
(* restart.                                                                *)
(***************************************************************************)
EXTENDS Integers, FiniteSets

CONSTANTS
  Drafts,      (* the drafts of a tenant                                     *)
  Fetches,     (* requests for the drafts a page may have under way          *)
  MaxLetters,  (* bound on letters under way at once                         *)
  MaxFaults,   (* bound on restarts and failures                             *)
  NoDraft      (* selectedDraftId null                                       *)

VARIABLES
  status,      (* draft -> its status, "none" before it is stored            *)
  announced,   (* draft -> the handler that puts it on the stream            *)
  letter,      (* the mail and the notices of each draft                     *)
  stream,      (* the page's connection to the event stream                  *)
  frames,      (* drafts on their way along the stream                       *)
  list,        (* drafts the page shows                                      *)
  fetch,       (* the page's requests for the drafts                         *)
  loading,     (* isLoading                                                  *)
  panel,       (* the detail panel                                           *)
  missed,      (* drafts announced while the page was not connected          *)
  dropped,     (* drafts whose announcement failed                           *)
  overwritten, (* drafts it showed and an answer took from the list          *)
  faults       (* restarts and failures so far                               *)

page == <<stream, frames, list, fetch, loading, panel, missed, dropped, overwritten>>
vars == <<status, announced, letter, page, faults>>

ASSUME ReviewQueueAssumption ==
  /\ MaxLetters \in Nat
  /\ MaxFaults \in Nat
  /\ NoDraft \notin Drafts

Waiting == {"PENDING", "REVIEWED"}
Letters == {"review", "approved", "rejected"} \X Drafts
NoFetch == [pc |-> "idle", got |-> {}]
NoLetter == [pc |-> "none", row |-> "none", arrived |-> FALSE, refused |-> FALSE, failed |-> FALSE]
NoPanel == [draft |-> NoDraft, pc |-> "closed"]

Init ==
  /\ status = [d \in Drafts |-> "none"]
  /\ announced = [d \in Drafts |-> "none"]
  /\ letter = [l \in Letters |-> NoLetter]
  /\ stream = "off" /\ frames = {} /\ list = {} /\ loading = FALSE
  /\ fetch = [f \in Fetches |-> NoFetch]
  /\ panel = NoPanel
  /\ missed = {} /\ dropped = {} /\ overwritten = {}
  /\ faults = 0

-----------------------------------------------------------------------------
(* Drafts and decisions, each with the event it emits. *)
(* A draft has one letter of each kind, MaxLetters are under way at once.   *)
UnderWay == {l \in Letters : letter[l].pc \notin {"none", "done"}}

Queue(l) ==
  /\ Cardinality(UnderWay) < MaxLetters
  /\ letter[l].pc = "none"
  /\ letter' = [letter EXCEPT ![l].pc = "queued"]

CreateDraft(d) ==
  /\ status[d] = "none"
  /\ status' = [status EXCEPT ![d] = "PENDING"]
  /\ announced' = [announced EXCEPT ![d] = "queued"]
  /\ Queue(<<"review", d>>)
  /\ UNCHANGED <<page, faults>>

(* TypeOK: the event is emitted, the draft not updated.                    *)
SettleUnsaved(d, from, kind) ==
  /\ status[d] \in from
  /\ Queue(<<kind, d>>)
  /\ UNCHANGED status

Settle(d, from, kind) ==
  /\ status[d] \in from
  /\ status' = [status EXCEPT ![d] = IF kind = "approved" THEN "APPROVED" ELSE "REJECTED"]
  /\ Queue(<<kind, d>>)

Correct(d, from) ==
  /\ status[d] \in from
  /\ status' = [status EXCEPT ![d] = "REVIEWED"]

(* Another owner or the automatic approval; a rejection or a correction    *)
(* that read the draft before a decision is written over it.               *)
DecideElsewhere(d) ==
  /\ \/ Settle(d, Waiting, "approved")
     \/ Settle(d, Waiting \cup {"APPROVED"}, "rejected")
     \/ Correct(d, Waiting \cup {"APPROVED", "REJECTED"}) /\ UNCHANGED letter
  /\ UNCHANGED <<announced, page, faults>>

-----------------------------------------------------------------------------
(* The stream: OrdersService.handleDraftCreated and subscribeToSse. *)
Announce(d) ==
  /\ announced[d] = "queued"
  /\ announced' = [announced EXCEPT ![d] = "done"]
  /\ IF stream = "on"
     THEN frames' = frames \cup {d} /\ UNCHANGED missed
     ELSE missed' = missed \cup {d} /\ UNCHANGED frames
  /\ UNCHANGED <<status, letter, stream, list, fetch, loading, panel, dropped, overwritten, faults>>

Fault == faults < MaxFaults /\ faults' = faults + 1

(* Reading the draft for the frame fails, which is only logged.            *)
AnnounceFails(d) ==
  /\ announced[d] = "queued" /\ Fault
  /\ announced' = [announced EXCEPT ![d] = "done"]
  /\ dropped' = dropped \cup {d}
  /\ UNCHANGED <<status, letter, stream, frames, list, fetch, loading, panel, missed, overwritten>>

Connect ==
  /\ stream = "connecting"
  /\ stream' = "on"
  /\ UNCHANGED <<status, announced, letter, frames, list, fetch, loading, panel, missed, dropped,
                 overwritten, faults>>

(* The server closes the stream or refuses the token: nothing reconnects. *)
Disconnect ==
  /\ stream \in {"connecting", "on"} /\ Fault
  /\ stream' = "lost"
  /\ missed' = missed \cup frames
  /\ frames' = {}
  /\ UNCHANGED <<status, announced, letter, list, fetch, loading, panel, dropped, overwritten>>

(* PendingIsShown: with the list loading, the frame is left to the answer. *)
FrameWhileLoading(d) == IF loading THEN list ELSE list \cup {d}

WithFrame(d) == list \cup {d}

ShowFrame(d) ==
  /\ d \in frames
  /\ frames' = frames \ {d}
  /\ list' = WithFrame(d)
  /\ overwritten' = overwritten \ {d}
  /\ UNCHANGED <<status, announced, letter, stream, fetch, loading, panel, missed, dropped,
                 faults>>

-----------------------------------------------------------------------------
(* fetchDrafts *)
Ask(f) ==
  /\ fetch[f].pc = "idle"
  /\ fetch' = [fetch EXCEPT ![f].pc = "asked"]
  /\ loading' = TRUE

(* getPendingDrafts *)
AnswerFetch(f) ==
  /\ fetch[f].pc = "asked"
  /\ fetch' = [fetch EXCEPT ![f] = [pc |-> "answered", got |-> {d \in Drafts : status[d] = "PENDING"}]]
  /\ UNCHANGED <<status, announced, letter, stream, frames, list, loading, panel, missed, dropped,
                 overwritten, faults>>

ShowAnswer(f) ==
  LET got == fetch[f].got IN
  /\ fetch[f].pc = "answered"
  /\ list' = got
  /\ missed' = missed \ got /\ dropped' = dropped \ got
  /\ overwritten' = (overwritten \cup list) \ got
  /\ loading' = FALSE
  /\ fetch' = [fetch EXCEPT ![f] = NoFetch]
  /\ UNCHANGED <<status, announced, letter, stream, frames, panel, faults>>

FetchFails(f) ==
  /\ fetch[f].pc # "idle" /\ Fault
  /\ loading' = FALSE
  /\ fetch' = [fetch EXCEPT ![f] = NoFetch]
  /\ UNCHANGED <<status, announced, letter, stream, frames, list, panel, missed, dropped, overwritten>>

-----------------------------------------------------------------------------
(* OrdersPage *)
Mount(f) ==
  /\ stream = "off"
  /\ Ask(f)
  /\ stream' = "connecting"
  /\ missed' = {d \in Drafts : announced[d] = "done"}
  /\ dropped' = {}
  /\ UNCHANGED <<status, announced, letter, frames, list, panel, overwritten, faults>>

Unmount ==
  /\ stream # "off"
  /\ stream' = "off" /\ frames' = {} /\ list' = {} /\ loading' = FALSE
  /\ fetch' = [f \in Fetches |-> NoFetch]
  /\ panel' = NoPanel
  /\ missed' = {} /\ dropped' = {} /\ overwritten' = {}
  /\ UNCHANGED <<status, announced, letter, faults>>

Refresh(f) ==
  /\ stream # "off"
  /\ Ask(f)
  /\ UNCHANGED <<status, announced, letter, stream, frames, list, panel, missed, dropped,
                 overwritten, faults>>

(* handleApprove, confirmReject *)
DecideOnCard(d, f) ==
  /\ d \in list
  /\ Settle(d, Waiting, "approved") \/ Settle(d, Waiting, "rejected")
  /\ Ask(f)
  /\ UNCHANGED <<announced, stream, frames, list, panel, missed, dropped, overwritten, faults>>

OpenPanel(d) ==
  /\ d \in list /\ panel = NoPanel
  /\ panel' = [draft |-> d, pc |-> "open"]
  /\ UNCHANGED <<status, announced, letter, stream, frames, list, fetch, loading, missed, dropped,
                 overwritten, faults>>

(* handleSaveAndApprove: the correction is stored, then the approval asked. *)
SaveEdits ==
  /\ panel.pc = "open" /\ Correct(panel.draft, Waiting)
  /\ panel' = [panel EXCEPT !.pc = "corrected"]
  /\ UNCHANGED <<announced, letter, stream, frames, list, fetch, loading, missed, dropped, overwritten,
                 faults>>

(* handleSaveAndApprove without edits or after them, handleReject *)
DecideInPanel(f) ==
  /\ \/ panel.pc \in {"open", "corrected"} /\ Settle(panel.draft, Waiting, "approved")
     \/ panel.pc = "open" /\ Settle(panel.draft, Waiting, "rejected")
  /\ panel' = NoPanel
  /\ Ask(f)
  /\ UNCHANGED <<announced, stream, frames, list, missed, dropped, overwritten, faults>>

(* Stock does not suffice, or the draft was decided meanwhile. *)
ApprovalRefused ==
  /\ panel.pc = "corrected"
  /\ panel' = [panel EXCEPT !.pc = "open"]
  /\ UNCHANGED <<status, announced, letter, stream, frames, list, fetch, loading, missed, dropped,
                 overwritten, faults>>

ClosePanel(f) ==
  /\ panel # NoPanel
  /\ panel' = NoPanel
  /\ Ask(f)
  /\ UNCHANGED <<status, announced, letter, stream, frames, list, missed, dropped, overwritten, faults>>

-----------------------------------------------------------------------------
(* NotificationListener, WhatsAppNotificationListener, sendEmail. *)
Put(l, new) == letter' = [letter EXCEPT ![l] = new]
Owner(l) == l[1] = "review"

(* The owner's mail is for a draft that still waits. *)
SkipLetter(l) ==
  /\ letter[l].pc = "queued" /\ Owner(l) /\ status[l[2]] # "PENDING"
  /\ Put(l, [letter[l] EXCEPT !.pc = "done"])
  /\ UNCHANGED <<status, announced, page, faults>>

StartLetter(l) ==
  /\ letter[l].pc = "queued" /\ (Owner(l) => status[l[2]] = "PENDING")
  /\ Put(l, [letter[l] EXCEPT !.pc = "reading"])
  /\ UNCHANGED <<status, announced, page, faults>>

CreateRow(l) ==
  /\ letter[l].pc = "reading"
  /\ Put(l, [letter[l] EXCEPT !.pc = "sending", !.row = "PENDING"])
  /\ UNCHANGED <<status, announced, page, faults>>

(* A read or the insert fails: the catch has no row to mark. *)
NoRow(l) ==
  /\ letter[l].pc \in {"queued", "reading"} /\ Fault
  /\ Put(l, [letter[l] EXCEPT !.pc = "done", !.failed = TRUE])
  /\ UNCHANGED <<status, announced, page>>

(* The row is stored and the answer lost: sendEmail throws and leaves it,  *)
(* the listener's catch marks it.                                          *)
RowUnheard(l) ==
  /\ letter[l].pc = "reading" /\ Fault
  /\ Put(l, [letter[l] EXCEPT !.pc = IF Owner(l) THEN "done" ELSE "failing",
                              !.row = "PENDING", !.failed = TRUE])
  /\ UNCHANGED <<status, announced, page>>

Send(l) ==
  /\ letter[l].pc = "sending"
  /\ Put(l, [letter[l] EXCEPT !.pc = "sent", !.arrived = TRUE])
  /\ UNCHANGED <<status, announced, page, faults>>

(* RowsTellTheTruth: the mail's failure, too, is only a result. *)
RefusalAsResult(l) == "sent"

(* nodemailer throws; the WhatsApp adapter answers {success: false}. Either *)
(* may do so after the other side took the message (its answer timed out). *)
AfterRefusal(l) == IF Owner(l) THEN "failing" ELSE "sent"

SendRefused(l) ==
  /\ letter[l].pc = "sending" /\ Fault
  /\ \E arrived \in BOOLEAN :
       Put(l, [letter[l] EXCEPT !.pc = AfterRefusal(l), !.refused = TRUE, !.arrived = arrived])
  /\ UNCHANGED <<status, announced, page>>

MarkSent(l) ==
  /\ letter[l].pc = "sent"
  /\ Put(l, [letter[l] EXCEPT !.pc = "auditing", !.row = "SENT"])
  /\ UNCHANGED <<status, announced, page, faults>>

Audit(l) ==
  /\ letter[l].pc = "auditing"
  /\ Put(l, [letter[l] EXCEPT !.pc = "done"])
  /\ UNCHANGED <<status, announced, page, faults>>

(* The update or the audit entry fails: the catch takes it for the send. *)
RecordFails(l) ==
  /\ letter[l].pc \in {"sent", "auditing"} /\ Fault
  /\ Put(l, [letter[l] EXCEPT !.pc = "failing", !.failed = TRUE])
  /\ UNCHANGED <<status, announced, page>>

MarkFailed(l) ==
  /\ letter[l].pc = "failing"
  /\ Put(l, [letter[l] EXCEPT !.pc = "done", !.row = "FAILED"])
  /\ UNCHANGED <<status, announced, page, faults>>

MarkFailedFails(l) ==
  /\ letter[l].pc = "failing" /\ Fault
  /\ Put(l, [letter[l] EXCEPT !.pc = "done", !.failed = TRUE])
  /\ UNCHANGED <<status, announced, page>>

WriteLetter(l) ==
  \/ SkipLetter(l) \/ StartLetter(l) \/ CreateRow(l) \/ NoRow(l) \/ RowUnheard(l)
  \/ Send(l) \/ SendRefused(l) \/ MarkSent(l) \/ Audit(l) \/ RecordFails(l)
  \/ MarkFailed(l) \/ MarkFailedFails(l)

-----------------------------------------------------------------------------
(* The backend restarts: handlers are gone, streams and requests fail. *)
Crash ==
  /\ Fault
  /\ letter' = [l \in Letters |->
                  IF l \in UnderWay
                  THEN [letter[l] EXCEPT !.pc = "done", !.failed = TRUE]
                  ELSE letter[l]]
  /\ announced' = [d \in Drafts |-> IF announced[d] = "queued" THEN "done" ELSE announced[d]]
  /\ stream' = IF stream = "off" THEN "off" ELSE "lost"
  /\ missed' = missed \cup frames \cup {d \in Drafts : announced[d] = "queued"}
  /\ frames' = {}
  /\ fetch' = [f \in Fetches |-> IF fetch[f].pc = "asked" THEN NoFetch ELSE fetch[f]]
  /\ loading' = (loading /\ \A f \in Fetches : fetch[f].pc # "asked")
  /\ UNCHANGED <<status, list, panel, dropped, overwritten>>

Browse(f) ==
  \/ AnswerFetch(f) \/ ShowAnswer(f) \/ FetchFails(f)
  \/ Mount(f) \/ Refresh(f) \/ DecideInPanel(f) \/ ClosePanel(f)
  \/ \E d \in Drafts : DecideOnCard(d, f)

Next ==
  \/ \E d \in Drafts :
       \/ CreateDraft(d) \/ DecideElsewhere(d)
       \/ Announce(d) \/ AnnounceFails(d) \/ ShowFrame(d) \/ OpenPanel(d)
  \/ \E f \in Fetches : Browse(f)
  \/ \E l \in Letters : WriteLetter(l)
  \/ Connect \/ Disconnect \/ Unmount \/ SaveEdits \/ ApprovalRefused \/ Crash

Spec == Init /\ [][Next]_vars

-----------------------------------------------------------------------------
(* The variables hold what the tables and the page can; nothing is shown   *)
(* or on its way that was never stored, no decision told that was not made. *)
TypeOK ==
  /\ status \in [Drafts -> {"none", "PENDING", "REVIEWED", "APPROVED", "REJECTED"}]
  /\ announced \in [Drafts -> {"none", "queued", "done"}]
  /\ letter \in [Letters -> [pc : {"none", "queued", "reading", "sending", "sent", "auditing",
                                   "failing", "done"},
                             row : {"none", "PENDING", "SENT", "FAILED"}, arrived : BOOLEAN,
                             refused : BOOLEAN, failed : BOOLEAN]]
  /\ stream \in {"off", "connecting", "on", "lost"}
  /\ frames \subseteq Drafts /\ list \subseteq Drafts
  /\ missed \subseteq Drafts /\ dropped \subseteq Drafts /\ overwritten \subseteq Drafts
  /\ fetch \in [Fetches -> [pc : {"idle", "asked", "answered"}, got : SUBSET Drafts]]
  /\ loading \in BOOLEAN
  /\ panel \in [draft : Drafts \cup {NoDraft}, pc : {"closed", "open", "corrected"}]
  /\ faults \in 0..MaxFaults
  /\ \A d \in list \cup frames : status[d] # "none"
  /\ \A d \in Drafts, kind \in {"approved", "rejected"} :
       letter[<<kind, d>>].pc # "none" => status[d] \notin {"none", "PENDING"}

(* A page whose stream is up shows every draft that is PENDING, or it is   *)
(* on its way to it, but for the three ways a draft can be missing: its    *)
(* announcement found the page not connected; its announcement failed, the *)
(* page connected or not; or an answer that was computed before the draft  *)
(* was stored replaced the list after its frame.                           *)
PendingIsShown ==
  stream = "on" =>
    \A d \in Drafts \ (missed \cup dropped \cup overwritten) :
      status[d] = "PENDING" => d \in list \cup frames \/ announced[d] = "queued"

(* What the rows say of letters, whatever fails. A mail marked SENT was    *)
(* accepted; a notice marked SENT was delivered or reported as refused,    *)
(* which the listener does not read. A mail marked FAILED had its send     *)
(* throw, a notice never for that reason; otherwise a row is marked FAILED *)
(* or left PENDING only if an access to the database failed or the process *)
(* died. Without a row nothing was delivered.                              *)
RowsTellTheTruth ==
  \A l \in Letters :
    /\ letter[l].row = "SENT" => letter[l].arrived \/ (letter[l].refused /\ ~Owner(l))
    /\ letter[l].row = "FAILED" => letter[l].failed \/ (letter[l].refused /\ Owner(l))
    /\ letter[l].row = "PENDING" /\ letter[l].pc = "done" => letter[l].failed
    /\ letter[l].row = "none" => ~letter[l].arrived

(* A page that is connected, missed nothing, waits for nothing and says    *)
(* "All caught up!" leaves no draft that awaits the owner's decision.      *)
AllCaughtUp ==
  /\ stream = "on" /\ ~loading /\ list = {} /\ frames = {} /\ missed = {} /\ dropped = {}
  /\ panel = NoPanel
  /\ \A d \in Drafts : announced[d] # "queued"
  => \A d \in Drafts : status[d] \notin Waiting
=============================================================================
