---------------------------- MODULE SessionProofs ----------------------------
(***************************************************************************)
(* Theorems about Session, for any number of tabs, requests, calls,        *)
(* refresh tokens, expiries and faults.                                    *)
(***************************************************************************)
EXTENDS Session, TLAPS

(* The service's row, the storage and what the calls have in common. *)
StoreTyped ==
  /\ hash \in Tokens \cup {None, Other} /\ usable \in BOOLEAN
  /\ store \in Store
  /\ wanted \in BOOLEAN
  /\ excuses \subseteq {"overlap", "lost", "elsewhere", "revoked", "rekeyed"}
  /\ expiries \in 0..MaxExpiries /\ faults \in 0..MaxFaults

PagesTyped ==
  /\ tab \in [Tabs -> Page]
  /\ req \in [Tabs -> [All -> Request]]
  /\ auth \in [Calls -> Auth]

(* A page that refreshes has a call for tokens that is answered to it, or  *)
(* is stuck; a request that began a refresh has that call.                 *)
PageServes(t) ==
  /\ tab[t].refreshing => Refreshes(t) \/ tab[t].stuck
  /\ \A r \in All : Awaiting(t, r) => tab[t].refreshing
  /\ \A r \in All : req[t][r].at = "waiting" => Refreshes(t)

PagesServe == \A t \in Tabs : PageServes(t)

(* The inductive invariant. *)
IInv == StoreTyped /\ PagesTyped /\ PagesServe

-----------------------------------------------------------------------------
(* The values pages, requests and calls start from. *)
LEMMA FreshStates ==
  /\ Fresh \in Page /\ Idle \in Request /\ NoRequests \in [All -> Request] /\ NoAuth \in Auth
  /\ Cleared \in Store
BY DEF Fresh, Shows, Page, Idle, Request, Access, NoRequests, NoAuth, Auth, Cleared, Store

(* Which pages refresh is a matter of the calls alone. *)
LEMMA RefreshesMeans ==
  ASSUME NEW t \in Tabs
  PROVE  /\ Refreshes(t) <=> \E c \in Calls :
              auth[c].at # "idle" /\ auth[c].page = t /\ auth[c].op = "refresh"
         /\ Refreshes(t)' <=> \E c \in Calls :
              auth'[c].at # "idle" /\ auth'[c].page = t /\ auth'[c].op = "refresh"
BY DEF Refreshes, Of, Underway

(* A page changes; the other pages are as they were and still refresh.     *)
LEMMA PageMoves ==
  ASSUME PagesTyped, PagesServe, NEW t \in Tabs, NEW page \in Page, NEW requests \in [All -> Request],
         tab' = [tab EXCEPT ![t] = page], req' = [req EXCEPT ![t] = requests],
         auth' \in [Calls -> Auth],
         \A s \in Tabs \ {t} : Refreshes(s) => Refreshes(s)',
         page.refreshing => Refreshes(t)' \/ page.stuck,
         \A r \in All : requests[r].at \in {"queued", "waiting"} => page.refreshing,
         \A r \in All : requests[r].at = "waiting" => Refreshes(t)'
  PROVE  PagesTyped' /\ PagesServe'
<1>1. PagesTyped'
  BY DEF PagesTyped
<1>2. tab'[t] = page /\ req'[t] = requests
  BY DEF PagesTyped
<1>3. ASSUME NEW s \in Tabs PROVE PageServes(s)'
  <2>1. CASE s = t
    BY <1>2, <2>1 DEF PageServes, Awaiting
  <2>2. CASE s # t
    <3>1. tab'[s] = tab[s] /\ req'[s] = req[s] /\ (Refreshes(s) => Refreshes(s)')
      BY <2>2 DEF PagesTyped
    <3>2. PageServes(s)
      BY DEF PagesServe
    <3>3. QED
      BY <3>1, <3>2 DEF PageServes, Awaiting
  <2>3. QED
    BY <2>1, <2>2
<1>4. QED
  BY <1>1, <1>3 DEF PagesServe

(* One request of a page goes on without beginning a refresh. *)
LEMMA RequestMoves ==
  ASSUME PagesTyped, PagesServe, NEW t \in Tabs, NEW r \in All, NEW new \in Request,
         new.at # "waiting", new.at = "queued" => tab[t].refreshing,
         req' = [req EXCEPT ![t][r] = new], UNCHANGED <<tab, auth>>
  PROVE  PagesTyped' /\ PagesServe'
<1> DEFINE requests == [req[t] EXCEPT ![r] = new]
<1>1. /\ requests \in [All -> Request] /\ req' = [req EXCEPT ![t] = requests]
      /\ tab' = [tab EXCEPT ![t] = tab[t]] /\ tab[t] \in Page /\ auth' \in [Calls -> Auth]
  BY DEF PagesTyped
<1>2. \A q \in All : requests[q] = IF q = r THEN new ELSE req[t][q]
  BY DEF PagesTyped
<1>3. \A s \in Tabs : Refreshes(s)' <=> Refreshes(s)
  BY RefreshesMeans
<1>4. PageServes(t)
  BY DEF PagesServe
<1> HIDE DEF requests
<1>5. /\ tab[t].refreshing => Refreshes(t)' \/ tab[t].stuck
      /\ \A q \in All : requests[q].at \in {"queued", "waiting"} => tab[t].refreshing
      /\ \A q \in All : requests[q].at = "waiting" => Refreshes(t)'
  BY <1>2, <1>3, <1>4 DEF PageServes, Awaiting
<1>6. QED
  BY <1>1, <1>3, <1>5, PageMoves

(* A call moves; one that a page refreshes by goes on refreshing it.       *)
LEMMA CallMoves ==
  ASSUME PagesTyped, PagesServe, NEW c \in Calls, NEW new \in Auth,
         auth[c].at # "idle" /\ auth[c].page \in Tabs /\ auth[c].op = "refresh" =>
           new.at # "idle" /\ new.page = auth[c].page /\ new.op = "refresh",
         auth' = [auth EXCEPT ![c] = new], UNCHANGED <<tab, req>>
  PROVE  PagesTyped' /\ PagesServe'
<1>1. PagesTyped'
  BY DEF PagesTyped
<1>2. ASSUME NEW t \in Tabs PROVE PageServes(t)'
  <2>1. Refreshes(t) => Refreshes(t)'
    <3>1. ASSUME NEW d \in Calls, auth[d].at # "idle", auth[d].page = t, auth[d].op = "refresh"
          PROVE  auth'[d].at # "idle" /\ auth'[d].page = t /\ auth'[d].op = "refresh"
      BY <3>1 DEF PagesTyped
    <3>2. QED
      BY <3>1, RefreshesMeans
  <2>2. PageServes(t)
    BY DEF PagesServe
  <2>3. QED
    BY <2>1, <2>2 DEF PageServes, Awaiting
<1>3. QED
  BY <1>1, <1>2 DEF PagesServe

(* The page goes, and its calls are answered to nobody. *)
LEMMA LeavesPage ==
  ASSUME PagesTyped, PagesServe, SessionAssumption, NEW t \in Tabs, NEW page \in Page, ~page.refreshing,
         Leave(t, page)
  PROVE  PagesTyped' /\ PagesServe'
<1>1. ASSUME NEW c \in Calls
      PROVE  auth'[c] = IF auth[c].page = t THEN Unheeded(auth[c]) ELSE auth[c]
  BY DEF Leave
<1>2. ASSUME NEW c \in Calls PROVE auth'[c] \in Auth
  <2>1. auth[c] \in Auth
    BY DEF PagesTyped
  <2>2. [auth[c] EXCEPT !.page = None] \in Auth
    BY <2>1 DEF Auth
  <2>3. QED
    BY <1>1, <2>1, <2>2, FreshStates DEF Unheeded
<1>3. auth' \in [Calls -> Auth]
  BY <1>2 DEF Leave
<1>4. ASSUME NEW s \in Tabs \ {t}, Refreshes(s) PROVE Refreshes(s)'
  <2>1. PICK c \in Calls : auth[c].at # "idle" /\ auth[c].page = s /\ auth[c].op = "refresh"
    BY <1>4, RefreshesMeans
  <2>2. auth'[c] = auth[c]
    BY <1>1, <2>1
  <2>3. QED
    BY <2>1, <2>2, RefreshesMeans
<1>5. \A r \in All : NoRequests[r].at = "idle"
  BY DEF NoRequests, Idle
<1>6. QED
  BY <1>3, <1>4, <1>5, FreshStates, PageMoves DEF Leave

(* Signing out clears the storage and leaves the page. *)
LEMMA SignsOut ==
  ASSUME SessionAssumption, IInv, NEW t \in Tabs, SignOut(t)
  PROVE  IInv'
<1>1. store' = Cleared /\ Leave(t, Fresh) /\ UNCHANGED <<hash, usable, wanted, expiries, faults>>
      /\ excuses' \subseteq excuses \cup {"lost"}
  BY DEF SignOut, Redirect
<1>2. StoreTyped'
  BY <1>1, FreshStates DEF IInv, StoreTyped
<1>3. PagesTyped' /\ PagesServe'
  BY <1>1, FreshStates, LeavesPage DEF IInv, Fresh, Shows
<1>4. QED
  BY <1>2, <1>3 DEF IInv

-----------------------------------------------------------------------------
(* It holds at first. *)
LEMMA IInvInit ==
  ASSUME SessionAssumption, Init
  PROVE  IInv
<1>1. StoreTyped
  <2>1. expiries \in 0..MaxExpiries /\ faults \in 0..MaxFaults
    BY DEF Init, SessionAssumption
  <2>2. QED
    BY <2>1, FreshStates DEF Init, StoreTyped
<1>2. PagesTyped
  BY FreshStates DEF Init, PagesTyped
<1>3. PagesServe
  BY DEF Init, PagesServe, PageServes, Awaiting, Fresh, Shows, NoRequests, Idle
<1>4. QED
  BY <1>1, <1>2, <1>3 DEF IInv

(* A request is sent, served, queued, or fails.                            *)
LEMMA RequestStep ==
  ASSUME SessionAssumption, IInv, NEW t \in Tabs, NEW r \in All,
         Send(t, r) \/ Serve(t, r) \/ RetryFails(t, r) \/ Queue(t, r) \/ LoseRequest(t, r)
  PROVE  IInv'
<1>t. StoreTyped /\ PagesTyped /\ PagesServe
  BY DEF IInv
<1>r. req[t][r] \in Request
  BY <1>t DEF PagesTyped
<1>1. CASE Send(t, r)
  <2> DEFINE new == [at |-> "sent", access |-> store.access, retry |-> FALSE]
  <2>1. new \in Request
    BY <1>t DEF StoreTyped, Store, Request
  <2>2. PagesTyped' /\ PagesServe'
    BY <1>t, <1>1, <2>1, RequestMoves DEF Send
  <2>3. StoreTyped'
    BY <1>t, <1>1 DEF Send, StoreTyped, Overlap
  <2>4. QED
    BY <2>2, <2>3 DEF IInv
<1>2. CASE Serve(t, r)
  <2> DEFINE answered(at) == [[req[t][r] EXCEPT !.at = at] EXCEPT !.access = "none"]
  <2>1. PICK new \in Request : req' = [req EXCEPT ![t][r] = new] /\ new.at \in {"refused", "done", "idle"}
    <3>1. answered("refused") \in Request /\ answered("done") \in Request
      BY <1>r DEF Request, Access
    <3>2. answered("refused").at = "refused" /\ answered("done").at = "done"
      BY <1>r DEF Request
    <3>3. \/ req' = [req EXCEPT ![t][r] = answered("refused")]
          \/ req' = [req EXCEPT ![t][r] = answered("done")]
          \/ req' = [req EXCEPT ![t][r] = Idle]
      BY <1>t, <1>2 DEF Serve, PagesTyped
    <3> HIDE DEF answered
    <3>4. QED
      BY <3>1, <3>2, <3>3, FreshStates DEF Idle
  <2>2. PagesTyped' /\ PagesServe'
    BY <1>t, <1>2, <2>1, RequestMoves DEF Serve
  <2>3. StoreTyped'
    BY <1>t, <1>2 DEF Serve, StoreTyped, Overlap
  <2>4. QED
    BY <2>2, <2>3 DEF IInv
<1>3. CASE RetryFails(t, r)
  <2>1. CASE SignOut(t)
    BY <2>1, SignsOut
  <2>2. CASE req' = [req EXCEPT ![t][r] = Idle]
             /\ UNCHANGED <<hash, usable, store, tab, auth, wanted, excuses, expiries, faults>>
    <3>1. PagesTyped' /\ PagesServe'
      BY <1>t, <2>2, FreshStates, RequestMoves DEF Idle
    <3>2. QED
      BY <1>t, <2>2, <3>1 DEF IInv, StoreTyped
  <2>3. QED
    BY <1>3, <2>1, <2>2 DEF RetryFails, Fail
<1>4. CASE Queue(t, r)
  <2>1. [req[t][r] EXCEPT !.at = "queued"] \in Request /\ [req[t][r] EXCEPT !.at = "queued"].at = "queued"
    BY <1>r DEF Request
  <2>2. PagesTyped' /\ PagesServe'
    BY <1>t, <1>4, <2>1, RequestMoves DEF Queue
  <2>3. QED
    BY <1>t, <1>4, <2>2 DEF Queue, IInv, StoreTyped
<1>5. CASE LoseRequest(t, r)
  <2>1. faults' \in 0..MaxFaults /\ excuses' = excuses \cup {"lost"}
        /\ UNCHANGED <<hash, usable, wanted, expiries>>
    BY <1>t, <1>5 DEF LoseRequest, Fault, StoreTyped, SessionAssumption
  <2>2. CASE store' = Cleared /\ Redirect(t)
    <3>1. PagesTyped' /\ PagesServe'
      BY <1>t, <2>2, FreshStates, LeavesPage DEF Redirect, Fresh, Shows
    <3>2. QED
      BY <1>t, <2>1, <2>2, <3>1, FreshStates DEF IInv, StoreTyped
  <2>3. CASE req' = [req EXCEPT ![t][r] = Idle] /\ UNCHANGED <<store, tab, auth>>
    <3>1. PagesTyped' /\ PagesServe'
      BY <1>t, <2>3, FreshStates, RequestMoves DEF Idle
    <3>2. QED
      BY <1>t, <2>1, <2>3, <3>1 DEF IInv, StoreTyped
  <2>4. QED
    BY <1>5, <2>2, <2>3 DEF LoseRequest
<1>6. QED
  BY <1>1, <1>2, <1>3, <1>4, <1>5

(* On a form the client gives up and stays, stuck from then on.            *)
LEMMA GiveUpStep ==
  ASSUME SessionAssumption, IInv, NEW t \in Tabs, NEW r \in All, GiveUp(t, r)
  PROVE  IInv'
<1>t. StoreTyped /\ PagesTyped /\ PagesServe
  BY DEF IInv
<1>1. CASE SignOut(t)
  BY <1>1, SignsOut
<1>2. CASE /\ store' = Cleared /\ ~tab[t].refreshing
           /\ tab' = [tab EXCEPT ![t].refreshing = TRUE, ![t].stuck = TRUE]
           /\ req' = [req EXCEPT ![t][r] = Idle]
           /\ UNCHANGED <<hash, usable, auth, wanted, excuses, expiries, faults>>
  <2> DEFINE page == [[tab[t] EXCEPT !.refreshing = TRUE] EXCEPT !.stuck = TRUE]
             requests == [req[t] EXCEPT ![r] = Idle]
  <2>1. page \in Page /\ page.refreshing /\ page.stuck
    BY <1>t DEF PagesTyped, Page
  <2>2. requests \in [All -> Request] /\ \A q \in All : requests[q] = Idle \/ requests[q] = req[t][q]
    BY <1>t, FreshStates DEF PagesTyped
  <2>3. tab' = [tab EXCEPT ![t] = page] /\ req' = [req EXCEPT ![t] = requests]
        /\ auth' \in [Calls -> Auth]
    BY <1>t, <1>2 DEF PagesTyped
  <2>4. \A s \in Tabs : Refreshes(s)' <=> Refreshes(s)
    BY <1>2, RefreshesMeans
  <2>5. \A q \in All : requests[q].at \notin {"queued", "waiting"}
    BY <1>t, <1>2, <2>2 DEF PagesServe, PageServes, Awaiting, Idle
  <2> HIDE DEF page, requests
  <2>6. PagesTyped' /\ PagesServe'
    BY <1>t, <2>1, <2>2, <2>3, <2>4, <2>5, PageMoves
  <2>7. QED
    BY <1>t, <1>2, <2>6, FreshStates DEF IInv, StoreTyped
<1>3. QED
  BY <1>1, <1>2 DEF GiveUp

LEMMA StartRefreshStep ==
  ASSUME SessionAssumption, IInv, NEW t \in Tabs, NEW r \in All, NEW c \in Calls, StartRefresh(t, r, c)
  PROVE  IInv'
<1>t. StoreTyped /\ PagesTyped /\ PagesServe
  BY DEF IInv
<1> DEFINE page == [tab[t] EXCEPT !.refreshing = TRUE]
           mine == [[req[t][r] EXCEPT !.at = "waiting"] EXCEPT !.retry = TRUE]
           requests == [req[t] EXCEPT ![r] = mine]
           new == Post(t, "refresh", store.refresh)
<1>1. page \in Page /\ page.refreshing
  BY <1>t DEF PagesTyped, Page
<1>2. mine \in Request
  <2>1. req[t][r] \in Request
    BY <1>t DEF PagesTyped
  <2>2. QED
    BY <2>1 DEF Request
<1>3. requests \in [All -> Request]
  BY <1>t, <1>2 DEF PagesTyped
<1>4. new \in Auth /\ new.op = "refresh" /\ new.page = t /\ new.at # "idle"
  BY <1>t DEF StoreTyped, Store, Post, Auth
<1>5. tab' = [tab EXCEPT ![t] = page] /\ auth' = [auth EXCEPT ![c] = new] /\ auth[c].at = "idle"
  BY DEF StartRefresh
<1>6. req' = [req EXCEPT ![t] = requests]
  BY DEF StartRefresh
<1> HIDE DEF page, requests, new
<1>7. auth' \in [Calls -> Auth] /\ auth'[c] = new /\ \A d \in Calls : d # c => auth'[d] = auth[d]
  BY <1>t, <1>4, <1>5 DEF PagesTyped
<1>8. Refreshes(t)'
  BY <1>4, <1>7, RefreshesMeans
<1>9. \A s \in Tabs : Refreshes(s) => Refreshes(s)'
  BY <1>5, <1>7, RefreshesMeans
<1>10. PagesTyped' /\ PagesServe'
  BY <1>t, <1>1, <1>3, <1>5, <1>6, <1>7, <1>8, <1>9, PageMoves
<1>11. StoreTyped'
  BY <1>t DEF StartRefresh, StoreTyped, Overlap
<1>12. QED
  BY <1>10, <1>11 DEF IInv

(* What the service does for a call, and an answer that is lost. *)
LEMMA CallStep ==
  ASSUME SessionAssumption, IInv, NEW c \in Calls,
         ReadAccount(c) \/ IssueTokens(c) \/ LoseAnswer(c)
  PROVE  IInv'
<1>t. StoreTyped /\ PagesTyped /\ PagesServe
  BY DEF IInv
<1>a. auth[c] \in Auth
  BY <1>t DEF PagesTyped
<1>1. PICK at \in {"read", "denied", "issued"}, token \in Tokens \cup {None} :
        auth' = [auth EXCEPT ![c] = Answering(auth[c], at, token)]
  BY DEF ReadAccount, IssueTokens, LoseAnswer
<1>2. UNCHANGED <<tab, req>>
  BY DEF ReadAccount, IssueTokens, LoseAnswer
<1> DEFINE new == [[auth[c] EXCEPT !.at = at] EXCEPT !.token = token]
<1>3. new \in Auth /\ new.at = at /\ new.op = auth[c].op /\ new.page = auth[c].page
  BY <1>a DEF Auth
<1>4. \/ Answering(auth[c], at, token) = NoAuth /\ auth[c].page = None
      \/ Answering(auth[c], at, token) = new
  BY DEF Answering
<1> HIDE DEF new
<1>5. PagesTyped' /\ PagesServe'
  BY <1>t, <1>1, <1>2, <1>3, <1>4, FreshStates, CallMoves DEF SessionAssumption
<1>6. StoreTyped'
  <2>1. CASE ReadAccount(c)
    BY <1>t, <2>1 DEF ReadAccount, StoreTyped
  <2>2. CASE IssueTokens(c)
    <3>1. hash' \in Tokens /\ UNCHANGED <<usable, store, wanted, excuses, expiries, faults>>
      BY <2>2 DEF IssueTokens
    <3>2. QED
      BY <1>t, <3>1 DEF StoreTyped
  <2>3. CASE LoseAnswer(c)
    BY <1>t, <2>3 DEF LoseAnswer, Fault, StoreTyped, SessionAssumption
  <2>4. QED
    BY <2>1, <2>2, <2>3
<1>7. QED
  BY <1>5, <1>6 DEF IInv

(* The calls a page makes, and their answers. *)
LEMMA AnswerStep ==
  ASSUME SessionAssumption, IInv, NEW t \in Tabs, NEW c \in Calls, Answer(t, c)
  PROVE  IInv'
<1>t. StoreTyped /\ PagesTyped /\ PagesServe
  BY DEF IInv
<1>a. auth[c] \in Auth /\ tab[t] \in Page /\ req[t] \in [All -> Request]
  BY <1>t DEF PagesTyped
<1>s. PageServes(t)
  BY <1>t DEF PagesServe
<1>n. NoAuth.at = "idle"
  BY DEF NoAuth
<1>1. CASE StartLogin(t, c)
  <2>1. Post(t, "login", None) \in Auth
    BY DEF Post, Auth
  <2>2. PagesTyped' /\ PagesServe'
    BY <1>t, <1>1, <2>1, CallMoves DEF StartLogin
  <2>3. StoreTyped'
    BY <1>t, <1>1 DEF StartLogin, StoreTyped, Overlap
  <2>4. QED
    BY <2>2, <2>3 DEF IInv
<1>2. CASE LoggedIn(t, c)
  <2> DEFINE page == [[tab[t] EXCEPT !.user = TRUE] EXCEPT !.form = FALSE]
  <2>1. page \in Page /\ page.refreshing = tab[t].refreshing /\ page.stuck = tab[t].stuck
    BY <1>a DEF Page
  <2>2. /\ tab' = [tab EXCEPT ![t] = page] /\ req' = [req EXCEPT ![t] = req[t]]
        /\ auth' = [auth EXCEPT ![c] = NoAuth] /\ auth[c].op = "login"
    BY <1>t, <1>2 DEF LoggedIn, PagesTyped, Answered
  <2> HIDE DEF page
  <2>3. auth' \in [Calls -> Auth]
    BY <1>t, <2>2, FreshStates DEF PagesTyped
  <2>4. \A s \in Tabs : Refreshes(s) => Refreshes(s)'
    BY <1>t, <2>2, RefreshesMeans DEF PagesTyped
  <2>5. PagesTyped' /\ PagesServe'
    BY <1>t, <1>a, <1>s, <2>1, <2>2, <2>3, <2>4, PageMoves DEF PageServes, Awaiting
  <2>6. store' \in Store
    BY <1>2, <1>a DEF LoggedIn, Store, Access, Auth
  <2>7. QED
    BY <1>t, <1>2, <2>5, <2>6 DEF IInv, StoreTyped, LoggedIn
<1>3. CASE LoginRefused(t, c)
  <2>1. PagesTyped' /\ PagesServe'
    BY <1>t, <1>3, FreshStates, CallMoves DEF LoginRefused, Answered
  <2>2. QED
    BY <1>t, <1>3, <2>1 DEF IInv, StoreTyped, LoginRefused
<1>4. ASSUME NEW requests \in [All -> Request],
             \A r \in All : requests[r].at \notin {"queued", "waiting"},
             tab' = [tab EXCEPT ![t].refreshing = FALSE], req' = [req EXCEPT ![t] = requests],
             auth' = [auth EXCEPT ![c] = NoAuth], auth[c].page = t
      PROVE  PagesTyped' /\ PagesServe'
  <2> DEFINE page == [tab[t] EXCEPT !.refreshing = FALSE]
  <2>1. page \in Page /\ ~page.refreshing /\ tab' = [tab EXCEPT ![t] = page]
    BY <1>a, <1>4 DEF Page
  <2> HIDE DEF page
  <2>2. auth' \in [Calls -> Auth]
    BY <1>t, <1>4, FreshStates DEF PagesTyped
  <2>3. \A s \in Tabs \ {t} : Refreshes(s) => Refreshes(s)'
    BY <1>t, <1>4, RefreshesMeans DEF PagesTyped
  <2>4. /\ \A r \in All : requests[r].at \in {"queued", "waiting"} => page.refreshing
        /\ \A r \in All : requests[r].at = "waiting" => Refreshes(t)'
        /\ page.refreshing => Refreshes(t)' \/ page.stuck
    BY <1>4, <2>1
  <2>5. QED
    BY <1>t, <1>4, <2>1, <2>2, <2>3, <2>4, PageMoves
<1>5. CASE Refreshed(t, c)
  <2>1. Resent(t) \in [All -> Request]
    BY <1>a DEF Resent, Request, Access
  <2>2. \A r \in All : Resent(t)[r].at \notin {"queued", "waiting"}
    BY <1>a DEF Resent, Awaiting, Request
  <2>3. PagesTyped' /\ PagesServe'
    BY <1>4, <1>5, <2>1, <2>2 DEF Refreshed, Answered
  <2>4. store' \in Store
    BY <1>t, <1>5, <1>a DEF Refreshed, StoreTyped, Store, Access, Auth
  <2>5. QED
    BY <1>t, <1>5, <2>3, <2>4 DEF IInv, StoreTyped, Refreshed
<1>6. CASE RefreshRefused(t, c) /\ ~SignOut(t)
  <2>1. Rejected(t) \in [All -> Request]
    BY <1>a, FreshStates DEF Rejected
  <2>2. \A r \in All : Rejected(t)[r].at \notin {"queued", "waiting"}
    BY DEF Rejected, Awaiting, Idle
  <2>3. PagesTyped' /\ PagesServe'
    BY <1>4, <1>6, <2>1, <2>2 DEF RefreshRefused, Answered
  <2>4. QED
    BY <1>t, <1>6, <2>3, FreshStates DEF IInv, StoreTyped, RefreshRefused
<1>7. CASE SignOut(t)
  BY <1>7, SignsOut
<1>8. QED
  BY <1>1, <1>2, <1>3, <1>5, <1>6, <1>7 DEF Answer

(* A page is left, or shows something else. *)
LEMMA PageStep ==
  ASSUME SessionAssumption, IInv, NEW t \in Tabs, Move(t) \/ LoggedOut(t) \/ Reload(t)
  PROVE  IInv'
<1>t. StoreTyped /\ PagesTyped /\ PagesServe
  BY DEF IInv
<1>1. CASE Move(t)
  <2> DEFINE page == [tab[t] EXCEPT !.form = ~tab[t].form]
  <2>1. page \in Page /\ page.refreshing = tab[t].refreshing /\ page.stuck = tab[t].stuck
    BY <1>t DEF Page, PagesTyped
  <2>2. /\ tab' = [tab EXCEPT ![t] = page] /\ req' = [req EXCEPT ![t] = req[t]]
        /\ auth' \in [Calls -> Auth] /\ req[t] \in [All -> Request]
    BY <1>t, <1>1 DEF Move, PagesTyped
  <2> HIDE DEF page
  <2>3. \A s \in Tabs : Refreshes(s)' <=> Refreshes(s)
    BY <1>1, RefreshesMeans DEF Move
  <2>4. PageServes(t)
    BY <1>t DEF PagesServe
  <2>5. PagesTyped' /\ PagesServe'
    BY <1>t, <2>1, <2>2, <2>3, <2>4, PageMoves DEF PageServes, Awaiting
  <2>6. StoreTyped'
    BY <1>t, <1>1 DEF StoreTyped, Move, Fault, SessionAssumption
  <2>7. QED
    BY <2>5, <2>6 DEF IInv
<1>2. CASE LoggedOut(t)
  BY <1>2, SignsOut DEF LoggedOut
<1>3. CASE Reload(t)
  <2>1. PICK form \in BOOLEAN : Leave(t, Shows(SignedIn, form))
    BY <1>3 DEF Reload
  <2>2. Shows(SignedIn, form) \in Page /\ ~Shows(SignedIn, form).refreshing
    BY <1>t DEF StoreTyped, Store, Shows, SignedIn, Page
  <2>3. PagesTyped' /\ PagesServe'
    BY <1>t, <2>1, <2>2, LeavesPage
  <2>4. StoreTyped'
    BY <1>t, <1>3 DEF StoreTyped, Reload, Fault, SessionAssumption
  <2>5. QED
    BY <2>3, <2>4 DEF IInv
<1>4. QED
  BY <1>1, <1>2, <1>3

(* And what happens outside the browser. *)
LEMMA OutsideSteps ==
  ASSUME SessionAssumption, IInv, Expire \/ Rekey \/ Elsewhere \/ Revoke
  PROVE  IInv'
<1>t. StoreTyped /\ PagesTyped /\ PagesServe
  BY DEF IInv
<1>c. \A s \in Tabs : Refreshes(s)' <=> Refreshes(s)
  BY RefreshesMeans DEF Expire, Rekey, Elsewhere, Revoke
<1>1. CASE Elsewhere \/ Revoke
  <2>1. UNCHANGED <<tab, req, auth>>
    BY <1>1 DEF Elsewhere, Revoke
  <2>2. StoreTyped'
    <3>1. faults' \in 0..MaxFaults
      BY <1>t, <1>1 DEF StoreTyped, Elsewhere, Revoke, Fault, SessionAssumption
    <3>2. /\ hash' \in Tokens \cup {None, Other} /\ usable' \in BOOLEAN
          /\ excuses' \subseteq {"overlap", "lost", "elsewhere", "revoked", "rekeyed"}
          /\ UNCHANGED <<store, wanted, expiries>>
      BY <1>t, <1>1 DEF StoreTyped, Elsewhere, Revoke, Fault
    <3>3. QED
      BY <1>t, <3>1, <3>2 DEF StoreTyped
  <2>3. QED
    BY <1>t, <1>c, <2>1, <2>2 DEF IInv, PagesTyped, PagesServe, PageServes, Awaiting
<1>2. CASE Expire \/ Rekey
  <2>1. AccessEnds /\ UNCHANGED <<tab, auth>>
    BY <1>2 DEF Expire, Rekey
  <2>2. StoreTyped'
    <3>1. store' \in Store
      BY <1>t, <2>1 DEF AccessEnds, StoreTyped, Store, Access
    <3>2. faults' \in 0..MaxFaults /\ expiries' \in 0..MaxExpiries
      BY <1>t, <1>2 DEF StoreTyped, Expire, Rekey, Fault, SessionAssumption
    <3>3. /\ excuses' \subseteq {"overlap", "lost", "elsewhere", "revoked", "rekeyed"}
          /\ UNCHANGED <<hash, usable, wanted>>
      BY <1>t, <1>2 DEF StoreTyped, Expire, Rekey, Fault
    <3>4. QED
      BY <1>t, <3>1, <3>2, <3>3 DEF StoreTyped
  <2>3. ASSUME NEW s \in Tabs, NEW r \in All
        PROVE  req'[s][r] \in Request /\ req'[s][r].at = req[s][r].at
    <3>1. req[s][r] \in Request
      BY <1>t DEF PagesTyped
    <3>2. req'[s][r] = [req[s][r] EXCEPT !.access = Expired(req[s][r].access)]
      BY <2>1 DEF AccessEnds
    <3>3. QED
      BY <3>1, <3>2 DEF Request, Access, Expired
  <2>4. req' \in [Tabs -> [All -> Request]]
    <3>1. req' = [s \in Tabs |-> [r \in All |-> req'[s][r]]]
      BY <2>1 DEF AccessEnds
    <3>2. QED
      BY <2>3, <3>1
  <2>5. PagesTyped'
    BY <1>t, <2>1, <2>4 DEF PagesTyped
  <2>6. PagesServe'
    BY <1>t, <1>c, <2>1, <2>3 DEF PagesServe, PageServes, Awaiting
  <2>7. QED
    BY <2>2, <2>5, <2>6 DEF IInv
<1>3. QED
  BY <1>1, <1>2

(* Every step keeps the invariant. *)
LEMMA IInvStep ==
  ASSUME SessionAssumption, IInv, [Next]_vars
  PROVE  IInv'
<1>1. ASSUME NEW t \in Tabs, NEW r \in All, Step(t, r) PROVE IInv'
  BY <1>1, RequestStep, GiveUpStep, StartRefreshStep DEF Step
<1>2. CASE UNCHANGED vars
  <2>1. \A s \in Tabs : Refreshes(s)' <=> Refreshes(s)
    BY <1>2, RefreshesMeans DEF vars
  <2>2. QED
    BY <1>2, <2>1 DEF IInv, vars, StoreTyped, PagesTyped, PagesServe, PageServes, Awaiting
<1>3. QED
  BY <1>1, <1>2, AnswerStep, CallStep, PageStep, OutsideSteps DEF Next

LEMMA Inductive == Spec => []IInv
<1>1. Init => IInv
  BY IInvInit, SessionAssumption
<1>2. IInv /\ [Next]_vars => IInv'
  BY IInvStep, SessionAssumption
<1>3. QED
  BY <1>1, <1>2, PTL DEF Spec

-----------------------------------------------------------------------------
(* Every variable keeps its type, whatever the order of requests, answers, *)
(* refreshes and faults.                                                   *)
THEOREM TypeCorrect == Spec => []TypeOK
<1>1. IInv => TypeOK
  BY DEF IInv, StoreTyped, PagesTyped, TypeOK
<1>2. QED
  BY <1>1, Inductive, PTL

(* A queued request's page has a refresh whose answer it will hear, or it  *)
(* gave up without a refresh token while it showed a form; the request     *)
(* that began a refresh always has its call (the failedQueue and           *)
(* isRefreshing of the API client).                                        *)
THEOREM QueueServed == Spec => []QueueIsServed
<1>1. IInv => QueueIsServed
  BY DEF IInv, PagesServe, PageServes, Awaiting, QueueIsServed
<1>2. QED
  BY <1>1, Inductive, PTL
-----------------------------------------------------------------------------
(* Following the refresh token: who holds it while the client is right     *)
(* about what the service expects.                                         *)

CallsHold ==
  /\ \A c \in Calls : auth[c].at = "issued" => auth[c].token \in Tokens
  /\ store.refresh = None => store = Cleared
  /\ ~usable => "revoked" \in excuses

(* Without an excuse one call or one sign-out is under way at a time, or a *)
(* sign-out and a refresh of its own page, and the row holds the token     *)
(* that is on its way.                                                     *)
Clean == excuses \subseteq {"rekeyed"}
Alone ==
  /\ \A c, d \in Underway : c = d
  /\ \A s, t \in Tabs : LeavingIn(s) /\ LeavingIn(t) => s = t
  /\ \A c \in Underway, t \in Tabs : LeavingIn(t) => auth[c].op = "refresh" /\ auth[c].page = t
  /\ \A c \in Calls : auth[c].at = "issued" => hash = auth[c].token
OneAtATime == Clean => Alone

(* As long as no excuse that the properties below allow has come up, every  *)
(* call of the service succeeds and is heard, a sign-out is accepted at    *)
(* once or after a refresh, and otherwise the browser and the row agree.   *)
Calm == excuses \subseteq IF wanted THEN {"rekeyed"} ELSE {}

CallFollows(c) ==
  auth[c].at # "idle" =>
    /\ auth[c].page # None /\ auth[c].at # "denied"
    /\ auth[c].op = "refresh" =>
         store.refresh # None /\ (auth[c].at = "posted" => auth[c].token = store.refresh)

LeaveFollows(t) ==
  /\ req[t][Logout].at = "done" => hash = None /\ \A c \in Calls : auth[c].at = "idle"
  /\ req[t][Logout].retry =>
       \/ req[t][Logout].at \in {"idle", "waiting", "done"}
       \/ req[t][Logout].at = "sent" /\ req[t][Logout].access = "valid"

Settled == (\A c \in Calls : auth[c].at # "issued") /\ \A t \in Tabs : req[t][Logout].at # "done"
Agree ==
  /\ Settled => hash = store.refresh
  /\ wanted => store.refresh # None /\ \A t \in Tabs : ~LeavingIn(t)
  /\ ~wanted /\ (\A t \in Tabs : ~LeavingIn(t)) => store = Cleared

Followed == (\A c \in Calls : CallFollows(c)) /\ (\A t \in Tabs : LeaveFollows(t)) /\ Agree
TokenInv == CallsHold /\ OneAtATime /\ (Calm => Followed)

(* What Alone says, call by call. *)
LEMMA AloneMeans ==
  /\ Alone <=>
       /\ \A c, d \in Calls : auth[c].at # "idle" /\ auth[d].at # "idle" => c = d
       /\ \A s, t \in Tabs : LeavingIn(s) /\ LeavingIn(t) => s = t
       /\ \A c \in Calls, t \in Tabs :
            auth[c].at # "idle" /\ LeavingIn(t) => auth[c].op = "refresh" /\ auth[c].page = t
       /\ \A c \in Calls : auth[c].at = "issued" => hash = auth[c].token
  /\ Alone' <=>
       /\ \A c, d \in Calls : auth'[c].at # "idle" /\ auth'[d].at # "idle" => c = d
       /\ \A s, t \in Tabs : LeavingIn(s)' /\ LeavingIn(t)' => s = t
       /\ \A c \in Calls, t \in Tabs :
            auth'[c].at # "idle" /\ LeavingIn(t)' => auth'[c].op = "refresh" /\ auth'[c].page = t
       /\ \A c \in Calls : auth'[c].at = "issued" => hash' = auth'[c].token
BY DEF Alone, Underway

(* Alone stays when no call begins and no sign-out. *)
LEMMA StaysAlone ==
  ASSUME Alone, hash' = hash,
         \A s \in Tabs : LeavingIn(s)' => LeavingIn(s),
         \A c \in Calls : auth'[c].at # "idle" =>
           /\ auth[c].at # "idle" /\ auth'[c].op = auth[c].op
           /\ auth'[c].page = auth[c].page \/ \A s \in Tabs : ~LeavingIn(s)'
           /\ auth'[c].at = "issued" => auth[c].at = "issued" /\ auth'[c].token = auth[c].token
  PROVE  Alone'
<1>1. \A c, d \in Calls : auth'[c].at # "idle" /\ auth'[d].at # "idle" => c = d
  BY AloneMeans
<1>2. \A s, t \in Tabs : LeavingIn(s)' /\ LeavingIn(t)' => s = t
  BY AloneMeans
<1>3. ASSUME NEW c \in Calls, NEW t \in Tabs, auth'[c].at # "idle", LeavingIn(t)'
      PROVE  auth'[c].op = "refresh" /\ auth'[c].page = t
  BY <1>3, AloneMeans
<1>4. ASSUME NEW c \in Calls, auth'[c].at = "issued" PROVE hash' = auth'[c].token
  <2>1. auth'[c].at # "idle"
    BY <1>4
  <2>2. auth[c].at = "issued" /\ auth'[c].token = auth[c].token
    BY <1>4, <2>1
  <2>3. QED
    BY <2>2, AloneMeans
<1>5. QED
  BY <1>1, <1>2, <1>3, <1>4, AloneMeans

(* A call begins with nothing else under way but its own page's sign-out.  *)
LEMMA BecomesAlone ==
  ASSUME NEW t \in Tabs, NEW c \in Calls,
         \A d \in Calls : d # c => auth'[d].at = "idle",
         \A s \in Tabs : s # t => ~LeavingIn(s)',
         LeavingIn(t)' => auth'[c].op = "refresh" /\ auth'[c].page = t,
         auth'[c].at = "issued" => hash' = auth'[c].token
  PROVE  Alone'
<1>1. \A d, e \in Calls : auth'[d].at # "idle" /\ auth'[e].at # "idle" => d = e
  OBVIOUS
<1>2. \A s1, s2 \in Tabs : LeavingIn(s1)' /\ LeavingIn(s2)' => s1 = s2
  OBVIOUS
<1>3. \A d \in Calls : auth'[d].at = "issued" => hash' = auth'[d].token
  OBVIOUS
<1>4. \A d \in Calls, s \in Tabs :
        auth'[d].at # "idle" /\ LeavingIn(s)' => auth'[d].op = "refresh" /\ auth'[d].page = s
  OBVIOUS
<1>5. QED
  BY <1>1, <1>2, <1>3, <1>4, AloneMeans

(* Excuses that only grow take nothing back from a calm past. *)
LEMMA CalmBefore ==
  ASSUME excuses \subseteq excuses', wanted' => wanted
  PROVE  (Clean' => Clean) /\ (Calm' => Calm) /\ (Calm' => Clean')
BY DEF Clean, Calm

LEMMA CalmIsClean == (Calm => Clean) /\ (Calm' => Clean')
BY DEF Calm, Clean

(* With an excuse only the calls count. *)
LEMMA Excused ==
  ASSUME ~Clean', CallsHold'
  PROVE  TokenInv'
BY CalmIsClean DEF TokenInv, OneAtATime

(* A start with nothing else under way, or an excuse. *)
LEMMA StartsAlone ==
  ASSUME NEW calls, NEW tabs, Overlap(calls, tabs) \subseteq excuses', Clean'
  PROVE  calls = {} /\ \A s \in tabs : ~LeavingIn(s)
BY DEF Overlap, Clean

(* The requests of the pages move; calls, storage, row and the user's wish *)
(* stay, and no sign-out begins, ends or is done by that.                  *)
LEMMA RequestsTurn ==
  ASSUME TokenInv, UNCHANGED <<auth, store, hash, usable, wanted>>, excuses \subseteq excuses',
         \A s \in Tabs :
           /\ LeavingIn(s)' <=> LeavingIn(s)
           /\ req'[s][Logout].at = "done" <=> req[s][Logout].at = "done"
           /\ Calm /\ LeaveFollows(s) /\ req'[s][Logout].retry =>
                \/ req'[s][Logout].at \in {"idle", "waiting", "done"}
                \/ req'[s][Logout].at = "sent" /\ req'[s][Logout].access = "valid"
  PROVE  TokenInv'
<1>1. CallsHold'
  BY DEF TokenInv, CallsHold, Cleared
<1>2. OneAtATime'
  BY CalmBefore, StaysAlone DEF TokenInv, OneAtATime
<1>3. ASSUME Calm' PROVE Followed'
  <2>1. Calm /\ Followed
    BY <1>3, CalmBefore DEF TokenInv
  <2>2. \A c \in Calls : CallFollows(c)'
    BY <2>1 DEF Followed, CallFollows
  <2>3. \A s \in Tabs : LeaveFollows(s)'
    BY <2>1 DEF Followed, LeaveFollows
  <2>4. Agree'
    BY <2>1 DEF Followed, Agree, Settled, Cleared
  <2>5. QED
    BY <2>2, <2>3, <2>4 DEF Followed
<1>4. QED
  BY <1>1, <1>2, <1>3 DEF TokenInv

(* One request of one page moves.                                          *)
LEMMA RequestTurns ==
  ASSUME IInv, TokenInv, NEW t \in Tabs, NEW r \in All, NEW new \in Request,
         req' = [req EXCEPT ![t][r] = new], UNCHANGED <<auth, store, hash, usable, wanted>>,
         excuses \subseteq excuses',
         r = Logout => /\ new.at # "idle" /\ req[t][r].at # "idle"
                       /\ new.at = "done" <=> req[t][r].at = "done"
                       /\ Calm /\ LeaveFollows(t) /\ new.retry => new.at \in {"waiting", "done"}
  PROVE  TokenInv'
<1>l. Logout \in All
  BY DEF All
<1>1. ASSUME NEW s \in Tabs
      PROVE  req'[s][Logout] = IF s = t /\ r = Logout THEN new ELSE req[s][Logout]
  BY <1>l DEF IInv, PagesTyped
<1>2. ASSUME NEW s \in Tabs
      PROVE  /\ LeavingIn(s)' <=> LeavingIn(s)
             /\ req'[s][Logout].at = "done" <=> req[s][Logout].at = "done"
             /\ Calm /\ LeaveFollows(s) /\ req'[s][Logout].retry =>
                  \/ req'[s][Logout].at \in {"idle", "waiting", "done"}
                  \/ req'[s][Logout].at = "sent" /\ req'[s][Logout].access = "valid"
  <2>1. CASE s = t /\ r = Logout
    <3>1. req'[s][Logout] = new
      BY <1>1, <2>1
    <3>2. QED
      BY <2>1, <3>1 DEF LeavingIn
  <2>2. CASE ~(s = t /\ r = Logout)
    <3>1. req'[s][Logout] = req[s][Logout]
      BY <1>1, <2>2
    <3>2. QED
      BY <3>1 DEF LeavingIn, LeaveFollows
  <2>3. QED
    BY <2>1, <2>2
<1>3. QED
  BY <1>2, RequestsTurn

(* A call goes on, begins alone or ends, and no tokens are on their way.   *)
LEMMA CallTurns ==
  ASSUME IInv, TokenInv, NEW c \in Calls, NEW new \in Auth,
         auth' = [auth EXCEPT ![c] = new], UNCHANGED <<req, store, hash, usable, wanted>>,
         excuses \subseteq excuses', new.at # "issued",
         new.at # "idle" => auth[c].at # "idle" /\ new.op = auth[c].op /\ new.page = auth[c].page,
         Calm' /\ Calm /\ Followed => CallFollows(c)' /\ auth[c].at \notin {"issued", "idle"}
  PROVE  TokenInv'
<1>1. auth'[c] = new /\ \A d \in Calls : d # c => auth'[d] = auth[d]
  BY DEF IInv, PagesTyped
<1>2. CallsHold'
  BY <1>1 DEF TokenInv, CallsHold, Cleared
<1>3. ASSUME Clean' PROVE Alone'
  <2>1. Alone
    BY <1>3, CalmBefore DEF TokenInv, OneAtATime
  <2>2. \A s \in Tabs : LeavingIn(s)' => LeavingIn(s)
    BY DEF LeavingIn
  <2>3. ASSUME NEW d \in Calls, auth'[d].at # "idle"
        PROVE  /\ auth[d].at # "idle" /\ auth'[d].op = auth[d].op /\ auth'[d].page = auth[d].page
               /\ auth'[d].at = "issued" => auth[d].at = "issued" /\ auth'[d].token = auth[d].token
    BY <1>1, <2>3
  <2>4. QED
    BY <2>1, <2>2, <2>3, StaysAlone
<1>4. ASSUME Calm' PROVE Followed'
  <2>1. Calm /\ Followed
    BY <1>4, CalmBefore DEF TokenInv
  <2>2. ASSUME NEW d \in Calls PROVE CallFollows(d)'
    BY <1>1, <1>4, <2>1 DEF Followed, CallFollows
  <2>3. ASSUME NEW s \in Tabs PROVE LeaveFollows(s)'
    BY <1>1, <1>4, <2>1 DEF Followed, LeaveFollows
  <2>4. Settled' <=> Settled
    BY <1>1, <1>4, <2>1 DEF Settled
  <2>5. Agree'
    BY <2>1, <2>4 DEF Followed, Agree, LeavingIn, Cleared
  <2>6. QED
    BY <2>2, <2>3, <2>5 DEF Followed
<1>5. QED
  BY <1>2, <1>3, <1>4 DEF TokenInv, OneAtATime

(* A call begins alone, or with an excuse. *)
LEMMA CallBegins ==
  ASSUME IInv, TokenInv, NEW t \in Tabs, NEW c \in Calls, NEW new \in Auth, auth[c].at = "idle",
         auth' = [auth EXCEPT ![c] = new], UNCHANGED <<store, hash, usable, wanted>>,
         excuses \subseteq excuses', new.at = "posted", new.page = t, new.page # None,
         \A s \in Tabs : LeavingIn(s)' <=> LeavingIn(s),
         \A s \in Tabs : req'[s][Logout].at = "done" <=> req[s][Logout].at = "done",
         \A s \in Tabs : req'[s][Logout].retry =>
           req'[s][Logout].at = "waiting" \/ req'[s][Logout] = req[s][Logout],
         Clean' => /\ Underway = {}
                   /\ \A s \in Tabs : s # t \/ new.op # "refresh" => ~LeavingIn(s)
                   /\ \A s \in Tabs : req[s][Logout].at # "done",
         Calm /\ Followed /\ new.op = "refresh" => store.refresh # None /\ new.token = store.refresh
  PROVE  TokenInv'
<1>1. auth'[c] = new /\ \A d \in Calls : d # c => auth'[d] = auth[d]
  BY DEF IInv, PagesTyped
<1>2. CallsHold'
  BY <1>1 DEF TokenInv, CallsHold, Cleared
<1>3. ASSUME Clean' PROVE Alone'
  <2>1. \A d \in Calls : auth[d].at = "idle"
    BY <1>3 DEF Underway
  <2>2. \A d \in Calls : d # c => auth'[d].at = "idle"
    BY <1>1, <2>1
  <2>3. \A s \in Tabs : s # t => ~LeavingIn(s)'
    BY <1>3
  <2>4. LeavingIn(t)' => auth'[c].op = "refresh" /\ auth'[c].page = t
    BY <1>1, <1>3
  <2>5. QED
    BY <1>1, <2>2, <2>3, <2>4, BecomesAlone
<1>4. ASSUME Calm' PROVE Followed'
  <2>1. Calm /\ Followed /\ Clean'
    BY <1>4, CalmBefore DEF TokenInv
  <2>2. ASSUME NEW d \in Calls PROVE CallFollows(d)'
    BY <1>1, <2>1 DEF Followed, CallFollows
  <2>3. ASSUME NEW s \in Tabs PROVE LeaveFollows(s)'
    BY <2>1 DEF Followed, LeaveFollows
  <2>4. Settled' <=> Settled
    BY <1>1 DEF Settled
  <2>5. Agree'
    BY <2>1, <2>4 DEF Followed, Agree, Cleared
  <2>6. QED
    BY <2>2, <2>3, <2>5 DEF Followed
<1>5. QED
  BY <1>2, <1>3, <1>4 DEF TokenInv, OneAtATime

(* A page that goes takes nothing with it that anybody waits for, unless   *)
(* there is an excuse.                                                     *)
LEMMA LeaveStays ==
  ASSUME SessionAssumption, IInv, NEW t \in Tabs, NEW page, Leave(t, page)
  PROVE  /\ req'[t][Logout] = Idle
         /\ \A s \in Tabs : s # t => req'[s] = req[s]
         /\ \A s \in Tabs : LeavingIn(s)' <=> LeavingIn(s) /\ s # t
         /\ \A c \in Calls : auth[c].page # t => auth'[c] = auth[c]
         /\ \A c \in Calls : auth'[c].at # "idle" =>
              /\ auth[c].at # "idle" /\ auth'[c].op = auth[c].op
              /\ auth'[c].page = auth[c].page \/ (auth[c].page = t /\ auth'[c].at # "issued")
              /\ auth'[c].at = auth[c].at /\ auth'[c].token = auth[c].token
         /\ hash' = hash /\ Alone => Alone'
<1>l. Logout \in All
  BY DEF All
<1>t. PagesTyped
  BY DEF IInv
<1>1. req'[t][Logout] = Idle
  BY <1>l, <1>t DEF Leave, NoRequests, PagesTyped
<1>2. \A s \in Tabs : s # t => req'[s] = req[s]
  BY <1>t DEF Leave, PagesTyped
<1>3. \A s \in Tabs : LeavingIn(s)' <=> LeavingIn(s) /\ s # t
  BY <1>1, <1>2 DEF LeavingIn, Idle
<1>4. ASSUME NEW c \in Calls
      PROVE  auth'[c] = IF auth[c].page = t THEN Unheeded(auth[c]) ELSE auth[c]
  BY DEF Leave
<1>5. ASSUME NEW c \in Calls, auth'[c].at # "idle"
      PROVE  /\ auth[c].at # "idle" /\ auth'[c].op = auth[c].op
             /\ auth'[c].page = auth[c].page \/ (auth[c].page = t /\ auth'[c].at # "issued")
             /\ auth'[c].at = auth[c].at /\ auth'[c].token = auth[c].token
  <2>1. CASE auth[c].page # t
    BY <1>4, <1>5, <2>1
  <2>2. CASE auth[c].page = t
    <3>1. auth[c] \in Auth
      BY <1>t DEF PagesTyped
    <3>2. auth'[c] = [auth[c] EXCEPT !.page = None] /\ auth[c].at \notin {"issued", "denied"}
      BY <1>4, <1>5, <2>2 DEF Unheeded, NoAuth
    <3>3. QED
      BY <1>5, <2>2, <3>1, <3>2 DEF Auth
  <2>3. QED
    BY <2>1, <2>2
<1>6. ASSUME hash' = hash, Alone PROVE Alone'
  <2>1. ASSUME NEW c \in Calls, auth'[c].at # "idle"
        PROVE  auth'[c].page = auth[c].page \/ \A s \in Tabs : ~LeavingIn(s)'
    <3>1. CASE auth[c].page = t
      <4>1. ASSUME NEW s \in Tabs, LeavingIn(s)' PROVE FALSE
        <5>1. LeavingIn(s) /\ s # t
          BY <1>3, <4>1
        <5>2. auth[c].page = s
          BY <1>5, <1>6, <2>1, <5>1, AloneMeans
        <5>3. QED
          BY <3>1, <5>1, <5>2
      <4>2. QED
        BY <4>1
    <3>2. CASE auth[c].page # t
      BY <1>4, <3>2
    <3>3. QED
      BY <3>1, <3>2
  <2>2. \A s \in Tabs : LeavingIn(s)' => LeavingIn(s)
    BY <1>3
  <2>3. QED
    BY <1>5, <1>6, <2>1, <2>2, StaysAlone
<1>7. QED
  BY <1>1, <1>2, <1>3, <1>4, <1>5, <1>6

(* Signing out of a page: the row must be rid of its token by then, unless *)
(* there is an excuse.                                                     *)
LEMMA SignOutFollows ==
  ASSUME SessionAssumption, IInv, TokenInv, NEW t \in Tabs, SignOut(t),
         Calm /\ Followed => /\ ~wanted
                             /\ \/ req[t][Logout].at = "done"
                                \/ store.refresh = None
  PROVE  TokenInv'
<1>1. /\ Leave(t, Fresh) /\ store' = Cleared /\ UNCHANGED <<hash, usable, wanted>>
      /\ excuses \subseteq excuses'
  BY DEF SignOut, Redirect
<1>s. /\ req'[t][Logout] = Idle
      /\ \A s \in Tabs : s # t => req'[s] = req[s]
      /\ \A s \in Tabs : LeavingIn(s)' <=> LeavingIn(s) /\ s # t
      /\ \A c \in Calls : auth[c].page # t => auth'[c] = auth[c]
      /\ \A c \in Calls : auth'[c].at # "idle" =>
           /\ auth[c].at # "idle" /\ auth'[c].op = auth[c].op
           /\ auth'[c].page = auth[c].page \/ (auth[c].page = t /\ auth'[c].at # "issued")
           /\ auth'[c].at = auth[c].at /\ auth'[c].token = auth[c].token
      /\ Alone => Alone'
  BY <1>1, LeaveStays
<1>2. CallsHold'
  <2>1. ASSUME NEW c \in Calls, auth'[c].at = "issued" PROVE auth'[c].token \in Tokens
    <3>1. auth'[c].at # "idle"
      BY <2>1
    <3>2. auth[c].at = "issued" /\ auth'[c].token = auth[c].token
      BY <1>s, <2>1, <3>1
    <3>3. QED
      BY <3>2 DEF TokenInv, CallsHold
  <2>2. QED
    BY <1>1, <2>1 DEF TokenInv, CallsHold
<1>3. OneAtATime'
  BY <1>1, <1>s, CalmBefore DEF TokenInv, OneAtATime
<1>4. ASSUME Calm' PROVE Followed'
  <2>1. Calm /\ Followed /\ Alone /\ Clean'
    BY <1>1, <1>4, CalmBefore, CalmIsClean DEF TokenInv, OneAtATime
  <2>2. ~wanted /\ (req[t][Logout].at = "done" \/ store.refresh = None)
    BY <2>1
  <2>3. ASSUME NEW c \in Calls PROVE auth[c].at = "idle" \/ auth[c].page # t
    <3>1. ASSUME auth[c].at # "idle", auth[c].page = t PROVE "lost" \in excuses'
      <4>1. auth[c].at # "denied"
        BY <2>1, <3>1 DEF Followed, CallFollows
      <4>2. QED
        BY <3>1, <4>1 DEF SignOut, Of, Underway
    <3>2. QED
      BY <2>1, <3>1 DEF Clean
  <2>4. \A c \in Calls : auth'[c].at = auth[c].at /\ (auth[c].at # "idle" => auth'[c] = auth[c])
    BY <1>s, <2>3
  <2>5. ASSUME NEW c \in Calls PROVE CallFollows(c)'
    <3>1. CASE req[t][Logout].at = "done"
      <4>1. auth[c].at = "idle"
        BY <2>1, <3>1 DEF Followed, LeaveFollows
      <4>2. QED
        BY <2>4, <4>1 DEF CallFollows
    <3>2. CASE store.refresh = None
      <4>1. store' = store
        BY <1>1, <3>2 DEF TokenInv, CallsHold
      <4>2. QED
        BY <2>1, <2>4, <4>1 DEF Followed, CallFollows
    <3>3. QED
      BY <2>2, <3>1, <3>2
  <2>6. ASSUME NEW s \in Tabs PROVE LeaveFollows(s)'
    <3>1. CASE s = t
      BY <1>s, <3>1 DEF LeaveFollows, Idle
    <3>2. CASE s # t
      BY <1>1, <1>s, <2>1, <2>4, <3>2 DEF Followed, LeaveFollows
    <3>3. QED
      BY <3>1, <3>2
  <2>7. Agree'
    <3>1. ASSUME Settled' PROVE hash' = store'.refresh
      <4>1. CASE req[t][Logout].at = "done"
        BY <1>1, <2>1, <4>1 DEF Followed, LeaveFollows, Cleared
      <4>2. CASE req[t][Logout].at # "done"
        <5>1. Settled
          BY <1>s, <2>4, <3>1, <4>2 DEF Settled
        <5>2. QED
          BY <1>1, <2>1, <2>2, <4>2, <5>1 DEF Followed, Agree, Cleared
      <4>3. QED
        BY <4>1, <4>2
    <3>2. QED
      BY <1>1, <2>2, <3>1 DEF Agree
  <2>8. QED
    BY <2>5, <2>6, <2>7 DEF Followed
<1>5. QED
  BY <1>2, <1>3, <1>4 DEF TokenInv

(* It holds at first. *)
LEMMA TokenInvInit ==
  ASSUME Init
  PROVE  TokenInv
<1>l. Logout \in All
  BY DEF All
<1>1. \A t \in Tabs : req[t][Logout] = Idle /\ ~LeavingIn(t)
  BY <1>l DEF Init, LeavingIn, NoRequests, Idle
<1>2. \A c \in Calls : auth[c].at = "idle"
  BY DEF Init, NoAuth
<1>3. CallsHold
  BY <1>2 DEF Init, CallsHold
<1>4. OneAtATime
  BY <1>1, <1>2, AloneMeans DEF OneAtATime
<1>5. Followed
  BY <1>1, <1>2 DEF Init, Followed, CallFollows, LeaveFollows, Agree, Settled, Cleared, Idle
<1>6. QED
  BY <1>3, <1>4, <1>5 DEF TokenInv

-----------------------------------------------------------------------------
(* A request or a sign-out is sent. *)
LEMMA SendFollows ==
  ASSUME IInv, TokenInv, NEW t \in Tabs, NEW r \in All, Send(t, r)
  PROVE  TokenInv'
<1>t. StoreTyped /\ PagesTyped
  BY DEF IInv
<1>l. Logout \in All
  BY DEF All
<1> DEFINE new == [at |-> "sent", access |-> store.access, retry |-> FALSE]
<1>1. /\ req' = [req EXCEPT ![t][r] = new] /\ UNCHANGED <<auth, store, hash, usable>>
      /\ excuses \subseteq excuses'
  BY DEF Send
<1>2. new \in Request
  BY <1>t DEF StoreTyped, Store, Request
<1>3. CASE r # Logout
  <2>1. wanted' = wanted
    BY <1>t, <1>3 DEF Send, StoreTyped
  <2>2. QED
    BY <1>1, <1>2, <1>3, <2>1, RequestTurns
<1>4. CASE r = Logout
  <2> DEFINE others == {c \in Underway : c \in Of(t) => auth[c].op # "refresh"}
  <2>1. /\ ~LeavingIn(t) /\ ~wanted' /\ Overlap(others, Tabs \ {t}) \subseteq excuses'
    BY <1>4 DEF Send, LeavingIn
  <2>2. /\ req'[t][Logout] = new /\ LeavingIn(t)'
        /\ \A s \in Tabs : s # t => req'[s] = req[s] /\ (LeavingIn(s)' <=> LeavingIn(s))
    <3>1. req'[t][Logout] = new /\ \A s \in Tabs : s # t => req'[s] = req[s]
      BY <1>t, <1>l, <1>1, <1>4 DEF PagesTyped
    <3>2. QED
      BY <3>1 DEF LeavingIn
  <2>3. CallsHold'
    BY <1>1 DEF TokenInv, CallsHold, Cleared
  <2>4. ASSUME Clean' PROVE Alone'
    <3>1. Alone
      BY <1>1, <2>1, <2>4, CalmBefore DEF TokenInv, OneAtATime
    <3>2. others = {} /\ \A s \in Tabs \ {t} : ~LeavingIn(s)
      BY <2>1, <2>4, StartsAlone
    <3>3. \A c, d \in Calls : auth'[c].at # "idle" /\ auth'[d].at # "idle" => c = d
      BY <1>1, <3>1, AloneMeans
    <3>4. \A s1, s2 \in Tabs : LeavingIn(s1)' /\ LeavingIn(s2)' => s1 = s2
      BY <2>2, <3>2
    <3>5. ASSUME NEW c \in Calls, NEW s \in Tabs, auth'[c].at # "idle", LeavingIn(s)'
          PROVE  auth'[c].op = "refresh" /\ auth'[c].page = s
      <4>1. s = t
        BY <2>2, <3>2, <3>5
      <4>2. c \in Underway /\ c \notin others
        BY <1>1, <3>2, <3>5 DEF Underway
      <4>3. QED
        BY <1>1, <4>1, <4>2 DEF Of
    <3>6. \A c \in Calls : auth'[c].at = "issued" => hash' = auth'[c].token
      BY <1>1, <3>1, AloneMeans
    <3>7. QED
      BY <3>3, <3>4, <3>5, <3>6, AloneMeans
  <2>5. ASSUME Calm' PROVE Followed'
    <3>1. Calm /\ Followed
      BY <1>1, <2>1, <2>5, CalmBefore DEF TokenInv
    <3>2. \A c \in Calls : CallFollows(c)'
      BY <1>1, <3>1 DEF Followed, CallFollows
    <3>3. ASSUME NEW s \in Tabs PROVE LeaveFollows(s)'
      <4>1. CASE s = t
        BY <2>2, <4>1 DEF LeaveFollows
      <4>2. CASE s # t
        BY <1>1, <2>2, <3>1, <4>2 DEF Followed, LeaveFollows
      <4>3. QED
        BY <4>1, <4>2
    <3>4. Settled' <=> Settled
      <4>1. req[t][Logout].at # "done" /\ req'[t][Logout].at # "done"
        BY <2>1, <2>2 DEF LeavingIn
      <4>2. QED
        BY <1>1, <2>2, <4>1 DEF Settled
    <3>5. Agree'
      BY <1>1, <2>1, <2>2, <3>1, <3>4 DEF Followed, Agree
    <3>6. QED
      BY <3>2, <3>3, <3>5 DEF Followed
  <2>6. QED
    BY <2>3, <2>4, <2>5 DEF TokenInv, OneAtATime
<1>5. QED
  BY <1>3, <1>4

(* The service answers a request; a sign-out empties the row while no call *)
(* for tokens is under way, or with an excuse.                             *)
LEMMA ServeFollows ==
  ASSUME IInv, TokenInv, NEW t \in Tabs, NEW r \in All, Serve(t, r)
  PROVE  TokenInv'
<1>t. PagesTyped
  BY DEF IInv
<1>l. Logout \in All
  BY DEF All
<1>r. req[t][r] \in Request
  BY <1>t DEF PagesTyped
<1>0. UNCHANGED <<auth, store, usable, wanted>> /\ req[t][r].at = "sent"
  BY DEF Serve
<1>1. CASE req[t][r].access # "valid"
  <2> DEFINE new == [[req[t][r] EXCEPT !.at = "refused"] EXCEPT !.access = "none"]
  <2>1. new \in Request /\ new.at = "refused" /\ new.retry = req[t][r].retry
    BY <1>r DEF Request, Access
  <2>2. req' = [req EXCEPT ![t][r] = new] /\ UNCHANGED <<hash, excuses>>
    BY <1>1 DEF Serve
  <2>3. r = Logout /\ LeaveFollows(t) => ~new.retry
    BY <1>0, <1>1, <2>1 DEF LeaveFollows
  <2> HIDE DEF new
  <2>4. QED
    BY <1>0, <2>1, <2>2, <2>3, RequestTurns
<1>2. CASE req[t][r].access = "valid" /\ r # Logout
  <2>1. req' = [req EXCEPT ![t][r] = Idle] /\ UNCHANGED <<hash, excuses>>
    BY <1>2 DEF Serve
  <2>2. QED
    BY <1>0, <1>2, <2>1, FreshStates, RequestTurns
<1>3. CASE req[t][r].access = "valid" /\ r = Logout
  <2> DEFINE new == [[req[t][r] EXCEPT !.at = "done"] EXCEPT !.access = "none"]
  <2>1. new \in Request /\ new.at = "done"
    BY <1>r DEF Request, Access
  <2>2. /\ req' = [req EXCEPT ![t][r] = new] /\ hash' = None
        /\ excuses' = excuses \cup Overlap(Underway, {})
    <3>1. ~(req[t][r].access # "valid") /\ r = Logout
      BY <1>3
    <3>2. /\ req' = [req EXCEPT ![t][r].at = "done", ![t][r].access = "none"]
          /\ hash' = None /\ excuses' = excuses \cup Overlap(Underway, {})
      BY ONLY <3>1, Serve(t, r), Zenon DEF Serve
    <3>3. QED
      BY <3>2
  <2> HIDE DEF new
  <2>3. /\ req'[t][Logout] = new /\ \A s \in Tabs : s # t => req'[s] = req[s]
    BY <1>t, <1>l, <1>3, <2>1, <2>2 DEF PagesTyped
  <2>4. \A s \in Tabs : LeavingIn(s)' <=> LeavingIn(s)
    BY <1>0, <1>3, <2>1, <2>3 DEF LeavingIn
  <2>5. CallsHold'
    BY <1>0, <2>2 DEF TokenInv, CallsHold, Cleared
  <2>6. ASSUME Clean' PROVE \A c \in Calls : auth[c].at = "idle" /\ auth'[c].at = "idle"
    BY <1>0, <2>2, <2>6, StartsAlone DEF Underway
  <2>7. ASSUME Clean' PROVE Alone'
    <3>1. Alone
      BY <1>0, <2>2, <2>7, CalmBefore DEF TokenInv, OneAtATime
    <3>2. \A c \in Calls : auth'[c].at = "idle"
      BY <2>6, <2>7
    <3>3. \A s1, s2 \in Tabs : LeavingIn(s1)' /\ LeavingIn(s2)' => s1 = s2
      BY <2>4, <3>1, AloneMeans
    <3>4. QED
      BY <3>2, <3>3, AloneMeans
  <2>8. ASSUME Calm' PROVE Followed'
    <3>1. Calm /\ Followed /\ Clean'
      BY <1>0, <2>2, <2>8, CalmBefore DEF TokenInv
    <3>2. \A c \in Calls : auth'[c].at = "idle"
      BY <2>6, <3>1
    <3>3. ASSUME NEW s \in Tabs PROVE LeaveFollows(s)'
      <4>1. CASE s = t
        BY <2>1, <2>2, <2>3, <3>2, <4>1 DEF LeaveFollows
      <4>2. CASE s # t
        BY <2>2, <2>3, <3>1, <3>2, <4>2 DEF Followed, LeaveFollows
      <4>3. QED
        BY <4>1, <4>2
    <3>4. Agree'
      BY <1>0, <2>1, <2>3, <2>4, <3>1 DEF Followed, Agree, Settled, Cleared
    <3>5. QED
      BY <3>2, <3>3, <3>4 DEF Followed, CallFollows
  <2>9. QED
    BY <2>5, <2>7, <2>8 DEF TokenInv, OneAtATime
<1>4. QED
  BY <1>1, <1>2, <1>3

(* A request that was tried again fails. *)
LEMMA RetryFollows ==
  ASSUME SessionAssumption, IInv, TokenInv, NEW t \in Tabs, NEW r \in All, RetryFails(t, r)
  PROVE  TokenInv'
<1>1. CASE r = Logout
  <2>1. ~Followed
    BY <1>1 DEF RetryFails, Followed, LeaveFollows
  <2>2. QED
    BY <1>1, <2>1, SignOutFollows DEF RetryFails, Fail
<1>2. CASE r # Logout
  <2>1. /\ req' = [req EXCEPT ![t][r] = Idle]
        /\ UNCHANGED <<hash, usable, store, auth, wanted, excuses>>
    BY <1>2 DEF RetryFails, Fail
  <2>2. QED
    BY <1>2, <2>1, FreshStates, RequestTurns
<1>3. QED
  BY <1>1, <1>2

(* Without a refresh token there is nothing to sign out of.                *)
LEMMA GiveUpFollows ==
  ASSUME SessionAssumption, IInv, TokenInv, NEW t \in Tabs, NEW r \in All, GiveUp(t, r)
  PROVE  TokenInv'
<1>1. CASE SignOut(t)
  <2>1. Followed => ~wanted
    BY DEF GiveUp, Followed, Agree
  <2>2. QED
    BY <1>1, <2>1, SignOutFollows DEF GiveUp
<1>2. CASE ~SignOut(t)
  <2>1. /\ r # Logout /\ store' = Cleared /\ req' = [req EXCEPT ![t][r] = Idle]
        /\ UNCHANGED <<hash, usable, auth, wanted, excuses>>
    BY <1>2 DEF GiveUp
  <2>2. store' = store
    BY <2>1 DEF GiveUp, TokenInv, CallsHold
  <2>3. QED
    BY <2>1, <2>2, FreshStates, RequestTurns
<1>3. QED
  BY <1>1, <1>2

LEMMA QueueFollows ==
  ASSUME IInv, TokenInv, NEW t \in Tabs, NEW r \in All, Queue(t, r)
  PROVE  TokenInv'
<1>1. req[t][r] \in Request
  BY DEF IInv, PagesTyped
<1> DEFINE new == [req[t][r] EXCEPT !.at = "queued"]
<1>2. new \in Request /\ new.at = "queued" /\ ~new.retry
  BY <1>1 DEF Request, Queue
<1>3. req' = [req EXCEPT ![t][r] = new] /\ req[t][r].at = "refused"
      /\ UNCHANGED <<hash, usable, store, auth, wanted, excuses>>
  BY DEF Queue
<1> HIDE DEF new
<1>4. QED
  BY <1>2, <1>3, RequestTurns

(* A refused request begins a refresh, alone or with an excuse.            *)
LEMMA StartRefreshFollows ==
  ASSUME SessionAssumption, IInv, TokenInv, NEW t \in Tabs, NEW r \in All, NEW c \in Calls,
         StartRefresh(t, r, c)
  PROVE  TokenInv'
<1>t. StoreTyped /\ PagesTyped
  BY DEF IInv
<1>l. Logout \in All
  BY DEF All
<1> DEFINE mine == [[req[t][r] EXCEPT !.at = "waiting"] EXCEPT !.retry = TRUE]
           new == Post(t, "refresh", store.refresh)
           leaving == {s \in Tabs : s = t => req[t][Logout].at = "done"}
<1>1. mine.at = "waiting" /\ mine.retry
  <2>1. req[t][r] \in Request
    BY <1>t DEF PagesTyped
  <2>2. QED
    BY <2>1 DEF Request
<1>2. /\ req' = [req EXCEPT ![t][r] = mine] /\ auth' = [auth EXCEPT ![c] = new]
      /\ UNCHANGED <<hash, usable, store, wanted>> /\ excuses' = excuses \cup Overlap(Underway, leaving)
      /\ req[t][r].at = "refused" /\ store.refresh # None /\ auth[c].at = "idle"
  BY DEF StartRefresh
<1>3. /\ new \in Auth /\ new.op = "refresh" /\ new.at = "posted" /\ new.page = t
      /\ new.token = store.refresh
  BY <1>t DEF StoreTyped, Store, Post, Auth
<1>4. t # None
  BY DEF SessionAssumption
<1> HIDE DEF mine, new
<1>5. ASSUME NEW s \in Tabs
      PROVE  req'[s][Logout] = IF s = t /\ r = Logout THEN mine ELSE req[s][Logout]
  BY <1>t, <1>l, <1>2 DEF PagesTyped
<1>6. \A s \in Tabs : /\ LeavingIn(s)' <=> LeavingIn(s)
                      /\ req'[s][Logout].at = "done" <=> req[s][Logout].at = "done"
                      /\ req'[s][Logout].retry =>
                           req'[s][Logout].at = "waiting" \/ req'[s][Logout] = req[s][Logout]
  BY <1>1, <1>2, <1>5 DEF LeavingIn
<1>7. ASSUME Clean'
      PROVE  /\ Underway = {}
             /\ \A s \in Tabs : s # t \/ new.op # "refresh" => ~LeavingIn(s)
             /\ \A s \in Tabs : req[s][Logout].at # "done"
  <2>1. Underway = {} /\ \A s \in leaving : ~LeavingIn(s)
    BY <1>2, <1>7, StartsAlone
  <2>2. \A s \in Tabs : s # t => ~LeavingIn(s)
    BY <2>1
  <2>3. req[t][Logout].at # "done"
    BY <2>1 DEF LeavingIn
  <2>4. QED
    BY <1>3, <2>1, <2>2, <2>3 DEF LeavingIn
<1>8. QED
  BY <1>2, <1>3, <1>4, <1>6, <1>7, CallBegins

(* A sign-in begins, alone or with an excuse. *)
LEMMA StartLoginFollows ==
  ASSUME SessionAssumption, IInv, TokenInv, NEW t \in Tabs, NEW c \in Calls, StartLogin(t, c)
  PROVE  TokenInv'
<1> DEFINE new == Post(t, "login", None)
<1>1. /\ auth' = [auth EXCEPT ![c] = new] /\ excuses' = excuses \cup Overlap(Underway, Tabs)
      /\ UNCHANGED <<hash, usable, store, req, wanted>> /\ auth[c].at = "idle"
  BY DEF StartLogin
<1>2. new \in Auth /\ new.at = "posted" /\ new.op = "login" /\ new.page = t
  BY DEF Post, Auth
<1>3. t # None
  BY DEF SessionAssumption
<1> HIDE DEF new
<1>4. \A s \in Tabs : (LeavingIn(s)' <=> LeavingIn(s)) /\ req'[s][Logout] = req[s][Logout]
  BY <1>1 DEF LeavingIn
<1>5. Clean' => Underway = {} /\ \A s \in Tabs : ~LeavingIn(s) /\ req[s][Logout].at # "done"
  BY <1>1, StartsAlone DEF LeavingIn
<1>6. QED
  BY <1>1, <1>2, <1>3, <1>4, <1>5, CallBegins

LEMMA ReadAccountFollows ==
  ASSUME IInv, TokenInv, NEW c \in Calls, ReadAccount(c)
  PROVE  TokenInv'
<1>t. auth[c] \in Auth
  BY DEF IInv, PagesTyped
<1> DEFINE at == IF Found(auth[c]) THEN "read" ELSE "denied"
           new == Answering(auth[c], at, None)
           moved == [[auth[c] EXCEPT !.at = at] EXCEPT !.token = None]
<1>1. /\ auth' = [auth EXCEPT ![c] = new] /\ auth[c].at = "posted"
      /\ UNCHANGED <<hash, usable, store, req, wanted, excuses>>
  BY DEF ReadAccount
<1>2. moved \in Auth /\ moved.at = at /\ moved.op = auth[c].op /\ moved.page = auth[c].page
  BY <1>t DEF Auth
<1>3. new = NoAuth \/ new = moved
  BY DEF Answering
<1>4. NoAuth.at = "idle" /\ NoAuth.at # "issued"
  BY DEF NoAuth
<1>5. new \in Auth /\ new.at # "issued"
      /\ (new.at = "idle" \/ (new.op = auth[c].op /\ new.page = auth[c].page))
  <2> HIDE DEF moved, new
  <2>1. QED
    BY <1>2, <1>3, <1>4, FreshStates
<1>6. ASSUME Calm, Followed PROVE CallFollows(c)'
  <2>1. CallFollows(c)
    BY <1>6 DEF Followed
  <2>2. auth[c].op = "refresh" => hash = store.refresh
    <3>1. Alone
      BY <1>6, CalmIsClean DEF TokenInv, OneAtATime
    <3>2. \A d \in Calls : auth[d].at # "issued"
      <4>1. ASSUME NEW d \in Calls, auth[d].at = "issued" PROVE FALSE
        <5>1. d = c
          BY <1>1, <3>1, <4>1, AloneMeans
        <5>2. QED
          BY <1>1, <4>1, <5>1
      <4>2. QED
        BY <4>1
    <3>3. \A s \in Tabs : req[s][Logout].at # "done"
      BY <1>1, <1>6 DEF Followed, LeaveFollows
    <3>4. QED
      BY <1>6, <3>2, <3>3 DEF Followed, Agree, Settled
  <2>3. usable
    BY <1>6, CalmIsClean DEF TokenInv, CallsHold, Clean
  <2>4. at = "read"
    BY <1>1, <2>1, <2>2, <2>3 DEF Found, CallFollows
  <2>5. new = moved
    BY <2>4 DEF Answering
  <2>6. auth'[c] = new
    BY <1>1 DEF IInv, PagesTyped
  <2> HIDE DEF moved, new, at
  <2>7. QED
    BY <1>1, <1>2, <2>1, <2>4, <2>5, <2>6 DEF CallFollows
<1>7. new.at # "idle" => auth[c].at # "idle" /\ new.op = auth[c].op /\ new.page = auth[c].page
  <2>1. auth[c].at # "idle"
    BY <1>1
  <2> HIDE DEF new, moved, at
  <2>2. QED
    BY <1>5, <2>1
<1> HIDE DEF new, moved, at
<1>8. QED
  BY <1>1, <1>5, <1>6, <1>7, CallTurns

(* The service issues tokens: from here on the row holds the new one.      *)
LEMMA IssueFollows ==
  ASSUME IInv, TokenInv, NEW c \in Calls, IssueTokens(c)
  PROVE  TokenInv'
<1>t. auth[c] \in Auth
  BY DEF IInv, PagesTyped
<1>1. PICK token \in Tokens : hash' = token /\ auth' = [auth EXCEPT ![c] = Answering(auth[c], "issued", token)]
  BY DEF IssueTokens
<1>2. auth[c].at = "read" /\ UNCHANGED <<usable, store, req, wanted, excuses>>
  BY DEF IssueTokens
<1> DEFINE new == [[auth[c] EXCEPT !.at = "issued"] EXCEPT !.token = token]
<1>3. new.at = "issued" /\ new.token = token /\ new.op = auth[c].op /\ new.page = auth[c].page
  BY <1>t DEF Auth
<1>4. auth'[c] = Answering(auth[c], "issued", token) /\ \A d \in Calls : d # c => auth'[d] = auth[d]
  BY <1>1 DEF IInv, PagesTyped
<1>5. \/ auth'[c] = new
      \/ auth'[c] = NoAuth /\ auth[c].page = None
  BY <1>4 DEF Answering
<1>n. NoAuth.at = "idle"
  BY DEF NoAuth
<1> HIDE DEF new
<1>6. CallsHold'
  BY <1>2, <1>3, <1>4, <1>5, <1>n DEF TokenInv, CallsHold, Cleared
<1>7. \A s \in Tabs : LeavingIn(s)' <=> LeavingIn(s)
  BY <1>2 DEF LeavingIn
<1>8. ASSUME Clean' PROVE Alone'
  <2>1. Alone
    BY <1>2, <1>8 DEF TokenInv, OneAtATime, Clean
  <2>2. \A d \in Calls : auth'[d].at # "idle" => d = c
    BY <1>2, <1>4, <2>1, AloneMeans
  <2>3. \A s1, s2 \in Tabs : LeavingIn(s1)' /\ LeavingIn(s2)' => s1 = s2
    BY <1>7, <2>1, AloneMeans
  <2>4. ASSUME NEW s \in Tabs, auth'[c].at # "idle", LeavingIn(s)'
        PROVE  auth'[c].op = "refresh" /\ auth'[c].page = s
    BY <1>2, <1>3, <1>5, <1>7, <1>n, <2>1, <2>4, AloneMeans
  <2>5. auth'[c].at = "issued" => hash' = auth'[c].token
    BY <1>1, <1>3, <1>5, <1>n
  <2>6. QED
    BY <2>2, <2>3, <2>4, <2>5, AloneMeans
<1>9. ASSUME Calm' PROVE Followed'
  <2>1. Calm /\ Followed /\ Alone
    BY <1>2, <1>9, CalmIsClean DEF TokenInv, OneAtATime, Calm
  <2>2. auth[c].page # None /\ auth'[c] = new
    BY <1>2, <1>5, <2>1 DEF Followed, CallFollows
  <2>3. ASSUME NEW d \in Calls PROVE CallFollows(d)'
    <3>1. CASE d = c
      BY <1>2, <1>3, <2>1, <2>2, <3>1 DEF Followed, CallFollows
    <3>2. CASE d # c
      BY <1>2, <1>4, <2>1, <3>2 DEF Followed, CallFollows
    <3>3. QED
      BY <3>1, <3>2
  <2>4. \A s \in Tabs : req[s][Logout].at # "done"
    BY <1>2, <2>1 DEF Followed, LeaveFollows
  <2>5. \A s \in Tabs : LeaveFollows(s)'
    BY <1>2, <2>1, <2>4 DEF Followed, LeaveFollows
  <2>6. ~Settled'
    BY <1>3, <2>2 DEF Settled
  <2>7. Agree'
    BY <1>2, <1>7, <2>1, <2>6 DEF Followed, Agree, Cleared
  <2>8. QED
    BY <2>3, <2>5, <2>7 DEF Followed
<1>10. QED
  BY <1>6, <1>8, <1>9 DEF TokenInv, OneAtATime

(* A sign-in is answered: the browser has what the row holds, and nothing  *)
(* else is under way, or there is an excuse.                               *)
LEMMA LoggedInFollows ==
  ASSUME SessionAssumption, IInv, TokenInv, NEW t \in Tabs, NEW c \in Calls, LoggedIn(t, c)
  PROVE  TokenInv'
<1>0. /\ auth[c].at = "issued" /\ auth[c].op = "login"
      /\ store' = [access |-> "valid", refresh |-> auth[c].token, user |-> TRUE]
      /\ auth' = [auth EXCEPT ![c] = NoAuth]
      /\ wanted' /\ UNCHANGED <<hash, usable, req>>
  BY DEF LoggedIn, Answered
<1>1. /\ auth'[c].at = "idle" /\ \A d \in Calls : d # c => auth'[d] = auth[d]
      /\ \A s \in Tabs : LeavingIn(s)' <=> LeavingIn(s)
  BY <1>0 DEF IInv, PagesTyped, NoAuth, LeavingIn
<1>2. auth[c].token # None /\ store'.refresh = auth[c].token
  BY <1>0 DEF TokenInv, CallsHold, SessionAssumption
<1>3. CallsHold'
  <2>1. ~usable' => "revoked" \in excuses'
    BY <1>0 DEF LoggedIn, TokenInv, CallsHold
  <2>2. \A d \in Calls : auth'[d].at = "issued" => auth'[d].token \in Tokens
    BY <1>1 DEF TokenInv, CallsHold
  <2>3. QED
    BY <1>2, <2>1, <2>2 DEF CallsHold
<1>4. ASSUME Clean'
      PROVE  /\ hash = auth[c].token
             /\ \A d \in Calls : d # c => auth[d].at = "idle"
             /\ \A s \in Tabs : ~LeavingIn(s)
  <2>1. CASE hash = auth[c].token /\ Overlap(Underway \ {c}, Tabs) = {}
    BY <2>1 DEF Overlap, Underway
  <2>2. CASE ~(hash = auth[c].token /\ Overlap(Underway \ {c}, Tabs) = {})
    <3>1. Clean
      BY <1>4, <2>2 DEF LoggedIn, Clean
    <3>2. Alone
      BY <3>1 DEF TokenInv, OneAtATime
    <3>3. QED
      BY <1>0, <3>2, AloneMeans
  <2>3. QED
    BY <2>1, <2>2
<1>5. ASSUME Clean' PROVE \A d \in Calls : auth'[d].at = "idle"
  BY <1>1, <1>4, <1>5
<1>6. ASSUME Clean' PROVE Alone'
  BY <1>1, <1>4, <1>5, <1>6, AloneMeans
<1>7. ASSUME Calm' PROVE Followed'
  <2>1. Clean'
    BY <1>7, CalmIsClean
  <2>2. \A d \in Calls : auth'[d].at = "idle"
    BY <1>5, <2>1
  <2>3. hash = auth[c].token /\ \A s \in Tabs : ~LeavingIn(s)'
    BY <1>1, <1>4, <2>1
  <2>4. \A s \in Tabs : req'[s][Logout].at = "idle"
    BY <2>3 DEF LeavingIn
  <2>5. Agree'
    BY <1>0, <1>2, <2>3 DEF Agree
  <2>6. QED
    BY <2>2, <2>4, <2>5 DEF Followed, CallFollows, LeaveFollows
<1>8. QED
  BY <1>3, <1>6, <1>7 DEF TokenInv, OneAtATime

LEMMA LoginRefusedFollows ==
  ASSUME IInv, TokenInv, NEW t \in Tabs, NEW c \in Calls, LoginRefused(t, c)
  PROVE  TokenInv'
<1>1. /\ auth' = [auth EXCEPT ![c] = NoAuth] /\ auth[c].at = "denied"
      /\ UNCHANGED <<hash, usable, store, req, wanted, excuses>>
  BY DEF LoginRefused, Answered
<1>2. NoAuth.at = "idle"
  BY DEF NoAuth
<1>3. ~Followed
  BY <1>1 DEF Followed, CallFollows
<1>4. /\ NoAuth \in Auth /\ NoAuth.at # "issued" /\ excuses \subseteq excuses'
      /\ UNCHANGED <<req, store, hash, usable, wanted>>
  BY <1>1, <1>2, FreshStates
<1>5. NoAuth.at # "idle" =>
        auth[c].at # "idle" /\ NoAuth.op = auth[c].op /\ NoAuth.page = auth[c].page
  BY <1>2
<1>6. Calm' /\ Calm /\ Followed => CallFollows(c)' /\ auth[c].at \notin {"issued", "idle"}
  BY <1>3
<1>7. QED
  BY <1>1, <1>4, <1>5, <1>6, CallTurns

(* A refresh is answered: the browser stores what the row holds.           *)
LEMMA RefreshedFollows ==
  ASSUME SessionAssumption, IInv, TokenInv, NEW t \in Tabs, NEW c \in Calls, Refreshed(t, c)
  PROVE  TokenInv'
<1>t. PagesTyped
  BY DEF IInv
<1>l. Logout \in All
  BY DEF All
<1>0. /\ auth[c].at = "issued" /\ auth[c].op = "refresh"
      /\ store' = [store EXCEPT !.access = "valid", !.refresh = auth[c].token]
      /\ req' = [req EXCEPT ![t] = Resent(t)]
      /\ auth' = [auth EXCEPT ![c] = NoAuth] /\ UNCHANGED <<hash, usable, wanted, excuses>>
  BY DEF Refreshed, Answered
<1>1. auth'[c].at = "idle" /\ \A d \in Calls : d # c => auth'[d] = auth[d]
  BY <1>t, <1>0 DEF PagesTyped, NoAuth
<1>2. ASSUME NEW s \in Tabs
      PROVE  /\ LeavingIn(s)' <=> LeavingIn(s)
             /\ req'[s][Logout].at = "done" <=> req[s][Logout].at = "done"
             /\ req'[s][Logout].retry = req[s][Logout].retry
             /\ \/ req'[s][Logout] = req[s][Logout] /\ req[s][Logout].at \notin {"waiting", "queued"}
                \/ req'[s][Logout] = req[s][Logout] /\ s # t
                \/ req'[s][Logout].at = "sent" /\ req'[s][Logout].access = "valid"
  <2>1. req[s][Logout] \in Request
    BY <1>t, <1>l DEF PagesTyped
  <2>2. Resent(t)[Logout] = IF req[t][Logout].at \in {"queued", "waiting"}
                            THEN [req[t][Logout] EXCEPT !.at = "sent", !.access = "valid"]
                            ELSE req[t][Logout]
    BY <1>l DEF Resent, Awaiting
  <2>3. req'[s] = IF s = t THEN Resent(t) ELSE req[s]
    BY <1>t, <1>0 DEF PagesTyped
  <2>4. CASE s # t
    BY <2>3, <2>4 DEF LeavingIn
  <2>5. CASE s = t /\ req[t][Logout].at \in {"queued", "waiting"}
    <3> DEFINE new == [[req[t][Logout] EXCEPT !.at = "sent"] EXCEPT !.access = "valid"]
    <3>1. req'[s][Logout] = new
      BY <2>2, <2>3, <2>5
    <3>2. new.at = "sent" /\ new.access = "valid" /\ new.retry = req[s][Logout].retry
      BY <2>1, <2>5 DEF Request
    <3> HIDE DEF new
    <3>3. QED
      BY <2>5, <3>1, <3>2 DEF LeavingIn
  <2>6. CASE s = t /\ req[t][Logout].at \notin {"queued", "waiting"}
    <3>1. req'[s][Logout] = req[s][Logout]
      BY <2>2, <2>3, <2>6
    <3>2. QED
      BY <2>6, <3>1 DEF LeavingIn
  <2>7. QED
    BY <2>4, <2>5, <2>6
<1>3. auth[c].token # None /\ store'.refresh = auth[c].token
  BY <1>0 DEF TokenInv, CallsHold, SessionAssumption, IInv, StoreTyped, Store
<1>4. CallsHold'
  BY <1>0, <1>1, <1>3 DEF TokenInv, CallsHold
<1>5. ASSUME Clean' PROVE Alone'
  <2>1. Alone
    BY <1>0, <1>5 DEF TokenInv, OneAtATime, Clean
  <2>2. \A d \in Calls : auth'[d].at = "idle"
    BY <1>0, <1>1, <2>1, AloneMeans
  <2>3. \A s1, s2 \in Tabs : LeavingIn(s1)' /\ LeavingIn(s2)' => s1 = s2
    BY <1>2, <2>1, AloneMeans
  <2>4. QED
    BY <2>2, <2>3, AloneMeans
<1>6. ASSUME Calm' PROVE Followed'
  <2>1. Calm /\ Followed /\ Alone
    BY <1>0, <1>6, CalmIsClean DEF TokenInv, OneAtATime, Calm
  <2>2. hash' = store'.refresh
    BY <1>0, <1>3, <2>1, AloneMeans
  <2>3. \A d \in Calls : auth'[d].at = "idle"
    BY <1>0, <1>1, <2>1, AloneMeans
  <2>4. \A s \in Tabs : req[s][Logout].at # "done"
    BY <1>0, <2>1 DEF Followed, LeaveFollows
  <2>5. ASSUME NEW s \in Tabs, req'[s][Logout].retry
        PROVE  \/ req'[s][Logout].at \in {"idle", "waiting", "done"}
               \/ req'[s][Logout].at = "sent" /\ req'[s][Logout].access = "valid"
    BY <1>2, <2>1, <2>5 DEF Followed, LeaveFollows
  <2>6. \A s \in Tabs : LeaveFollows(s)'
    BY <1>2, <2>4, <2>5 DEF LeaveFollows
  <2>7. wanted \/ \E s \in Tabs : LeavingIn(s)
    <3>1. store.refresh # None
      BY <1>0, <2>1 DEF Followed, CallFollows
    <3>2. QED
      BY <2>1, <3>1 DEF Followed, Agree, Cleared
  <2>8. Agree'
    BY <1>0, <1>2, <1>3, <2>1, <2>2, <2>7 DEF Followed, Agree
  <2>9. QED
    BY <2>3, <2>6, <2>8 DEF Followed, CallFollows
<1>7. QED
  BY <1>4, <1>5, <1>6 DEF TokenInv, OneAtATime

(* A refused refresh is never calm. *)
LEMMA RefusedFollows ==
  ASSUME SessionAssumption, IInv, TokenInv, NEW t \in Tabs, NEW c \in Calls, RefreshRefused(t, c)
  PROVE  TokenInv'
<1>1. ~(Calm /\ Followed)
  BY DEF RefreshRefused, Answered, Followed, CallFollows
<1>2. CASE SignOut(t)
  BY <1>1, <1>2, SignOutFollows
<1>3. CASE ~SignOut(t)
  <2>1. /\ store' = Cleared /\ req' = [req EXCEPT ![t] = Rejected(t)]
        /\ auth' = [auth EXCEPT ![c] = NoAuth] /\ UNCHANGED <<hash, usable, wanted, excuses>>
    BY <1>3 DEF RefreshRefused
  <2>2. auth'[c].at = "idle" /\ \A d \in Calls : d # c => auth'[d] = auth[d]
    BY <2>1 DEF IInv, PagesTyped, NoAuth
  <2>3. CallsHold'
    BY <2>1, <2>2 DEF TokenInv, CallsHold
  <2>4. \A s \in Tabs : LeavingIn(s)' => LeavingIn(s)
    <3>1. Logout \in All
      BY DEF All
    <3>2. QED
      BY <2>1, <3>1 DEF IInv, PagesTyped, LeavingIn, Rejected, Idle
  <2>5. \A d \in Calls : auth'[d].at # "idle" => auth'[d] = auth[d]
    BY <2>2
  <2>6. Alone => Alone'
    BY <2>1, <2>4, <2>5, StaysAlone
  <2>7. (Clean' => Clean) /\ (Calm' => Calm)
    BY <2>1 DEF Clean, Calm
  <2>8. QED
    BY <1>1, <2>3, <2>6, <2>7 DEF TokenInv, OneAtATime
<1>4. QED
  BY <1>2, <1>3

LEMMA LoggedOutFollows ==
  ASSUME SessionAssumption, IInv, TokenInv, NEW t \in Tabs, LoggedOut(t)
  PROVE  TokenInv'
<1>1. Followed => ~wanted
  BY DEF LoggedOut, Followed, Agree, LeavingIn
<1>2. QED
  BY <1>1, SignOutFollows DEF LoggedOut

-----------------------------------------------------------------------------
(* Lost answers and requests are excuses. *)
LEMMA LosesFollow ==
  ASSUME SessionAssumption, IInv, TokenInv,
         \/ \E c \in Calls : LoseAnswer(c)
         \/ \E t \in Tabs, r \in All : LoseRequest(t, r)
  PROVE  TokenInv'
<1>t. PagesTyped
  BY DEF IInv
<1>1. ~Clean' /\ excuses \subseteq excuses' /\ usable' = usable
  BY DEF LoseAnswer, LoseRequest, Fault, Clean
<1>2. ASSUME NEW c \in Calls, LoseAnswer(c) PROVE CallsHold'
  <2>1. /\ auth' = [auth EXCEPT ![c] = Answering(auth[c], "denied", None)] /\ store' = store
    BY <1>2 DEF LoseAnswer
  <2>2. Answering(auth[c], "denied", None).at # "issued"
    <3>1. auth[c] \in Auth
      BY <1>t DEF PagesTyped
    <3>2. QED
      BY <3>1 DEF Answering, NoAuth, Auth
  <2>3. \A d \in Calls : auth'[d].at = "issued" => auth'[d] = auth[d]
    BY <1>t, <2>1, <2>2 DEF PagesTyped
  <2>4. QED
    BY <1>1, <2>1, <2>3 DEF TokenInv, CallsHold, Cleared
<1>3. ASSUME NEW t \in Tabs, NEW r \in All, LoseRequest(t, r) PROVE CallsHold'
  <2>1. CASE store' = Cleared /\ Redirect(t)
    <3>1. Leave(t, Fresh) /\ \A c \in Calls : auth'[c].at # "idle" =>
            auth'[c].at = auth[c].at /\ auth'[c].token = auth[c].token
      BY <2>1, LeaveStays DEF Redirect
    <3>2. \A c \in Calls : auth'[c].at = "issued" => auth'[c].token \in Tokens
      BY <3>1 DEF TokenInv, CallsHold
    <3>3. QED
      BY <1>1, <2>1, <3>2 DEF TokenInv, CallsHold
  <2>2. CASE UNCHANGED <<store, auth>>
    BY <1>1, <2>2 DEF TokenInv, CallsHold, Cleared
  <2>3. QED
    BY <1>3, <2>1, <2>2 DEF LoseRequest
<1>4. QED
  BY <1>1, <1>2, <1>3, Excused

(* A page with nothing in progress may be loaded again. *)
LEMMA ReloadFollows ==
  ASSUME SessionAssumption, IInv, TokenInv, NEW t \in Tabs, Reload(t)
  PROVE  TokenInv'
<1>1. /\ UNCHANGED <<hash, usable, store, wanted>> /\ excuses \subseteq excuses'
      /\ Of(t) # {} \/ LeavingIn(t) => ~Clean'
  BY DEF Reload, Fault, Clean
<1>2. PICK form \in BOOLEAN : Leave(t, Shows(SignedIn, form))
  BY DEF Reload
<1>s. /\ req'[t][Logout] = Idle
      /\ \A s \in Tabs : s # t => req'[s] = req[s]
      /\ \A s \in Tabs : LeavingIn(s)' <=> LeavingIn(s) /\ s # t
      /\ \A c \in Calls : auth[c].page # t => auth'[c] = auth[c]
      /\ \A c \in Calls : auth'[c].at # "idle" =>
           /\ auth[c].at # "idle" /\ auth'[c].op = auth[c].op
           /\ auth'[c].page = auth[c].page \/ (auth[c].page = t /\ auth'[c].at # "issued")
           /\ auth'[c].at = auth[c].at /\ auth'[c].token = auth[c].token
      /\ Alone => Alone'
  BY <1>1, <1>2, LeaveStays
<1>3. CallsHold'
  <2>1. ASSUME NEW c \in Calls, auth'[c].at = "issued" PROVE auth'[c].token \in Tokens
    <3>1. auth'[c].at # "idle"
      BY <2>1
    <3>2. auth[c].at = "issued" /\ auth'[c].token = auth[c].token
      BY <1>s, <2>1, <3>1
    <3>3. QED
      BY <3>2 DEF TokenInv, CallsHold
  <2>2. QED
    BY <1>1, <2>1 DEF TokenInv, CallsHold, Cleared
<1>4. OneAtATime'
  BY <1>1, <1>s, CalmBefore DEF TokenInv, OneAtATime
<1>5. ASSUME Calm' PROVE Followed'
  <2>1. Calm /\ Followed /\ Clean'
    BY <1>1, <1>5, CalmBefore DEF TokenInv
  <2>2. ~LeavingIn(t) /\ \A c \in Calls : auth[c].at = "idle" \/ auth[c].page # t
    BY <1>1, <2>1 DEF Of, Underway
  <2>3. \A c \in Calls : auth'[c].at = auth[c].at /\ (auth[c].at # "idle" => auth'[c] = auth[c])
    BY <1>s, <2>2
  <2>4. \A c \in Calls : CallFollows(c)'
    BY <1>1, <2>1, <2>3 DEF Followed, CallFollows
  <2>5. ASSUME NEW s \in Tabs
        PROVE  LeaveFollows(s)' /\ (LeavingIn(s)' <=> LeavingIn(s))
               /\ (req'[s][Logout].at = "done" <=> req[s][Logout].at = "done")
    <3>1. CASE s = t
      BY <1>s, <2>2, <3>1 DEF LeaveFollows, LeavingIn, Idle
    <3>2. CASE s # t
      BY <1>1, <1>s, <2>1, <2>3, <3>2 DEF Followed, LeaveFollows
    <3>3. QED
      BY <3>1, <3>2
  <2>6. Settled' <=> Settled
    BY <2>3, <2>5 DEF Settled
  <2>7. Agree'
    BY <1>1, <2>1, <2>5, <2>6 DEF Followed, Agree, Cleared
  <2>8. QED
    BY <2>4, <2>5, <2>7 DEF Followed
<1>6. QED
  BY <1>3, <1>4, <1>5 DEF TokenInv

LEMMA MoveFollows ==
  ASSUME TokenInv, NEW t \in Tabs, Move(t)
  PROVE  TokenInv'
<1>1. UNCHANGED <<hash, usable, store, req, auth, wanted>> /\ excuses \subseteq excuses'
  BY DEF Move, Fault
<1>2. QED
  BY <1>1, RequestsTurn DEF LeavingIn, LeaveFollows

(* Access tokens end: nothing moves, and no retried sign-out is under way. *)
LEMMA EndFollows ==
  ASSUME IInv, TokenInv, Expire \/ Rekey
  PROVE  TokenInv'
<1>t. PagesTyped /\ store \in Store
  BY DEF IInv, StoreTyped
<1>l. Logout \in All
  BY DEF All
<1>1. /\ AccessEnds /\ store.access = "valid" /\ UNCHANGED <<hash, usable, tab, auth, wanted>>
      /\ excuses \subseteq excuses'
  BY DEF Expire, Rekey, Fault
<1>2. store'.refresh = store.refresh /\ store.refresh # None
  BY <1>t, <1>1 DEF AccessEnds, Store, TokenInv, CallsHold, Cleared
<1>3. ASSUME NEW s \in Tabs
      PROVE  /\ req'[s][Logout].at = req[s][Logout].at /\ req'[s][Logout].retry = req[s][Logout].retry
             /\ LeavingIn(s)' <=> LeavingIn(s)
  <2>1. req[s][Logout] \in Request
    BY <1>t, <1>l DEF PagesTyped
  <2>2. req'[s][Logout] = [req[s][Logout] EXCEPT !.access = Expired(@)]
    BY <1>l, <1>1 DEF AccessEnds
  <2>3. QED
    BY <2>1, <2>2 DEF Request, LeavingIn
<1>4. CallsHold'
  BY <1>1, <1>2 DEF TokenInv, CallsHold
<1>5. OneAtATime'
  BY <1>1, <1>3, CalmBefore, StaysAlone DEF TokenInv, OneAtATime
<1>6. ASSUME Calm' PROVE Followed'
  <2>1. Calm /\ Followed
    BY <1>1, <1>6, CalmBefore DEF TokenInv
  <2>2. \A c \in Calls : CallFollows(c)'
    BY <1>1, <1>2, <2>1 DEF Followed, CallFollows
  <2>3. ASSUME NEW s \in Tabs PROVE LeaveFollows(s)'
    <3>1. CASE wanted
      <4>1. ~LeavingIn(s)
        BY <2>1, <3>1 DEF Followed, Agree
      <4>2. QED
        BY <1>3, <4>1 DEF LeaveFollows, LeavingIn
    <3>2. CASE ~wanted
      <4>1. Expire
        BY <1>1, <1>6, <3>2 DEF Rekey, Fault, Calm
      <4>2. ~(req[s][Logout].at = "sent" /\ req[s][Logout].retry)
        BY <1>l, <4>1 DEF Expire
      <4>3. QED
        BY <1>1, <1>3, <2>1, <4>2 DEF Followed, LeaveFollows
    <3>3. QED
      BY <3>1, <3>2
  <2>4. Agree'
    <3>1. ~wanted => \E s \in Tabs : LeavingIn(s)
      BY <1>2, <2>1 DEF Followed, Agree, Cleared
    <3>2. Settled' <=> Settled
      BY <1>1, <1>3 DEF Settled
    <3>3. QED
      BY <1>1, <1>2, <1>3, <2>1, <3>1, <3>2 DEF Followed, Agree
  <2>5. QED
    BY <2>2, <2>3, <2>4 DEF Followed
<1>7. QED
  BY <1>4, <1>5, <1>6 DEF TokenInv

(* What others do to the account is an excuse. *)
LEMMA OthersFollow ==
  ASSUME TokenInv, Elsewhere \/ Revoke
  PROVE  TokenInv'
<1>1. /\ ~Clean' /\ UNCHANGED <<store, auth>> /\ excuses \subseteq excuses'
      /\ usable' = usable \/ "revoked" \in excuses'
  BY DEF Elsewhere, Revoke, Fault, Clean
<1>2. CallsHold'
  BY <1>1 DEF TokenInv, CallsHold, Cleared
<1>3. QED
  BY <1>1, <1>2, Excused

(* Every step keeps it. *)
LEMMA TokenInvStep ==
  ASSUME SessionAssumption, IInv, TokenInv, [Next]_vars
  PROVE  TokenInv'
<1>1. ASSUME NEW t \in Tabs, NEW r \in All, Step(t, r) PROVE TokenInv'
  BY <1>1, SendFollows, ServeFollows, RetryFollows, GiveUpFollows, QueueFollows, StartRefreshFollows,
     LosesFollow DEF Step
<1>2. ASSUME NEW t \in Tabs, NEW c \in Calls, Answer(t, c) PROVE TokenInv'
  BY <1>2, StartLoginFollows, LoggedInFollows, LoginRefusedFollows, RefreshedFollows, RefusedFollows
  DEF Answer
<1>3. ASSUME NEW c \in Calls, ReadAccount(c) \/ IssueTokens(c) \/ LoseAnswer(c) PROVE TokenInv'
  BY <1>3, ReadAccountFollows, IssueFollows, LosesFollow
<1>4. ASSUME NEW t \in Tabs, Move(t) \/ LoggedOut(t) \/ Reload(t) PROVE TokenInv'
  BY <1>4, MoveFollows, LoggedOutFollows, ReloadFollows
<1>5. CASE Expire \/ Rekey \/ Elsewhere \/ Revoke
  BY <1>5, EndFollows, OthersFollow
<1>6. CASE UNCHANGED vars
  <2>1. UNCHANGED <<hash, usable, store, req, auth, wanted>> /\ excuses \subseteq excuses'
    BY <1>6 DEF vars
  <2>2. QED
    BY <2>1, RequestsTurn DEF LeavingIn, LeaveFollows
<1>7. QED
  BY <1>1, <1>2, <1>3, <1>4, <1>5, <1>6 DEF Next

LEMMA TokenInductive == Spec => []TokenInv
<1>1. Init => TokenInv
  BY TokenInvInit
<1>2. IInv /\ TokenInv /\ [Next]_vars => TokenInv'
  BY TokenInvStep, SessionAssumption
<1>3. QED
  BY <1>1, <1>2, Inductive, PTL DEF Spec

(* What the invariant says once nothing is in progress. *)
LEMMA QuietAgrees ==
  ASSUME TokenInv, Calm, Quiet
  PROVE  /\ hash = store.refresh
         /\ wanted => store.refresh # None
         /\ ~wanted => store = Cleared
<1>1. Settled
  BY DEF Quiet, Underway, LeavingIn, Settled
<1>2. QED
  BY <1>1 DEF TokenInv, Followed, Agree, Quiet

(* When nothing is in progress a signed-in browser holds the refresh token *)
(* the service expects, however requests, 401s, expiries, refreshes,       *)
(* reloads and sign-ins follow one another, unless since the sign-in calls *)
(* for tokens, or one and a sign-out, overlapped (two tabs refreshing at   *)
(* once are such calls), an answer was lost, another device signed in or   *)
(* out, or the account was revoked (api.ts, the interceptor;               *)
(* auth.service.ts, refreshTokens).                                        *)
THEOREM SignInHolds == Spec => []StaysSignedIn
<1>1. TokenInv => StaysSignedIn
  <2>1. ASSUME wanted, excuses \subseteq {"rekeyed"} PROVE Calm
    BY <2>1 DEF Calm
  <2>2. QED
    BY <2>1, QuietAgrees DEF StaysSignedIn
<1>2. QED
  BY <1>1, TokenInductive, PTL

(* After a sign-out neither the browser nor the service keeps a refresh    *)
(* token, unless one of the same things happened or the secret changed: a  *)
(* sign-out may wait for a refresh of its own page, and one that the       *)
(* service serves while a refresh is under way is excused (logout in the   *)
(* client and in auth.service.ts).                                         *)
THEOREM SignOutHolds == Spec => []StaysSignedOut
<1>1. TokenInv => StaysSignedOut
  <2>1. ASSUME ~wanted, excuses = {} PROVE Calm
    BY <2>1 DEF Calm
  <2>2. QED
    BY <2>1, QuietAgrees DEF StaysSignedOut, Cleared
<1>2. QED
  BY <1>1, TokenInductive, PTL
=============================================================================
