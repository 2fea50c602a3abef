------------------------------ MODULE Session -------------------------------
(***************************************************************************)
(* One account's sign-in between a browser and the authentication service: *)
(* the tokens the tabs share in local storage, the API client of each tab  *)
(* that answers a 401 with a refresh and queues what arrives meanwhile,    *)
(* and the service that keeps the hash of one refresh token per account.   *)
(*                                                                         *)
(* A tab is a page load: whether a refresh runs and what it queues are     *)
(* variables of the page, lost when the client loads the sign-in page      *)
(* anew, and kept while the router moves between that page and the         *)
(* dashboard.  Local storage outlives it and is shared by all tabs.  An    *)
(* access token is only valid or expired here; refresh tokens have an      *)
(* identity, and one that nobody holds any more may be drawn again.        *)
(***************************************************************************)
EXTENDS Integers, FiniteSets

CONSTANTS
  Tabs,        (* tabs of one browser                                        *)
  Requests,    (* API requests a tab may have in progress                    *)
  Logout,      (* the request of the sign-out button                         *)
  Calls,       (* bound: calls for tokens that may be in progress at once    *)
  Tokens,      (* refresh tokens of this browser                             *)
  Other,       (* a refresh token of another device                          *)
  None,        (* no refresh token, and no page                              *)
  MaxExpiries, (* bound on expiries of access tokens                         *)
  MaxFaults    (* bound on lost answers, reloads, Back and what others do    *)

ASSUME SessionAssumption ==
  /\ IsFiniteSet(Tabs) /\ IsFiniteSet(Requests) /\ Logout \notin Requests
  /\ IsFiniteSet(Calls) /\ None \notin Tabs
  /\ None \notin Tokens \cup {Other} /\ Other \notin Tokens
  /\ MaxExpiries \in Nat /\ MaxFaults \in Nat

VARIABLES
  hash,      (* the refresh token whose hash the account's row holds         *)
  usable,    (* the account is active and not deleted                        *)
  store,     (* local storage: access token, refresh token, user             *)
  tab,       (* what each page holds: its user, path and isRefreshing        *)
  req,       (* the requests of each page                                    *)
  auth,      (* the calls of the service for a pair of tokens                *)
  wanted,    (* the user has signed in and not pressed sign-out              *)
  excuses,   (* what has happened since that the client cannot know of       *)
  expiries,  (* expiries so far: a bound                                     *)
  faults     (* faults so far: a bound                                       *)

vars == <<hash, usable, store, tab, req, auth, wanted, excuses, expiries, faults>>

Access == {"none", "valid", "expired"}
Store == [access : Access, refresh : Tokens \cup {None}, user : BOOLEAN]
Cleared == [access |-> "none", refresh |-> None, user |-> FALSE]

(* A page: its user, whether it shows a form (/login or /register) or the  *)
(* dashboard, isRefreshing, and, for the history, whether it gave up on a  *)
(* form: then isRefreshing stays set with no refresh that would reset it.  *)
Page == [user : BOOLEAN, form : BOOLEAN, refreshing : BOOLEAN, stuck : BOOLEAN]
Shows(user, form) == [user |-> user, form |-> form, refreshing |-> FALSE, stuck |-> FALSE]
Fresh == Shows(FALSE, TRUE)
SignedIn == store.user /\ store.access # "none"

(* A request is sent, refused, queued, or waiting for the refresh it began; *)
(* a sign-out is also done at the service before its answer arrives.        *)
All == Requests \cup {Logout}
Request == [at : {"idle", "sent", "refused", "queued", "waiting", "done"},
            access : Access, retry : BOOLEAN]
Idle == [at |-> "idle", access |-> "none", retry |-> FALSE]
NoRequests == [r \in All |-> Idle]

(* page: whose page waits for the answer; none once that page is gone.     *)
Auth == [op : {"none", "login", "refresh"}, at : {"idle", "posted", "read", "issued", "denied"},
         token : Tokens \cup {None}, page : Tabs \cup {None}]
NoAuth == [op |-> "none", at |-> "idle", token |-> None, page |-> None]
Post(t, op, token) == [op |-> op, at |-> "posted", token |-> token, page |-> t]

Init ==
  /\ hash = None /\ usable = TRUE
  /\ store = Cleared
  /\ tab = [t \in Tabs |-> Fresh]
  /\ req = [t \in Tabs |-> NoRequests]
  /\ auth = [c \in Calls |-> NoAuth]
  /\ wanted = FALSE /\ excuses = {}
  /\ expiries = 0 /\ faults = 0

(* Calls for tokens and sign-outs: two of these at once may leave the      *)
(* tokens of either behind, unless a page signs out during its refresh.    *)
Underway == {c \in Calls : auth[c].at # "idle"}
Of(t) == {c \in Underway : auth[c].page = t}
LeavingIn(t) == req[t][Logout].at # "idle"
Overlap(calls, tabs) ==
  IF calls # {} \/ \E s \in tabs : LeavingIn(s) THEN {"overlap"} ELSE {}

-----------------------------------------------------------------------------
(* The page *)

(* window.location.href = '/login': the page goes, and with it its         *)
(* requests; what it asked of the service is answered to nobody.           *)
Unheeded(call) == IF call.at \in {"issued", "denied"} THEN NoAuth ELSE [call EXCEPT !.page = None]
Leave(t, page) ==
  /\ tab' = [tab EXCEPT ![t] = page]
  /\ req' = [req EXCEPT ![t] = NoRequests]
  /\ auth' = [c \in Calls |-> IF auth[c].page = t THEN Unheeded(auth[c]) ELSE auth[c]]
Redirect(t) == Leave(t, Fresh)

StartLogin(t, c) ==
  /\ tab[t].form /\ auth[c].at = "idle"
  /\ auth' = [auth EXCEPT ![c] = Post(t, "login", None)]
  /\ excuses' = excuses \cup Overlap(Underway, Tabs)
  /\ UNCHANGED <<hash, usable, store, tab, req, wanted, expiries, faults>>

Send(t, r) ==
  /\ tab[t].user /\ ~tab[t].form
  /\ req[t][r].at = "idle" /\ req[t][Logout].at = "idle"
  /\ req' = [req EXCEPT ![t][r] = [at |-> "sent", access |-> store.access, retry |-> FALSE]]
  /\ wanted' = (wanted /\ r # Logout)
  /\ excuses' = IF r # Logout THEN excuses
                ELSE excuses \cup Overlap({c \in Underway : c \in Of(t) => auth[c].op # "refresh"},
                                         Tabs \ {t})
  /\ UNCHANGED <<hash, usable, store, tab, auth, expiries, faults>>

(* The answer to logout, whichever it is, clears the storage.  The tokens  *)
(* the page still waits for are answered to nobody.                        *)
SignOut(t) ==
  /\ store' = Cleared
  /\ Redirect(t)
  /\ excuses' = excuses \cup (IF \E c \in Of(t) : auth[c].at # "denied" THEN {"lost"} ELSE {})
  /\ UNCHANGED <<hash, usable, wanted, expiries, faults>>

(* A 401: a request tried again fails; one that finds a refresh running    *)
(* joins its queue; without a refresh token the client gives up; otherwise *)
(* the request begins a refresh.                                           *)
Fail(t, r) ==
  IF r = Logout THEN SignOut(t)
  ELSE /\ req' = [req EXCEPT ![t][r] = Idle]
       /\ UNCHANGED <<hash, usable, store, tab, auth, wanted, excuses, expiries, faults>>

RetryFails(t, r) == req[t][r].at = "refused" /\ req[t][r].retry /\ Fail(t, r)

Queue(t, r) ==
  /\ req[t][r].at = "refused" /\ ~req[t][r].retry /\ tab[t].refreshing
  /\ req' = [req EXCEPT ![t][r].at = "queued"]
  /\ UNCHANGED <<hash, usable, store, tab, auth, wanted, excuses, expiries, faults>>

(* On a form the client stays where it is, and isRefreshing set.           *)
GiveUp(t, r) ==
  /\ req[t][r].at = "refused" /\ ~req[t][r].retry /\ ~tab[t].refreshing
  /\ store.refresh = None
  /\ IF tab[t].form /\ r # Logout THEN
       /\ store' = Cleared
       /\ tab' = [tab EXCEPT ![t].refreshing = TRUE, ![t].stuck = TRUE]
       /\ req' = [req EXCEPT ![t][r] = Idle]
       /\ UNCHANGED <<hash, usable, auth, wanted, excuses, expiries, faults>>
     ELSE SignOut(t)

StartRefresh(t, r, c) ==
  /\ req[t][r].at = "refused" /\ ~req[t][r].retry /\ ~tab[t].refreshing
  /\ store.refresh # None /\ auth[c].at = "idle"
  /\ tab' = [tab EXCEPT ![t].refreshing = TRUE]
  /\ req' = [req EXCEPT ![t][r].at = "waiting", ![t][r].retry = TRUE]
  /\ auth' = [auth EXCEPT ![c] = Post(t, "refresh", store.refresh)]
  /\ excuses' = excuses \cup Overlap(Underway, {s \in Tabs : s = t => req[t][Logout].at = "done"})
  /\ UNCHANGED <<hash, usable, store, wanted, expiries, faults>>

-----------------------------------------------------------------------------
(* The service *)

(* StaysSignedOut: the service's logout does nothing. *)
ServeKeepsHash(t, r) ==
  /\ req[t][r].at = "sent"
  /\ LET valid == req[t][r].access = "valid" IN
     req' = [req EXCEPT ![t][r] = IF valid /\ r # Logout THEN Idle
               ELSE [@ EXCEPT !.at = IF valid THEN "done" ELSE "refused", !.access = "none"]]
  /\ UNCHANGED <<hash, usable, store, tab, auth, wanted, excuses, expiries, faults>>

(* The guard on the access token, and logout's update of the row.          *)
Serve(t, r) ==
  /\ req[t][r].at = "sent"
  /\ IF req[t][r].access # "valid" THEN
       /\ req' = [req EXCEPT ![t][r].at = "refused", ![t][r].access = "none"]
       /\ UNCHANGED <<hash, excuses>>
     ELSE IF r = Logout THEN
       /\ req' = [req EXCEPT ![t][r].at = "done", ![t][r].access = "none"]
       /\ hash' = None
       /\ excuses' = excuses \cup Overlap(Underway, {})
     ELSE
       /\ req' = [req EXCEPT ![t][r] = Idle]
       /\ UNCHANGED <<hash, excuses>>
  /\ UNCHANGED <<usable, store, tab, auth, wanted, expiries, faults>>

LoggedOut(t) == req[t][Logout].at = "done" /\ SignOut(t)

(* login finds the account by its address, refreshTokens by the hash.      *)
Found(call) == usable /\ (call.op = "refresh" => hash = call.token)

(* An answer to a page that is gone is heard by nobody.                    *)
Answering(call, at, token) ==
  IF call.page = None /\ at \in {"issued", "denied"} THEN NoAuth
  ELSE [call EXCEPT !.at = at, !.token = token]

ReadAccount(c) ==
  /\ auth[c].at = "posted"
  /\ auth' = [auth EXCEPT ![c] = Answering(@, IF Found(@) THEN "read" ELSE "denied", None)]
  /\ UNCHANGED <<hash, usable, store, tab, req, wanted, excuses, expiries, faults>>

InUse == {hash, store.refresh} \cup {auth[c].token : c \in Calls}

(* issueRefreshToken updates the row by id, whatever it holds by now.      *)
IssueTokens(c) ==
  /\ auth[c].at = "read"
  /\ \E token \in Tokens \ InUse :
       /\ \A other \in Tokens \ InUse : token <= other
       /\ hash' = token
       /\ auth' = [auth EXCEPT ![c] = Answering(@, "issued", token)]
  /\ UNCHANGED <<usable, store, tab, req, wanted, excuses, expiries, faults>>

-----------------------------------------------------------------------------
(* The answers *)

Answered(t, c, op, at) == auth[c].page = t /\ auth[c].op = op /\ auth[c].at = at

(* TypeOK: the answer's refresh token is not where the client looks. *)
PersistsNoToken(t, c) ==
  /\ Answered(t, c, "login", "issued")
  /\ store' = [access |-> "valid", refresh |-> 0, user |-> TRUE]
  /\ tab' = [tab EXCEPT ![t].user = TRUE, ![t].form = FALSE]
  /\ auth' = [auth EXCEPT ![c] = NoAuth]
  /\ wanted' = TRUE
  /\ UNCHANGED <<hash, usable, req, excuses, expiries, faults>>

(* persistAuth, then the dashboard: a sign-in starts over, unless another  *)
(* call or a sign-out overlapped it.                                       *)
LoggedIn(t, c) ==
  /\ Answered(t, c, "login", "issued")
  /\ store' = [access |-> "valid", refresh |-> auth[c].token, user |-> TRUE]
  /\ tab' = [tab EXCEPT ![t].user = TRUE, ![t].form = FALSE]
  /\ auth' = [auth EXCEPT ![c] = NoAuth]
  /\ wanted' = TRUE
  /\ excuses' = IF hash = auth[c].token /\ Overlap(Underway \ {c}, Tabs) = {}
                THEN excuses \cap {"revoked"} ELSE excuses
  /\ UNCHANGED <<hash, usable, req, expiries, faults>>

LoginRefused(t, c) ==
  /\ Answered(t, c, "login", "denied")
  /\ auth' = [auth EXCEPT ![c] = NoAuth]
  /\ UNCHANGED <<hash, usable, store, tab, req, wanted, excuses, expiries, faults>>

(* QueueIsServed: the queue is not processed. *)
ResentAlone(t) ==
  [r \in All |-> IF req[t][r].at = "waiting"
                 THEN [req[t][r] EXCEPT !.at = "sent", !.access = "valid"] ELSE req[t][r]]

(* processQueue: queued requests are sent again, not marked as retried.    *)
Awaiting(t, r) == req[t][r].at \in {"queued", "waiting"}
Resent(t) ==
  [r \in All |-> IF Awaiting(t, r)
                 THEN [req[t][r] EXCEPT !.at = "sent", !.access = "valid"] ELSE req[t][r]]

(* StaysSignedIn: the rotated refresh token is not stored. *)
RefreshedHalf(t, c) ==
  /\ Answered(t, c, "refresh", "issued")
  /\ store' = [store EXCEPT !.access = "valid"]
  /\ tab' = [tab EXCEPT ![t].refreshing = FALSE]
  /\ req' = [req EXCEPT ![t] = Resent(t)]
  /\ auth' = [auth EXCEPT ![c] = NoAuth]
  /\ UNCHANGED <<hash, usable, wanted, excuses, expiries, faults>>

Refreshed(t, c) ==
  /\ Answered(t, c, "refresh", "issued")
  /\ store' = [store EXCEPT !.access = "valid", !.refresh = auth[c].token]
  /\ tab' = [tab EXCEPT ![t].refreshing = FALSE]
  /\ req' = [req EXCEPT ![t] = Resent(t)]
  /\ auth' = [auth EXCEPT ![c] = NoAuth]
  /\ UNCHANGED <<hash, usable, wanted, excuses, expiries, faults>>

(* The queue is rejected and the storage cleared; on a form the page stays, *)
(* unless the sign-out was among what is rejected.                         *)
Rejected(t) == [r \in All |-> IF Awaiting(t, r) THEN Idle ELSE req[t][r]]
RefreshRefused(t, c) ==
  /\ Answered(t, c, "refresh", "denied")
  /\ IF tab[t].form /\ ~Awaiting(t, Logout) THEN
       /\ store' = Cleared
       /\ tab' = [tab EXCEPT ![t].refreshing = FALSE]
       /\ req' = [req EXCEPT ![t] = Rejected(t)]
       /\ auth' = [auth EXCEPT ![c] = NoAuth]
       /\ UNCHANGED <<hash, usable, wanted, excuses, expiries, faults>>
     ELSE SignOut(t)

-----------------------------------------------------------------------------
(* What the client does not choose *)

Expired(access) == IF access = "valid" THEN "expired" ELSE access

AccessEnds ==
  /\ store' = [store EXCEPT !.access = "expired"]
  /\ req' = [t \in Tabs |-> [r \in All |-> [req[t][r] EXCEPT !.access = Expired(@)]]]

(* Fifteen minutes after its issue; no retry is under way for so long.     *)
Expire ==
  /\ expiries < MaxExpiries /\ store.access = "valid"
  /\ \A t \in Tabs, r \in All : ~(req[t][r].at = "sent" /\ req[t][r].retry)
  /\ expiries' = expiries + 1
  /\ AccessEnds
  /\ UNCHANGED <<hash, usable, tab, auth, wanted, excuses, faults>>

Fault(reasons) ==
  /\ faults < MaxFaults
  /\ faults' = faults + 1
  /\ excuses' = excuses \cup reasons

(* The service restarts with another JWT_SECRET. *)
Rekey ==
  /\ Fault({"rekeyed"}) /\ store.access = "valid"
  /\ AccessEnds
  /\ UNCHANGED <<hash, usable, tab, auth, wanted, expiries>>

(* The call fails on its way back, on its way there, or by the rate limit. *)
LoseAnswer(c) ==
  /\ Fault({"lost"})
  /\ auth[c].at \in {"posted", "issued"}
  /\ auth' = [auth EXCEPT ![c] = Answering(@, "denied", None)]
  /\ UNCHANGED <<hash, usable, store, tab, req, wanted, expiries>>

(* A request, or a sign-out, fails for another reason than a 401.          *)
LoseRequest(t, r) ==
  /\ Fault({"lost"})
  /\ req[t][r].at = "sent"
  /\ IF r = Logout THEN store' = Cleared /\ Redirect(t)
     ELSE req' = [req EXCEPT ![t][r] = Idle] /\ UNCHANGED <<store, tab, auth>>
  /\ UNCHANGED <<hash, usable, wanted, expiries>>

(* The user reloads the tab or opens it anew, on a form or the dashboard;  *)
(* without a signed-in user the dashboard shows the form.                  *)
Reload(t) ==
  /\ Fault(IF Of(t) # {} \/ LeavingIn(t) THEN {"lost"} ELSE {})
  /\ \E form \in BOOLEAN : (SignedIn \/ form) /\ Leave(t, Shows(SignedIn, form))
  /\ UNCHANGED <<hash, usable, store, wanted, expiries>>

(* Back and Forward: the router shows the form or the dashboard, and       *)
(* everything the page holds stays.                                        *)
Move(t) ==
  /\ Fault({})
  /\ tab[t].user /\ tab' = [tab EXCEPT ![t].form = ~tab[t].form]
  /\ UNCHANGED <<hash, usable, store, req, auth, wanted, expiries>>

(* Another device signs in with the account, or out. *)
Elsewhere ==
  /\ Fault({"elsewhere"})
  /\ hash' \in {None, Other}
  /\ UNCHANGED <<usable, store, tab, req, auth, wanted, expiries>>

(* The account is deactivated, which leaves the hash, or removed. *)
Revoke ==
  /\ Fault({"revoked"})
  /\ usable /\ usable' = FALSE
  /\ hash' \in {hash, None}
  /\ UNCHANGED <<store, tab, req, auth, wanted, expiries>>

Step(t, r) ==
  \/ Send(t, r) \/ Serve(t, r) \/ RetryFails(t, r) \/ Queue(t, r)
  \/ GiveUp(t, r) \/ LoseRequest(t, r) \/ \E c \in Calls : StartRefresh(t, r, c)

Answer(t, c) ==
  \/ StartLogin(t, c) \/ LoggedIn(t, c) \/ LoginRefused(t, c)
  \/ Refreshed(t, c) \/ RefreshRefused(t, c)

Next ==
  \/ \E t \in Tabs, r \in All : Step(t, r)
  \/ \E t \in Tabs, c \in Calls : Answer(t, c)
  \/ \E c \in Calls : ReadAccount(c) \/ IssueTokens(c) \/ LoseAnswer(c)
  \/ \E t \in Tabs : Move(t) \/ LoggedOut(t) \/ Reload(t)
  \/ Expire \/ Rekey \/ Elsewhere \/ Revoke

Spec == Init /\ [][Next]_vars

-----------------------------------------------------------------------------
TypeOK ==
  /\ hash \in Tokens \cup {None, Other} /\ usable \in BOOLEAN
  /\ store \in Store
  /\ tab \in [Tabs -> Page]
  /\ req \in [Tabs -> [All -> Request]]
  /\ auth \in [Calls -> Auth]
  /\ wanted \in BOOLEAN
  /\ excuses \subseteq {"overlap", "lost", "elsewhere", "revoked", "rekeyed"}
  /\ expiries \in 0..MaxExpiries /\ faults \in 0..MaxFaults

Quiet == Underway = {} /\ \A t \in Tabs : ~LeavingIn(t)

(* When nothing is in progress a signed-in browser holds the refresh token *)
(* the service expects, unless since the sign-in an answer was lost or its *)
(* page left, two calls for tokens, or one and a sign-out, overlapped,     *)
(* another device signed in or out, or the account was revoked (the        *)
(* rotation in refreshTokens and the interceptor's handling of a 401).     *)
StaysSignedIn ==
  wanted /\ Quiet /\ excuses \subseteq {"rekeyed"} =>
    store.refresh # None /\ hash = store.refresh

(* After a sign-out neither the browser nor the service keeps a refresh    *)
(* token, under the same conditions and with the secret the access token   *)
(* was signed with.  A page may sign out while it refreshes, as long as    *)
(* the service is done with the refresh when it serves the sign-out        *)
(* (logout in the client and in the service).                              *)
StaysSignedOut ==
  ~wanted /\ Quiet /\ excuses = {} => store = Cleared /\ hash = None

(* A request in the queue is on a page whose refresh is still to be        *)
(* answered to it, or that gave up without a refresh token while it showed *)
(* a form; the request that began a refresh always waits for an answer     *)
(* (failedQueue, isRefreshing and the 401s that arrive before, during and  *)
(* after a refresh).                                                       *)
Refreshes(t) == \E c \in Of(t) : auth[c].op = "refresh"
QueueIsServed ==
  \A t \in Tabs, r \in All :
    Awaiting(t, r) =>
      tab[t].refreshing /\ (Refreshes(t) \/ (req[t][r].at = "queued" /\ tab[t].stuck))

(* "Queue this request until refresh completes": a queued request's page   *)
(* has a refresh that will complete.  A configuration of its own refutes   *)
(* it with a page that gave up while it showed the sign-in form.           *)
EveryQueueIsServed ==
  \A t \in Tabs, r \in All : Awaiting(t, r) => Refreshes(t)

=============================================================================
