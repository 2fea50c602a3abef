-------------------------------- MODULE Team --------------------------------
(***************************************************************************)
(* The people of one tenant: registration, sign-in, the owner's team       *)
(* management, and what the routes' guards let a caller do.                *)
(*                                                                         *)
(* A caller's role is the one written in the access token at its issue;    *)
(* nothing compares it with the users table before the token expires.      *)
(* Team management reads the member it changes, counts the other owners    *)
(* and writes, in separate database accesses that other requests come      *)
(* between.  A user is identified with the e-mail address; a tenant has   *)
(* at most one row for it, deleted or not.                                 *)
(***************************************************************************)
EXTENDS Integers, FiniteSets

CONSTANTS
  Users,     (* e-mail addresses                                             *)
  Calls,     (* team-management requests in progress at once                 *)
  Changes,   (* what an update may ask for                                   *)
  MaxGrants, (* bound on sign-ins in progress at once                        *)
  NoUser,    (* the user of no call                                          *)
  Absent     (* no row in users                                              *)

VARIABLES
  user,      (* the tenant's rows in users                                   *)
  session,   (* users whose row holds the hash of a refresh token            *)
  claims,    (* user -> roles in the user's unexpired access tokens          *)
  grant,     (* user -> roles read by sign-ins that have yet to issue tokens *)
  call,      (* where each team-management request is                        *)
  suspended, (* the tenant's isActive is false                               *)
  owners,    (* users whose row has ever been an owner's                     *)
  raced      (* a request wrote between another's reads and its write        *)

vars == <<user, session, claims, grant, call, suspended, owners, raced>>

Roles == {"OWNER", "STAFF"}
(* TypeOK: every role may be assigned. *)
AssignsAnyRole(role) == role \in Roles \cup {"SUPER_ADMIN", "keep"}

AssignableRole(role) == role # "SUPER_ADMIN"

Row == [role : Roles, isActive : BOOLEAN, deleted : BOOLEAN]
Exists(u) == user[u] # Absent
Member(u) == Exists(u) /\ ~user[u].deleted
MaySignIn(u) == Member(u) /\ user[u].isActive
ActiveOwners == {u \in Users : MaySignIn(u) /\ user[u].role = "OWNER"}

-----------------------------------------------------------------------------
(* What the guards admit.  A route without @Roles, or behind the JWT guard *)
(* alone, takes every authenticated caller.                                *)
AnyRole == {}
CanActivate(required, role) ==
  required = AnyRole \/ role = "SUPER_ADMIN" \/ role \in required

OwnerOrStaff == {"OWNER", "STAFF"}
Reads(area, routes) == [a : {area}, r : routes, roles : {AnyRole}]
Takes(area, routes, roles) == [a : {area}, r : routes, roles : {roles}]

(* AuthorityWasHeld: reject without its @Roles. *)
OrderRoutesRejectOpen ==
  Reads("orders", {"events", "stats", "recent-activity", "analytics", "drafts", "draft", "list",
                   "reject"})
    \cup Takes("orders", {"approve"}, {"OWNER"})
    \cup Takes("orders", {"correct"}, OwnerOrStaff)

OrderRoutes ==
  Reads("orders", {"events", "stats", "recent-activity", "analytics", "drafts", "draft", "list"})
    \cup Takes("orders", {"approve", "reject"}, {"OWNER"})
    \cup Takes("orders", {"correct"}, OwnerOrStaff)
ProductRoutes ==
  Reads("products", {"list", "get"})
    \cup Takes("products", {"create", "update", "delete"}, OwnerOrStaff)
VariantRoutes ==
  Reads("variants", {"list"}) \cup Takes("variants", {"create", "update", "delete"}, OwnerOrStaff)
CustomerRoutes == Reads("customers", {"list", "get", "orders", "messages"})
NotificationRoutes == Reads("notifications", {"list", "read"})
SimulatorRoutes == Reads("simulator", {"send", "messages"})
AuditRoutes == Takes("audit-logs", {"list", "entity"}, {"OWNER"})
TeamManagers == {"OWNER"}
UserRoutes == Takes("users", {"list", "get", "create", "update", "delete"}, TeamManagers)
SettingsRoutes ==
  Takes("settings", {"get"}, {"OWNER", "SUPER_ADMIN", "STAFF"})
    \cup Takes("settings", {"update"}, {"OWNER", "SUPER_ADMIN"})
MetricsRoutes == Takes("ai-engine", {"metrics", "unfulfilled-demand"}, {"OWNER", "SUPER_ADMIN"})
SyncRoutes == Takes("integrations", {"woocommerce-sync"}, {"SUPER_ADMIN", "OWNER", "STAFF"})
AdminRoutes == Takes("admin", {"tenants", "stats", "set-status"}, {"SUPER_ADMIN"})
SessionRoutes == Reads("auth", {"logout", "me"})

Routes ==
  UNION {OrderRoutes, ProductRoutes, VariantRoutes, CustomerRoutes, NotificationRoutes,
         SimulatorRoutes, AuditRoutes, UserRoutes, SettingsRoutes, MetricsRoutes, SyncRoutes,
         AdminRoutes, SessionRoutes}

(* Some unexpired token of u opens a route that requires these roles. *)
Admitted(u, required) == \E role \in claims[u] : CanActivate(required, role)

-----------------------------------------------------------------------------
(* Team-management requests. *)

Keep == "keep"
Change == [role : Roles \cup {"SUPER_ADMIN", Keep}, isActive : {"yes", "no", Keep}]
NoChange == [role |-> Keep, isActive |-> Keep]

ASSUME TeamAssumption ==
  /\ IsFiniteSet(Users) /\ NoUser \notin Users /\ Absent \notin Row
  /\ Changes \subseteq Change /\ MaxGrants \in Nat

(* at: the access the request does next.  locksOut: it deactivates the      *)
(* account it comes from.                                                  *)
Idle == [at |-> "idle", op |-> "none", on |-> NoUser, change |-> NoChange, locksOut |-> FALSE]
Call == [at : {"idle", "count", "write"}, op : {"none", "update", "remove"},
         on : Users \cup {NoUser}, change : Change, locksOut : BOOLEAN]

Init ==
  /\ user = [u \in Users |-> Absent]
  /\ session = {}
  /\ claims = [u \in Users |-> {}]
  /\ grant = [u \in Users |-> {}]
  /\ call = [c \in Calls |-> Idle]
  /\ suspended = FALSE
  /\ owners = {}
  /\ raced = FALSE

Goto(c, at) == call' = [call EXCEPT ![c].at = at]
Finish(c) == call' = [call EXCEPT ![c] = Idle]

(* The deleted row's session goes with it. *)
WriteRow(u, row) ==
  /\ user' = [user EXCEPT ![u] = row]
  /\ owners' = IF row.role = "OWNER" THEN owners \cup {u} ELSE owners
  /\ session' = IF row.deleted THEN session \ {u} ELSE session

(* Another request has read the team and not yet written. *)
Overlaps(c) == \E d \in Calls \ {c} : call[d].at \in {"count", "write"}

(* POST /users: the index on the address makes check and insert one step.  *)
(* The check does not see a deleted row, the index does.                   *)
CreateUser(by, u, role) ==
  /\ Admitted(by, TeamManagers)
  /\ AssignableRole(role)
  /\ ~Exists(u)
  /\ WriteRow(u, [role |-> role, isActive |-> TRUE, deleted |-> FALSE])
  /\ UNCHANGED <<claims, grant, call, suspended, raced>>

(* The change takes an owner from the tenant, by the row the request reads. *)
LosesOwner(u, op, change) ==
  /\ user[u].role = "OWNER"
  /\ op = "remove" \/ change.role \notin {Keep, "OWNER"} \/ change.isActive = "no"

(* The request is admitted and reads the row.  A row that is not there, or *)
(* a platform role asked for, ends it; only the loss of an owner has the   *)
(* other owners counted.                                                   *)
Start(c, u, op, change, locksOut) ==
  /\ call[c].at = "idle" /\ Member(u) /\ AssignableRole(change.role)
  /\ ~(locksOut /\ ~LosesOwner(u, op, change))
  /\ call' = [call EXCEPT ![c] =
                [at |-> IF LosesOwner(u, op, change) THEN "count" ELSE "write",
                 op |-> op, on |-> u, change |-> change, locksOut |-> locksOut]]
  /\ UNCHANGED <<user, session, claims, grant, suspended, owners, raced>>

StartUpdate(c, by, u, change) ==
  /\ Admitted(by, TeamManagers)
  /\ Start(c, u, "update", change, u = by /\ change.isActive = "no")

StartRemove(c, by, u) ==
  /\ Admitted(by, TeamManagers) /\ u # by
  /\ Start(c, u, "remove", NoChange, FALSE)

(* OwnerKept: owners who cannot sign in are counted. *)
OtherOwnersInactive(u) == {v \in Users \ {u} : Member(v) /\ user[v].role = "OWNER"}

OtherOwners(u) == ActiveOwners \ {u}

AssertNotLastOwner(c) ==
  /\ call[c].at = "count"
  /\ IF OtherOwners(call[c].on) = {} \/ call[c].locksOut THEN Finish(c) ELSE Goto(c, "write")
  /\ UNCHANGED <<user, session, claims, grant, suspended, owners, raced>>

Changed(row, change) ==
  [row EXCEPT !.role = IF change.role = Keep THEN @ ELSE change.role,
              !.isActive = IF change.isActive = Keep THEN @ ELSE change.isActive = "yes"]

WriteUpdate(c) ==
  /\ call[c].at = "write" /\ call[c].op = "update"
  /\ WriteRow(call[c].on, Changed(user[call[c].on], call[c].change))
  /\ raced' = (raced \/ Overlaps(c))
  /\ Finish(c)
  /\ UNCHANGED <<claims, grant, suspended>>

WriteRemove(c) ==
  /\ call[c].at = "write" /\ call[c].op = "remove"
  /\ WriteRow(call[c].on, [user[call[c].on] EXCEPT !.isActive = FALSE, !.deleted = TRUE])
  /\ raced' = (raced \/ Overlaps(c))
  /\ Finish(c)
  /\ UNCHANGED <<claims, grant, suspended>>

-----------------------------------------------------------------------------
(* Sign-in.  Each reads the row, then issues a pair of tokens: the access  *)
(* token carries the role it read, the refresh token's hash goes to the    *)
(* row by id, whatever has become of the row.                              *)

Granting == UNION {{u} \X grant[u] : u \in Users}
MayGrant == Cardinality(Granting) < MaxGrants

Register(u) ==
  /\ MayGrant
  /\ \A v \in Users : ~Exists(v)
  /\ WriteRow(u, [role |-> "OWNER", isActive |-> TRUE, deleted |-> FALSE])
  /\ grant' = [grant EXCEPT ![u] = {"OWNER"}]
  /\ UNCHANGED <<claims, call, suspended, raced>>

Login(u) ==
  /\ MayGrant /\ MaySignIn(u)
  /\ grant' = [grant EXCEPT ![u] = @ \cup {user[u].role}]
  /\ UNCHANGED <<user, session, claims, call, suspended, owners, raced>>

(* AuthorityFades: a refresh does not ask whether the account is active.   *)
RefreshesInactive(u) ==
  /\ MayGrant /\ u \in session /\ Member(u)
  /\ grant' = [grant EXCEPT ![u] = @ \cup {user[u].role}]
  /\ UNCHANGED <<user, session, claims, call, suspended, owners, raced>>

RefreshTokens(u) ==
  /\ MayGrant /\ u \in session /\ MaySignIn(u)
  /\ grant' = [grant EXCEPT ![u] = @ \cup {user[u].role}]
  /\ UNCHANGED <<user, session, claims, call, suspended, owners, raced>>

IssueTokens(u, role) ==
  /\ role \in grant[u]
  /\ grant' = [grant EXCEPT ![u] = @ \ {role}]
  /\ claims' = [claims EXCEPT ![u] = @ \cup {role}]
  /\ session' = session \cup {u}
  /\ UNCHANGED <<user, call, suspended, owners, raced>>

(* The access token stays valid until it expires. *)
Logout(u) ==
  /\ Admitted(u, AnyRole)
  /\ session' = session \ {u}
  /\ UNCHANGED <<user, claims, grant, call, suspended, owners, raced>>

TokenExpires(u, role) ==
  /\ role \in claims[u]
  /\ claims' = [claims EXCEPT ![u] = @ \ {role}]
  /\ UNCHANGED <<user, session, grant, call, suspended, owners, raced>>

(* A platform administrator suspends or restores the tenant; nothing of    *)
(* the tenant's asks for it.                                               *)
SetTenantStatus(isActive) ==
  /\ \E u \in Users : Exists(u)
  /\ suspended' = ~isActive
  /\ UNCHANGED <<user, session, claims, grant, call, owners, raced>>

Manage(c) ==
  AssertNotLastOwner(c) \/ WriteUpdate(c) \/ WriteRemove(c)

Ask(c) ==
  \E by, u \in Users :
    StartRemove(c, by, u) \/ \E change \in Changes : StartUpdate(c, by, u, change)

Next ==
  \/ \E c \in Calls : Ask(c) \/ Manage(c)
  \/ \E by, u \in Users, role \in Roles \cup {"SUPER_ADMIN"} : CreateUser(by, u, role)
  \/ \E u \in Users : Register(u) \/ Login(u) \/ RefreshTokens(u) \/ Logout(u)
  \/ \E u \in Users, role \in Roles : IssueTokens(u, role) \/ TokenExpires(u, role)
  \/ \E isActive \in BOOLEAN : SetTenantStatus(isActive)

Spec == Init /\ [][Next]_vars

(* A sign-in that has read its row issues its tokens, and tokens expire.   *)
FairSpec ==
  Spec /\ \A u \in Users, role \in Roles :
            WF_vars(IssueTokens(u, role)) /\ WF_vars(TokenExpires(u, role))

-----------------------------------------------------------------------------
TypeOK ==
  /\ user \in [Users -> Row \cup {Absent}]
  /\ session \subseteq Users
  /\ claims \in [Users -> SUBSET Roles]
  /\ grant \in [Users -> SUBSET Roles]
  /\ call \in [Calls -> Call]
  /\ suspended \in BOOLEAN
  /\ owners \subseteq Users
  /\ raced \in BOOLEAN

Registered == \E u \in Users : Exists(u)

(* The tenant keeps an active owner as long as no two team-management      *)
(* requests overlap (users.service: update, remove, assertNotLastOwner).   *)
OwnerKept == Registered /\ ~raced => ActiveOwners # {}

(* The tenant never loses its last active owner (users.service.ts: "a      *)
(* tenant can never lose its last active OWNER").                          *)
LastOwner == Registered => ActiveOwners # {}

OwnersOnly == UserRoutes \cup AuditRoutes
                \cup {r \in OrderRoutes : r.r \in {"approve", "reject"}}
                \cup {r \in SettingsRoutes : r.r = "update"}

(* Decisions on drafts, the team, the audit trail and the settings open    *)
(* only to someone the tenant has had as an owner, the platform's routes   *)
(* to nobody of the tenant, the others only to someone who has a row; and  *)
(* an owner's token opens all but the platform's (RolesGuard on what       *)
(* register, create, update, login and refreshTokens write and sign).      *)
AuthorityWasHeld ==
  \A u \in Users, route \in Routes :
    /\ Admitted(u, route.roles) =>
         Exists(u) /\ route \notin AdminRoutes /\ (route \in OwnersOnly => u \in owners)
    /\ "OWNER" \in claims[u] /\ route \notin AdminRoutes => Admitted(u, route.roles)

(* Whoever is for good no longer entitled to a role, by removal,           *)
(* deactivation or a change of role, in the end holds no token with it     *)
(* (login, refreshTokens and the life of access tokens).                   *)
AuthorityFades ==
  \A u \in Users, role \in Roles :
    <>[](~MaySignIn(u) \/ user[u].role # role) => <>[](role \notin claims[u])

=============================================================================
