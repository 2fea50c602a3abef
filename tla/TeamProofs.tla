----------------------------- MODULE TeamProofs -----------------------------
(***************************************************************************)
(* Theorems about Team, for any number of people, of team-management       *)
(* requests at once and of sign-ins at once.                               *)
(***************************************************************************)
EXTENDS Team, TLAPS

(* The type invariant without its call records. *)
RowsTyped ==
  /\ user \in [Users -> Row \cup {Absent}]
  /\ session \subseteq Users
  /\ claims \in [Users -> SUBSET Roles]
  /\ grant \in [Users -> SUBSET Roles]
  /\ suspended \in BOOLEAN
  /\ owners \subseteq Users
  /\ raced \in BOOLEAN

(* A request past its first read is about a row that is there, and asks    *)
(* for nothing it may not ask for.                                         *)
CallsKnow ==
  \A c \in Calls : call[c].at # "idle" =>
    /\ call[c].on \in Users /\ Exists(call[c].on)
    /\ call[c].change.role # "SUPER_ADMIN"
    /\ call[c].op \in {"update", "remove"}

(* Tokens, issued or about to be, are of people with a row; an owner's     *)
(* row or token makes its holder one who has been an owner.                *)
Held ==
  \A u \in Users :
    /\ Exists(u) /\ user[u].role = "OWNER" => u \in owners
    /\ claims[u] \cup grant[u] # {} => Exists(u)
    /\ "OWNER" \in claims[u] \cup grant[u] => u \in owners

(* What OwnerKept rests on: a write that is due takes no last owner, so    *)
(* long as nothing else wrote since its request counted.                   *)
WritesSafe ==
  \A c \in Calls : call[c].at = "write" =>
    \/ ~LosesOwner(call[c].on, call[c].op, call[c].change)
    \/ OtherOwners(call[c].on) # {}

Safe == ~raced => (Registered => ActiveOwners # {}) /\ WritesSafe

-----------------------------------------------------------------------------
(* A row that is not Absent is a Row. *)
LEMMA ExistingRow ==
  ASSUME TeamAssumption, RowsTyped, NEW u \in Users
  PROVE  Exists(u) <=> user[u] \in Row
BY DEF TeamAssumption, RowsTyped, Exists

(* A change that asks for no platform role makes a row of a row. *)
LEMMA ChangedRow ==
  ASSUME NEW row \in Row, NEW change \in Change, change.role # "SUPER_ADMIN"
  PROVE  /\ Changed(row, change) \in Row
         /\ Changed(row, change).deleted = row.deleted
         /\ Changed(row, change).role = IF change.role = Keep THEN row.role ELSE change.role
         /\ Changed(row, change).isActive =
              IF change.isActive = Keep THEN row.isActive ELSE change.isActive = "yes"
<1> DEFINE role == IF change.role = Keep THEN row.role ELSE change.role
<1> DEFINE active == IF change.isActive = Keep THEN row.isActive ELSE change.isActive = "yes"
<1>1. role \in Roles /\ active \in BOOLEAN
  BY DEF Row, Change, Roles, Keep
<1>2. Changed(row, change) = [role |-> role, isActive |-> active, deleted |-> row.deleted]
  <2>1. row = [role |-> row.role, isActive |-> row.isActive, deleted |-> row.deleted]
    BY DEF Row
  <2>2. Changed(row, change) = [[row EXCEPT !.role = role] EXCEPT !.isActive = active]
    BY <2>1 DEF Changed
  <2> HIDE DEF role, active
  <2>3. QED
    BY <2>1, <2>2
<1>3. row.deleted \in BOOLEAN
  BY DEF Row
<1> HIDE DEF role, active
<1>4. Changed(row, change) \in Row
  BY <1>1, <1>2, <1>3 DEF Row
<1>5. QED
  BY <1>2, <1>4 DEF role, active

(* Writing a row keeps the rows typed and forgets nobody. *)
LEMMA WriteKeepsRows ==
  ASSUME TeamAssumption, RowsTyped, NEW u \in Users, NEW row \in Row, WriteRow(u, row)
  PROVE  /\ user' \in [Users -> Row \cup {Absent}]
         /\ user'[u] = row
         /\ \A v \in Users \ {u} : user'[v] = user[v]
         /\ \A v \in Users : Exists(v) => Exists(v)'
         /\ Exists(u)'
         /\ session' \subseteq Users
         /\ owners' \subseteq Users /\ owners \subseteq owners'
         /\ row.role = "OWNER" => u \in owners'
BY DEF TeamAssumption, RowsTyped, WriteRow, Exists

(* Writing a row keeps Held when it leaves tokens to be issued alone, and  *)
(* calls know what they knew.                                              *)
LEMMA WriteKeepsHeld ==
  ASSUME TeamAssumption, RowsTyped, Held, NEW u \in Users, NEW row \in Row, WriteRow(u, row),
         UNCHANGED <<claims, grant>>
  PROVE  Held'
BY WriteKeepsRows DEF Held, Exists

(* The start of a request: it takes a record of its own. *)
LEMMA StartCall ==
  ASSUME call \in [Calls -> Call], NEW c \in Calls, NEW u \in Users, NEW op \in {"update", "remove"},
         NEW change \in Change, NEW locksOut \in BOOLEAN, Start(c, u, op, change, locksOut)
  PROVE  /\ call' \in [Calls -> Call]
         /\ call'[c].on = u /\ call'[c].op = op /\ call'[c].change = change
         /\ call'[c].at = IF LosesOwner(u, op, change) THEN "count" ELSE "write"
         /\ \A d \in Calls \ {c} : call'[d] = call[d]
         /\ Member(u) /\ change.role # "SUPER_ADMIN"
         /\ UNCHANGED <<user, session, claims, grant, suspended, owners, raced>>
<1> DEFINE new == [at |-> IF LosesOwner(u, op, change) THEN "count" ELSE "write",
                   op |-> op, on |-> u, change |-> change, locksOut |-> locksOut]
<1>1. new \in Call
  BY DEF Call
<1>2. call' = [call EXCEPT ![c] = new]
  BY DEF Start
<1>3. QED
  BY <1>1, <1>2 DEF Start, AssignableRole

(* A request that ends or moves on keeps its record typed. *)
LEMMA CallMoves ==
  ASSUME call \in [Calls -> Call], NEW c \in Calls, Finish(c) \/ Goto(c, "write")
  PROVE  /\ call' \in [Calls -> Call]
         /\ \A d \in Calls \ {c} : call'[d] = call[d]
         /\ Finish(c) => call'[c].at = "idle"
         /\ Goto(c, "write") => call'[c] = [call[c] EXCEPT !.at = "write"]
<1>1. Idle \in Call
  BY DEF Idle, Call, NoChange, Change, Keep
<1>2. [call[c] EXCEPT !.at = "write"] \in Call
  BY DEF Call
<1>3. CASE Finish(c)
  <2>1. call' = [call EXCEPT ![c] = Idle]
    BY <1>3 DEF Finish
  <2>2. call'[c] = Idle /\ call' \in [Calls -> Call]
    BY <1>1, <2>1
  <2>3. ~Goto(c, "write")
    BY <2>2 DEF Goto, Idle
  <2>4. QED
    BY <2>1, <2>2, <2>3 DEF Idle
<1>4. CASE Goto(c, "write")
  <2>1. call' = [call EXCEPT ![c] = [call[c] EXCEPT !.at = "write"]]
    BY <1>4 DEF Goto
  <2>2. call'[c] = [call[c] EXCEPT !.at = "write"] /\ call' \in [Calls -> Call]
    BY <1>2, <2>1
  <2>3. call'[c].at = "write"
    BY <2>2 DEF Call
  <2>4. ~Finish(c)
    BY <2>3 DEF Finish, Idle
  <2>5. QED
    BY <2>1, <2>2, <2>4
<1>5. QED
  BY <1>3, <1>4

-----------------------------------------------------------------------------
(* The inductive invariant. *)
IInv == RowsTyped /\ call \in [Calls -> Call] /\ CallsKnow /\ Held /\ Safe

(* It holds at first. *)
LEMMA IInvInit ==
  ASSUME TeamAssumption, Init
  PROVE  IInv
<1>1. RowsTyped
  BY DEF Init, RowsTyped
<1>2. call \in [Calls -> Call] /\ CallsKnow
  BY DEF Init, Idle, Call, NoChange, Change, Keep, CallsKnow
<1>3. Held
  BY DEF Init, Held, Exists
<1>4. Safe
  BY DEF Init, Safe, Registered, Exists, WritesSafe, Idle
<1>5. QED
  BY <1>1, <1>2, <1>3, <1>4 DEF IInv

(* A step that changes no row and no call keeps Safe. *)
LEMMA SameTeamIsSafe ==
  ASSUME Safe, CallsKnow, UNCHANGED <<user, call, raced>>
  PROVE  Safe' /\ CallsKnow'
BY DEF Safe, CallsKnow, Registered, ActiveOwners, WritesSafe, LosesOwner, OtherOwners, MaySignIn,
       Member, Exists

(* What a request writes leaves an active owner, when it lost none or      *)
(* another was there.                                                      *)
LEMMA WriteLeavesOwner ==
  ASSUME TeamAssumption, RowsTyped, NEW u \in Users, NEW row \in Row, WriteRow(u, row),
         ActiveOwners # {},
         \/ OtherOwners(u) # {}
         \/ user[u].role = "OWNER" /\ MaySignIn(u) =>
              row.role = "OWNER" /\ row.isActive /\ ~row.deleted
  PROVE  (ActiveOwners # {})'
<1>1. \A v \in Users \ {u} : user'[v] = user[v]
  BY WriteKeepsRows
<1>2. user'[u] = row /\ Exists(u)'
  BY WriteKeepsRows
<1>3. PICK v \in ActiveOwners : OtherOwners(u) # {} => v # u
  BY DEF OtherOwners
<1>4. CASE v # u
  BY <1>1, <1>4 DEF ActiveOwners, MaySignIn, Member, Exists
<1>5. CASE v = u
  BY <1>2, <1>3, <1>5 DEF ActiveOwners, MaySignIn, Member
<1>6. QED
  BY <1>4, <1>5

(* Every step keeps the invariant. *)
LEMMA IInvStep ==
  ASSUME TeamAssumption, IInv, [Next]_vars
  PROVE  IInv'
<1>t. RowsTyped /\ call \in [Calls -> Call] /\ CallsKnow /\ Held /\ Safe
  BY DEF IInv
<1>1. ASSUME NEW c \in Calls, NEW u \in Users, NEW op \in {"update", "remove"},
             NEW change \in Change, NEW locksOut \in BOOLEAN, Start(c, u, op, change, locksOut)
      PROVE  IInv'
  <2>1. /\ call' \in [Calls -> Call]
        /\ call'[c].on = u /\ call'[c].op = op /\ call'[c].change = change
        /\ call'[c].at = IF LosesOwner(u, op, change) THEN "count" ELSE "write"
        /\ \A d \in Calls \ {c} : call'[d] = call[d]
        /\ Member(u) /\ change.role # "SUPER_ADMIN"
        /\ UNCHANGED <<user, session, claims, grant, suspended, owners, raced>>
    BY <1>t, <1>1, StartCall
  <2>2. RowsTyped' /\ Held'
    BY <1>t, <2>1 DEF RowsTyped, Held, Exists
  <2>3. CallsKnow'
    BY <1>t, <2>1 DEF CallsKnow, Exists, Member
  <2>4. Safe'
    BY <1>t, <2>1
       DEF Safe, Registered, ActiveOwners, WritesSafe, LosesOwner, OtherOwners, MaySignIn, Member,
           Exists
  <2>5. QED
    BY <2>1, <2>2, <2>3, <2>4 DEF IInv
<1>2. ASSUME NEW c \in Calls, Ask(c) PROVE IInv'
  <2>1. NoChange \in Change /\ Changes \subseteq Change
    BY DEF NoChange, Change, Keep, TeamAssumption
  <2>2. QED
    BY <1>1, <1>2, <2>1 DEF Ask, StartUpdate, StartRemove
<1>3. ASSUME NEW c \in Calls, AssertNotLastOwner(c) PROVE IInv'
  <2>1. UNCHANGED <<user, session, claims, grant, suspended, owners, raced>> /\ call[c].at = "count"
    BY <1>3 DEF AssertNotLastOwner
  <2>2. RowsTyped' /\ Held'
    BY <1>t, <2>1 DEF RowsTyped, Held, Exists
  <2>3. CASE Finish(c)
    <3>1. call' \in [Calls -> Call] /\ call'[c].at = "idle" /\ \A d \in Calls \ {c} : call'[d] = call[d]
      BY <1>t, <2>3, CallMoves
    <3>2. CallsKnow'
      BY <1>t, <2>1, <3>1 DEF CallsKnow, Exists
    <3>3. Safe'
      BY <1>t, <2>1, <3>1
         DEF Safe, Registered, ActiveOwners, WritesSafe, LosesOwner, OtherOwners, MaySignIn, Member,
             Exists
    <3>4. QED
      BY <2>2, <3>1, <3>2, <3>3 DEF IInv
  <2>4. CASE Goto(c, "write") /\ OtherOwners(call[c].on) # {}
    <3>a. /\ call' \in [Calls -> Call] /\ call'[c] = [call[c] EXCEPT !.at = "write"]
          /\ \A d \in Calls \ {c} : call'[d] = call[d]
      BY <1>t, <2>4, CallMoves
    <3>b. call[c] \in Call
      BY <1>t
    <3>1. /\ call' \in [Calls -> Call] /\ call'[c].on = call[c].on
          /\ call'[c].op = call[c].op /\ call'[c].change = call[c].change
          /\ \A d \in Calls \ {c} : call'[d] = call[d]
      BY <3>a, <3>b DEF Call
    <3>2. CallsKnow'
      BY <1>t, <2>1, <3>1 DEF CallsKnow, Exists
    <3>3. Safe'
      BY <1>t, <2>1, <2>4, <3>1
         DEF Safe, Registered, ActiveOwners, WritesSafe, LosesOwner, OtherOwners, MaySignIn, Member,
             Exists
    <3>4. QED
      BY <2>2, <3>1, <3>2, <3>3 DEF IInv
  <2>5. QED
    BY <1>3, <2>3, <2>4 DEF AssertNotLastOwner
<1>4. ASSUME NEW c \in Calls, NEW row \in Row, call[c].at = "write", WriteRow(call[c].on, row),
             (row.role = "OWNER" /\ row.isActive /\ ~row.deleted)
               \/ LosesOwner(call[c].on, call[c].op, call[c].change)
               \/ user[call[c].on].role # "OWNER" \/ ~MaySignIn(call[c].on),
             raced' = (raced \/ Overlaps(c)), Finish(c), UNCHANGED <<claims, grant, suspended>>
      PROVE  IInv'
  <2> DEFINE u == call[c].on
  <2>1. u \in Users /\ Exists(u)
    BY <1>t, <1>4 DEF CallsKnow
  <2> HIDE DEF u
  <2>2. WriteRow(u, row)
    BY <1>4 DEF u
  <2>3. RowsTyped'
    BY <1>t, <1>4, <2>1, <2>2, WriteKeepsRows DEF RowsTyped
  <2>4. Held'
    BY <1>t, <1>4, <2>1, <2>2, WriteKeepsHeld
  <2>5. call' \in [Calls -> Call] /\ call'[c].at = "idle" /\ \A d \in Calls \ {c} : call'[d] = call[d]
    BY <1>t, <1>4, CallMoves
  <2>6. CallsKnow'
    <3>1. \A v \in Users : Exists(v) => Exists(v)'
      BY <1>t, <2>1, <2>2, WriteKeepsRows
    <3>2. QED
      BY <1>t, <2>5, <3>1 DEF CallsKnow
  <2>7. ASSUME ~raced' PROVE (Registered' => (ActiveOwners # {})') /\ WritesSafe'
    <3>1. ~raced /\ \A d \in Calls \ {c} : call[d].at \notin {"count", "write"}
      BY <1>4, <2>7 DEF Overlaps
    <3>2. WritesSafe'
      BY <2>5, <3>1 DEF WritesSafe
    <3>3. ActiveOwners # {}
      BY <1>t, <2>1, <3>1 DEF Safe, Registered
    <3>4. \/ OtherOwners(u) # {}
          \/ user[u].role = "OWNER" /\ MaySignIn(u) =>
               row.role = "OWNER" /\ row.isActive /\ ~row.deleted
      BY <1>t, <1>4, <3>1 DEF Safe, WritesSafe, u
    <3>5. (ActiveOwners # {})'
      BY <1>t, <2>1, <2>2, <3>3, <3>4, WriteLeavesOwner
    <3>6. QED
      BY <3>2, <3>5
  <2>8. QED
    BY <2>3, <2>4, <2>5, <2>6, <2>7 DEF IInv, Safe
<1>5. ASSUME NEW c \in Calls, WriteUpdate(c) PROVE IInv'
  <2> DEFINE u == call[c].on
             change == call[c].change
             row == Changed(user[u], change)
  <2>1. /\ call[c].at = "write" /\ call[c].op = "update" /\ WriteRow(u, row)
        /\ raced' = (raced \/ Overlaps(c)) /\ Finish(c) /\ UNCHANGED <<claims, grant, suspended>>
    BY <1>5 DEF WriteUpdate
  <2>2. u \in Users /\ Exists(u) /\ change \in Change /\ change.role # "SUPER_ADMIN"
    BY <1>t, <2>1 DEF CallsKnow, Call
  <2>3. user[u] \in Row
    BY <1>t, <2>2, ExistingRow
  <2>4. /\ row \in Row /\ row.deleted = user[u].deleted
        /\ row.role = IF change.role = Keep THEN user[u].role ELSE change.role
        /\ row.isActive = IF change.isActive = Keep THEN user[u].isActive ELSE change.isActive = "yes"
    BY <2>2, <2>3, ChangedRow
  <2>5. \/ (row.role = "OWNER" /\ row.isActive /\ ~row.deleted)
        \/ LosesOwner(u, call[c].op, change) \/ user[u].role # "OWNER" \/ ~MaySignIn(u)
    <3> HIDE DEF row, u, change
    <3> QED
      BY <2>2, <2>4 DEF LosesOwner, MaySignIn, Member, Change
  <2>6. QED
    BY <1>4, <2>1, <2>4, <2>5
<1>6. ASSUME NEW c \in Calls, WriteRemove(c) PROVE IInv'
  <2> DEFINE u == call[c].on
             row == [user[u] EXCEPT !.isActive = FALSE, !.deleted = TRUE]
  <2>1. /\ call[c].at = "write" /\ call[c].op = "remove" /\ WriteRow(u, row)
        /\ raced' = (raced \/ Overlaps(c)) /\ Finish(c) /\ UNCHANGED <<claims, grant, suspended>>
    BY <1>6 DEF WriteRemove
  <2>2. u \in Users /\ Exists(u)
    BY <1>t, <2>1 DEF CallsKnow
  <2>3. user[u] \in Row
    BY <1>t, <2>2, ExistingRow
  <2>4. row \in Row
    BY <2>3 DEF Row
  <2>5. LosesOwner(u, call[c].op, call[c].change) \/ user[u].role # "OWNER"
    BY <2>1 DEF LosesOwner
  <2>6. QED
    BY <1>4, <2>1, <2>4, <2>5
<1>7. ASSUME NEW by \in Users, NEW u \in Users, NEW role \in Roles \cup {"SUPER_ADMIN"},
             CreateUser(by, u, role)
      PROVE  IInv'
  <2> DEFINE row == [role |-> role, isActive |-> TRUE, deleted |-> FALSE]
  <2>1. row \in Row /\ WriteRow(u, row) /\ ~Exists(u)
        /\ UNCHANGED <<claims, grant, call, suspended, raced>>
    BY <1>7 DEF CreateUser, AssignableRole, Row, Roles
  <2>2. Exists(by)
    BY <1>t, <1>7 DEF CreateUser, Admitted, Held
  <2> HIDE DEF row
  <2>3. RowsTyped' /\ Held'
    BY <1>t, <2>1, WriteKeepsRows, WriteKeepsHeld DEF RowsTyped
  <2>4. \A v \in Users : Exists(v) => Exists(v)' /\ user'[v] = user[v]
    BY <1>t, <2>1, WriteKeepsRows
  <2>5. CallsKnow'
    BY <1>t, <2>1, <2>4 DEF CallsKnow
  <2>6. ActiveOwners \subseteq ActiveOwners'
    BY <2>4 DEF ActiveOwners, MaySignIn, Member, Exists
  <2>7. WritesSafe => WritesSafe'
    <3>1. ASSUME WritesSafe, NEW c \in Calls, call[c].at = "write"
          PROVE  \/ ~LosesOwner(call[c].on, call[c].op, call[c].change)'
                 \/ (OtherOwners(call[c].on) # {})'
      <4>1. call[c].on \in Users /\ Exists(call[c].on)
        BY <1>t, <3>1 DEF CallsKnow
      <4>2. user'[call[c].on] = user[call[c].on]
        BY <2>4, <4>1
      <4>3. OtherOwners(call[c].on) \subseteq OtherOwners(call[c].on)'
        BY <2>1, <2>6 DEF OtherOwners
      <4>4. QED
        BY <2>1, <3>1, <4>2, <4>3 DEF WritesSafe, LosesOwner
    <3>2. QED
      BY <2>1, <3>1 DEF WritesSafe
  <2>8. Safe'
    BY <1>t, <2>1, <2>2, <2>6, <2>7 DEF Safe, Registered
  <2>9. QED
    BY <1>t, <2>1, <2>3, <2>5, <2>8 DEF IInv
<1>8. ASSUME NEW u \in Users, Register(u) PROVE IInv'
  <2> DEFINE row == [role |-> "OWNER", isActive |-> TRUE, deleted |-> FALSE]
  <2>1. row \in Row /\ WriteRow(u, row) /\ grant' = [grant EXCEPT ![u] = {"OWNER"}]
        /\ UNCHANGED <<claims, call, suspended, raced>> /\ \A v \in Users : ~Exists(v)
    BY <1>8 DEF Register, Row, Roles
  <2>2. user'[u] = row /\ Exists(u)' /\ u \in owners' /\ \A v \in Users \ {u} : user'[v] = user[v]
    BY <1>t, <2>1, WriteKeepsRows
  <2>3. RowsTyped'
    BY <1>t, <2>1, WriteKeepsRows DEF RowsTyped, Roles
  <2>4. Held'
    BY <1>t, <2>1, <2>2 DEF Held, Exists, RowsTyped
  <2>5. \A c \in Calls : call[c].at = "idle"
    BY <1>t, <2>1 DEF CallsKnow
  <2>6. CallsKnow' /\ WritesSafe'
    BY <2>1, <2>5 DEF CallsKnow, WritesSafe
  <2>7. u \in ActiveOwners'
    BY <2>2 DEF ActiveOwners, MaySignIn, Member
  <2>8. QED
    BY <1>t, <2>1, <2>3, <2>4, <2>6, <2>7 DEF IInv, Safe
<1>9. ASSUME NEW u \in Users, Login(u) \/ RefreshTokens(u) PROVE IInv'
  <2>1. /\ MaySignIn(u) /\ grant' = [grant EXCEPT ![u] = @ \cup {user[u].role}]
        /\ UNCHANGED <<user, session, claims, call, suspended, owners, raced>>
    BY <1>9 DEF Login, RefreshTokens
  <2>2. user[u] \in Row /\ user[u].role \in Roles
    BY <1>t, <2>1, ExistingRow DEF MaySignIn, Member, Row
  <2>3. RowsTyped'
    BY <1>t, <2>1, <2>2 DEF RowsTyped
  <2>4. Held'
    BY <1>t, <2>1 DEF Held, Exists, RowsTyped, MaySignIn, Member
  <2>5. QED
    BY <1>t, <2>1, <2>3, <2>4, SameTeamIsSafe DEF IInv
<1>10. ASSUME NEW u \in Users, NEW role \in Roles, IssueTokens(u, role) \/ TokenExpires(u, role)
       PROVE  IInv'
  <2>1. RowsTyped'
    BY <1>t, <1>10 DEF RowsTyped, IssueTokens, TokenExpires
  <2>2. Held'
    BY <1>t, <1>10 DEF Held, Exists, RowsTyped, IssueTokens, TokenExpires
  <2>3. UNCHANGED <<user, call, raced>>
    BY <1>10 DEF IssueTokens, TokenExpires
  <2>4. QED
    BY <1>t, <2>1, <2>2, <2>3, SameTeamIsSafe DEF IInv
<1>11. CASE UNCHANGED <<user, claims, grant, call, owners, raced>> /\ session' \subseteq Users
            /\ suspended' \in BOOLEAN
  <2>1. RowsTyped' /\ Held'
    BY <1>t, <1>11 DEF RowsTyped, Held, Exists
  <2>2. QED
    BY <1>t, <1>11, <2>1, SameTeamIsSafe DEF IInv
<1>12. ASSUME NEW u \in Users, Logout(u) PROVE IInv'
  BY <1>t, <1>11, <1>12 DEF Logout, RowsTyped
<1>13. ASSUME NEW isActive \in BOOLEAN, SetTenantStatus(isActive) PROVE IInv'
  BY <1>t, <1>11, <1>13 DEF SetTenantStatus, RowsTyped
<1>14. CASE UNCHANGED vars
  BY <1>t, <1>11, <1>14 DEF vars, RowsTyped
<1>15. QED
  BY <1>2, <1>3, <1>5, <1>6, <1>7, <1>8, <1>9, <1>10, <1>12, <1>13, <1>14 DEF Next, Manage

(* So it always holds. *)
LEMMA Inductive == Spec => []IInv
<1>1. Init => IInv
  BY IInvInit, TeamAssumption
<1>2. IInv /\ [Next]_vars => IInv'
  BY IInvStep, TeamAssumption
<1>3. QED
  BY <1>1, <1>2, PTL DEF Spec

-----------------------------------------------------------------------------
(* A table of open routes asks for no role, a table of guarded ones for    *)
(* the roles it names.                                                     *)
LEMMA RouteTables ==
  ASSUME NEW area, NEW routes, NEW roles
  PROVE  /\ \A route \in Reads(area, routes) : route.roles = AnyRole /\ route.r \in routes
         /\ \A route \in Takes(area, routes, roles) : route.roles = roles /\ route.r \in routes
BY DEF Reads, Takes

(* The platform's routes ask for its role, the owners' for theirs, and all *)
(* but the platform's open to an owner.                                    *)
LEMMA RolesOfRoutes ==
  /\ \A route \in AdminRoutes : route.roles = {"SUPER_ADMIN"}
  /\ \A route \in OwnersOnly : route.roles \in {{"OWNER"}, {"OWNER", "SUPER_ADMIN"}}
  /\ \A route \in Routes \ AdminRoutes : route.roles = AnyRole \/ "OWNER" \in route.roles
<1>1. \A route \in AdminRoutes : route.roles = {"SUPER_ADMIN"}
  BY RouteTables DEF AdminRoutes
<1>2. \A route \in UserRoutes \cup AuditRoutes : route.roles = {"OWNER"}
  BY RouteTables DEF UserRoutes, AuditRoutes, TeamManagers
<1>3. ASSUME NEW route \in OrderRoutes
      PROVE  /\ route.r \in {"approve", "reject"} => route.roles = {"OWNER"}
             /\ route.roles = AnyRole \/ "OWNER" \in route.roles
  <2>1. CASE route \in Reads("orders", {"events", "stats", "recent-activity", "analytics",
                                        "drafts", "draft", "list"})
    <3>1. /\ route.roles = AnyRole
          /\ route.r \in {"events", "stats", "recent-activity", "analytics", "drafts", "draft", "list"}
      BY <2>1, RouteTables
    <3>2. QED
      BY <3>1
  <2>2. CASE route \in Takes("orders", {"approve", "reject"}, {"OWNER"})
    BY <2>2, RouteTables
  <2>3. CASE route \in Takes("orders", {"correct"}, OwnerOrStaff)
    BY <2>3, RouteTables DEF OwnerOrStaff
  <2>4. QED
    BY <1>3, <2>1, <2>2, <2>3 DEF OrderRoutes
<1>4. ASSUME NEW route \in SettingsRoutes
      PROVE  /\ route.r = "update" => route.roles = {"OWNER", "SUPER_ADMIN"}
             /\ "OWNER" \in route.roles
  BY <1>4, RouteTables DEF SettingsRoutes
<1>5. ASSUME NEW route \in ProductRoutes \cup VariantRoutes
      PROVE  route.roles = AnyRole \/ "OWNER" \in route.roles
  <2>1. CASE route \in Reads("products", {"list", "get"}) \cup Reads("variants", {"list"})
    <3>1. PICK area, routes : route \in Reads(area, routes)
      BY <2>1
    <3>2. QED
      BY <3>1, RouteTables
  <2>2. CASE route \in Takes("products", {"create", "update", "delete"}, OwnerOrStaff)
                 \cup Takes("variants", {"create", "update", "delete"}, OwnerOrStaff)
    <3>1. route.roles = OwnerOrStaff
      BY <2>2, RouteTables
    <3>2. QED
      BY <3>1 DEF OwnerOrStaff
  <2>3. QED
    BY <1>5, <2>1, <2>2 DEF ProductRoutes, VariantRoutes
<1>6. ASSUME NEW route \in CustomerRoutes \cup NotificationRoutes \cup SimulatorRoutes \cup SessionRoutes
      PROVE  route.roles = AnyRole
  <2>1. PICK area, routes : route \in Reads(area, routes)
    BY <1>6 DEF CustomerRoutes, NotificationRoutes, SimulatorRoutes, SessionRoutes
  <2>2. QED
    BY <2>1, RouteTables
<1>7. ASSUME NEW route \in MetricsRoutes \cup SyncRoutes PROVE "OWNER" \in route.roles
  BY <1>7, RouteTables DEF MetricsRoutes, SyncRoutes
<1>8. \A route \in OwnersOnly : route.roles \in {{"OWNER"}, {"OWNER", "SUPER_ADMIN"}}
  BY <1>2, <1>3, <1>4 DEF OwnersOnly
<1>9. \A route \in Routes \ AdminRoutes : route.roles = AnyRole \/ "OWNER" \in route.roles
  BY <1>2, <1>3, <1>4, <1>5, <1>6, <1>7 DEF Routes
<1>10. QED
  BY <1>1, <1>8, <1>9

-----------------------------------------------------------------------------
(* The rows, the tokens and the requests hold what they can: no request    *)
(* gives a member the platform's role or changes a row that is not there   *)
(* (users.service, auth.service).                                          *)
THEOREM TypeCorrect == Spec => []TypeOK
<1>1. IInv => TypeOK
  BY DEF IInv, RowsTyped, TypeOK
<1>2. QED
  BY <1>1, Inductive, PTL

(* The tenant keeps an active owner as long as no two team-management      *)
(* requests overlap (users.service: update, remove, assertNotLastOwner).   *)
THEOREM OwnerStays == Spec => []OwnerKept
<1>1. IInv => OwnerKept
  BY DEF IInv, Safe, OwnerKept
<1>2. QED
  BY <1>1, Inductive, PTL

(* No route opens to someone the tenant never gave the role it asks for,   *)
(* and an owner's token opens every route but the platform's (RolesGuard   *)
(* on the tokens that register, login and refreshTokens sign).             *)
THEOREM AuthorityHeld == Spec => []AuthorityWasHeld
<1>1. ASSUME IInv PROVE AuthorityWasHeld
  <2>1. ASSUME NEW u \in Users, NEW route \in Routes, Admitted(u, route.roles)
        PROVE  Exists(u) /\ route \notin AdminRoutes /\ (route \in OwnersOnly => u \in owners)
    <3>1. PICK role \in claims[u] : CanActivate(route.roles, role)
      BY <2>1 DEF Admitted
    <3>2. role \in {"OWNER", "STAFF"}
      BY <1>1, <3>1 DEF IInv, RowsTyped, Roles
    <3>3. Exists(u)
      BY <1>1, <3>1 DEF IInv, Held
    <3>4. route \notin AdminRoutes
      BY <3>1, <3>2, RolesOfRoutes DEF CanActivate, AnyRole
    <3>5. route \in OwnersOnly => u \in owners
      <4>1. ASSUME route \in OwnersOnly PROVE role = "OWNER"
        BY <3>1, <3>2, <4>1, RolesOfRoutes DEF CanActivate, AnyRole
      <4>2. QED
        BY <1>1, <3>1, <4>1 DEF IInv, Held
    <3>6. QED
      BY <3>3, <3>4, <3>5
  <2>2. ASSUME NEW u \in Users, NEW route \in Routes \ AdminRoutes, "OWNER" \in claims[u]
        PROVE  Admitted(u, route.roles)
    BY <2>2, RolesOfRoutes DEF Admitted, CanActivate
  <2>3. QED
    BY <2>1, <2>2 DEF AuthorityWasHeld
<1>2. QED
  BY <1>1, Inductive, PTL
=============================================================================
