------------------------------- MODULE MCTeam -------------------------------
(* Values of Team's constants for TLC. *)
EXTENDS Team, TLC

(* One field at a time, every value it can take. *)
MCChanges == {[NoChange EXCEPT !.role = role] : role \in Roles \cup {"SUPER_ADMIN"}}
               \cup {[NoChange EXCEPT !.isActive = isActive] : isActive \in {"yes", "no"}}

(* The changes that can take an owner from the tenant, and give one.       *)
MCOwnerChanges == {[NoChange EXCEPT !.role = role] : role \in Roles}
                    \cup {[NoChange EXCEPT !.isActive = "no"]}

(* Users are interchangeable, and so are calls. *)
MCSymmetry == Permutations(Users) \cup Permutations(Calls)

=============================================================================
