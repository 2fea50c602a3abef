CONSTANTS
  Users = {u1, u2}
  Calls = {c1}
  Changes <- MCChanges
  MaxGrants = 2
  NoUser = NoUser
  Absent = Absent
SPECIFICATION FairSpec
INVARIANTS TypeOK OwnerKept AuthorityWasHeld
PROPERTIES AuthorityFades
CHECK_DEADLOCK FALSE
