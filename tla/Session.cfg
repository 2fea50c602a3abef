CONSTANTS
  Tabs = {t1, t2}
  Requests = {r1}
  Logout = Logout
  Calls = {c1, c2}
  Tokens <- MCTokens
  Other = Other
  None = None
  MaxExpiries = 1
  MaxFaults = 2
SPECIFICATION Spec
SYMMETRY MCSymmetry
INVARIANTS TypeOK StaysSignedIn StaysSignedOut QueueIsServed
CONSTRAINT MCBound
CHECK_DEADLOCK FALSE
