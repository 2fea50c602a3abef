CONSTANTS
  Drafts = {d1}
  Fetches = {f1, f2}
  MaxLetters = 1
  MaxFaults = 2
  NoDraft = NoDraft
SPECIFICATION Spec
INVARIANTS TypeOK PendingIsShown RowsTellTheTruth
SYMMETRY MCSymmetry
CHECK_DEADLOCK FALSE
