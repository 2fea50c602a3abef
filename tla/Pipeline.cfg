CONSTANTS
  p1 = p1
  q1 = q1
  Messages = {m1, m2, m3}
  Products = {p1}
  Queries = {q1}
  Extractions <- MCExtractions
  Confidences = {100}
  Thresholds = {50}
  Providers <- MCProviders
  MaxAttempts = 2
  MaxCandidates = 1
  MaxEdits = 1
  NoProduct = NoProduct
  Invented = Invented
  NoQuery = NoQuery
  NoQuantity = NoQuantity
SPECIFICATION Spec
INVARIANTS TypeOK RepeatsAreFlagged FirstOrderIsReviewed
CONSTRAINT MCBound
SYMMETRY MCSymmetry
CHECK_DEADLOCK FALSE
