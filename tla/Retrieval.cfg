CONSTANTS
  p1 = p1
  p2 = p2
  Products = {p1, p2}
  Jobs = {j1, j2}
  Embedders = {"none", "jina"}
  MaxEdits = 2
  MaxAttempts = 2
  TopK = 1
  MaxAlternatives = 1
  Named <- MCNamed
  Similar <- MCSimilar
  NoVector = NoVector
  NoProduct = NoProduct
SPECIFICATION Spec
INVARIANTS TypeOK MatchIsFound VectorFollowsText
SYMMETRY MCSymmetry
CHECK_DEADLOCK FALSE
