CONSTANTS
  Products = {p1, p2}
  Calls = {c1, c2}
  Offers <- MCOffers
  Stocks = {1, 2}
  BadRows = {}
  BatchSize = 1
  MaxSales = 1
  MaxFaults = 1
  NoProduct = NoProduct
  NoStock = NoStock
SPECIFICATION Spec
CONSTRAINT MCBound
SYMMETRY MCSymmetry
INVARIANTS TypeOK OneRowPerCombination MirrorAgrees BackfillFillsGaps 
CHECK_DEADLOCK FALSE
