CONSTANTS
  Requests = {r1, r2}
  d1 = d1
  d2 = d2
  c1 = c1
  p1 = p1
  Drafts = {d1}
  Customers = {c1}
  CustomerOf <- MCCustomerOf
  Products = {p1}
  Lines = {1, 2}
  MaxQuantity = 2
  ItemLists <- MCUnmatchedLists
  InitialStock <- MCInitialStock
  MaxCrashes = 1
  AI = AI
  NoDraft = NoDraft
  NoProduct = NoProduct
SPECIFICATION FairSpec
PROPERTIES SyncSettles
CHECK_DEADLOCK FALSE
