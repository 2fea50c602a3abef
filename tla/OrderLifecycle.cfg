CONSTANTS
  Requests = {r1, r2, r3}
  d1 = d1
  d2 = d2
  c1 = c1
  p1 = p1
  Drafts = {d1, d2}
  Customers = {c1}
  CustomerOf <- MCCustomerOf
  Products = {p1}
  Lines = {1, 2}
  MaxQuantity = 2
  ItemLists <- MCItemLists
  InitialStock <- MCInitialStock
  MaxCrashes = 1
  AI = AI
  NoDraft = NoDraft
  NoProduct = NoProduct
SPECIFICATION Spec
SYMMETRY MCSymmetry
INVARIANTS TypeOK OneOrderPerDraft ApprovedDraftHasOrder StockAccounting StoreAgrees NumbersFollowCommits DecisionsAreRecorded
PROPERTIES OrdersAreFrozen ImplementsContract
CHECK_DEADLOCK FALSE
