SPECIFICATION FairSpec
CONSTANTS
  o1 = o1
  o2 = o2
  o3 = o3
  p1 = p1
  p2 = p2
  h1 = h1
  h2 = h2
  NoProduct = NoProduct
  Orders = {o1, o2, o3}
  Lines = {1, 2, 3, 4, 5}
  Products = {p1, p2}
  Handlers = {h1, h2}
  Quantities = {1}
  OrderSource <- OneLive
  LiveReference = {o2}
  OrderChanges <- CancelThird
  LineRoutes = {}
  Edits <- SaveFifth
  NewLineApplied = {FALSE, TRUE}
  InitialLines <- CrossedOrEdited
  Failures = TRUE
  Opening <- StockAtOpening
INVARIANT AppliedHasDeduction
PROPERTIES
  StockMovesWithLedger
  RequestsAnswered
