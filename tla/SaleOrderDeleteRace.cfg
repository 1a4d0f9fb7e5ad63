SPECIFICATION Spec
CONSTANTS
  o1 = o1
  o2 = o2
  o3 = o3
  p1 = p1
  p2 = p2
  h1 = h1
  h2 = h2
  NoProduct = NoProduct
  Orders = {o1}
  Lines = {1}
  Products = {p1}
  Handlers = {h1, h2}
  Quantities = {1}
  OrderSource <- Whatnot
  LiveReference = {}
  OrderChanges <- PayOrCancel
  LineRoutes = {"delete"}
  Edits = {}
  NewLineApplied = {FALSE}
  InitialLines <- OneLine
  Failures = FALSE
  Opening <- StockAtOpening
INVARIANT AppliedLineNotDeleted
