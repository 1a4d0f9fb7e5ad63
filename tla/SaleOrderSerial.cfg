SPECIFICATION Spec
CONSTANTS
  o1 = o1
  o2 = o2
  o3 = o3
  p1 = p1
  p2 = p2
  h1 = h1
  h2 = h2
  NoProduct = NoProduct
  Orders = {o1}
  Lines = {1, 2}
  Products = {p1, p2}
  Handlers = {h1}
  Quantities = {1, 2}
  OrderSource <- Whatnot
  LiveReference = {}
  OrderChanges <- PayDraftOrCancel
  LineRoutes = {"add", "label", "delete"}
  Edits <- SomeEdits
  NewLineApplied = {FALSE, TRUE}
  InitialLines <- ALineAndAnId
  Failures = TRUE
  Opening <- StockAtOpening
INVARIANTS
  TypeOK
  OneMovementPerReference
  ReturnFollowsDeduction
  FirstSaleTakesItsQuantity
