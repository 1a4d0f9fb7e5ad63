SPECIFICATION Spec
CONSTANTS
  a1 = a1
  a2 = a2
  p1 = p1
  p2 = p2
  h1 = h1
  h2 = h2
  Lots = {a1, a2}
  Products = {p1}
  Handlers = {h1, h2}
  Settings <- AloneAndCrossing
  MaxQty = 2
  MaxLines = 2
  MaxOrders = 1
  Opening <- StockAtOpening
CHECK_DEADLOCK FALSE
SYMMETRY Threads
INVARIANTS
  TypeOK
  LinesMatchStatus
  StockIsOutForAppliedLines
  LotSoldOnce
PROPERTY StockMovesWithLedger
