SPECIFICATION WarehouseSpec
CONSTANTS
  p1 = p1
  p2 = p2
  h1 = h1
  h2 = h2
  Products = {p1, p2}
  Opening <- StockAtOpening
  Clerks = {h1, h2}
  SoldQty = {1, 2}
  Carts <- OneCart
  MaxInvoices = 3
  MaxLines = 4
  MaxSales = 4
  Buyers = {h1, h2}
  OrderedQty = {1, 2}
  NewStatuses = {"received", "cancelled"}
  Baskets <- TwoBaskets
  MaxPurchases = 2
  MaxOrderLines = 3
  NumLots = 2
  NumShopOrders = 2
  Contents <- LotsAndShop
  NoProduct = NoProduct
  Agents = {h1, h2}
  Postings <- ThreePostings
  Workloads <- SidesAloneAndTogether
CHECK_DEADLOCK FALSE
SYMMETRY Threads
INVARIANTS
  WarehouseTypeOK
  ApprovedLinesSoldOnce
  SoldUnitsLeftStock
  NoPhantomReceipt
  ReceivedOnce
  OneSalePerTikTokOrder
  TikTokStockTakenOnce
  EventsFollowed
PROPERTIES
  StockMovesWithLedger
  ReturnsGiveStockBack
