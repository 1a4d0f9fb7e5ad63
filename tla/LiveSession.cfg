SPECIFICATION PolledSpec
CONSTANTS
  h1 = h1
  h2 = h2
  ann = ann
  bob = bob
  Threads = {h1, h2}
  Buyers = {ann, bob}
  Prices = {0, 1, 2}
  MaxLot = 2
  MaxEvents = 5
  MaxRetries = 1
  Workloads <- AllRoutes
CHECK_DEADLOCK FALSE
INVARIANTS
  SessionTypeOK
  AnsweredWinnersQueued
  OneOpenTicketPerWinner
  SoldLotsHaveTicket
PROPERTIES
  TicketsKept
  ConfirmedLotClosed
  FeedIngests
