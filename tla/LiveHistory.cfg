SPECIFICATION HistorySpec
CONSTANTS
  NoOne = NoOne
  ann = ann
  bob = bob
  Buyers = {ann, bob}
  Prices = {1, 2}
  CarryWindow = 0
  SightWindow = 0
  RepeatWindow = 1
  LateWindow = 1
  Workloads <- Watched
INVARIANTS
  HistoryTypeOK
  WinnersTold
  WinnerPostedOnce
  HistoryFollowsSales
SYMMETRY AnyBuyers
