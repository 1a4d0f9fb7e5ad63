----------------------------- MODULE Warehouse -----------------------------
(***************************************************************************)
(* Counter sales, purchases and TikTok's orders over one stock: their      *)
(* handlers run at the same time and share nothing but the products'       *)
(* quantities and the movements.                                           *)
(***************************************************************************)
EXTENDS InHouseOrders, PurchaseOrders, TikTokOrders

CONSTANT Workloads   \* how many requests each side gets, and on which threads

Workload ==
  [clerks : SUBSET Clerks, sales : Nat, buyers : SUBSET Buyers, purchases : Nat,
   agents : SUBSET Agents, imports : Nat, orders : SUBSET TikTokOrders,
   posting : Postings]

ASSUME WorkloadsType == Workloads \subseteq Workload

VARIABLES
  workload,   \* what is left of the requests
  crossed     \* the sides on which two requests on one order overlapped

warehouseVars ==
  <<posVars, purchaseVars, tiktokVars, onHand, movements, workload, crossed>>

(***************************************************************************)
(* Whether requests on one order have overlapped is kept as history: no    *)
(* step depends on it.                                                     *)
(***************************************************************************)
Overlaps ==
  {side \in {"sales", "purchases", "tiktok"} :
     \/ side = "sales" /\ PosCrossed
     \/ side = "purchases" /\ PurchaseCrossed
     \/ side = "tiktok" /\ TikTokCrossed}

WarehouseInit ==
  /\ PosInit /\ PurchaseInit /\ StockInit
  /\ TikTokInit /\ LiveInit /\ ShopInit
  /\ workload \in {w \in Workloads : w.posting = posting}
  /\ crossed = {}

SellStep ==
  /\ \E h \in workload.clerks :
       \/ /\ workload.sales > 0
          /\ PosArrival(h)
          /\ workload' = [workload EXCEPT !.sales = @ - 1]
       \/ PosWork(h) /\ UNCHANGED workload
  /\ UNCHANGED <<purchaseVars, tiktokVars>>

BuyStep ==
  /\ \E b \in workload.buyers :
       \/ /\ workload.purchases > 0
          /\ PurchaseArrival(b)
          /\ workload' = [workload EXCEPT !.purchases = @ - 1]
       \/ PurchaseWork(b) /\ UNCHANGED workload
  /\ UNCHANGED <<posVars, tiktokVars>>

TikTokStep ==
  /\ \/ TikTokActs(workload.orders) /\ UNCHANGED workload
     \/ \E h \in workload.agents :
          \/ /\ workload.imports > 0
             /\ \/ workload.orders \cap LotOrders # {} /\ LiveArrival(h)
                \/ workload.orders \cap ShopOrders # {} /\ ShopArrival(h)
             /\ workload' = [workload EXCEPT !.imports = @ - 1]
          \/ AgentWork(h) /\ UNCHANGED workload
  /\ UNCHANGED <<posVars, purchaseVars>>

WarehouseNext ==
  /\ SellStep \/ BuyStep \/ TikTokStep
  /\ crossed' = crossed \cup Overlaps'

WarehouseSpec == WarehouseInit /\ [][WarehouseNext]_warehouseVars

-----------------------------------------------------------------------------
(* Properties *)

(***************************************************************************)
(* Type correctness of the whole.                                          *)
(***************************************************************************)
WarehouseTypeOK ==
  /\ StockType /\ PosTypeOK /\ PurchaseTypeOK /\ TikTokTypeOK
  /\ workload \in Workload /\ crossed \subseteq {"sales", "purchases", "tiktok"}

(***************************************************************************)
(* The stock changes only together with the movement rows that explain it, *)
(* whatever approvals, edits, receipts and failures interleave: the        *)
(* transactions implement the ledger.                                      *)
(***************************************************************************)
StockMovesWithLedger == Ledger!LedgerSpec

(***************************************************************************)
(* Unless two requests on one invoice overlapped: each line of an approved *)
(* invoice has exactly one sale, and no other line has any, through every  *)
(* history of approvals, edits, splits and merges                          *)
(* (approve_in_house_order, update_, split_ and merge_in_house_orders).    *)
(***************************************************************************)
ApprovedLinesSoldOnce == "sales" \notin crossed => LinesAreSoldOnce

(***************************************************************************)
(* Unless two requests on one invoice overlapped: the units the sales      *)
(* count are the units that left the stock; a split adds a sale and no     *)
(* movement, an edit of an approved invoice moves the difference.          *)
(***************************************************************************)
SoldUnitsLeftStock == "sales" \notin crossed => SalesTookStock

(***************************************************************************)
(* Even if receipts, updates and deletions of one purchase order overlap,  *)
(* no line says it received what did not arrive (receive_purchase_order    *)
(* writes the row and the movement in one transaction).                    *)
(***************************************************************************)
NoPhantomReceipt == ReceivedIsInStock

(***************************************************************************)
(* Unless two requests on one purchase order overlapped: lines, movements  *)
(* and the status of the order agree on what was received, and nothing is  *)
(* received twice or beyond the order.                                     *)
(***************************************************************************)
ReceivedOnce == "purchases" \notin crossed => ReceiptsAgree

(***************************************************************************)
(* Unless two requests on one TikTok order overlapped: it has one sale     *)
(* order, however often the live page imports it, the shop is synchronised *)
(* and events are posted again, and wherever an import failed.             *)
(***************************************************************************)
OneSalePerTikTokOrder == "tiktok" \notin crossed => OneSalePerReference

(***************************************************************************)
(* Unless two requests on one TikTok order overlapped, or a correction     *)
(* parted a lot's product and its stock: an order's stock is out once for  *)
(* each applied line, a unit of a product comes back once and only of what *)
(* is out, and none is taken again when late events, imports or returns    *)
(* bring the order back.                                                   *)
(***************************************************************************)
TikTokStockTakenOnce == "tiktok" \notin crossed => StockTakenOnce

(***************************************************************************)
(* Unless two requests on one TikTok order overlapped, and if events have  *)
(* ids of their own: at rest, a shop order whose events were taken up in   *)
(* time is in the state TikTok last posted (handle_tiktok_webhook tells    *)
(* repeated events from new ones).                                         *)
(***************************************************************************)
EventsFollowed ==
  "tiktok" \notin crossed /\ posting.named => SalesFollowTikTok

(***************************************************************************)
(* Unless two requests on one TikTok order overlapped: a return of a shop  *)
(* order is marked as processed only when the order holds no stock any     *)
(* more, also after a failure between the cancellation and the mark.       *)
(***************************************************************************)
ReturnsGiveStockBack ==
  [][\A t \in ShopOrders : t \in returnsDone' \ returnsDone =>
       "tiktok" \in crossed \/ StockOfReturned(t) = {}]_warehouseVars
=============================================================================
