---------------------------- MODULE TikTokSales ----------------------------
(***************************************************************************)
(* TikTok's orders and the sale orders made of them: the rows, and the     *)
(* transactions in which an order takes its stock and gives it back.  An   *)
(* order comes from the lots of a live session or from the shop; TikTok    *)
(* goes on changing it after it has been imported.                         *)
(***************************************************************************)
EXTENDS StockMovement

CONSTANTS
  NumLots,        \* lots of the live session, each with one TikTok order
  NumShopOrders,  \* orders of the shop
  Contents,       \* what an order is of: the lot's scanned products, the
                  \* products the shop order's items match
  NoProduct,      \* a line's product_id that is NULL
  Agents          \* request threads

VARIABLES
  remote,    \* TikTok order -> its status at TikTok
  returned,  \* TikTok orders with a final return at TikTok
  tkOrders,  \* sale_orders of TikTok, by id
  tkLines,   \* their sale_order_lines, by id
  agent      \* thread -> its request and what it has read

LotOrders == 1 .. NumLots

ShopOrders == NumLots + 1 .. NumLots + NumShopOrders

TikTokOrders == LotOrders \cup ShopOrders

RemoteStatus == {"none", "pending", "confirmed", "cancelled"}

TikTokRow ==
  [ref : TikTokOrders, state : {"draft", "sale", "cancel"},
   payment : {"unpaid", "paid", "refunded"}]

TikTokLine == [order : Nat, product : Products \cup {NoProduct}, applied : BOOLEAN]

ASSUME TikTokConstants ==
  /\ NumLots \in Nat /\ NumShopOrders \in Nat
  /\ NoProduct \notin Products
  /\ Contents \in [TikTokOrders -> Seq(Products)]

-----------------------------------------------------------------------------
(* The sale orders *)

IsLive(o) == tkOrders[o].ref \in LotOrders

LinesOfSale(o) == {l \in DOMAIN tkLines : tkLines[l].order = o}

ProductLinesOfSale(o) == {l \in LinesOfSale(o) : tkLines[l].product # NoProduct}

SalesOf(t) == {o \in DOMAIN tkOrders : tkOrders[o].ref = t}

HasMovement(reference, id, p) ==
  \E n \in DOMAIN movements :
    /\ movements[n].reference = reference
    /\ movements[n].id = id /\ movements[n].product = p

Moves(reference, id, p, delta) ==
  [reference |-> reference, id |-> id, product |-> p, delta |-> delta]

(***************************************************************************)
(* A session's TikTok orders carry their reference, so that for them, too, *)
(* it is the state and the payment that decide.                            *)
(***************************************************************************)
HoldsStock(o) == tkOrders[o].state = "sale" /\ tkOrders[o].payment = "paid"

UnflaggedLines(o) == {l \in ProductLinesOfSale(o) : ~tkLines[l].applied}

Undeducted(o) ==
  {l \in ProductLinesOfSale(o) :
     ~HasMovement("sale_order_line", l, tkLines[l].product)}

Flagged(lines, applied) ==
  [l \in DOMAIN tkLines |->
     IF l \in lines THEN [tkLines[l] EXCEPT !.applied = applied] ELSE tkLines[l]]

(***************************************************************************)
(* apply_sale_order_inventory.                                             *)
(***************************************************************************)
TakeStock(o) ==
  IF HoldsStock(o)
    THEN /\ RecordMovements(MapSeq(InIdOrder(Undeducted(o)), LAMBDA l :
              Moves("sale_order_line", l, tkLines[l].product, -1)))
         /\ tkLines' = Flagged(ProductLinesOfSale(o), TRUE)
    ELSE NoMovement /\ UNCHANGED tkLines

AppliedOfSale(o) == {l \in ProductLinesOfSale(o) : tkLines[l].applied}

(***************************************************************************)
(* reverse_sale_order_inventory: of each product one line's worth goes     *)
(* back, and only if the order has given back none of it before.           *)
(***************************************************************************)
GivenBack(o) ==
  {l \in AppliedOfSale(o) :
     /\ ~HasMovement("sale_order_cancel", o, tkLines[l].product)
     /\ \A k \in AppliedOfSale(o) :
          tkLines[k].product = tkLines[l].product => l <= k}

GiveStockBack(o) ==
  /\ RecordMovements(MapSeq(InIdOrder(GivenBack(o)), LAMBDA l :
       Moves("sale_order_cancel", o, tkLines[l].product, 1)))
  /\ tkLines' = Flagged(AppliedOfSale(o), FALSE)

(***************************************************************************)
(* _sync_sale_order_inventory_state, the second part of update_sale_order: *)
(* a live order is never given back here.                                  *)
(***************************************************************************)
BringInLine(o) ==
  IF HoldsStock(o) \/ IsLive(o) THEN TakeStock(o) ELSE GiveStockBack(o)

Rewritten(o, state, payment) ==
  [tkOrders EXCEPT ![o].state = state, ![o].payment = payment]

-----------------------------------------------------------------------------
(* The threads *)

Free == [op |-> "none", step |-> "idle"]

Becomes(h, work) == agent' = [agent EXCEPT ![h] = work]

At(h, op, step) == agent[h].op = op /\ agent[h].step = step

saleTables == <<tkOrders, tkLines>>

TikTokInit ==
  /\ remote = [t \in TikTokOrders |-> "none"]
  /\ returned = {}
  /\ tkOrders = << >> /\ tkLines = << >>
  /\ agent = [h \in Agents |-> Free]
=============================================================================
