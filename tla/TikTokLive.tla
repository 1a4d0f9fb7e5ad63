----------------------------- MODULE TikTokLive -----------------------------
(***************************************************************************)
(* The lots of a TikTok live session: their orders are imported whenever   *)
(* the session's page or a scan finds them, a lot's product is corrected,  *)
(* and the stock of the whole session is applied.                          *)
(***************************************************************************)
EXTENDS TikTokSales

VARIABLES
  lotItems,   \* lot -> the products scanned for it
  corrected   \* history: lots whose product was exchanged in the stock, or for
              \* whose line stock was taken though it names no product

liveVars == <<lotItems, corrected>>

(***************************************************************************)
(* The work of a thread: rows still to import (lot, status, products) and  *)
(* the orders found for each lot; what a correction read of the lot's      *)
(* line; what the session's application read.  It is about orders and      *)
(* lines that exist.                                                       *)
(***************************************************************************)
ImportRow == [lot : LotOrders, status : RemoteStatus, products : Seq(Products)]

ImportWork(orders) ==
  [op : {"import"}, rows : Seq(ImportRow),
   step : {"list", "create", "update", "sync", "settle", "line", "apply"},
   found : [LotOrders -> SUBSET orders], order : Nat, left : SUBSET orders,
   products : Seq(Products \cup {NoProduct})]

IsImport(w, orders) ==
  /\ w \in ImportWork(orders) /\ w.rows # << >>
  /\ w.step \in {"sync", "settle", "line", "apply"} => w.order \in orders
  /\ w.step = "line" => w.products # << >>

CorrectionWork(lines) ==
  [op : {"correct"}, step : {"read", "write"}, lot : LotOrders,
   product : Products, line : lines \cup {0}, old : Products \cup {NoProduct},
   applied : BOOLEAN, due : BOOLEAN]

ApplicationWork(lines) ==
  [op : {"session"}, step : {"write"},
   read : SUBSET [id : lines, linked : BOOLEAN, product : Products \cup {NoProduct}]]

IsLiveWork(w, orders, lines) ==
  IsImport(w, orders) \/ w \in CorrectionWork(lines) \/ w \in ApplicationWork(lines)

-----------------------------------------------------------------------------
(* _materialize_tiktok_go_live_sale_orders_from_api *)

OnSale == {l \in LotOrders : remote[l] # "none"}

RowsOf(lots) ==
  MapSeq(InIdOrder(lots), LAMBDA l :
    [lot |-> l, status |-> remote[l], products |-> lotItems[l]])

(***************************************************************************)
(* The rows of the session, or of the lot just scanned, are read together  *)
(* with what TikTok says of them.                                          *)
(***************************************************************************)
ImportRequest(h) ==
  /\ agent[h] = Free
  /\ \E lots \in {OnSale} \cup {{l} : l \in OnSale} :
       /\ lots # {}
       /\ Becomes(h, [op |-> "import", step |-> "list", rows |-> RowsOf(lots),
                      found |-> [l \in LotOrders |-> {}], order |-> 0,
                      left |-> {}, products |-> << >>])
  /\ NoMovement /\ UNCHANGED <<saleTables, liveVars>>

ToRow(w) ==
  IF w.rows = << >> THEN Free
  ELSE LET old == w.found[Head(w.rows).lot]
       IN [w EXCEPT !.step = IF old = {} THEN "create" ELSE "update",
                    !.left = old]

NextRow(w) == ToRow([w EXCEPT !.rows = Tail(@)])

FoundNothing == [l \in LotOrders |-> {}]

FoundSales == [l \in LotOrders |-> SalesOf(l)]

(***************************************************************************)
(* The sale orders there are, by reference, are listed once, before the    *)
(* first row.                                                              *)
(***************************************************************************)
ListSales(h) ==
  /\ At(h, "import", "list")
  /\ Becomes(h, ToRow([agent[h] EXCEPT !.found = FoundSales]))
  /\ NoMovement /\ UNCHANGED <<saleTables, liveVars>>

RowStatus(h) == Head(agent[h].rows).status

(***************************************************************************)
(* An order that exists is updated to what TikTok says: a pending one      *)
(* counts as paid.  update_sale_order brings its stock into line, and the  *)
(* import takes or returns it once more.                                   *)
(***************************************************************************)
UpdateLiveSale(h) ==
  /\ At(h, "import", "update")
  /\ \E o \in agent[h].left :
       /\ tkOrders' = IF RowStatus(h) = "cancelled"
                        THEN Rewritten(o, "cancel", "unpaid")
                        ELSE Rewritten(o, "sale", "paid")
       /\ Becomes(h, [agent[h] EXCEPT !.step = "sync", !.order = o,
                                      !.left = @ \ {o}])
  /\ NoMovement /\ UNCHANGED <<tkLines, liveVars>>

SyncLiveSale(h) ==
  /\ At(h, "import", "sync")
  /\ BringInLine(agent[h].order)
  /\ Becomes(h, [agent[h] EXCEPT !.step = "settle"])
  /\ UNCHANGED <<tkOrders, liveVars>>

SettleLiveSale(h) ==
  /\ At(h, "import", "settle")
  /\ IF RowStatus(h) = "cancelled" THEN GiveStockBack(agent[h].order)
     ELSE TakeStock(agent[h].order)
  /\ Becomes(h, IF agent[h].left = {} THEN NextRow(agent[h])
                ELSE [agent[h] EXCEPT !.step = "update"])
  /\ UNCHANGED <<tkOrders, liveVars>>

NewLiveSale(row) ==
  [ref |-> row.lot,
   state |-> IF row.status = "cancelled" THEN "cancel" ELSE "sale",
   payment |-> IF row.status = "confirmed" THEN "paid" ELSE "unpaid"]

(***************************************************************************)
(* An order that was not listed is created, then its lines, one            *)
(* transaction each; a lot nothing was scanned for gets one line without a *)
(* product.                                                                *)
(***************************************************************************)
CreateLiveSale(h) ==
  /\ At(h, "import", "create")
  /\ LET row == Head(agent[h].rows)
     IN /\ tkOrders' = Append(tkOrders, NewLiveSale(row))
        /\ Becomes(h, [agent[h] EXCEPT !.step = "line",
             !.order = Len(tkOrders) + 1,
             !.products = IF row.products = << >> THEN <<NoProduct>>
                          ELSE row.products])
  /\ NoMovement /\ UNCHANGED <<tkLines, liveVars>>

AddLiveLine(h) ==
  /\ At(h, "import", "line")
  /\ LET w == agent[h]
         rest == [w EXCEPT !.products = Tail(@)]
     IN /\ tkLines' = Append(tkLines,
             [order |-> w.order, product |-> Head(w.products), applied |-> FALSE])
        /\ Becomes(h, IF rest.products # << >> THEN rest
                      ELSE IF RowStatus(h) = "cancelled" THEN NextRow(rest)
                           ELSE [rest EXCEPT !.step = "apply"])
  /\ NoMovement /\ UNCHANGED <<tkOrders, liveVars>>

ApplyLiveSale(h) ==
  /\ At(h, "import", "apply")
  /\ TakeStock(agent[h].order)
  /\ Becomes(h, NextRow(agent[h]))
  /\ UNCHANGED <<tkOrders, liveVars>>

-----------------------------------------------------------------------------
(* replace_tiktok_live_lot_product *)

CorrectRequest(h) ==
  /\ agent[h] = Free
  /\ \E l \in LotOrders, p \in Products :
       Becomes(h, [op |-> "correct", step |-> "read", lot |-> l, product |-> p,
                   line |-> 0, old |-> NoProduct, applied |-> FALSE, due |-> FALSE])
  /\ NoMovement /\ UNCHANGED <<saleTables, liveVars>>

SoldLines(l) ==
  {k \in DOMAIN tkLines :
     tkOrders[tkLines[k].order].ref = l /\ tkOrders[tkLines[k].order].state # "cancel"}

ProductOnLot(l) == IF lotItems[l] = << >> THEN NoProduct ELSE Head(lotItems[l])

(***************************************************************************)
(* The transaction reads the lot's first product and its first line on an  *)
(* order that is not cancelled.                                            *)
(***************************************************************************)
ReadLotLine(h) ==
  /\ At(h, "correct", "read")
  /\ LET w == agent[h]
         lines == SoldLines(w.lot)
         first == CHOOSE k \in lines : \A j \in lines : k <= j
     IN Becomes(h,
          IF lines = {}
            THEN [w EXCEPT !.step = "write", !.old = ProductOnLot(w.lot)]
            ELSE [w EXCEPT !.step = "write", !.line = first,
                    !.old = IF tkLines[first].product # NoProduct
                              THEN tkLines[first].product ELSE ProductOnLot(w.lot),
                    !.applied = tkLines[first].applied,
                    !.due = HoldsStock(tkLines[first].order)])
  /\ NoMovement /\ UNCHANGED <<saleTables, liveVars>>

(***************************************************************************)
(* What it records: for a line that holds stock, the old product back and  *)
(* the new one out, each unless this line has such a movement; for one     *)
(* that should and does not, its deduction.                                *)
(***************************************************************************)
SwapIn(w) ==
  IF w.applied /\ w.old \notin {w.product, NoProduct}
       /\ ~HasMovement("sale_order_line_swap_in", w.line, w.old)
    THEN <<Moves("sale_order_line_swap_in", w.line, w.old, 1)>> ELSE << >>

SwapOut(w) ==
  IF w.applied /\ w.old \notin {w.product, NoProduct}
       /\ ~HasMovement("sale_order_line_swap_out", w.line, w.product)
    THEN <<Moves("sale_order_line_swap_out", w.line, w.product, -1)>> ELSE << >>

FirstDeduction(w) ==
  IF w.due /\ ~w.applied /\ ~HasMovement("sale_order_line", w.line, w.product)
    THEN <<Moves("sale_order_line", w.line, w.product, -1)>> ELSE << >>

Corrected(line, w) ==
  [line EXCEPT !.product = IF w.old = w.product THEN @ ELSE w.product,
               !.applied = @ \/ (w.due /\ ~w.applied)]

(***************************************************************************)
(* A lot's product may have been set before its order's line has one: the  *)
(* correction to the same product then takes the line's stock and leaves   *)
(* the line without it.                                                    *)
(***************************************************************************)
TakesForNone(w) ==
  /\ w.line # 0 /\ w.due /\ ~w.applied
  /\ w.old = w.product /\ tkLines[w.line].product = NoProduct

CorrectLine(h) ==
  /\ At(h, "correct", "write")
  /\ LET w == agent[h]
     IN /\ lotItems' = [lotItems EXCEPT ![w.lot] =
             IF @ = << >> THEN <<w.product>> ELSE <<w.product>> \o Tail(@)]
        /\ IF w.line = 0 THEN NoMovement /\ UNCHANGED tkLines
           ELSE /\ RecordMovements(SwapIn(w) \o SwapOut(w) \o FirstDeduction(w))
                /\ tkLines' = [tkLines EXCEPT ![w.line] = Corrected(@, w)]
        /\ corrected' = IF (w.applied /\ w.old # w.product) \/ TakesForNone(w)
                          THEN corrected \cup {w.lot} ELSE corrected
  /\ Becomes(h, Free)
  /\ UNCHANGED tkOrders

-----------------------------------------------------------------------------
(* apply_tiktok_live_session_inventory *)

SessionRequest(h) ==
  /\ agent[h] = Free
  /\ Becomes(h, [op |-> "session", step |-> "write", read |->
       {[id |-> l, linked |-> tkLines[l].product = NoProduct,
         product |-> IF tkLines[l].product # NoProduct THEN tkLines[l].product
                     ELSE ProductOnLot(tkOrders[tkLines[l].order].ref)] :
          l \in {k \in DOMAIN tkLines :
                   /\ IsLive(tkLines[k].order)
                   /\ tkOrders[tkLines[k].order].state # "cancel"
                   /\ tkOrders[tkLines[k].order].payment = "paid"}}])
  /\ NoMovement /\ UNCHANGED <<saleTables, liveVars>>

ReadOf(rows, l) == CHOOSE r \in rows : r.id = l

(***************************************************************************)
(* A line without a product gets its lot's one; each line that has none    *)
(* takes its deduction and is flagged, on what was read before.            *)
(***************************************************************************)
ApplySession(h) ==
  /\ At(h, "session", "write")
  /\ LET rows  == {r \in agent[h].read : r.product # NoProduct}
         lines == {r.id : r \in rows}
         due   == {l \in lines :
                     ~HasMovement("sale_order_line", l, ReadOf(rows, l).product)}
     IN /\ RecordMovements(MapSeq(InIdOrder(due), LAMBDA l :
             Moves("sale_order_line", l, ReadOf(rows, l).product, -1)))
        /\ tkLines' = [l \in DOMAIN tkLines |->
             IF l \notin lines THEN tkLines[l]
             ELSE [tkLines[l] EXCEPT !.applied = TRUE,
                     !.product = IF ReadOf(rows, l).linked
                                   THEN ReadOf(rows, l).product ELSE @]]
  /\ Becomes(h, Free)
  /\ UNCHANGED <<tkOrders, liveVars>>

-----------------------------------------------------------------------------
(* Failures, and the whole *)

(***************************************************************************)
(* A transaction fails and is rolled back.  The import goes on with the    *)
(* next row; a request may also end, with its thread or its connection.    *)
(***************************************************************************)
LiveFails(h) ==
  /\ agent[h].op \in {"import", "correct", "session"}
  /\ \/ Becomes(h, Free)
     \/ /\ agent[h].op = "import" /\ agent[h].step # "list"
        /\ Becomes(h, NextRow(agent[h]))
  /\ NoMovement /\ UNCHANGED <<saleTables, liveVars>>

LiveInit ==
  /\ lotItems = [l \in LotOrders |-> Contents[l]]
  /\ corrected = {}

LiveArrives(h) == ImportRequest(h) \/ CorrectRequest(h) \/ SessionRequest(h)

LiveGoesOn(h) ==
  \/ ListSales(h) \/ UpdateLiveSale(h) \/ SyncLiveSale(h) \/ SettleLiveSale(h)
  \/ CreateLiveSale(h) \/ AddLiveLine(h) \/ ApplyLiveSale(h)
  \/ ReadLotLine(h) \/ CorrectLine(h) \/ ApplySession(h)
  \/ LiveFails(h)
=============================================================================
