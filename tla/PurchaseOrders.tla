-------------------------- MODULE PurchaseOrders --------------------------
(***************************************************************************)
(* Purchase orders, their lines and the receipt of goods.  An update locks *)
(* its order's row with its first statement; a receipt and a deletion read *)
(* the order and its lines without a lock and touch the order's row last,  *)
(* so that every commit on an order has to wait for an update of it, but   *)
(* what a receipt has read may be stale when it writes.                    *)
(***************************************************************************)
EXTENDS StockMovement

CONSTANTS
  Buyers,        \* request threads
  OrderedQty,    \* the quantities a request may order for a line
  NewStatuses,   \* the statuses an update may carry
  Baskets,       \* the new lines a request may carry
  MaxPurchases,  \* bounds of the two tables
  MaxOrderLines

VARIABLES
  purchases,      \* purchase_orders, by id
  purchaseLines,  \* purchase_order_lines, by id
  buyer           \* thread -> its request and what it has read

purchaseTables == <<purchases, purchaseLines>>
purchaseVars == <<purchases, purchaseLines, buyer>>

-----------------------------------------------------------------------------
(* Types *)

NoOrder == 0    \* the order of a deleted line

OrderStatuses ==
  {"draft", "ordered", "partially_received", "received", "cancelled"}

PurchaseRow == [status : OrderStatuses, deleted : BOOLEAN]

OrderLineRow ==
  [order : Nat, product : Products, ordered : Int, received : Int]

BasketLine == [product : Products, ordered : OrderedQty]

(***************************************************************************)
(* What a thread holds: the operation, the order, the status and the       *)
(* quantities by line id its request carries, new lines, the lines as the  *)
(* transaction has read them, and the status it is going to write.         *)
(***************************************************************************)
IsBuyer(b) ==
  /\ DOMAIN b = {"step", "op", "order", "status", "qtys", "added", "read"}
  /\ b.step \in {"idle", "lines", "write", "commit"}
  /\ b.op \in {"none", "update", "receive", "delete"}
  /\ b.order \in Nat /\ b.status \in OrderStatuses
  /\ b.qtys \in [DOMAIN b.qtys -> Nat] /\ DOMAIN b.qtys \subseteq Nat
  /\ b.added \in Seq(BasketLine)
  /\ b.read \in [DOMAIN b.read -> OrderLineRow]
  /\ DOMAIN b.read \subseteq DOMAIN b.qtys

(***************************************************************************)
(* Type correctness of the purchase tables and threads: rows keep their    *)
(* shape, and a transaction is about an order and lines that were created. *)
(***************************************************************************)
PurchaseTypeOK ==
  /\ purchases \in Seq(PurchaseRow)
  /\ purchaseLines \in Seq(OrderLineRow)
  /\ DOMAIN buyer = Buyers
  /\ \A b \in Buyers :
       /\ IsBuyer(buyer[b])
       /\ DOMAIN buyer[b].read \subseteq DOMAIN purchaseLines
       /\ buyer[b].step # "idle" => buyer[b].order \in DOMAIN purchases

ASSUME PurchaseConstants ==
  /\ OrderedQty \subseteq Nat \ {0}
  /\ NewStatuses \subseteq OrderStatuses
  /\ Baskets \subseteq Seq(BasketLine) \ {<< >>}
  /\ {MaxPurchases, MaxOrderLines} \subseteq Nat

-----------------------------------------------------------------------------
(* Reading *)

LineIds(lines, o) == {l \in DOMAIN lines : lines[l].order = o}

TotalOf(column, ls) == Ledger!SumFunctionOnSet(column, ls)

UnitsOrdered(lines, o) ==
  TotalOf([l \in DOMAIN lines |-> lines[l].ordered], LineIds(lines, o))

UnitsReceived(lines, o) ==
  TotalOf([l \in DOMAIN lines |-> lines[l].received], LineIds(lines, o))

(***************************************************************************)
(* _pg_refresh_purchase_order_totals_txn: the status that follows from the *)
(* quantities, unless the order is cancelled.                              *)
(***************************************************************************)
Refreshed(status, lines, o) ==
  LET ordered  == UnitsOrdered(lines, o)
      received == UnitsReceived(lines, o)
  IN CASE status = "cancelled" -> status
       [] status # "cancelled" /\ ordered > 0 /\ received >= ordered -> "received"
       [] status # "cancelled" /\ received > 0
            /\ ~(ordered > 0 /\ received >= ordered) -> "partially_received"
       [] OTHER -> IF status \in {"draft", "ordered"} THEN status ELSE "ordered"

-----------------------------------------------------------------------------
(* Row locks *)

(***************************************************************************)
(* An update holds its order's row from its first UPDATE on; a receipt     *)
(* holds the line rows it has written.                                     *)
(***************************************************************************)
OrderFree(b) ==
  \A c \in Buyers \ {b} :
    ~(buyer[c].op = "update" /\ buyer[c].order = buyer[b].order)

LinesFree(b, ls) ==
  \A c \in Buyers \ {b} :
    buyer[c].step = "commit" => DOMAIN buyer[c].read \cap ls = {}

-----------------------------------------------------------------------------
(* The threads *)

IdleBuyer ==
  [step |-> "idle", op |-> "none", order |-> NoOrder, status |-> "draft",
   qtys |-> << >>, added |-> << >>, read |-> << >>]

Done(b) == buyer' = [buyer EXCEPT ![b] = IdleBuyer]

Goes(b, step) == buyer' = [buyer EXCEPT ![b].step = step]

Stored == {o \in DOMAIN purchases : ~purchases[o].deleted}

Maps(S, T) == UNION {[D -> T] : D \in SUBSET S}

NewOrderLines(o, basket) ==
  [n \in DOMAIN basket |->
     [order |-> o, product |-> basket[n].product,
      ordered |-> basket[n].ordered, received |-> 0]]

FitsOrders ==
  /\ Len(purchases') <= MaxPurchases
  /\ Len(purchaseLines') <= MaxOrderLines

(***************************************************************************)
(* create_purchase_order: one transaction that reads no other order.       *)
(***************************************************************************)
CreatePurchase(b) ==
  /\ buyer[b].step = "idle"
  /\ \E status \in {"draft", "ordered"}, basket \in Baskets :
       LET o == Len(purchases) + 1
       IN /\ purchaseLines' = purchaseLines \o NewOrderLines(o, basket)
          /\ purchases' = Append(purchases,
               [status |-> Refreshed(status, purchaseLines', o), deleted |-> FALSE])
  /\ UNCHANGED buyer /\ NoMovement
  /\ FitsOrders

(***************************************************************************)
(* update_purchase_order begins: it finds the order and writes the header, *)
(* which takes the row's lock.  The payload has quantities for some of the *)
(* lines the caller was shown, zero among them, and new lines.             *)
(***************************************************************************)
StartUpdate(b) ==
  /\ buyer[b].step = "idle"
  /\ \E o \in Stored, status \in NewStatuses, added \in Baskets \cup {<< >>} :
       \E q \in Maps(LineIds(purchaseLines, o), OrderedQty \cup {0}) :
         /\ q # << >> \/ added # << >>
         /\ \A c \in Buyers : ~(buyer[c].op = "update" /\ buyer[c].order = o)
         /\ buyer' = [buyer EXCEPT ![b] =
              [IdleBuyer EXCEPT !.step = "write", !.op = "update", !.order = o,
                                !.status = status, !.qtys = q, !.added = added]]
  /\ NoMovement /\ UNCHANGED purchaseTables

(***************************************************************************)
(* Nobody else commits on the order while its row is locked, so the rest   *)
(* of the update sees one state of the lines.  It raises when a line would *)
(* order less than was received, when a line it leaves out has a receipt,  *)
(* and when no line is left.                                               *)
(***************************************************************************)
OrdersTooLittle(b) ==
  \E l \in DOMAIN buyer[b].qtys \cap LineIds(purchaseLines, buyer[b].order) :
    buyer[b].qtys[l] < purchaseLines[l].received

Dropped(b) == LineIds(purchaseLines, buyer[b].order) \ DOMAIN buyer[b].qtys

DropsReceived(b) == \E l \in Dropped(b) : purchaseLines[l].received > 0

UpdatedLines(b) ==
  [l \in DOMAIN purchaseLines |->
     CASE l \in Dropped(b) -> [purchaseLines[l] EXCEPT !.order = NoOrder]
       [] l \in LineIds(purchaseLines, buyer[b].order) \ Dropped(b) ->
            [purchaseLines[l] EXCEPT !.ordered = buyer[b].qtys[l]]
       [] OTHER -> purchaseLines[l]]
  \o NewOrderLines(buyer[b].order, buyer[b].added)

FinishUpdate(b) ==
  LET o == buyer[b].order
  IN /\ buyer[b].step = "write" /\ buyer[b].op = "update"
     /\ LinesFree(b, LineIds(purchaseLines, o))
     /\ IF \/ OrdersTooLittle(b) \/ DropsReceived(b)
           \/ LineIds(UpdatedLines(b), o) = {}
          THEN UNCHANGED purchaseTables
          ELSE /\ purchaseLines' = UpdatedLines(b)
               /\ purchases' = [purchases EXCEPT
                    ![o].status = Refreshed(buyer[b].status, purchaseLines', o)]
     /\ Done(b) /\ NoMovement
     /\ FitsOrders

(***************************************************************************)
(* receive_purchase_order begins: the order, then the lines of the request *)
(* are read, no more than what remains of each may arrive.                 *)
(***************************************************************************)
StartReceipt(b) ==
  /\ buyer[b].step = "idle"
  /\ \E o \in Stored : \E q \in Maps(LineIds(purchaseLines, o), OrderedQty) :
       /\ purchases[o].status # "cancelled"
       /\ q # << >>
       /\ buyer' = [buyer EXCEPT ![b] =
            [IdleBuyer EXCEPT !.step = "lines", !.op = "receive", !.order = o,
                              !.qtys = q]]
  /\ NoMovement /\ UNCHANGED purchaseTables

WholeOrder(line) == line.ordered

Remaining(line) ==
  IF line.ordered > line.received THEN line.ordered - line.received ELSE 0

ReadReceiptLines(b) ==
  LET q     == buyer[b].qtys
      found == DOMAIN q \cap LineIds(purchaseLines, buyer[b].order)
  IN /\ buyer[b].step = "lines"
     /\ IF found = {} \/ \E l \in found : q[l] > Remaining(purchaseLines[l])
          THEN Done(b)
          ELSE buyer' = [buyer EXCEPT
                 ![b].step = "write", ![b].read = [l \in found |-> purchaseLines[l]]]
     /\ NoMovement /\ UNCHANGED purchaseTables

(***************************************************************************)
(* The lines as the receipt leaves them: qty_received is the quantity read *)
(* before plus what arrived, whatever the row says by now.                 *)
(***************************************************************************)
ReceivedLines(b) ==
  [l \in DOMAIN purchaseLines |->
     IF l \in DOMAIN buyer[b].read /\ purchaseLines[l].order # NoOrder
       THEN [purchaseLines[l] EXCEPT
               !.received = buyer[b].read[l].received + buyer[b].qtys[l]]
       ELSE purchaseLines[l]]

(***************************************************************************)
(* The lines are written, their rows locked, and the status computed from  *)
(* the lines the transaction sees: its own and those committed by now.     *)
(***************************************************************************)
WriteReceipt(b) ==
  LET o == buyer[b].order
  IN /\ buyer[b].step = "write" /\ buyer[b].op = "receive"
     /\ LinesFree(b, DOMAIN buyer[b].read)
     /\ IF purchases[o].deleted
          THEN Done(b)
          ELSE buyer' = [buyer EXCEPT ![b].step = "commit",
                 ![b].status = Refreshed(purchases[o].status, ReceivedLines(b), o)]
     /\ NoMovement /\ UNCHANGED purchaseTables

FirstArrival(b) ==
  LET l == CHOOSE k \in DOMAIN buyer[b].read : TRUE
  IN <<[reference |-> "purchase_order", id |-> buyer[b].order,
        product |-> buyer[b].read[l].product, delta |-> buyer[b].qtys[l]]>>

Arrivals(b) ==
  MapSeq(InIdOrder(DOMAIN buyer[b].read), LAMBDA l :
    [reference |-> "purchase_order", id |-> buyer[b].order,
     product |-> buyer[b].read[l].product, delta |-> buyer[b].qtys[l]])

CommitReceipt(b) ==
  /\ buyer[b].step = "commit"
  /\ OrderFree(b)
  /\ purchaseLines' = ReceivedLines(b)
  /\ purchases' = [purchases EXCEPT ![buyer[b].order].status = buyer[b].status]
  /\ RecordMovements(Arrivals(b))
  /\ Done(b)

(***************************************************************************)
(* delete_purchase_order: refused when something was received, as far as   *)
(* it has read.  The lines are deleted as they are then, the order last.   *)
(***************************************************************************)
StartDelete(b) ==
  /\ buyer[b].step = "idle"
  /\ \E o \in Stored :
       /\ UnitsReceived(purchaseLines, o) = 0
       /\ buyer' = [buyer EXCEPT ![b] =
            [IdleBuyer EXCEPT !.step = "write", !.op = "delete", !.order = o]]
  /\ NoMovement /\ UNCHANGED purchaseTables

FinishDelete(b) ==
  LET o == buyer[b].order
  IN /\ buyer[b].step = "write" /\ buyer[b].op = "delete"
     /\ OrderFree(b) /\ LinesFree(b, LineIds(purchaseLines, o))
     /\ purchaseLines' =
          [l \in DOMAIN purchaseLines |->
             IF purchaseLines[l].order = o
               THEN [purchaseLines[l] EXCEPT !.order = NoOrder]
               ELSE purchaseLines[l]]
     /\ purchases' = [purchases EXCEPT ![o].deleted = TRUE]
     /\ Done(b) /\ NoMovement

(***************************************************************************)
(* A transaction fails (a lost connection, a deadlock, a crash): nothing   *)
(* of it remains.                                                          *)
(***************************************************************************)
PurchaseFail(b) ==
  /\ buyer[b].step # "idle"
  /\ Done(b)
  /\ NoMovement /\ UNCHANGED purchaseTables

-----------------------------------------------------------------------------
PurchaseInit ==
  /\ purchases = << >>
  /\ purchaseLines = << >>
  /\ buyer = [b \in Buyers |-> IdleBuyer]

PurchaseArrival(b) ==
  CreatePurchase(b) \/ StartUpdate(b) \/ StartReceipt(b) \/ StartDelete(b)

PurchaseWork(b) ==
  \/ FinishUpdate(b)
  \/ ReadReceiptLines(b) \/ WriteReceipt(b) \/ CommitReceipt(b)
  \/ FinishDelete(b)
  \/ PurchaseFail(b)

PurchaseNext == \E b \in Buyers : PurchaseArrival(b) \/ PurchaseWork(b)

PurchaseSpec ==
  PurchaseInit /\ StockInit /\ [][PurchaseNext]_<<purchaseVars, onHand, movements>>

-----------------------------------------------------------------------------
(* What the tables promise *)

(***************************************************************************)
(* Two requests on one purchase order are open at the same time.           *)
(***************************************************************************)
PurchaseCrossed ==
  \E b, c \in Buyers :
    /\ b # c /\ buyer[b].step # "idle" /\ buyer[c].step # "idle"
    /\ buyer[b].order = buyer[c].order

LinesOfProduct(p) ==
  {l \in DOMAIN purchaseLines :
     purchaseLines[l].order # NoOrder /\ purchaseLines[l].product = p}

Received(ls) ==
  TotalOf([l \in DOMAIN purchaseLines |-> purchaseLines[l].received], ls)

(***************************************************************************)
(* However the requests interleave: what the lines say was received of a   *)
(* product has arrived in the stock.                                       *)
(***************************************************************************)
ReceivedIsInStock ==
  \A p \in Products :
    Received(LinesOfProduct(p)) <= NetOf("purchase_order", p)

(***************************************************************************)
(* What was received of a product is exactly what arrived in the stock, no *)
(* line received more than it orders, and the status of an order says how  *)
(* much of it was received.                                                *)
(***************************************************************************)
ReceiptsAgree ==
  /\ \A p \in Products :
       Received(LinesOfProduct(p)) = NetOf("purchase_order", p)
  /\ \A l \in DOMAIN purchaseLines :
       purchaseLines[l].received <= purchaseLines[l].ordered
  /\ \A o \in Stored :
       LET ls == LineIds(purchaseLines, o)
       IN purchases[o].status # "cancelled" =>
            /\ purchases[o].status \in {"draft", "ordered"} <=> Received(ls) = 0
            /\ purchases[o].status = "received" <=>
                 Received(ls) > 0 /\ \A l \in ls :
                   purchaseLines[l].received = purchaseLines[l].ordered
=============================================================================
