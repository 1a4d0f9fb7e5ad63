-------------------------- MODULE WinnerAssignment --------------------------
(***************************************************************************)
(* The lots one buyer wins in a live session, the products scanned for     *)
(* them, and what confirming, undoing, cancelling and deleting a lot does  *)
(* to the buyer's sale order and to the stock.  A handler runs several     *)
(* transactions, each a step here, and carries what it read from one to    *)
(* the next; the statements of the stock transactions, and how they        *)
(* interleave, are SaleOrderInventory's.                                   *)
(***************************************************************************)
EXTENDS Integers, Sequences, FiniteSets, SequencesExt

CONSTANTS
  Lots,            \* pending_winner_assignments.id; each has its auction result
  Products,        \* products.id
  Handlers,        \* request threads
  Settings,        \* the settings to explore, see IsSetting
  MaxQty,          \* bound: how often a product is scanned for one lot
  MaxLines,        \* bound: sale_order_lines ever inserted
  MaxOrders,       \* bound: sale_orders ever inserted
  Opening          \* products.on_hand_qty at first

VARIABLES
  lot,         \* lot -> its assignment row and whether it is there
  item,        \* lot -> product -> qty and reserved_qty (qty 0: no row)
  order,       \* sale_orders, by id
  buyerOrder,  \* buyer_groups.sale_order_id, 0 when NULL
  setting,     \* the session's order source, and what is in use
  line,        \* sale_order_lines, by id
  onHand,      \* products.on_hand_qty
  movements,   \* inventory_movements, in the order they commit
  pc,          \* handler -> where it is
  job          \* handler -> its request and what it has read

orderVars == <<order, buyerOrder, setting>>
stockVars == <<onHand, movements>>
vars == <<lot, item, orderVars, line, stockVars, pc, job>>

Ledger == INSTANCE StockLedger WITH onHand <- onHand, movements <- movements

-----------------------------------------------------------------------------
(* Types *)

Review   == {"payment_review", "payment_cancelled"}
Open     == {"pending", "assigned", "needs_review"}
Statuses == Open \cup Review \cup {"confirmed"}

LotRow  == [presence : {"unused", "live", "deleted"}, status : Statuses]
ItemRow == [qty : 0..MaxQty, reserved : 0..MaxQty]
OrderRow == [live : BOOLEAN, state : {"draft", "sale", "cancel"},
             payment : {"unpaid", "paid"}]
LineRow == [live : BOOLEAN, order : Nat, lot : Lots, product : Products,
            qty : 1..MaxQty, applied : BOOLEAN]

Movement ==
  [reference : {"sale_order_line", "sale_order_cancel", "winner_assignment_release"},
   id : Nat \cup Lots, product : Products, delta : Int]

RouteNames ==
  {"scan", "reserve", "remove", "confirm", "undo", "status", "delete",
   "approve", "order", "overdue"}

(***************************************************************************)
(* orders: the orders an undo is to reverse; todo: the items a removal is  *)
(* to go over; found: the items a confirmation read; seen: the status a    *)
(* status change read; reads: how often a scan is still to look for a      *)
(* confirmation to undo.                                                   *)
(***************************************************************************)
Job ==
  [route : RouteNames, lot : Lots, product : Products, status : Statuses,
   seen : Statuses, order : Nat, orders : SUBSET Nat, todo : SUBSET Products,
   found : [Products -> 0..MaxQty], reads : 0..2, pay : BOOLEAN]

HandlerPC ==
  {"idle", "scanRead", "assign", "removeRead", "remove",
   "confirmRead", "lookUp", "create", "confirmFind", "confirmLot", "apply", "release", "manual",
   "undoRead", "snapshot", "reverse", "unconfirm",
   "reopen", "statusSeen", "statusWrite", "overdueWrite", "deleteItems", "deleteLot",
   "orderUpdate", "orderSync"}

(***************************************************************************)
(* A setting: the session's order source; the lots that are won, the       *)
(* threads that serve requests and the routes in use; the statuses a       *)
(* request may carry; what may go wrong; how often a product is scanned.   *)
(***************************************************************************)
IsSetting(s) ==
  /\ s.source \in {"whatnot", "tiktok_live"}
  /\ s.lots \subseteq Lots /\ s.handlers \subseteq Handlers
  /\ s.routes \subseteq RouteNames /\ s.statuses \subseteq Statuses
  /\ s.failures \subseteq {"crash", "error"}
  /\ s.scans \in 0..MaxQty

ASSUME ConstantTypes ==
  /\ Lots # {} /\ Products # {} /\ Lots \cap Nat = {}
  /\ IsFiniteSet(Products)
  /\ \A s \in Settings : IsSetting(s)
  /\ MaxQty \in Nat \ {0} /\ MaxLines \in Nat /\ MaxOrders \in Nat
  /\ Opening \in [Products -> Int]

NoJob ==
  [route |-> "confirm", lot |-> CHOOSE a \in Lots : TRUE,
   product |-> CHOOSE p \in Products : TRUE, status |-> "pending",
   seen |-> "pending", order |-> 0, orders |-> {}, todo |-> {},
   found |-> [p \in Products |-> 0], reads |-> 0, pay |-> FALSE]

NoItem == [qty |-> 0, reserved |-> 0]

Init ==
  /\ lot = [a \in Lots |-> [presence |-> "unused", status |-> "pending"]]
  /\ item = [a \in Lots |-> [p \in Products |-> NoItem]]
  /\ order = << >>
  /\ buyerOrder = 0
  /\ setting \in Settings
  /\ line = << >>
  /\ onHand = Opening
  /\ movements = << >>
  /\ pc = [h \in Handlers |-> "idle"]
  /\ job = [h \in Handlers |-> NoJob]

-----------------------------------------------------------------------------
(* Steps of a handler *)

Goto(h, at) == pc' = [pc EXCEPT ![h] = at] /\ UNCHANGED job

GotoWith(h, at, j) == pc' = [pc EXCEPT ![h] = at] /\ job' = [job EXCEPT ![h] = j]

Finish(h) == GotoWith(h, "idle", NoJob)

Live(a) == lot[a].presence = "live"

Items(a) == {p \in Products : item[a][p].qty > 0}

ReservedInFull(a) ==
  [p \in Products |-> [qty |-> item[a][p].qty, reserved |-> item[a][p].qty]]

Unreserved(a) == [p \in Products |-> [qty |-> item[a][p].qty, reserved |-> 0]]

(***************************************************************************)
(* A confirmation holds the rows of the products it reserves until its     *)
(* transaction ends; another transaction waits before it writes them.      *)
(***************************************************************************)
Holds(g, a, p) == pc[g] = "confirmLot" /\ job[g].lot = a /\ p \in job[g].todo

ItemFree(h, a, p) == \A g \in Handlers \ {h} : ~Holds(g, a, p)

ItemsFree(h, a) == \A p \in Products : ItemFree(h, a, p)

LotLines(a) == {l \in DOMAIN line : line[l].live /\ line[l].lot = a}

OrderLines(o) == {l \in DOMAIN line : line[l].live /\ line[l].order = o}

LinkedOrders(a) == {line[l].order : l \in LotLines(a)}

SetStatus(a, status) ==
  lot' = IF Live(a) THEN [lot EXCEPT ![a].status = status] ELSE lot

(***************************************************************************)
(* A new winner is queued, once for a lot.                                 *)
(***************************************************************************)
Queue(a) ==
  /\ lot[a].presence = "unused"
  /\ lot' = [lot EXCEPT ![a] = [presence |-> "live", status |-> "pending"]]
  /\ UNCHANGED <<item, orderVars, line, stockVars, pc, job>>

-----------------------------------------------------------------------------
(* The stock transactions of the sale order *)

ShouldBeApplied(o) ==
  /\ order[o].live
  /\ order[o].state = "sale" /\ order[o].payment = "paid"
  /\ setting.source # "tiktok_live"

AlwaysUndeducted(l) == TRUE

Undeducted(l) ==
  ~ \E i \in DOMAIN movements :
      /\ movements[i].reference = "sale_order_line"
      /\ movements[i].id = l /\ movements[i].product = line[l].product

Deduction(l) ==
  [reference |-> "sale_order_line", id |-> l, product |-> line[l].product,
   delta |-> -line[l].qty]

StockWithoutRows(rows) ==
  /\ onHand' = Ledger!Moved(onHand, rows)
  /\ UNCHANGED movements

AddRows(rows) ==
  /\ movements' = movements \o rows
  /\ onHand' = Ledger!Moved(onHand, rows)

ApplyAll(o) ==
  /\ AddRows(SetToSeq({Deduction(l) : l \in {k \in OrderLines(o) : Undeducted(k)}}))
  /\ line' = [l \in DOMAIN line |->
       IF l \in OrderLines(o) THEN [line[l] EXCEPT !.applied = TRUE] ELSE line[l]]

(***************************************************************************)
(* apply_sale_order_inventory: it gives up unless the order's stock should *)
(* be out.                                                                 *)
(***************************************************************************)
ApplyOrder(o) ==
  IF o \in DOMAIN order /\ ShouldBeApplied(o) THEN ApplyAll(o)
  ELSE UNCHANGED <<line, stockVars>>

AppliedLines(o) == {l \in OrderLines(o) : line[l].applied}

Returned(o, p) ==
  \E i \in DOMAIN movements :
    /\ movements[i].reference = "sale_order_cancel"
    /\ movements[i].id = o /\ movements[i].product = p

Return(o, l) ==
  [reference |-> "sale_order_cancel", id |-> o, product |-> line[l].product,
   delta |-> line[l].qty]

(***************************************************************************)
(* The lines a reversal gives back: of each product only the first, and    *)
(* only if the order has given none of it back before.                     *)
(***************************************************************************)
LinesGivenBack(o) ==
  {l \in AppliedLines(o) :
     /\ ~Returned(o, line[l].product)
     /\ \A k \in AppliedLines(o) : line[k].product = line[l].product => l <= k}

ReverseOrder(o) ==
  /\ AddRows(SetToSeq({Return(o, l) : l \in LinesGivenBack(o)}))
  /\ line' = [l \in DOMAIN line |->
       IF l \in AppliedLines(o) THEN [line[l] EXCEPT !.applied = FALSE] ELSE line[l]]

(***************************************************************************)
(* _sync_sale_order_inventory_state: TikTok live orders are not reversed.  *)
(***************************************************************************)
SyncOrder(o) ==
  IF ShouldBeApplied(o) \/ setting.source = "tiktok_live" THEN ApplyOrder(o)
  ELSE ReverseOrder(o)

-----------------------------------------------------------------------------
(* Scanning a product for a lot, reserving and removing it *)

Scan(h, a, p) ==
  /\ "scan" \in setting.routes /\ pc[h] = "idle" /\ Live(a)
  /\ GotoWith(h, "scanRead", [NoJob EXCEPT
       !.route = "scan", !.lot = a, !.product = p, !.reads = 2])
  /\ UNCHANGED <<lot, item, orderVars, line, stockVars>>

(***************************************************************************)
(* The route, and then the assignment again, look for a confirmation and   *)
(* undo it before the product is added.                                    *)
(***************************************************************************)
ScanRead(h) ==
  /\ pc[h] = "scanRead"
  /\ LET a == job[h].lot
         reads == job[h].reads
         left == [job[h] EXCEPT !.reads = reads - 1]
     IN IF Live(a) /\ lot[a].status = "confirmed" /\ reads > 0
        THEN GotoWith(h, "undoRead", left)
        ELSE IF reads = 2 THEN GotoWith(h, "scanRead", left)
             ELSE IF Live(a) THEN Goto(h, "assign") ELSE Finish(h)
  /\ UNCHANGED <<lot, item, orderVars, line, stockVars>>

(***************************************************************************)
(* assign_pending_winner_product: one more of the product, the reservation *)
(* as it was; the status is not looked at again.                           *)
(***************************************************************************)
Assign(h) ==
  /\ pc[h] = "assign"
  /\ LET a == job[h].lot
         p == job[h].product
     IN /\ item[a][p].qty < setting.scans
        /\ ItemFree(h, a, p)
        /\ item' = [item EXCEPT ![a][p].qty = @ + 1]
        /\ SetStatus(a, "assigned")
  /\ Finish(h)
  /\ UNCHANGED <<orderVars, line, stockVars>>

(***************************************************************************)
(* reserve_pending_winner_assignment_items, for a lot that a TikTok order  *)
(* matches: no stock moves.                                                *)
(***************************************************************************)
Reserve(a) ==
  /\ "reserve" \in setting.routes /\ setting.source = "tiktok_live"
  /\ Live(a) /\ lot[a].status # "payment_cancelled"
  /\ \E p \in Products : item[a][p].reserved < item[a][p].qty
  /\ \A h \in Handlers, p \in Products : ~Holds(h, a, p)
  /\ item' = [item EXCEPT ![a] = ReservedInFull(a)]
  /\ UNCHANGED <<lot, orderVars, line, stockVars, pc, job>>

RemoveRequest(h, a, p) ==
  /\ "remove" \in setting.routes /\ pc[h] = "idle" /\ Live(a) /\ p \in Items(a)
  /\ GotoWith(h, "removeRead", [NoJob EXCEPT
       !.route = "remove", !.lot = a, !.todo = {p}])
  /\ UNCHANGED <<lot, item, orderVars, line, stockVars>>

(***************************************************************************)
(* remove_pending_winner_assignment_item reads the assignment first and    *)
(* leaves a confirmed one alone.                                           *)
(***************************************************************************)
Removed(h) ==
  IF job[h].route = "delete" THEN Goto(h, "deleteLot") ELSE Finish(h)

RemoveRead(h) ==
  /\ pc[h] = "removeRead"
  /\ IF job[h].todo = {} THEN Removed(h)
     ELSE \E p \in job[h].todo :
            IF Live(job[h].lot) /\ lot[job[h].lot].status # "confirmed"
            THEN GotoWith(h, "remove", [job[h] EXCEPT !.product = p, !.todo = @ \ {p}])
            ELSE GotoWith(h, "removeRead", [job[h] EXCEPT !.todo = @ \ {p}])
  /\ UNCHANGED <<lot, item, orderVars, line, stockVars>>

Release(a, p) ==
  [reference |-> "winner_assignment_release", id |-> a, product |-> p,
   delta |-> item[a][p].reserved]

RemoveItem(h) ==
  /\ pc[h] = "remove"
  /\ LET a == job[h].lot
         p == job[h].product
     IN /\ ItemFree(h, a, p)
        /\ IF p \in Items(a)
           THEN /\ IF item[a][p].reserved > 0 THEN AddRows(<<Release(a, p)>>)
                   ELSE UNCHANGED stockVars
                /\ item' = [item EXCEPT ![a][p] = NoItem]
                /\ SetStatus(a, IF Items(a) = {p} THEN "pending" ELSE "assigned")
           ELSE UNCHANGED <<lot, item, stockVars>>
  /\ Goto(h, "removeRead")
  /\ UNCHANGED <<orderVars, line>>

-----------------------------------------------------------------------------
(* confirm_pending_winner_assignment *)

Confirm(h, a) ==
  /\ "confirm" \in setting.routes /\ pc[h] = "idle" /\ Live(a)
  /\ GotoWith(h, "confirmRead", [NoJob EXCEPT !.lot = a])
  /\ UNCHANGED <<lot, item, orderVars, line, stockVars>>

(***************************************************************************)
(* Nothing to do for a confirmed lot, nothing to confirm without products; *)
(* the packing slip approval then confirms the lot by hand.                *)
(***************************************************************************)
ConfirmRead(h) ==
  /\ pc[h] = "confirmRead"
  /\ LET a == job[h].lot
     IN IF Live(a) /\ lot[a].status # "confirmed" /\ Items(a) # {}
        THEN GotoWith(h, "lookUp",
               [job[h] EXCEPT !.found = [p \in Products |-> item[a][p].qty]])
        ELSE IF job[h].route = "approve" /\ ~(Live(a) /\ lot[a].status = "confirmed")
             THEN Goto(h, "manual")
             ELSE Finish(h)
  /\ UNCHANGED <<lot, item, orderVars, line, stockVars>>

(***************************************************************************)
(* get_or_create_buyer_sale_order: the buyer's order is used again unless  *)
(* it is cancelled or gone.  Nothing holds the buyer's row between the     *)
(* look-up and the creation.                                               *)
(***************************************************************************)
LookUp(h) ==
  /\ pc[h] = "lookUp"
  /\ IF buyerOrder # 0 /\ order[buyerOrder].live /\ order[buyerOrder].state # "cancel"
     THEN GotoWith(h, "confirmFind", [job[h] EXCEPT !.order = buyerOrder])
     ELSE Goto(h, "create")
  /\ UNCHANGED <<lot, item, orderVars, line, stockVars>>

CreateWithoutRow(h) ==
  /\ pc[h] = "create"
  /\ Len(order) < MaxOrders
  /\ buyerOrder' = Len(order) + 1
  /\ GotoWith(h, "confirmFind", [job[h] EXCEPT !.order = Len(order) + 1])
  /\ UNCHANGED <<lot, item, order, setting, line, stockVars>>

Create(h) ==
  /\ pc[h] = "create"
  /\ Len(order) < MaxOrders
  /\ order' = Append(order, [live |-> TRUE, state |-> "draft", payment |-> "unpaid"])
  /\ buyerOrder' = Len(order) + 1
  /\ GotoWith(h, "confirmFind", [job[h] EXCEPT !.order = Len(order) + 1])
  /\ UNCHANGED <<lot, item, setting, line, stockVars>>

(***************************************************************************)
(* The main transaction starts: it finds the lot's products, or takes      *)
(* those read before, reserves them and finds the auction result.  A lot   *)
(* deleted meanwhile has no result, and nothing is sold for it; a lot      *)
(* deleted after this is sold all the same.                                *)
(***************************************************************************)
QtyToSell(h) ==
  LET a == job[h].lot
  IN IF ~Live(a) THEN NoJob.found
     ELSE IF Items(a) # {} THEN [p \in Products |-> item[a][p].qty]
          ELSE job[h].found

ConfirmFind(h) ==
  /\ pc[h] = "confirmFind"
  /\ LET a == job[h].lot
     IN /\ ItemsFree(h, a)
        /\ GotoWith(h, "confirmLot", [job[h] EXCEPT
             !.found = QtyToSell(h),
             !.todo = {p \in Items(a) : item[a][p].reserved # item[a][p].qty}])
  /\ UNCHANGED <<lot, item, orderVars, line, stockVars>>

AlwaysUnsold(a, p) == TRUE

Unsold(a, p) == \A l \in LotLines(a) : line[l].product # p

SoldRows(h) ==
  LET a == job[h].lot
  IN {[live |-> TRUE, order |-> job[h].order, lot |-> a, product |-> p,
       qty |-> job[h].found[p], applied |-> FALSE] :
        p \in {q \in Products : job[h].found[q] > 0 /\ Unsold(a, q)}}

(***************************************************************************)
(* It ends: it updates the result, which makes another confirmation of the *)
(* lot wait, adds the lines that are not there yet, and confirms.          *)
(***************************************************************************)
ConfirmLot(h) ==
  /\ pc[h] = "confirmLot"
  /\ LET a == job[h].lot
         rows == SoldRows(h)
     IN /\ Len(line) + Cardinality(rows) <= MaxLines
        /\ line' = line \o SetToSeq(rows)
        /\ item' = [item EXCEPT ![a] = [p \in Products |->
             IF p \in job[h].todo THEN [item[a][p] EXCEPT !.reserved = item[a][p].qty]
             ELSE item[a][p]]]
        /\ SetStatus(a, "confirmed")
  /\ GotoWith(h, "apply", [job[h] EXCEPT !.todo = {}])
  /\ UNCHANGED <<orderVars, stockVars>>

Apply(h) ==
  /\ pc[h] = "apply"
  /\ ApplyOrder(job[h].order)
  /\ Goto(h, "release")
  /\ UNCHANGED <<lot, item, orderVars>>

ReleaseReservation(h) ==
  /\ pc[h] = "release"
  /\ ItemsFree(h, job[h].lot)
  /\ item' = [item EXCEPT ![job[h].lot] = Unreserved(job[h].lot)]
  /\ Finish(h)
  /\ UNCHANGED <<lot, orderVars, line, stockVars>>

(***************************************************************************)
(* approve_payments_from_picklist_lots, for one lot of a packing slip: the *)
(* buyer's orders become paid sales, then the lot is confirmed.            *)
(***************************************************************************)
Approve(h, a) ==
  /\ "approve" \in setting.routes /\ pc[h] = "idle"
  /\ Live(a) /\ lot[a].status \in Review
  /\ order' = [o \in DOMAIN order |->
       IF order[o].live THEN [order[o] EXCEPT !.state = "sale", !.payment = "paid"]
       ELSE order[o]]
  /\ GotoWith(h, "confirmRead", [NoJob EXCEPT !.route = "approve", !.lot = a])
  /\ UNCHANGED <<lot, item, buyerOrder, setting, line, stockVars>>

ManualConfirm(h) ==
  /\ pc[h] = "manual"
  /\ SetStatus(job[h].lot, "confirmed")
  /\ Finish(h)
  /\ UNCHANGED <<item, orderVars, line, stockVars>>

-----------------------------------------------------------------------------
(* undo_confirm_pending_winner_assignment, a route and a part of others *)

Undo(h, a) ==
  /\ "undo" \in setting.routes /\ pc[h] = "idle" /\ Live(a)
  /\ GotoWith(h, "undoRead", [NoJob EXCEPT !.route = "undo", !.lot = a])
  /\ UNCHANGED <<lot, item, orderVars, line, stockVars>>

(***************************************************************************)
(* Where a handler goes on after an undo that answered, and after one that *)
(* found nothing to undo or failed.                                        *)
(***************************************************************************)
Undone(h) ==
  CASE job[h].route = "status" -> Goto(h, "statusSeen")
    [] job[h].route = "delete" -> Goto(h, "deleteItems")
    [] job[h].route = "scan"   -> Goto(h, "scanRead")
    [] OTHER                   -> Finish(h)

NotUndone(h) ==
  IF job[h].route = "scan" THEN Goto(h, "scanRead") ELSE Finish(h)

UndoRead(h) ==
  /\ pc[h] = "undoRead"
  /\ IF Live(job[h].lot) /\ lot[job[h].lot].status = "confirmed"
     THEN Goto(h, "snapshot")
     ELSE NotUndone(h)
  /\ UNCHANGED <<lot, item, orderVars, line, stockVars>>

(***************************************************************************)
(* The first transaction reserves the products again and collects the      *)
(* orders that hold the lot.                                               *)
(***************************************************************************)
Snapshot(h) ==
  /\ pc[h] = "snapshot"
  /\ LET a == job[h].lot
     IN /\ ItemsFree(h, a)
        /\ item' = [item EXCEPT ![a] = ReservedInFull(a)]
        /\ GotoWith(h, "reverse", [job[h] EXCEPT !.orders = LinkedOrders(a)])
  /\ UNCHANGED <<lot, orderVars, line, stockVars>>

(***************************************************************************)
(* Each of these orders is reversed, all of its lines; an error is         *)
(* swallowed.                                                              *)
(***************************************************************************)
ReverseOrders(h) ==
  /\ pc[h] = "reverse"
  /\ IF job[h].orders = {} THEN Goto(h, "unconfirm") /\ UNCHANGED <<line, stockVars>>
     ELSE \E o \in job[h].orders :
            /\ ReverseOrder(o)
            /\ GotoWith(h, "reverse", [job[h] EXCEPT !.orders = @ \ {o}])
  /\ UNCHANGED <<lot, item, orderVars>>

DeleteLines(ls) ==
  line' = [l \in DOMAIN line |->
    IF l \in ls THEN [line[l] EXCEPT !.live = FALSE] ELSE line[l]]

NoLines(a) == {}

LinesOfUndone(a) == IF Live(a) THEN LotLines(a) ELSE {}

Unconfirm(h) ==
  /\ pc[h] = "unconfirm"
  /\ LET a == job[h].lot
     IN /\ DeleteLines(LinesOfUndone(a))
        /\ SetStatus(a, "assigned")
  /\ Undone(h)
  /\ UNCHANGED <<item, orderVars, stockVars>>

-----------------------------------------------------------------------------
(* update_pending_winner_assignment_status *)

ChangeStatus(h, a, status) ==
  /\ "status" \in setting.routes /\ pc[h] = "idle" /\ Live(a)
  /\ LET seen == lot[a].status
         j == [NoJob EXCEPT !.route = "status", !.lot = a, !.status = status,
                            !.seen = seen]
     IN GotoWith(h, IF status = "confirmed"
                    THEN IF seen \in Review THEN "reopen" ELSE "confirmRead"
                    ELSE IF seen = "confirmed" THEN "undoRead" ELSE "statusWrite", j)
  /\ UNCHANGED <<lot, item, orderVars, line, stockVars>>

(***************************************************************************)
(* _pg_reopen_linked_sale_orders_for_assignment_txn                        *)
(***************************************************************************)
Reopened(orders, a) ==
  [o \in DOMAIN orders |->
     IF o \in LinkedOrders(a) /\ orders[o].state = "cancel"
     THEN [orders[o] EXCEPT !.state = "draft"] ELSE orders[o]]

(***************************************************************************)
(* _pg_sync_linked_sale_orders_for_assignment_txn: an order whose lots are *)
(* all payment_cancelled is cancelled, any other one reopened.  It counts  *)
(* lots once but cancelled lots once for each of their lines.              *)
(***************************************************************************)
Synced(orders, a, rows) ==
  LET lotsOf(o) == {line[l].lot : l \in OrderLines(o)}
      cancelled(o) == {l \in OrderLines(o) :
                         /\ rows[line[l].lot].presence = "live"
                         /\ rows[line[l].lot].status = "payment_cancelled"}
  IN [o \in DOMAIN orders |->
        IF o \notin LinkedOrders(a) \/ ~orders[o].live THEN orders[o]
        ELSE IF Cardinality(lotsOf(o)) = Cardinality(cancelled(o))
             THEN [orders[o] EXCEPT !.state = "cancel", !.payment = "unpaid"]
             ELSE IF orders[o].state = "cancel"
                  THEN [orders[o] EXCEPT !.state = "draft", !.payment = "unpaid"]
                  ELSE orders[o]]

Reopen(h) ==
  /\ pc[h] = "reopen"
  /\ order' = Reopened(order, job[h].lot)
  /\ SetStatus(job[h].lot, "assigned")
  /\ Goto(h, "confirmRead")
  /\ UNCHANGED <<item, buyerOrder, setting, line, stockVars>>

StatusSeen(h) ==
  /\ pc[h] = "statusSeen"
  /\ IF Live(job[h].lot)
     THEN GotoWith(h, "statusWrite", [job[h] EXCEPT !.seen = lot[job[h].lot].status])
     ELSE Finish(h)
  /\ UNCHANGED <<lot, item, orderVars, line, stockVars>>

StatusWrite(h) ==
  /\ pc[h] = "statusWrite"
  /\ LET a == job[h].lot
         reopened == Reopened(order, a)
         restored == IF job[h].seen \notin Review \/ job[h].status \notin Open THEN order
                     ELSE IF Live(a) THEN Synced(reopened, a, lot) ELSE reopened
     IN /\ SetStatus(a, job[h].status)
        /\ IF job[h].status \in Review
           THEN /\ ItemsFree(h, a)
                /\ item' = [item EXCEPT ![a] = Unreserved(a)]
                /\ order' = Synced(restored, a, lot')
           ELSE /\ order' = restored
                /\ UNCHANGED item
  /\ Finish(h)
  /\ UNCHANGED <<buyerOrder, setting, line, stockVars>>

(***************************************************************************)
(* _auto_cancel_overdue_payment_reviews: listing the lots cancels those    *)
(* that have waited for their payment too long; it selects them and then   *)
(* writes them by their ids, the buyer's order left as it is.              *)
(***************************************************************************)
OverdueRead(h, a) ==
  /\ "overdue" \in setting.routes /\ pc[h] = "idle"
  /\ Live(a) /\ lot[a].status = "payment_review"
  /\ GotoWith(h, "overdueWrite", [NoJob EXCEPT !.route = "overdue", !.lot = a])
  /\ UNCHANGED <<lot, item, orderVars, line, stockVars>>

OverdueWrite(h) ==
  /\ pc[h] = "overdueWrite"
  /\ SetStatus(job[h].lot, "payment_cancelled")
  /\ Finish(h)
  /\ UNCHANGED <<item, orderVars, line, stockVars>>

-----------------------------------------------------------------------------
(* delete_pending_winner_assignment *)

Delete(h, a) ==
  /\ "delete" \in setting.routes /\ pc[h] = "idle" /\ Live(a)
  /\ GotoWith(h, IF lot[a].status = "confirmed" THEN "undoRead" ELSE "deleteItems",
              [NoJob EXCEPT !.route = "delete", !.lot = a])
  /\ UNCHANGED <<lot, item, orderVars, line, stockVars>>

(***************************************************************************)
(* The lot is read again for the products to remove, one by one.           *)
(***************************************************************************)
DeleteItems(h) ==
  /\ pc[h] = "deleteItems"
  /\ IF Live(job[h].lot)
     THEN GotoWith(h, "removeRead", [job[h] EXCEPT !.todo = Items(job[h].lot)])
     ELSE Finish(h)
  /\ UNCHANGED <<lot, item, orderVars, line, stockVars>>

(***************************************************************************)
(* The last transaction deletes the lot's lines, its products and its      *)
(* result, and the orders that have no line left.                          *)
(***************************************************************************)
DeleteLot(h) ==
  /\ pc[h] = "deleteLot"
  /\ LET a == job[h].lot
     IN /\ ItemsFree(h, a)
        /\ IF Live(a)
           THEN /\ DeleteLines(LotLines(a))
                /\ item' = [item EXCEPT ![a] = [p \in Products |-> NoItem]]
                /\ lot' = [lot EXCEPT ![a].presence = "deleted"]
                /\ order' = [o \in DOMAIN order |->
                     IF o \in LinkedOrders(a) /\ OrderLines(o) \subseteq LotLines(a)
                     THEN [order[o] EXCEPT !.live = FALSE] ELSE order[o]]
           ELSE UNCHANGED <<line, item, lot, order>>
  /\ Finish(h)
  /\ UNCHANGED <<buyerOrder, setting, stockVars>>

-----------------------------------------------------------------------------
(* The order route: an order is marked a paid sale, or cancelled, and its  *)
(* stock brought into line                                                 *)

OrderRequest(h, o) ==
  /\ "order" \in setting.routes /\ pc[h] = "idle" /\ order[o].live
  /\ \E pay \in BOOLEAN :
       GotoWith(h, "orderUpdate", [NoJob EXCEPT !.route = "order", !.order = o, !.pay = pay])
  /\ UNCHANGED <<lot, item, orderVars, line, stockVars>>

OrderUpdate(h) ==
  /\ pc[h] = "orderUpdate"
  /\ order' = [order EXCEPT ![job[h].order] =
       IF job[h].pay THEN [@ EXCEPT !.state = "sale", !.payment = "paid"]
       ELSE [@ EXCEPT !.state = "cancel", !.payment = "unpaid"]]
  /\ Goto(h, "orderSync")
  /\ UNCHANGED <<lot, item, buyerOrder, setting, line, stockVars>>

OrderSync(h) ==
  /\ pc[h] = "orderSync"
  /\ SyncOrder(job[h].order)
  /\ Finish(h)
  /\ UNCHANGED <<lot, item, orderVars>>

-----------------------------------------------------------------------------
(* Failures *)

(***************************************************************************)
(* A worker or the host fails: what was committed stays.                   *)
(***************************************************************************)
Crash(h) ==
  /\ "crash" \in setting.failures /\ pc[h] # "idle"
  /\ Finish(h)
  /\ UNCHANGED <<lot, item, orderVars, line, stockVars>>

(***************************************************************************)
(* A transaction fails and its error is swallowed: of a scan's undo, of a  *)
(* reversal inside an undo, of the removal of an item of a deleted lot.    *)
(***************************************************************************)
Swallow(h) ==
  /\ "error" \in setting.failures
  /\ \/ /\ job[h].route = "scan" /\ pc[h] \in {"snapshot", "unconfirm"}
        /\ Goto(h, "scanRead")
     \/ /\ pc[h] = "reverse"
        /\ \E o \in job[h].orders :
             GotoWith(h, "reverse", [job[h] EXCEPT !.orders = @ \ {o}])
     \/ /\ job[h].route = "delete" /\ pc[h] = "remove"
        /\ Goto(h, "removeRead")
  /\ UNCHANGED <<lot, item, orderVars, line, stockVars>>

-----------------------------------------------------------------------------
(* The specification *)

Request(h) ==
  \/ \E a \in Lots :
       \/ \E p \in Products : Scan(h, a, p) \/ RemoveRequest(h, a, p)
       \/ Confirm(h, a) \/ Undo(h, a) \/ Delete(h, a) \/ Approve(h, a)
       \/ OverdueRead(h, a)
       \/ \E status \in setting.statuses : ChangeStatus(h, a, status)
  \/ \E o \in DOMAIN order : OrderRequest(h, o)

Step(h) ==
  \/ ScanRead(h) \/ Assign(h) \/ RemoveRead(h) \/ RemoveItem(h)
  \/ ConfirmRead(h) \/ LookUp(h) \/ Create(h) \/ ConfirmFind(h) \/ ConfirmLot(h)
  \/ Apply(h) \/ ReleaseReservation(h) \/ ManualConfirm(h)
  \/ UndoRead(h) \/ Snapshot(h) \/ ReverseOrders(h) \/ Unconfirm(h)
  \/ Reopen(h) \/ StatusSeen(h) \/ StatusWrite(h)
  \/ DeleteItems(h) \/ DeleteLot(h)
  \/ OverdueWrite(h) \/ OrderUpdate(h) \/ OrderSync(h)

Next ==
  \/ \E a \in setting.lots : Queue(a) \/ Reserve(a)
  \/ \E h \in setting.handlers : Request(h) \/ Step(h) \/ Crash(h) \/ Swallow(h)

Spec == Init /\ [][Next]_vars

-----------------------------------------------------------------------------
(* Properties *)

(***************************************************************************)
(* The shape of the rows and of what a handler carries: the buyer's order  *)
(* is one that exists, whichever operators create and delete orders.       *)
(***************************************************************************)
TypeOK ==
  /\ lot \in [Lots -> LotRow]
  /\ item \in [Lots -> [Products -> ItemRow]]
  /\ order \in Seq(OrderRow)
  /\ buyerOrder \in 0..Len(order) /\ IsSetting(setting)
  /\ line \in Seq(LineRow)
  /\ DOMAIN onHand = Products
  /\ movements \in Seq(Movement)
  /\ pc \in [Handlers -> HandlerPC]
  /\ job \in [Handlers -> Job]

(***************************************************************************)
(* Stock and movement history move together, as in the sale order module:  *)
(* a handler's several transactions never move one without the other.      *)
(***************************************************************************)
StockMovesWithLedger == Ledger!LedgerSpec

(***************************************************************************)
(* A product of a lot that is there is never on two lines at once:         *)
(* confirmations of a lot by two operators, or by an operator and the      *)
(* packing slip approval, do not sell it twice, whatever is undone,        *)
(* scanned or cancelled between their look-ups and their transactions.     *)
(***************************************************************************)
LotSoldOnce ==
  \A k, l \in DOMAIN line :
    /\ line[k].live /\ line[l].live /\ Live(line[l].lot)
    /\ line[k].lot = line[l].lot /\ line[k].product = line[l].product
    => k = l

OneHandler == \E h \in Handlers : setting.handlers = {h}

Quiet == \A h \in Handlers : pc[h] = "idle"

(***************************************************************************)
(* With one operator, at rest, and as long as no error of a transaction is *)
(* swallowed, a confirmed lot's products are on sale order lines in the    *)
(* quantities scanned, and a lot that is not confirmed has none: the       *)
(* status and the order agree after any history of confirmations, undos,   *)
(* status changes, scans and crashes between two transactions.             *)
(***************************************************************************)
LotAgrees(a) ==
  IF Live(a) /\ lot[a].status = "confirmed"
  THEN \A p \in Items(a) : \E l \in LotLines(a) :
         line[l].product = p /\ line[l].qty = item[a][p].qty
  ELSE LotLines(a) = {}

Undisturbed == OneHandler /\ "error" \notin setting.failures

LinesMatchStatus == Undisturbed /\ Quiet => \A a \in Lots : LotAgrees(a)

(***************************************************************************)
(* With one operator, and as long as no error is swallowed, until a        *)
(* product has been given back or released, its stock is what there was    *)
(* less the quantities of the applied lines: a lot takes stock exactly     *)
(* while its line is applied.  An undo whose reversal failed deletes an    *)
(* applied line, and the stock stays out.                                  *)
(***************************************************************************)
NeverReturned(p) ==
  \A i \in DOMAIN movements :
    movements[i].product = p => movements[i].reference = "sale_order_line"

StockIsOutForAppliedLines ==
  Undisturbed => \A p \in Products :
    NeverReturned(p) =>
      onHand[p] = Opening[p]
        - Ledger!SumFunctionOnSet([l \in DOMAIN line |-> line[l].qty],
            {l \in DOMAIN line :
               line[l].live /\ line[l].applied /\ line[l].product = p})

(***************************************************************************)
(* A lot whose products are still pending moves no stock: while nothing    *)
(* has been sold, the stock is as it was (the recovery playbook: deleted   *)
(* pending duplicate without confirmed product, no stock change).          *)
(***************************************************************************)
PendingLotMovesNoStock == line = << >> => onHand = Opening
=============================================================================
