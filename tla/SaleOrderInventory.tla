------------------------- MODULE SaleOrderInventory -------------------------
(***************************************************************************)
(* Sale orders, their lines and the stock they move.  Request handlers run *)
(* on threads of their own.  A handler reads the order or the line on one  *)
(* connection, then writes on another, so that what it read may be stale;  *)
(* the apply and reverse transactions are modelled statement by statement, *)
(* under the isolation the pool leaves them: READ COMMITTED, no explicit   *)
(* row locks, only those an UPDATE takes until its transaction ends.       *)
(***************************************************************************)
EXTENDS Integers, Sequences, FiniteSets, TLC

CONSTANTS
  Orders,          \* sale_orders.id
  Lines,           \* sale_order_lines.id, given out in increasing order
  Products,        \* products.id
  NoProduct,       \* a line whose product_id is NULL
  Handlers,        \* request threads
  Quantities,      \* the quantities a request may carry
  OrderSource,     \* sale_orders.order_source, a function of the order
  LiveReference,   \* the orders with a session and a tiktok_live: reference
  OrderChanges,    \* order -> the <<state, payment_status>> pairs of requests
  LineRoutes,      \* which of the routes that add or delete lines are in use
  Edits,           \* the <<line, product, quantity>> of requests to edit lines
  NewLineApplied,  \* the inventory_applied values a new line may carry
  Failures,        \* whether handlers may fail half-way
  InitialLines,    \* the lines there may be at first
  Opening          \* products.on_hand_qty at first

VARIABLES
  order,      \* order -> state and payment_status
  line,       \* line -> the row, its presence and its order
  onHand,     \* products.on_hand_qty
  movements,  \* inventory_movements, in the order they commit
  pc,         \* handler -> where it is
  req,        \* handler -> the request and what it has read
  tx          \* handler -> its open apply or reverse transaction

vars == <<order, line, onHand, movements, pc, req, tx>>

Ledger == INSTANCE StockLedger WITH onHand <- onHand, movements <- movements

-----------------------------------------------------------------------------
(* Types *)

States   == {"draft", "sale", "cancel"}
Payments == {"unpaid", "paid"}
Unchanged == "keep"    \* the request does not carry the field

OrderRow == [state : States, payment : Payments]

(***************************************************************************)
(* Two fields are history and no columns: given, for a line inserted with  *)
(* inventory_applied set by its request, the products it has had since;    *)
(* altered, that its quantity was edited while the flag was set.           *)
(***************************************************************************)
LineRow ==
  [presence : {"unused", "live", "deleted"}, order : Orders,
   product : Products \cup {NoProduct}, qty : Quantities, applied : BOOLEAN,
   given : SUBSET (Products \cup {NoProduct}), altered : BOOLEAN]

Movement ==
  [reference : {"sale_order_line", "sale_order", "sale_order_cancel"},
   id : Lines \cup Orders, product : Products, delta : Int]

(***************************************************************************)
(* A row the loop of an apply or reverse transaction goes over: what its   *)
(* first SELECT returned.                                                  *)
(***************************************************************************)
LoopRow == [id : Lines, product : Products, qty : Quantities, applied : BOOLEAN]

Request ==
  [route : {"order", "label"}, order : Orders, oldState : States,
   state : States \cup {Unchanged}, payment : Payments \cup {Unchanged},
   line : Lines, product : Products \cup {NoProduct}, qty : Quantities,
   applied : BOOLEAN]

Transaction ==
  [mode : {"apply", "reverse"}, stage : {"sync", "route"}, todo : SUBSET LoopRow,
   seen : BOOLEAN, staged : Seq(Movement), flags : SUBSET Lines]

HandlerPC ==
  {"idle", "update", "sync", "begin", "loop", "write",
   "lineWrite", "lineDelete", "labelLine", "labelMove"}

ASSUME ConstantTypes ==
  /\ Lines \subseteq Nat /\ Lines # {} /\ Orders # {} /\ Products # {}
  /\ NoProduct \notin Products
  /\ Quantities \subseteq Nat /\ 1 \in Quantities
  /\ OrderSource \in [Orders -> {"whatnot", "tiktok_live"}]
  /\ LiveReference \subseteq Orders
  /\ OrderChanges \in
       [Orders -> SUBSET ((States \cup {Unchanged}) \X (Payments \cup {Unchanged}))]
  /\ LineRoutes \subseteq {"add", "label", "delete"}
  /\ Edits \subseteq Lines \X (Products \cup {NoProduct}) \X Quantities
  /\ NewLineApplied \subseteq BOOLEAN
  /\ Failures \in BOOLEAN
  /\ InitialLines \subseteq [Lines -> LineRow]
  /\ Opening \in [Products -> Int]
  /\ Unchanged \notin States \cup Payments

ASSUME InitialLinesMarked ==
  \A rows \in InitialLines, l \in Lines :
    /\ rows[l].presence = "unused" => ~rows[l].applied
    /\ rows[l].applied => rows[l].product \in rows[l].given

-----------------------------------------------------------------------------
(* The rules of the code *)

(***************************************************************************)
(* Stock is out while the order is a paid sale; a TikTok live order must   *)
(* also have its session and its import reference.                         *)
(***************************************************************************)
ShouldBeApplied(o) ==
  /\ order[o].state = "sale"
  /\ order[o].payment = "paid"
  /\ OrderSource[o] = "tiktok_live" => o \in LiveReference

(***************************************************************************)
(* float(line.get("qty") or 1): a line of quantity zero moves one unit.    *)
(***************************************************************************)
MovedQty(q) == IF q = 0 THEN 1 ELSE q

ProductLines(o) ==
  {l \in Lines : /\ line[l].presence = "live"
                 /\ line[l].order = o
                 /\ line[l].product # NoProduct}

EveryLine(o) == ProductLines(o)

(***************************************************************************)
(* The lines a reversal goes over: those flagged inventory_applied.        *)
(***************************************************************************)
LinesToReverse(o) == {l \in ProductLines(o) : line[l].applied}

LoopRows(ls) ==
  {[id |-> l, product |-> line[l].product, qty |-> line[l].qty,
    applied |-> line[l].applied] : l \in ls}

(***************************************************************************)
(* The rows a handler's statements see: those committed and its own.       *)
(***************************************************************************)
Visible(h) == movements \o tx[h].staged

(***************************************************************************)
(* The movement that already accounts for a line: its own, or a whole-     *)
(* order one of its product, recorded by the packing slip import.          *)
(***************************************************************************)
AnyProductMovement(o, row, rows) ==
  \E i \in DOMAIN rows :
    /\ rows[i].product = row.product
    /\ rows[i].reference \in {"sale_order_line", "sale_order"}

DeductionExists(o, row, rows) ==
  \E i \in DOMAIN rows :
    /\ rows[i].product = row.product
    /\ \/ rows[i].reference = "sale_order_line" /\ rows[i].id = row.id
       \/ rows[i].reference = "sale_order" /\ rows[i].id = o

NoReturnCheck(o, row, rows) == FALSE

ReturnExists(o, row, rows) ==
  \E i \in DOMAIN rows :
    /\ rows[i].reference = "sale_order_cancel"
    /\ rows[i].id = o
    /\ rows[i].product = row.product

DeductionOfOne(row) ==
  [reference |-> "sale_order_line", id |-> row.id, product |-> row.product,
   delta |-> -1]

Deduction(row) ==
  [reference |-> "sale_order_line", id |-> row.id, product |-> row.product,
   delta |-> -MovedQty(row.qty)]

Return(o, row) ==
  [reference |-> "sale_order_cancel", id |-> o, product |-> row.product,
   delta |-> MovedQty(row.qty)]
-----------------------------------------------------------------------------
(* Initial state *)

NoRequest ==
  [route |-> "order", order |-> CHOOSE o \in Orders : TRUE, oldState |-> "draft",
   state |-> Unchanged, payment |-> Unchanged,
   line |-> CHOOSE l \in Lines : TRUE, product |-> NoProduct, qty |-> 1,
   applied |-> FALSE]

NoTransaction ==
  [mode |-> "apply", stage |-> "sync", todo |-> {}, seen |-> FALSE,
   staged |-> << >>, flags |-> {}]

Init ==
  /\ order = [o \in Orders |-> [state |-> "draft", payment |-> "unpaid"]]
  /\ line \in InitialLines
  /\ onHand = Opening
  /\ movements = << >>
  /\ pc = [h \in Handlers |-> "idle"]
  /\ req = [h \in Handlers |-> NoRequest]
  /\ tx = [h \in Handlers |-> NoTransaction]

Finish(h) ==
  /\ pc' = [pc EXCEPT ![h] = "idle"]
  /\ req' = [req EXCEPT ![h] = NoRequest]
  /\ tx' = [tx EXCEPT ![h] = NoTransaction]

-----------------------------------------------------------------------------
(* The order route: read, update, synchronise the stock, apply or reverse  *)
(* once more when the state has changed.                                   *)

(***************************************************************************)
(* A bound: no request concerns an order that has never had a line.        *)
(***************************************************************************)
HasLines(o) == \E l \in Lines : line[l].presence # "unused" /\ line[l].order = o

(***************************************************************************)
(* mutate_sale_order_update: current = get_sale_order(..); cancelling also *)
(* sets the payment status.                                                *)
(***************************************************************************)
ReadOrder(h, o) ==
  /\ pc[h] = "idle"
  /\ HasLines(o)
  /\ \E change \in OrderChanges[o] :
       req' = [req EXCEPT ![h] = [NoRequest EXCEPT
         !.order = o, !.oldState = order[o].state, !.state = change[1],
         !.payment = IF change[1] = "cancel" THEN "unpaid" ELSE change[2]]]
  /\ pc' = [pc EXCEPT ![h] = "update"]
  /\ UNCHANGED <<order, line, onHand, movements, tx>>

(***************************************************************************)
(* The packing slip import marks the buyer's order a paid sale before it   *)
(* adds the line of an item of the slip.                                   *)
(***************************************************************************)
ReadSlip(h, o, p) ==
  /\ pc[h] = "idle"
  /\ "label" \in LineRoutes
  /\ req' = [req EXCEPT ![h] = [NoRequest EXCEPT
       !.route = "label", !.order = o, !.oldState = order[o].state,
       !.state = "sale", !.payment = "paid", !.product = p]]
  /\ pc' = [pc EXCEPT ![h] = "update"]
  /\ UNCHANGED <<order, line, onHand, movements, tx>>

UpdateUnset(h) ==
  /\ pc[h] = "update"
  /\ order' = [order EXCEPT ![req[h].order] =
       [state |-> req[h].state, payment |-> req[h].payment]]
  /\ pc' = [pc EXCEPT ![h] = "sync"]
  /\ UNCHANGED <<line, onHand, movements, req, tx>>

(***************************************************************************)
(* The transaction of update_sale_order.                                   *)
(***************************************************************************)
UpdateOrder(h) ==
  /\ pc[h] = "update"
  /\ order' = [order EXCEPT ![req[h].order] =
       [state   |-> IF req[h].state = Unchanged THEN @.state ELSE req[h].state,
        payment |-> IF req[h].payment = Unchanged THEN @.payment
                    ELSE req[h].payment]]
  /\ pc' = [pc EXCEPT ![h] = "sync"]
  /\ UNCHANGED <<line, onHand, movements, req, tx>>

OpenTransaction(h, mode, stage) ==
  /\ pc' = [pc EXCEPT ![h] = "begin"]
  /\ tx' = [tx EXCEPT ![h] =
              [NoTransaction EXCEPT !.mode = mode, !.stage = stage]]

(***************************************************************************)
(* After the synchronisation the order route applies or reverses again     *)
(* when the state it asked for is not the one it read at first; the        *)
(* packing slip import goes on to its line.                                *)
(***************************************************************************)
RouteRepeats(h) ==
  /\ req[h].route = "order"
  /\ req[h].state \in {"sale", "cancel"}
  /\ req[h].state # req[h].oldState

LeaveUnlessRepeated(h, stage) ==
  IF RouteRepeats(h)
  THEN /\ OpenTransaction(h, IF req[h].state = "sale" THEN "apply" ELSE "reverse",
                          "route")
       /\ UNCHANGED req
  ELSE Finish(h)

LeaveStage(h, stage) ==
  IF stage = "sync" /\ RouteRepeats(h)
  THEN /\ OpenTransaction(h, IF req[h].state = "sale" THEN "apply" ELSE "reverse",
                          "route")
       /\ UNCHANGED req
  ELSE IF req[h].route = "label"
       THEN /\ pc' = [pc EXCEPT ![h] = "labelLine"]
            /\ tx' = [tx EXCEPT ![h] = NoTransaction]
            /\ UNCHANGED req
       ELSE Finish(h)

(***************************************************************************)
(* _sync_sale_order_inventory_state: the order is read on a connection of  *)
(* its own and decides which transaction follows; TikTok live orders are   *)
(* not reversed here.                                                      *)
(***************************************************************************)
SyncRead(h) ==
  /\ pc[h] = "sync"
  /\ LET o == req[h].order IN
       IF ShouldBeApplied(o)
       THEN OpenTransaction(h, "apply", "sync") /\ UNCHANGED req
       ELSE IF OrderSource[o] = "tiktok_live"
            THEN LeaveStage(h, "sync")
            ELSE OpenTransaction(h, "reverse", "sync") /\ UNCHANGED req
  /\ UNCHANGED <<order, line, onHand, movements>>

-----------------------------------------------------------------------------
(* apply_sale_order_inventory and reverse_sale_order_inventory *)

(***************************************************************************)
(* The first statements: apply re-reads the order and gives up unless it   *)
(* should be applied; reverse does not look at the order's state.          *)
(***************************************************************************)
BeginTransaction(h) ==
  /\ pc[h] = "begin"
  /\ LET o == req[h].order
     IN IF tx[h].mode = "apply" /\ ~ShouldBeApplied(o)
        THEN LeaveStage(h, tx[h].stage)
        ELSE /\ pc' = [pc EXCEPT ![h] = "loop"]
             /\ tx' = [tx EXCEPT ![h].todo =
                  LoopRows(IF tx[h].mode = "apply" THEN ProductLines(o)
                           ELSE LinesToReverse(o))]
             /\ UNCHANGED req
  /\ UNCHANGED <<order, line, onHand, movements>>

IsNextRow(h, row) ==
  /\ row \in tx[h].todo
  /\ \A other \in tx[h].todo : row.id <= other.id

(***************************************************************************)
(* The SELECT for an existing movement.  Apply leaves a line alone that is *)
(* flagged and accounted for.                                              *)
(***************************************************************************)
CheckRow(h) ==
  /\ pc[h] = "loop"
  /\ \E row \in tx[h].todo :
       /\ IsNextRow(h, row)
       /\ LET o == req[h].order
              seen == IF tx[h].mode = "apply"
                      THEN DeductionExists(o, row, Visible(h))
                      ELSE ReturnExists(o, row, Visible(h))
          IN IF tx[h].mode = "apply" /\ seen /\ row.applied
             THEN /\ tx' = [tx EXCEPT ![h].todo = @ \ {row}]
                  /\ UNCHANGED pc
             ELSE /\ tx' = [tx EXCEPT ![h].seen = seen]
                  /\ pc' = [pc EXCEPT ![h] = "write"]
  /\ UNCHANGED <<order, line, onHand, movements, req>>

(***************************************************************************)
(* Rows an UPDATE has written stay locked until their transaction ends.    *)
(***************************************************************************)
LocksProduct(g, p) ==
  \E i \in DOMAIN tx[g].staged : tx[g].staged[i].product = p
LocksLine(g, l) == l \in tx[g].flags

LineFree(h, l) == \A g \in Handlers \ {h} : ~LocksLine(g, l)

NeedsProduct(h, row) == ~tx[h].seen

Blockers(h) ==
  {g \in Handlers \ {h} :
     /\ pc[h] = "write"
     /\ \E row \in tx[h].todo :
          /\ IsNextRow(h, row)
          /\ \/ NeedsProduct(h, row) /\ LocksProduct(g, row.product)
             \/ LocksLine(g, row.id)}

(***************************************************************************)
(* INSERT the movement and UPDATE the product unless one exists, then      *)
(* UPDATE the line; the step waits for the rows another transaction holds. *)
(***************************************************************************)
WriteRow(h) ==
  /\ pc[h] = "write"
  /\ Blockers(h) = {}
  /\ \E row \in tx[h].todo :
       /\ IsNextRow(h, row)
       /\ tx' = [tx EXCEPT
            ![h].todo = @ \ {row},
            ![h].seen = FALSE,
            ![h].flags = @ \cup {row.id},
            ![h].staged =
               IF tx[h].seen THEN @
               ELSE Append(@, IF tx[h].mode = "apply" THEN Deduction(row)
                              ELSE Return(req[h].order, row))]
  /\ pc' = [pc EXCEPT ![h] = "loop"]
  /\ UNCHANGED <<order, line, onHand, movements, req>>

LastRowOnly(h) ==
  LET rows == tx[h].staged
  IN Ledger!Moved(onHand, IF rows = << >> THEN rows ELSE <<rows[Len(rows)]>>)

NewOnHand(h) == Ledger!Moved(onHand, tx[h].staged)

(***************************************************************************)
(* The transaction ends: rows deleted meanwhile are not flagged.           *)
(***************************************************************************)
CommitTransaction(h) ==
  /\ pc[h] = "loop"
  /\ tx[h].todo = {}
  /\ movements' = Visible(h)
  /\ onHand' = NewOnHand(h)
  /\ line' = [l \in Lines |->
       IF l \in tx[h].flags /\ line[l].presence = "live"
       THEN [line[l] EXCEPT !.applied = (tx[h].mode = "apply")]
       ELSE line[l]]
  /\ LeaveStage(h, tx[h].stage)
  /\ UNCHANGED order

(***************************************************************************)
(* A set of transactions waiting for one another: the database ends one,   *)
(* whose handler answers with an error.                                    *)
(***************************************************************************)
Deadlocked(h) ==
  \E S \in SUBSET Handlers :
    h \in S /\ \A g \in S : Blockers(g) \cap S # {}

BreakDeadlock(h) ==
  /\ Deadlocked(h)
  /\ Finish(h)
  /\ UNCHANGED <<order, line, onHand, movements>>

(***************************************************************************)
(* A connection, a worker or the host fails: the open transaction is       *)
(* rolled back, what was committed stays.                                  *)
(***************************************************************************)
Fail(h) ==
  /\ Failures
  /\ pc[h] # "idle"
  /\ Finish(h)
  /\ UNCHANGED <<order, line, onHand, movements>>

-----------------------------------------------------------------------------
(* The line routes: add, edit, delete, and the packing slip's line         *)

NextLine(l) ==
  /\ line[l].presence = "unused"
  /\ \A k \in Lines : line[k].presence = "unused" => l <= k

NewLine(l, o, p, q, a) ==
  line' = [line EXCEPT ![l] =
    [presence |-> "live", order |-> o, product |-> p, qty |-> q, applied |-> a,
     given |-> IF a THEN {p} ELSE {}, altered |-> FALSE]]

(***************************************************************************)
(* add_sale_order_line, one transaction.  The request may set the flag,    *)
(* and no stock moves.                                                     *)
(***************************************************************************)
AddLine(o) ==
  /\ "add" \in LineRoutes
  /\ \E l \in Lines, p \in Products \cup {NoProduct},
        q \in Quantities, a \in NewLineApplied :
       NextLine(l) /\ NewLine(l, o, p, q, a)
  /\ UNCHANGED <<order, onHand, movements, pc, req, tx>>

(***************************************************************************)
(* update_sale_order_line reads the row; a change of product is refused    *)
(* when the row read is applied, and inventory_applied, which the route    *)
(* always passes on, can only be given the value read.                     *)
(***************************************************************************)
ReadLineForEdit(h, l) ==
  /\ pc[h] = "idle"
  /\ line[l].presence = "live"
  /\ \E p \in Products \cup {NoProduct}, q \in Quantities :
       /\ <<l, p, q>> \in Edits
       /\ line[l].applied => line[l].product \in {NoProduct, p}
       /\ req' = [req EXCEPT ![h] = [NoRequest EXCEPT
            !.line = l, !.product = p, !.qty = q, !.applied = line[l].applied]]
  /\ pc' = [pc EXCEPT ![h] = "lineWrite"]
  /\ UNCHANGED <<order, line, onHand, movements, tx>>

Edited(row, r) ==
  [row EXCEPT !.product = r.product, !.qty = r.qty, !.applied = r.applied,
              !.given = IF @ = {} THEN @ ELSE @ \cup {r.product},
              !.altered = @ \/ (row.applied /\ r.qty # row.qty)]

WriteLine(h) ==
  /\ pc[h] = "lineWrite"
  /\ LineFree(h, req[h].line)
  /\ line' = IF line[req[h].line].presence = "live"
             THEN [line EXCEPT ![req[h].line] = Edited(@, req[h])]
             ELSE line
  /\ Finish(h)
  /\ UNCHANGED <<order, onHand, movements>>

(***************************************************************************)
(* delete_sale_order_line reads the row and refuses an applied one, then   *)
(* deletes it without looking again.                                       *)
(***************************************************************************)
ReadLineForDelete(h, l) ==
  /\ pc[h] = "idle"
  /\ "delete" \in LineRoutes
  /\ line[l].presence = "live"
  /\ ~line[l].applied
  /\ req' = [req EXCEPT ![h] = [NoRequest EXCEPT !.line = l]]
  /\ pc' = [pc EXCEPT ![h] = "lineDelete"]
  /\ UNCHANGED <<order, line, onHand, movements, tx>>

DeleteLine(h) ==
  /\ pc[h] = "lineDelete"
  /\ LineFree(h, req[h].line)
  /\ line' = [line EXCEPT ![req[h].line].presence = "deleted"]
  /\ Finish(h)
  /\ UNCHANGED <<order, onHand, movements>>

(***************************************************************************)
(* The packing slip import adds the line unless the order has one of that  *)
(* name, then records the movement against the whole order.  (The bound:   *)
(* once Lines is used up there is no further line.)                        *)
(***************************************************************************)
AddSlipLine(h) ==
  /\ pc[h] = "labelLine"
  /\ LET o == req[h].order IN
       IF \/ \E l \in ProductLines(o) : line[l].product = req[h].product
          \/ \A l \in Lines : line[l].presence # "unused"
       THEN Finish(h) /\ UNCHANGED line
       ELSE /\ \E l \in Lines :
                 NextLine(l) /\ NewLine(l, o, req[h].product, 1, FALSE)
            /\ pc' = [pc EXCEPT ![h] = "labelMove"]
            /\ UNCHANGED <<req, tx>>
  /\ UNCHANGED <<order, onHand, movements>>

RecordSlipMovement(h) ==
  /\ pc[h] = "labelMove"
  /\ \A g \in Handlers \ {h} : ~LocksProduct(g, req[h].product)
  /\ LET row == [reference |-> "sale_order", id |-> req[h].order,
                 product |-> req[h].product, delta |-> -1]
     IN /\ movements' = Append(movements, row)
        /\ onHand' = Ledger!Moved(onHand, <<row>>)
  /\ Finish(h)
  /\ UNCHANGED <<order, line>>

-----------------------------------------------------------------------------
(* The specification *)

Step(h) ==
  \/ UpdateOrder(h) \/ SyncRead(h)
  \/ BeginTransaction(h) \/ CheckRow(h) \/ WriteRow(h) \/ CommitTransaction(h)
  \/ WriteLine(h) \/ DeleteLine(h)
  \/ AddSlipLine(h) \/ RecordSlipMovement(h)

NewRequest(h) ==
  \/ \E o \in Orders : ReadOrder(h, o)
  \/ \E o \in Orders, p \in Products : ReadSlip(h, o, p)
  \/ \E l \in Lines : ReadLineForEdit(h, l) \/ ReadLineForDelete(h, l)

Next ==
  \/ \E o \in Orders : AddLine(o)
  \/ \E h \in Handlers :
       NewRequest(h) \/ Step(h) \/ BreakDeadlock(h) \/ Fail(h)

(***************************************************************************)
(* A thread goes on once it has a request, the database grants a row lock  *)
(* in the order it was asked for (so a step that waits for one is strongly *)
(* fair) and looks for deadlocks after a while; requests and failures owe  *)
(* nothing.                                                                *)
(***************************************************************************)
Fairness ==
  \A h \in Handlers : SF_vars(Step(h)) /\ WF_vars(BreakDeadlock(h))

Spec == Init /\ [][Next]_vars

FairSpec == Spec /\ Fairness

-----------------------------------------------------------------------------
(* Properties *)

HandlersTyped ==
  /\ pc \in [Handlers -> HandlerPC]
  /\ req \in [Handlers -> Request]
  /\ tx \in [Handlers -> Transaction]
  /\ \A h \in Handlers :
       /\ req[h].route = "label" => req[h].product \in Products
       /\ pc[h] \in {"labelLine", "labelMove"} => req[h].route = "label"

(***************************************************************************)
(* The shape of the rows and of the handlers' local variables; an import   *)
(* of a packing slip carries a product through all of its stages.          *)
(***************************************************************************)
TypeOK ==
  /\ order \in [Orders -> OrderRow]
  /\ line \in [Lines -> LineRow]
  /\ DOMAIN onHand = Products
  /\ movements \in Seq(Movement)
  /\ HandlersTyped

(***************************************************************************)
(* Whatever the handlers' interleaving, failures and deadlocks, stock and  *)
(* movement history move together: every step that changes on_hand_qty     *)
(* appends movement rows that add up to the change (the atomic movement    *)
(* transaction of _pg_record_inventory_movement_txn).                      *)
(***************************************************************************)
StockMovesWithLedger == Ledger!LedgerSpec

(***************************************************************************)
(* A line flagged inventory_applied has a deduction on record, its own or  *)
(* one of its whole order, unless the request that added it set the flag:  *)
(* no transaction sets it, and no edit with a stale row keeps or restores  *)
(* it, while no stock was taken.                                           *)
(***************************************************************************)
Deducts(rows, l, o) ==
  \E i \in DOMAIN rows :
    \/ rows[i].reference = "sale_order_line" /\ rows[i].id = l
    \/ rows[i].reference = "sale_order" /\ rows[i].id = o

Accounted(l, rows) == Deducts(rows, l, line[l].order) \/ line[l].given # {}

AppliedHasDeduction ==
  \A l \in Lines : line[l].applied => Accounted(l, movements)

(***************************************************************************)
(* With requests served one at a time, no line's product is deducted twice *)
(* and no order's product is given back twice: the SELECT before each      *)
(* INSERT makes both transactions idempotent, over any history of payment, *)
(* cancellation, edits and rollbacks.                                      *)
(***************************************************************************)
OneMovementPerReference ==
  \A i, j \in DOMAIN movements :
    /\ movements[i].reference = movements[j].reference
    /\ movements[i].reference # "sale_order"
    /\ movements[i].id = movements[j].id
    /\ movements[i].product = movements[j].product
    => i = j

(***************************************************************************)
(* A line of the order that its request flagged has had the product: the   *)
(* stock such a line would give back was never taken.                      *)
(***************************************************************************)
FlaggedByRequest(o, p) ==
  \E l \in Lines : line[l].order = o /\ p \in line[l].given

(***************************************************************************)
(* Stock given back for an order's product was taken for that order before *)
(* (with requests served one at a time), unless a request has added a line *)
(* of that product to the order with inventory_applied already set.        *)
(***************************************************************************)
ReturnFollowsDeduction ==
  \A i \in DOMAIN movements :
    movements[i].reference = "sale_order_cancel" =>
      \/ FlaggedByRequest(movements[i].id, movements[i].product)
      \/ \E j \in 1..(i - 1) :
           /\ movements[j].product = movements[i].product
           /\ \/ /\ movements[j].reference = "sale_order_line"
                 /\ line[movements[j].id].order = movements[i].id
              \/ /\ movements[j].reference = "sale_order"
                 /\ movements[j].id = movements[i].id

(***************************************************************************)
(* What the movements of an order have done to a product.                  *)
(***************************************************************************)
RowsOfOrder(o, p) ==
  {i \in DOMAIN movements :
     /\ movements[i].product = p
     /\ IF movements[i].reference = "sale_order_line"
          THEN line[movements[i].id].order = o ELSE movements[i].id = o}

NetOfOrder(o, p) == Ledger!NetOfRows(movements, RowsOfOrder(o, p))

AppliedQty(o, p) ==
  Ledger!SumFunctionOnSet([l \in Lines |-> MovedQty(line[l].qty)],
    {l \in ProductLines(o) : line[l].product = p /\ line[l].applied})

Quiet == \A h \in Handlers : pc[h] = "idle"

(***************************************************************************)
(* A request has set the flag or the flagged quantity of one of the        *)
(* order's lines of the product, which moves no stock.                     *)
(***************************************************************************)
SetByRequest(o, p) ==
  \E l \in ProductLines(o) :
    line[l].product = p /\ (line[l].given # {} \/ line[l].altered)

(***************************************************************************)
(* Until an order's product has been given back or imported from a packing *)
(* slip, the stock its movements took is exactly the quantity of its       *)
(* applied lines, also after a failure between the order update and the    *)
(* stock transaction, unless one of these lines was added with its flag    *)
(* set or had its quantity edited after that.                              *)
(***************************************************************************)
FirstSaleTakesItsQuantity ==
  Quiet =>
    \A o \in Orders, p \in Products :
      /\ ~SetByRequest(o, p)
      /\ \A i \in DOMAIN movements :
           ~ /\ movements[i].reference \in {"sale_order", "sale_order_cancel"}
             /\ movements[i].id = o /\ movements[i].product = p
      => NetOfOrder(o, p) = -AppliedQty(o, p)

(***************************************************************************)
(* A paid sale's stock is out: at rest, the movements of an order that     *)
(* should be applied have taken the quantity of its applied lines (the     *)
(* recovery playbook: a restored sale deducts stock again).                *)
(***************************************************************************)
PaidSaleHoldsItsStock ==
  Quiet =>
    \A o \in Orders, p \in Products :
      ShouldBeApplied(o) => NetOfOrder(o, p) = -AppliedQty(o, p)

(***************************************************************************)
(* A cancelled order (not a TikTok live one) has given back all it took.   *)
(***************************************************************************)
CancelledOrderReturnsAll ==
  Quiet =>
    \A o \in Orders, p \in Products :
      order[o].state = "cancel" /\ OrderSource[o] # "tiktok_live"
      => NetOfOrder(o, p) = 0

(***************************************************************************)
(* A line with applied inventory is never deleted.                         *)
(***************************************************************************)
AppliedLineNotDeleted ==
  \A l \in Lines : line[l].presence = "deleted" => ~line[l].applied

(***************************************************************************)
(* AppliedHasDeduction is not inductive: what a handler is about to flag,  *)
(* or to write back, must be accounted for before it does.  In any         *)
(* transaction that applies, the flagged lines have their deduction among  *)
(* the rows it sees, and so has a line whose deduction it has found; a     *)
(* line's edit writes back the flag it read only if that was accounted for *)
(* already.                                                                *)
(***************************************************************************)
LinesAccounted ==
  \A l \in Lines :
    /\ line[l].presence = "unused" => ~line[l].applied
    /\ line[l].applied => Accounted(l, movements)

HandlerAccounted(h) ==
  /\ pc[h] \notin {"loop", "write"} => tx[h].flags = {} /\ tx[h].todo = {}
  /\ tx[h].mode = "apply" =>
       \A l \in tx[h].flags : /\ line[l].presence # "unused"
                             /\ Deducts(Visible(h), l, line[l].order)
  /\ \A row \in tx[h].todo : /\ line[row.id].presence # "unused"
                             /\ line[row.id].order = req[h].order
  /\ pc[h] = "write" /\ tx[h].mode = "apply" /\ tx[h].seen =>
       \A row \in tx[h].todo :
         IsNextRow(h, row) => Deducts(Visible(h), row.id, req[h].order)
  /\ pc[h] = "lineWrite" =>
       /\ line[req[h].line].presence # "unused"
       /\ req[h].applied => Accounted(req[h].line, movements)

AppliedInv == LinesAccounted /\ \A h \in Handlers : HandlerAccounted(h)

(***************************************************************************)
(* Every request is answered: a handler that has started comes back to     *)
(* idle, although transactions wait for one another's row locks.           *)
(***************************************************************************)
RequestsAnswered ==
  \A h \in Handlers : pc[h] # "idle" ~> pc[h] = "idle"
=============================================================================
