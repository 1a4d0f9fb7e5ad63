---------------------- MODULE SaleOrderInventoryProofs ----------------------
(***************************************************************************)
(* What is proved of SaleOrderInventory for every set of orders, lines,    *)
(* products and handlers.                                                  *)
(***************************************************************************)
EXTENDS SaleOrderInventory, SumProofs, SequenceTheorems, TLAPS

(***************************************************************************)
(* The idle values of a handler's request and transaction are well typed.  *)
(***************************************************************************)
LEMMA IdleValues ==
  /\ NoRequest \in Request
  /\ NoTransaction \in Transaction
  /\ NoTransaction.flags = {}
  /\ NoTransaction.todo = {}
  /\ NoTransaction.staged = << >>
  /\ NoRequest.route = "order"
  /\ NoRequest.product = NoProduct
<1>1. /\ (CHOOSE o \in Orders : TRUE) \in Orders
      /\ (CHOOSE l \in Lines : TRUE) \in Lines
  BY ConstantTypes DEF ConstantTypes
<1>2. NoRequest \in Request
  BY <1>1, ConstantTypes
  DEF ConstantTypes, NoRequest, Request, States, Payments, Unchanged
<1>3. << >> \in Seq(Movement)
  OBVIOUS
<1>4. NoTransaction \in Transaction
  BY <1>3 DEF NoTransaction, Transaction
<1> QED
  BY <1>2, <1>4 DEF NoTransaction, NoRequest

(***************************************************************************)
(* Ending a request or a stage keeps the handler's variables well typed.   *)
(***************************************************************************)
LEMMA FinishType ==
  ASSUME TypeOK, NEW h \in Handlers, Finish(h)
  PROVE  HandlersTyped'
BY IdleValues DEF TypeOK, HandlersTyped, Finish, HandlerPC

LEMMA OpenType ==
  ASSUME TypeOK, NEW h \in Handlers,
         NEW mode \in {"apply", "reverse"}, NEW stage \in {"sync", "route"},
         OpenTransaction(h, mode, stage), UNCHANGED req
  PROVE  HandlersTyped'
<1>1. [NoTransaction EXCEPT !.mode = mode, !.stage = stage] \in Transaction
  BY IdleValues DEF NoTransaction, Transaction
<1> QED
  BY <1>1 DEF TypeOK, HandlersTyped, OpenTransaction, HandlerPC

LEMMA LeaveType ==
  ASSUME TypeOK, NEW h \in Handlers, NEW stage \in {"sync", "route"},
         LeaveStage(h, stage)
  PROVE  HandlersTyped'
<1>1. CASE stage = "sync" /\ RouteRepeats(h)
  <2>1. /\ OpenTransaction(h, IF req[h].state = "sale" THEN "apply" ELSE "reverse",
                           "route")
        /\ UNCHANGED req
    BY <1>1 DEF LeaveStage
  <2> QED
    BY <2>1, OpenType
<1>2. CASE ~(stage = "sync" /\ RouteRepeats(h)) /\ req[h].route = "label"
  BY <1>2, IdleValues DEF LeaveStage, TypeOK, HandlersTyped, HandlerPC
<1>3. CASE ~(stage = "sync" /\ RouteRepeats(h)) /\ req[h].route # "label"
  BY <1>3, FinishType DEF LeaveStage
<1> QED
  BY <1>1, <1>2, <1>3

(***************************************************************************)
(* The rows of an order's product lines are loop rows.                     *)
(***************************************************************************)
LEMMA LoopRowsType ==
  ASSUME TypeOK, NEW o \in Orders, NEW S \in SUBSET ProductLines(o)
  PROVE  LoopRows(S) \subseteq LoopRow
<1>1. ASSUME NEW l \in S
      PROVE  /\ l \in Lines
             /\ line[l].product \in Products
             /\ line[l].qty \in Quantities
             /\ line[l].applied \in BOOLEAN
  BY <1>1 DEF ProductLines, TypeOK, LineRow
<1> QED
  BY <1>1 DEF LoopRows, LoopRow

LEMMA MovementTypes ==
  ASSUME NEW row \in LoopRow, NEW o \in Orders
  PROVE  Deduction(row) \in Movement /\ Return(o, row) \in Movement
<1>1. MovedQty(row.qty) \in Int
  <2>1. Quantities \subseteq Int
    BY ConstantTypes DEF ConstantTypes
  <2>2. row.qty \in Quantities
    BY DEF LoopRow
  <2>3. \A q \in Int : MovedQty(q) \in Int
    BY DEF MovedQty
  <2> QED
    BY <2>1, <2>2, <2>3
<1> QED
  BY <1>1 DEF Deduction, Return, Movement, LoopRow

LEMMA NewLineType ==
  ASSUME TypeOK, NEW l \in Lines, NEW o \in Orders,
         NEW p \in Products \cup {NoProduct}, NEW q \in Quantities,
         NEW a \in BOOLEAN, NewLine(l, o, p, q, a)
  PROVE  line' \in [Lines -> LineRow]
BY DEF TypeOK, NewLine, LineRow

LEMMA TypeInit == Init => TypeOK
<1> SUFFICES ASSUME Init PROVE TypeOK
  OBVIOUS
<1>1. order \in [Orders -> OrderRow]
  BY DEF Init, OrderRow, States, Payments
<1>2. /\ line \in [Lines -> LineRow]
      /\ DOMAIN onHand = Products
  BY ConstantTypes DEF ConstantTypes, Init
<1>3. movements \in Seq(Movement)
  BY DEF Init
<1>4. HandlersTyped
  BY IdleValues DEF Init, HandlersTyped, HandlerPC
<1> QED
  BY <1>1, <1>2, <1>3, <1>4 DEF TypeOK

(***************************************************************************)
(* Accepting a request keeps the types: the record of the request is built *)
(* from what the request carries and what the handler read.                *)
(***************************************************************************)
LEMMA AcceptType ==
  ASSUME TypeOK, NEW h \in Handlers, NEW r \in Request,
         NEW at \in {"update", "lineWrite", "lineDelete"},
         r.route = "label" => r.product \in Products,
         req' = [req EXCEPT ![h] = r],
         pc' = [pc EXCEPT ![h] = at],
         UNCHANGED <<order, line, onHand, movements, tx>>
  PROVE  TypeOK'
<1>1. HandlersTyped'
  BY DEF TypeOK, HandlersTyped, HandlerPC
<1> QED
  BY <1>1 DEF TypeOK

LEMMA TypeRequests ==
  ASSUME TypeOK, NEW h \in Handlers, NewRequest(h)
  PROVE  TypeOK'
<1> USE IdleValues
<1>1. ASSUME NEW o \in Orders, ReadOrder(h, o)
      PROVE  TypeOK'
  <2>1. PICK change \in OrderChanges[o] :
          req' = [req EXCEPT ![h] = [NoRequest EXCEPT
            !.order = o, !.oldState = order[o].state, !.state = change[1],
            !.payment = IF change[1] = "cancel" THEN "unpaid" ELSE change[2]]]
    BY <1>1 DEF ReadOrder
  <2> DEFINE r == [NoRequest EXCEPT
            !.order = o, !.oldState = order[o].state, !.state = change[1],
            !.payment = IF change[1] = "cancel" THEN "unpaid" ELSE change[2]]
  <2>2. /\ change[1] \in States \cup {Unchanged}
        /\ change[2] \in Payments \cup {Unchanged}
    BY ConstantTypes DEF ConstantTypes
  <2>3. order[o].state \in States
    BY DEF TypeOK, OrderRow
  <2>4. r \in Request /\ r.route = "order"
    BY <2>2, <2>3 DEF Request, Payments
  <2>5. req' = [req EXCEPT ![h] = r]
    BY <2>1
  <2> HIDE DEF r
  <2> QED
    BY <1>1, <2>4, <2>5, AcceptType DEF ReadOrder
<1>2. ASSUME NEW o \in Orders, NEW p \in Products, ReadSlip(h, o, p)
      PROVE  TypeOK'
  <2> DEFINE r == [NoRequest EXCEPT
         !.route = "label", !.order = o, !.oldState = order[o].state,
         !.state = "sale", !.payment = "paid", !.product = p]
  <2>1. order[o].state \in States
    BY DEF TypeOK, OrderRow
  <2>2. r \in Request /\ r.product = p
    BY <2>1 DEF Request, States, Payments
  <2>3. req' = [req EXCEPT ![h] = r]
    BY <1>2 DEF ReadSlip
  <2> HIDE DEF r
  <2> QED
    BY <1>2, <2>2, <2>3, AcceptType DEF ReadSlip
<1>3. ASSUME NEW l \in Lines, ReadLineForEdit(h, l)
      PROVE  TypeOK'
  <2>1. PICK p \in Products \cup {NoProduct}, q \in Quantities :
          req' = [req EXCEPT ![h] = [NoRequest EXCEPT
            !.line = l, !.product = p, !.qty = q, !.applied = line[l].applied]]
    BY <1>3 DEF ReadLineForEdit
  <2> DEFINE r == [NoRequest EXCEPT
            !.line = l, !.product = p, !.qty = q, !.applied = line[l].applied]
  <2>2. line[l].applied \in BOOLEAN
    BY DEF TypeOK, LineRow
  <2>3. r \in Request /\ r.route = "order"
    BY <2>2 DEF Request
  <2>4. req' = [req EXCEPT ![h] = r]
    BY <2>1
  <2> HIDE DEF r
  <2> QED
    BY <1>3, <2>3, <2>4, AcceptType DEF ReadLineForEdit
<1>4. ASSUME NEW l \in Lines, ReadLineForDelete(h, l)
      PROVE  TypeOK'
  <2> DEFINE r == [NoRequest EXCEPT !.line = l]
  <2>1. r \in Request /\ r.route = "order"
    BY DEF Request
  <2>2. req' = [req EXCEPT ![h] = r]
    BY <1>4 DEF ReadLineForDelete
  <2> HIDE DEF r
  <2> QED
    BY <1>4, <2>1, <2>2, AcceptType DEF ReadLineForDelete
<1> QED
  BY <1>1, <1>2, <1>3, <1>4 DEF NewRequest

(***************************************************************************)
(* The steps of a handler, one by one.                                     *)
(***************************************************************************)
LEMMA TypeUpdate ==
  ASSUME TypeOK, NEW h \in Handlers, UpdateOrder(h)
  PROVE  TypeOK'
<1>1. req[h] \in Request
  BY DEF TypeOK, HandlersTyped
<1>2. order' \in [Orders -> OrderRow]
  BY <1>1 DEF UpdateOrder, TypeOK, Request, OrderRow, States, Payments, Unchanged
<1>3. HandlersTyped'
  BY DEF UpdateOrder, TypeOK, HandlersTyped, HandlerPC
<1> QED
  BY <1>2, <1>3 DEF UpdateOrder, TypeOK

LEMMA TypeSync ==
  ASSUME TypeOK, NEW h \in Handlers, SyncRead(h)
  PROVE  TypeOK'
<1>1. HandlersTyped'
  BY OpenType, LeaveType DEF SyncRead
<1> QED
  BY <1>1 DEF SyncRead, TypeOK

LEMMA TypeBegin ==
  ASSUME TypeOK, NEW h \in Handlers, BeginTransaction(h)
  PROVE  TypeOK'
<1>1. tx[h] \in Transaction /\ req[h].order \in Orders
  BY DEF TypeOK, HandlersTyped, Request
<1>2. ASSUME tx[h].mode = "apply", ~ShouldBeApplied(req[h].order)
      PROVE  HandlersTyped'
  BY <1>1, <1>2, LeaveType DEF BeginTransaction, Transaction
<1>3. ASSUME ~(tx[h].mode = "apply" /\ ~ShouldBeApplied(req[h].order))
      PROVE  HandlersTyped'
  <2> DEFINE S == IF tx[h].mode = "apply" THEN ProductLines(req[h].order)
                  ELSE LinesToReverse(req[h].order)
  <2>1. S \in SUBSET ProductLines(req[h].order)
    BY DEF LinesToReverse
  <2>2. LoopRows(S) \subseteq LoopRow
    BY <1>1, <2>1, LoopRowsType
  <2>3. tx' = [tx EXCEPT ![h].todo = LoopRows(S)]
    BY <1>3 DEF BeginTransaction
  <2> HIDE DEF S
  <2>4. tx' \in [Handlers -> Transaction]
    BY <1>1, <2>2, <2>3 DEF TypeOK, HandlersTyped, Transaction
  <2> QED
    BY <1>3, <2>4 DEF BeginTransaction, TypeOK, HandlersTyped, HandlerPC
<1> QED
  BY <1>2, <1>3 DEF BeginTransaction, TypeOK

LEMMA TypeCheck ==
  ASSUME TypeOK, NEW h \in Handlers, CheckRow(h)
  PROVE  TypeOK'
<1>1. PICK row \in tx[h].todo :
        LET o == req[h].order
            seen == IF tx[h].mode = "apply"
                    THEN DeductionExists(o, row, Visible(h))
                    ELSE ReturnExists(o, row, Visible(h))
        IN IF tx[h].mode = "apply" /\ seen /\ row.applied
           THEN /\ tx' = [tx EXCEPT ![h].todo = @ \ {row}]
                /\ UNCHANGED pc
           ELSE /\ tx' = [tx EXCEPT ![h].seen = seen]
                /\ pc' = [pc EXCEPT ![h] = "write"]
  BY DEF CheckRow
<1>2. /\ DeductionExists(req[h].order, row, Visible(h)) \in BOOLEAN
      /\ ReturnExists(req[h].order, row, Visible(h)) \in BOOLEAN
  BY DEF DeductionExists, ReturnExists
<1> DEFINE seen == IF tx[h].mode = "apply"
                   THEN DeductionExists(req[h].order, row, Visible(h))
                   ELSE ReturnExists(req[h].order, row, Visible(h))
<1>3. tx' \in [Handlers -> Transaction]
  <2>1. seen \in BOOLEAN
    BY <1>2
  <2>2. \/ tx' = [tx EXCEPT ![h].todo = @ \ {row}]
        \/ tx' = [tx EXCEPT ![h].seen = seen]
    BY <1>1
  <2> HIDE DEF seen
  <2>a. tx \in [Handlers -> Transaction] /\ tx[h] \in Transaction
    BY DEF TypeOK, HandlersTyped
  <2>3. CASE tx' = [tx EXCEPT ![h].todo = @ \ {row}]
    <3>1. [tx[h] EXCEPT !.todo = @ \ {row}] \in Transaction
      BY <2>a DEF Transaction
    <3> QED
      BY <2>3, <2>a, <3>1
  <2>4. CASE tx' = [tx EXCEPT ![h].seen = seen]
    <3>1. [tx[h] EXCEPT !.seen = seen] \in Transaction
      BY <2>a, <2>1 DEF Transaction
    <3> QED
      BY <2>4, <2>a, <3>1
  <2> QED
    BY <2>2, <2>3, <2>4
<1>4. HandlersTyped'
  BY <1>1, <1>3 DEF CheckRow, TypeOK, HandlersTyped, HandlerPC
<1> QED
  BY <1>4 DEF CheckRow, TypeOK

LEMMA TypeWrite ==
  ASSUME TypeOK, NEW h \in Handlers, WriteRow(h)
  PROVE  TypeOK'
<1>1. PICK row \in tx[h].todo :
        tx' = [tx EXCEPT
          ![h].todo = @ \ {row},
          ![h].seen = FALSE,
          ![h].flags = @ \cup {row.id},
          ![h].staged =
             IF tx[h].seen THEN @
             ELSE Append(@, IF tx[h].mode = "apply" THEN Deduction(row)
                            ELSE Return(req[h].order, row))]
  BY DEF WriteRow
<1>2. row \in LoopRow /\ req[h].order \in Orders
  BY DEF TypeOK, HandlersTyped, Transaction, Request
<1>3. Deduction(row) \in Movement /\ Return(req[h].order, row) \in Movement
  BY <1>2, MovementTypes
<1>4. row.id \in Lines
  BY <1>2 DEF LoopRow
<1>5. tx' \in [Handlers -> Transaction]
  BY <1>1, <1>3, <1>4 DEF TypeOK, HandlersTyped, Transaction
<1>6. HandlersTyped'
  BY <1>5 DEF WriteRow, TypeOK, HandlersTyped, HandlerPC
<1> QED
  BY <1>6 DEF WriteRow, TypeOK

LEMMA TypeCommit ==
  ASSUME TypeOK, NEW h \in Handlers, CommitTransaction(h)
  PROVE  TypeOK'
<1>1. tx[h].staged \in Seq(Movement) /\ tx[h].stage \in {"sync", "route"}
  BY DEF TypeOK, HandlersTyped, Transaction
<1>2. movements' \in Seq(Movement)
  BY <1>1 DEF CommitTransaction, Visible, TypeOK
<1>3. DOMAIN onHand' = Products
  BY DEF CommitTransaction, NewOnHand, Ledger!Moved
<1>4. line' \in [Lines -> LineRow]
  <2>1. line' = [l \in Lines |->
          IF l \in tx[h].flags /\ line[l].presence = "live"
          THEN [line[l] EXCEPT !.applied = (tx[h].mode = "apply")]
          ELSE line[l]]
    BY DEF CommitTransaction
  <2>2. \A l \in Lines : line[l] \in LineRow
    BY DEF TypeOK
  <2>3. \A row \in LineRow, b \in BOOLEAN : [row EXCEPT !.applied = b] \in LineRow
    BY DEF LineRow
  <2>4. \A l \in Lines : line'[l] \in LineRow
    <3> SUFFICES ASSUME NEW l \in Lines PROVE line'[l] \in LineRow
      OBVIOUS
    <3> DEFINE b == tx[h].mode = "apply"
    <3>1. b \in BOOLEAN
      OBVIOUS
    <3>2. [line[l] EXCEPT !.applied = b] \in LineRow
      BY <2>2, <2>3, <3>1
    <3> QED
      BY <2>1, <2>2, <3>2
  <2> QED
    BY <2>1, <2>4
<1>5. HandlersTyped'
  BY <1>1, LeaveType DEF CommitTransaction
<1> QED
  BY <1>2, <1>3, <1>4, <1>5 DEF CommitTransaction, TypeOK

(***************************************************************************)
(* An edited row keeps its shape; what the edit leaves alone stays, and    *)
(* the marks of the history only grow.                                     *)
(***************************************************************************)
LEMMA EditedRow ==
  ASSUME NEW row \in LineRow, NEW r \in Request
  PROVE  /\ Edited(row, r) \in LineRow
         /\ Edited(row, r).presence = row.presence
         /\ Edited(row, r).order = row.order
         /\ Edited(row, r).product = r.product
         /\ Edited(row, r).qty = r.qty
         /\ Edited(row, r).applied = r.applied
         /\ row.given \subseteq Edited(row, r).given
         /\ row.given # {} => r.product \in Edited(row, r).given
         /\ row.altered => Edited(row, r).altered
         /\ row.applied /\ r.qty # row.qty => Edited(row, r).altered
BY DEF Edited, LineRow, Request

LEMMA WrittenLine ==
  ASSUME TypeOK, NEW h \in Handlers, WriteLine(h), NEW l \in Lines
  PROVE  line'[l] = IF l = req[h].line /\ line[l].presence = "live"
                    THEN Edited(line[l], req[h]) ELSE line[l]
BY DEF WriteLine, TypeOK, HandlersTyped, Request

LEMMA TypeLineWrites ==
  ASSUME TypeOK, NEW h \in Handlers, WriteLine(h) \/ DeleteLine(h)
  PROVE  TypeOK'
<1>1. req[h] \in Request
  BY DEF TypeOK, HandlersTyped
<1>2. CASE WriteLine(h)
  <2>1. \A l \in Lines : Edited(line[l], req[h]) \in LineRow
    BY <1>1, EditedRow DEF TypeOK
  <2>2. line' \in [Lines -> LineRow]
    BY <1>2, <2>1 DEF WriteLine, TypeOK
  <2> QED
    BY <1>2, <2>2, FinishType DEF WriteLine, TypeOK
<1>3. CASE DeleteLine(h)
  <2>1. ASSUME NEW l \in Lines
        PROVE  line'[l] \in LineRow
    <3>1. line[l] \in LineRow /\ DOMAIN line = Lines
      BY DEF TypeOK
    <3>2. line'[l] = IF l = req[h].line THEN [line[l] EXCEPT !.presence = "deleted"]
                     ELSE line[l]
      BY <1>3, <3>1 DEF DeleteLine
    <3> QED
      BY <3>1, <3>2 DEF LineRow
  <2>2. line' \in [Lines -> LineRow]
    BY <1>1, <1>3, <2>1 DEF DeleteLine, TypeOK
  <2> QED
    BY <1>3, <2>2, FinishType DEF DeleteLine, TypeOK
<1> QED
  BY <1>2, <1>3

LEMMA TypeSlipLine ==
  ASSUME TypeOK, NEW h \in Handlers, AddSlipLine(h)
  PROVE  TypeOK'
<1>1. /\ req[h].order \in Orders
      /\ req[h].product \in Products \cup {NoProduct}
      /\ 1 \in Quantities
  BY ConstantTypes DEF Request, ConstantTypes, TypeOK, HandlersTyped
<1>2. line' \in [Lines -> LineRow]
  BY <1>1, NewLineType DEF AddSlipLine, TypeOK
<1>3. HandlersTyped'
  BY FinishType DEF AddSlipLine, HandlerPC, TypeOK, HandlersTyped
<1> QED
  BY <1>2, <1>3 DEF AddSlipLine, TypeOK

LEMMA TypeSlipMovement ==
  ASSUME TypeOK, NEW h \in Handlers, RecordSlipMovement(h)
  PROVE  TypeOK'
<1>1. req[h].order \in Orders /\ req[h].product \in Products
  BY DEF RecordSlipMovement, TypeOK, HandlersTyped, Request
<1>2. movements' \in Seq(Movement)
  BY <1>1 DEF RecordSlipMovement, Movement, TypeOK
<1>3. DOMAIN onHand' = Products
  BY DEF RecordSlipMovement, Ledger!Moved
<1>4. HandlersTyped'
  BY FinishType DEF RecordSlipMovement
<1> QED
  BY <1>2, <1>3, <1>4 DEF RecordSlipMovement, TypeOK

LEMMA TypeNext ==
  ASSUME TypeOK, [Next]_vars
  PROVE  TypeOK'
<1>1. ASSUME NEW o \in Orders, AddLine(o)
      PROVE  TypeOK'
  <2>1. line' \in [Lines -> LineRow]
    BY <1>1, ConstantTypes, NewLineType DEF AddLine, ConstantTypes
  <2> QED
    BY <1>1, <2>1 DEF AddLine, TypeOK, HandlersTyped
<1>2. ASSUME NEW h \in Handlers, Step(h)
      PROVE  TypeOK'
  BY <1>2, TypeUpdate, TypeSync, TypeBegin, TypeCheck, TypeWrite, TypeCommit,
     TypeLineWrites, TypeSlipLine, TypeSlipMovement DEF Step
<1>3. ASSUME NEW h \in Handlers, BreakDeadlock(h) \/ Fail(h)
      PROVE  TypeOK'
  <2>1. Finish(h)
    BY <1>3 DEF BreakDeadlock, Fail
  <2>2. HandlersTyped'
    BY <2>1, FinishType
  <2> QED
    BY <1>3, <2>2 DEF BreakDeadlock, Fail, TypeOK
<1>4. CASE UNCHANGED vars
  BY <1>4 DEF vars, TypeOK, HandlersTyped
<1> QED
  BY <1>1, <1>2, <1>3, <1>4, TypeRequests DEF Next

(***************************************************************************)
(* Every row and every handler's local state keeps its shape, whatever the *)
(* interleaving, the requests and the failures.                            *)
(***************************************************************************)
THEOREM TypeCorrect == Spec => []TypeOK
<1>1. Init => TypeOK
  BY TypeInit
<1>2. TypeOK /\ [Next]_vars => TypeOK'
  BY TypeNext
<1> QED
  BY <1>1, <1>2, PTL DEF Spec

-----------------------------------------------------------------------------
(* The ledger: the movement rows and the stock change together *)

(***************************************************************************)
(* Appending a sequence of rows keeps the rows there were and records      *)
(* exactly the new ones.                                                   *)
(***************************************************************************)
LEMMA AppendedRows ==
  ASSUME NEW S, NEW old \in Seq(S), NEW new \in Seq(S)
  PROVE  /\ Len(old \o new) >= Len(old)
         /\ SubSeq(old \o new, 1, Len(old)) = old
         /\ SubSeq(old \o new, Len(old) + 1, Len(old \o new)) = new
<1> DEFINE all == old \o new
<1>1. /\ Len(old) \in Nat /\ Len(new) \in Nat
      /\ all \in Seq(S)
      /\ Len(all) = Len(old) + Len(new)
      /\ \A i \in 1 .. Len(old) : all[i] = old[i]
      /\ \A i \in 1 .. Len(new) : all[Len(old) + i] = new[i]
  BY ConcatProperties
<1> HIDE DEF all
<1>2. SubSeq(all, 1, Len(old)) = old
  BY <1>1
<1>3. SubSeq(all, Len(old) + 1, Len(all)) = new
  BY <1>1
<1> QED
  BY <1>1, <1>2, <1>3 DEF all

(***************************************************************************)
(* Stock and movement history move together, for any number of handlers,   *)
(* failures and deadlocks: the statement-level transactions implement the  *)
(* ledger.                                                                 *)
(***************************************************************************)
THEOREM LedgerImplemented == Spec => StockMovesWithLedger
<1>1. Init => Ledger!LedgerInit
  BY DEF Init, Ledger!LedgerInit
<1>2. TypeOK /\ [Next]_vars => [Ledger!Record]_(Ledger!ledgerVars)
  <2> SUFFICES ASSUME TypeOK, [Next]_vars
               PROVE  [Ledger!Record]_(Ledger!ledgerVars)
    OBVIOUS
  <2>1. ASSUME NEW h \in Handlers, CommitTransaction(h)
        PROVE  Ledger!Record
    <3>1. tx[h].staged \in Seq(Movement) /\ movements \in Seq(Movement)
      BY DEF TypeOK, HandlersTyped, Transaction
    <3>2. /\ movements' = movements \o tx[h].staged
          /\ onHand' = Ledger!Moved(onHand, tx[h].staged)
      BY <2>1 DEF CommitTransaction, Visible, NewOnHand
    <3>3. /\ Len(movements') >= Len(movements)
          /\ SubSeq(movements', 1, Len(movements)) = movements
          /\ SubSeq(movements', Len(movements) + 1, Len(movements'))
               = tx[h].staged
      BY <3>1, <3>2, AppendedRows, SMTT(30)
    <3> QED
      BY <3>2, <3>3 DEF Ledger!Record, Ledger!Recorded
  <2>2. ASSUME NEW h \in Handlers, RecordSlipMovement(h)
        PROVE  Ledger!Record
    <3> DEFINE row == [reference |-> "sale_order", id |-> req[h].order,
                       product |-> req[h].product, delta |-> -1]
    <3>1. req[h].order \in Orders /\ req[h].product \in Products
      BY <2>2 DEF RecordSlipMovement, TypeOK, HandlersTyped, Request
    <3>2. row \in Movement /\ movements \in Seq(Movement)
      BY <3>1 DEF Movement, TypeOK
    <3>3. /\ movements' = Append(movements, row)
          /\ onHand' = Ledger!Moved(onHand, <<row>>)
      BY <2>2 DEF RecordSlipMovement
    <3> HIDE DEF row
    <3> DEFINE new == <<row>>
    <3>4. /\ new \in Seq(Movement)
          /\ movements' = movements \o new
          /\ onHand' = Ledger!Moved(onHand, new)
      BY <3>2, <3>3
    <3> HIDE DEF new
    <3>5. /\ Len(movements') >= Len(movements)
          /\ SubSeq(movements', 1, Len(movements)) = movements
          /\ SubSeq(movements', Len(movements) + 1, Len(movements')) = new
      BY <3>2, <3>4, AppendedRows, SMTT(30)
    <3> QED
      BY <3>4, <3>5 DEF Ledger!Record, Ledger!Recorded
  <2>3. ASSUME NEW h \in Handlers,
               \/ NewRequest(h) \/ UpdateOrder(h) \/ SyncRead(h)
               \/ BeginTransaction(h) \/ CheckRow(h) \/ WriteRow(h)
               \/ WriteLine(h) \/ DeleteLine(h) \/ AddSlipLine(h)
               \/ BreakDeadlock(h) \/ Fail(h)
        PROVE  UNCHANGED <<onHand, movements>>
    BY <2>3 DEF NewRequest, ReadOrder, ReadSlip, ReadLineForEdit,
       ReadLineForDelete, UpdateOrder, SyncRead, BeginTransaction, CheckRow,
       WriteRow, WriteLine, DeleteLine, AddSlipLine, BreakDeadlock, Fail
  <2>4. CASE UNCHANGED vars \/ \E o \in Orders : AddLine(o)
    BY <2>4 DEF vars, AddLine, Ledger!ledgerVars
  <2> QED
    BY <2>1, <2>2, <2>3, <2>4 DEF Next, Step, Ledger!ledgerVars
<1> QED
  BY <1>1, <1>2, TypeCorrect, PTL DEF Spec, StockMovesWithLedger, Ledger!LedgerSpec

-----------------------------------------------------------------------------
(* Lines flagged inventory_applied *)

(***************************************************************************)
(* A deduction is among concatenated rows exactly when it is in one part.  *)
(***************************************************************************)
LEMMA DeductsConcat ==
  ASSUME NEW old \in Seq(Movement), NEW new \in Seq(Movement), NEW l, NEW o
  PROVE  Deducts(old \o new, l, o) <=> Deducts(old, l, o) \/ Deducts(new, l, o)
<1> DEFINE all == old \o new
<1>1. /\ Len(old) \in Nat /\ Len(new) \in Nat
      /\ all \in Seq(Movement)
      /\ Len(all) = Len(old) + Len(new)
      /\ \A i \in 1 .. Len(old) : all[i] = old[i]
      /\ \A i \in 1 .. Len(new) : all[Len(old) + i] = new[i]
      /\ \A i \in 1 .. Len(all) :
           i > Len(old) => i - Len(old) \in 1 .. Len(new)
                           /\ all[i] = new[i - Len(old)]
  BY ConcatProperties
<1>2. /\ DOMAIN old = 1 .. Len(old)
      /\ DOMAIN new = 1 .. Len(new)
      /\ DOMAIN all = 1 .. Len(all)
  BY <1>1
<1> HIDE DEF all
<1>3. ASSUME Deducts(old, l, o) PROVE Deducts(all, l, o)
  BY <1>1, <1>2, <1>3 DEF Deducts
<1>4. ASSUME Deducts(new, l, o) PROVE Deducts(all, l, o)
  <2>1. PICK i \in 1 .. Len(new) :
          \/ new[i].reference = "sale_order_line" /\ new[i].id = l
          \/ new[i].reference = "sale_order" /\ new[i].id = o
    BY <1>2, <1>4 DEF Deducts
  <2>2. Len(old) + i \in 1 .. Len(all) /\ all[Len(old) + i] = new[i]
    BY <1>1
  <2> QED
    BY <1>2, <2>1, <2>2 DEF Deducts
<1>5. ASSUME Deducts(all, l, o) PROVE Deducts(old, l, o) \/ Deducts(new, l, o)
  <2>1. PICK i \in 1 .. Len(all) :
          \/ all[i].reference = "sale_order_line" /\ all[i].id = l
          \/ all[i].reference = "sale_order" /\ all[i].id = o
    BY <1>2, <1>5 DEF Deducts
  <2>2. CASE i \in 1 .. Len(old)
    BY <1>1, <1>2, <2>1, <2>2 DEF Deducts
  <2>3. CASE i > Len(old)
    BY <1>1, <1>2, <2>1, <2>3 DEF Deducts
  <2> QED
    BY <1>1, <2>2, <2>3
<1> QED
  BY <1>3, <1>4, <1>5 DEF all

LEMMA DeductsAppend ==
  ASSUME NEW old \in Seq(Movement), NEW m \in Movement, NEW l, NEW o
  PROVE  /\ Deducts(old, l, o) => Deducts(Append(old, m), l, o)
         /\ m.reference = "sale_order_line" /\ m.id = l
              => Deducts(Append(old, m), l, o)
<1> DEFINE all == Append(old, m)
<1>1. /\ all \in Seq(Movement)
      /\ Len(old) \in Nat
      /\ Len(all) = Len(old) + 1
      /\ \A i \in 1 .. Len(old) : all[i] = old[i]
      /\ all[Len(old) + 1] = m
  OBVIOUS
<1>2. DOMAIN old = 1 .. Len(old) /\ DOMAIN all = 1 .. Len(all)
  BY <1>1
<1> HIDE DEF all
<1>3. Deducts(old, l, o) => Deducts(all, l, o)
  BY <1>1, <1>2 DEF Deducts
<1>4. m.reference = "sale_order_line" /\ m.id = l => Deducts(all, l, o)
  BY <1>1, <1>2 DEF Deducts
<1> QED
  BY <1>3, <1>4 DEF all

(***************************************************************************)
(* What no step takes back: a line that exists stays with its order and    *)
(* its mark, and a recorded deduction stays on record.                     *)
(***************************************************************************)
RecordsKept ==
  /\ \A l \in Lines : line[l].presence # "unused" =>
       /\ line'[l].presence # "unused" /\ line'[l].order = line[l].order
       /\ line[l].given # {} => line'[l].given # {}
  /\ \A l \in Lines, o \in Orders :
       Deducts(movements, l, o) => Deducts(movements', l, o)

(***************************************************************************)
(* A handler that does not move stays accounted for, and so does one that  *)
(* has just begun or ended a transaction.                                  *)
(***************************************************************************)
LEMMA Elsewhere ==
  ASSUME TypeOK, TypeOK', NEW g \in Handlers, HandlerAccounted(g), RecordsKept,
         pc'[g] = pc[g], req'[g] = req[g], tx'[g] = tx[g]
  PROVE  HandlerAccounted(g)'
<1>1. /\ movements \in Seq(Movement) /\ movements' \in Seq(Movement)
      /\ tx[g].staged \in Seq(Movement)
      /\ tx[g].flags \subseteq Lines
      /\ tx[g].todo \subseteq LoopRow
      /\ req[g].order \in Orders /\ req[g].line \in Lines
  BY DEF TypeOK, HandlersTyped, Transaction, Request
<1>2. \A l \in Lines : line[l].order \in Orders
  BY DEF TypeOK, LineRow
<1>3. ASSUME NEW l \in Lines, NEW o \in Orders, Deducts(Visible(g), l, o)
      PROVE  Deducts(Visible(g), l, o)'
  BY <1>1, <1>3, DeductsConcat DEF Visible, RecordsKept
<1>4. \A row \in tx[g].todo : row.id \in Lines
  BY <1>1 DEF LoopRow
<1>5. ASSUME tx'[g].mode = "apply", NEW l \in tx'[g].flags
      PROVE  line'[l].presence # "unused" /\ Deducts(Visible(g)', l, line'[l].order)
  BY <1>1, <1>2, <1>3, <1>5 DEF HandlerAccounted, RecordsKept
<1>6. ASSUME NEW row \in tx'[g].todo
      PROVE  /\ line'[row.id].presence # "unused"
             /\ line'[row.id].order = req'[g].order
  BY <1>4, <1>6 DEF HandlerAccounted, RecordsKept
<1>7. ASSUME pc'[g] = "write", tx'[g].mode = "apply", tx'[g].seen,
             NEW row \in tx'[g].todo, IsNextRow(g, row)'
      PROVE  Deducts(Visible(g)', row.id, req'[g].order)
  <2>1. IsNextRow(g, row)
    BY <1>7 DEF IsNextRow
  <2> QED
    BY <1>1, <1>3, <1>4, <1>7, <2>1 DEF HandlerAccounted
<1>8. ASSUME pc'[g] = "lineWrite"
      PROVE  /\ line'[req'[g].line].presence # "unused"
             /\ req'[g].applied =>
                  \/ Deducts(movements', req'[g].line, line'[req'[g].line].order)
                  \/ line'[req'[g].line].given # {}
  BY <1>1, <1>2, <1>8 DEF HandlerAccounted, Accounted, RecordsKept
<1>9. pc'[g] \notin {"loop", "write"} => tx'[g].flags = {} /\ tx'[g].todo = {}
  BY DEF HandlerAccounted
<1> QED
  BY <1>5, <1>6, <1>7, <1>8, <1>9 DEF HandlerAccounted, Accounted

LEMMA NothingPending ==
  ASSUME NEW g \in Handlers,
         tx'[g].flags = {}, tx'[g].todo = {},
         pc'[g] \notin {"write", "lineWrite"}
  PROVE  HandlerAccounted(g)'
BY DEF HandlerAccounted

(***************************************************************************)
(* A step of handler h preserves the invariant if it keeps the records, if *)
(* the lines and h itself stay accounted for, and if it touches no other   *)
(* handler.                                                                *)
(***************************************************************************)
OnlyMoves(h) ==
  \A g \in Handlers \ {h} : pc'[g] = pc[g] /\ req'[g] = req[g] /\ tx'[g] = tx[g]

LEMMA OneMoves ==
  ASSUME TypeOK, TypeOK', AppliedInv, NEW h \in Handlers, RecordsKept,
         OnlyMoves(h), LinesAccounted', HandlerAccounted(h)'
  PROVE  AppliedInv'
<1>1. ASSUME NEW g \in Handlers
      PROVE  HandlerAccounted(g)'
  BY <1>1, Elsewhere DEF AppliedInv, OnlyMoves
<1> QED
  BY <1>1 DEF AppliedInv

(***************************************************************************)
(* The ways a stage of a request ends leave nothing pending.               *)
(***************************************************************************)
LEMMA LeavesNothing ==
  ASSUME TypeOK, NEW h \in Handlers, NEW stage,
         \/ Finish(h)
         \/ LeaveStage(h, stage)
         \/ \E mode \in {"apply", "reverse"} :
              OpenTransaction(h, mode, stage) /\ UNCHANGED req
  PROVE  HandlerAccounted(h)' /\ OnlyMoves(h)
<1>1. CASE Finish(h)
  BY <1>1, IdleValues, NothingPending
  DEF Finish, OnlyMoves, TypeOK, HandlersTyped
<1>2. ASSUME NEW mode, NEW at, OpenTransaction(h, mode, at), UNCHANGED req
      PROVE  HandlerAccounted(h)' /\ OnlyMoves(h)
  <2>1. /\ [NoTransaction EXCEPT !.mode = mode, !.stage = at].flags = {}
        /\ [NoTransaction EXCEPT !.mode = mode, !.stage = at].todo = {}
    BY DEF NoTransaction
  <2>2. /\ tx'[h].flags = {} /\ tx'[h].todo = {} /\ pc'[h] = "begin"
    BY <1>2, <2>1 DEF OpenTransaction, TypeOK, HandlersTyped
  <2>3. OnlyMoves(h)
    BY <1>2 DEF OpenTransaction, OnlyMoves, TypeOK, HandlersTyped
  <2> QED
    BY <2>2, <2>3, NothingPending
<1>3. CASE /\ pc' = [pc EXCEPT ![h] = "labelLine"]
           /\ tx' = [tx EXCEPT ![h] = NoTransaction]
           /\ UNCHANGED req
  BY <1>3, IdleValues, NothingPending DEF OnlyMoves, TypeOK, HandlersTyped
<1> QED
  BY <1>1, <1>2, <1>3 DEF LeaveStage

(***************************************************************************)
(* Steps that change no line and no movement keep every record.            *)
(***************************************************************************)
LEMMA StillAccounted ==
  ASSUME AppliedInv, UNCHANGED <<line, movements>>
  PROVE  RecordsKept /\ LinesAccounted'
BY DEF AppliedInv, LinesAccounted, Accounted, RecordsKept

LEMMA AccountedInit == Init => AppliedInv
<1> SUFFICES ASSUME Init PROVE AppliedInv
  OBVIOUS
<1>1. LinesAccounted
  BY InitialLinesMarked DEF Init, LinesAccounted, Accounted, InitialLinesMarked
<1>2. ASSUME NEW h \in Handlers
      PROVE  HandlerAccounted(h)
  BY <1>2, IdleValues DEF Init, HandlerAccounted
<1> QED
  BY <1>1, <1>2 DEF AppliedInv

LEMMA AccountedRequests ==
  ASSUME TypeOK, TypeOK', AppliedInv, NEW h \in Handlers, NewRequest(h)
  PROVE  AppliedInv'
<1>0. tx[h].flags = {} /\ tx[h].todo = {}
  BY DEF NewRequest, ReadOrder, ReadSlip, ReadLineForEdit, ReadLineForDelete,
     AppliedInv, HandlerAccounted
<1>1. RecordsKept /\ LinesAccounted'
  BY StillAccounted DEF NewRequest, ReadOrder, ReadSlip, ReadLineForEdit,
     ReadLineForDelete
<1>2. OnlyMoves(h)
  BY DEF NewRequest, ReadOrder, ReadSlip, ReadLineForEdit, ReadLineForDelete,
     OnlyMoves, TypeOK, HandlersTyped
<1>3. ASSUME ~ \E l \in Lines : ReadLineForEdit(h, l)
      PROVE  HandlerAccounted(h)'
  <2>1. pc'[h] \in {"update", "lineDelete"} /\ tx'[h] = tx[h]
    BY <1>3 DEF NewRequest, ReadOrder, ReadSlip, ReadLineForDelete, TypeOK,
       HandlersTyped
  <2> QED
    BY <1>0, <2>1, NothingPending
<1>4. ASSUME NEW l \in Lines, ReadLineForEdit(h, l)
      PROVE  HandlerAccounted(h)'
  <2>1. /\ pc'[h] = "lineWrite" /\ tx'[h] = tx[h]
        /\ req'[h].line = l /\ req'[h].applied = line[l].applied
        /\ line' = line /\ movements' = movements
    BY <1>4, IdleValues DEF ReadLineForEdit, TypeOK, HandlersTyped, Request
  <2>2. line[l].presence # "unused"
    BY <1>4 DEF ReadLineForEdit
  <2>3. line[l].applied => Accounted(l, movements)
    BY DEF AppliedInv, LinesAccounted
  <2> QED
    BY <1>0, <2>1, <2>2, <2>3 DEF HandlerAccounted, Accounted
<1> QED
  BY <1>1, <1>2, <1>3, <1>4, OneMoves

LEMMA AccountedQuietSteps ==
  ASSUME TypeOK, TypeOK', AppliedInv, NEW h \in Handlers,
         \/ UpdateOrder(h) \/ SyncRead(h)
         \/ BreakDeadlock(h) \/ Fail(h)
  PROVE  AppliedInv'
<1>1. RecordsKept /\ LinesAccounted'
  BY StillAccounted DEF UpdateOrder, SyncRead, BreakDeadlock, Fail
<1>2. CASE UpdateOrder(h)
  <2>1. tx[h].flags = {} /\ tx[h].todo = {}
    BY <1>2 DEF UpdateOrder, AppliedInv, HandlerAccounted
  <2>2. pc'[h] = "sync" /\ tx'[h] = tx[h] /\ OnlyMoves(h)
    BY <1>2 DEF UpdateOrder, OnlyMoves, TypeOK, HandlersTyped
  <2> QED
    BY <1>1, <2>1, <2>2, NothingPending, OneMoves
<1>3. CASE SyncRead(h)
  BY <1>1, <1>3, LeavesNothing, OneMoves DEF SyncRead
<1>4. CASE BreakDeadlock(h) \/ Fail(h)
  BY <1>1, <1>4, LeavesNothing, OneMoves DEF BreakDeadlock, Fail
<1> QED
  BY <1>2, <1>3, <1>4

(***************************************************************************)
(* The rows an apply or reverse transaction goes over are lines of the     *)
(* request's order.                                                        *)
(***************************************************************************)
LEMMA AccountedBegin ==
  ASSUME TypeOK, TypeOK', AppliedInv, NEW h \in Handlers, BeginTransaction(h)
  PROVE  AppliedInv'
<1>1. RecordsKept /\ LinesAccounted'
  BY StillAccounted DEF BeginTransaction
<1>2. CASE tx[h].mode = "apply" /\ ~ShouldBeApplied(req[h].order)
  BY <1>1, <1>2, LeavesNothing, OneMoves DEF BeginTransaction
<1>3. CASE ~(tx[h].mode = "apply" /\ ~ShouldBeApplied(req[h].order))
  <2> DEFINE S == IF tx[h].mode = "apply" THEN ProductLines(req[h].order)
                  ELSE LinesToReverse(req[h].order)
  <2>1. /\ pc' = [pc EXCEPT ![h] = "loop"]
        /\ tx' = [tx EXCEPT ![h].todo = LoopRows(S)]
        /\ req' = req /\ line' = line
    BY <1>3 DEF BeginTransaction
  <2>2. \A l \in S : /\ line[l].presence # "unused"
                     /\ line[l].order = req[h].order
    BY DEF LinesToReverse, ProductLines
  <2> HIDE DEF S
  <2>3. \A row \in LoopRows(S) : /\ line[row.id].presence # "unused"
                                 /\ line[row.id].order = req[h].order
    BY <2>2 DEF LoopRows
  <2>4. tx[h].flags = {}
    BY DEF BeginTransaction, AppliedInv, HandlerAccounted
  <2>5. /\ pc'[h] = "loop" /\ tx'[h].flags = {} /\ tx'[h].todo = LoopRows(S)
        /\ OnlyMoves(h)
    BY <2>1, <2>4 DEF OnlyMoves, TypeOK, HandlersTyped, Transaction
  <2>6. HandlerAccounted(h)'
    BY <2>1, <2>3, <2>5 DEF HandlerAccounted
  <2> QED
    BY <1>1, <2>5, <2>6, OneMoves
<1> QED
  BY <1>2, <1>3

(***************************************************************************)
(* A movement found for a row is a deduction of its line.                  *)
(***************************************************************************)
LEMMA FoundDeducts ==
  ASSUME NEW o, NEW row, NEW rows, DeductionExists(o, row, rows)
  PROVE  Deducts(rows, row.id, o)
BY DEF DeductionExists, Deducts

LEMMA AccountedCheck ==
  ASSUME TypeOK, TypeOK', AppliedInv, NEW h \in Handlers, CheckRow(h)
  PROVE  AppliedInv'
<1>1. RecordsKept /\ LinesAccounted'
  BY StillAccounted DEF CheckRow
<1> DEFINE seen(row) == IF tx[h].mode = "apply"
                        THEN DeductionExists(req[h].order, row, Visible(h))
                        ELSE ReturnExists(req[h].order, row, Visible(h))
<1>2. PICK row \in tx[h].todo :
        /\ IsNextRow(h, row)
        /\ \/ /\ tx' = [tx EXCEPT ![h].todo = @ \ {row}]
              /\ pc' = pc
           \/ /\ tx' = [tx EXCEPT ![h].seen = seen(row)]
              /\ pc' = [pc EXCEPT ![h] = "write"]
  BY DEF CheckRow
<1> HIDE DEF seen
<1>3. pc[h] = "loop" /\ req' = req /\ line' = line /\ movements' = movements
  BY DEF CheckRow
<1>4. OnlyMoves(h)
  BY <1>2, <1>3 DEF OnlyMoves, TypeOK, HandlersTyped
<1>5. /\ tx'[h].mode = tx[h].mode /\ tx'[h].flags = tx[h].flags
      /\ tx'[h].staged = tx[h].staged
      /\ tx'[h].todo \subseteq tx[h].todo
  <2>1. CASE tx' = [tx EXCEPT ![h].todo = @ \ {row}]
    BY <2>1 DEF TypeOK, HandlersTyped, Transaction
  <2>2. CASE tx' = [tx EXCEPT ![h].seen = seen(row)]
    BY <2>2 DEF TypeOK, HandlersTyped, Transaction
  <2> QED
    BY <1>2, <2>1, <2>2
<1>6. Visible(h)' = Visible(h)
  BY <1>3, <1>5 DEF Visible
<1>7. pc'[h] \in {"loop", "write"}
  BY <1>2, <1>3 DEF TypeOK, HandlersTyped
<1>8. ASSUME pc'[h] = "write", tx'[h].mode = "apply", tx'[h].seen,
             NEW other \in tx'[h].todo, IsNextRow(h, other)'
      PROVE  Deducts(Visible(h)', other.id, req'[h].order)
  <2>1. tx' = [tx EXCEPT ![h].seen = seen(row)]
    BY <1>2, <1>3, <1>8
  <2>2. tx'[h].todo = tx[h].todo /\ tx'[h].seen = seen(row)
    BY <2>1 DEF TypeOK, HandlersTyped, Transaction
  <2>3. DeductionExists(req[h].order, row, Visible(h))
    BY <1>5, <1>8, <2>2 DEF seen
  <2>4. Deducts(Visible(h), row.id, req[h].order)
    BY <2>3, FoundDeducts
  <2>5. row.id \in Nat /\ other.id \in Nat
    <3>1. tx[h].todo \subseteq LoopRow
      BY DEF TypeOK, HandlersTyped, Transaction
    <3>2. row.id \in Lines /\ other.id \in Lines
      BY <2>2, <3>1 DEF LoopRow
    <3> QED
      BY <3>2, ConstantTypes DEF ConstantTypes
  <2>6. row.id <= other.id /\ other.id <= row.id
    BY <1>2, <1>8, <2>2 DEF IsNextRow
  <2>7. row.id = other.id
    BY <2>5, <2>6
  <2> QED
    BY <1>3, <1>6, <2>4, <2>7
<1>9. HandlerAccounted(h)'
  <2>1. HandlerAccounted(h)
    BY DEF AppliedInv
  <2> QED
    BY <1>3, <1>5, <1>6, <1>7, <1>8, <2>1 DEF HandlerAccounted
<1> QED
  BY <1>1, <1>4, <1>9, OneMoves

(***************************************************************************)
(* Writing a row: the line is flagged after its deduction has been staged, *)
(* or because one had been found.                                          *)
(***************************************************************************)
LEMMA AccountedWrite ==
  ASSUME TypeOK, TypeOK', AppliedInv, NEW h \in Handlers, WriteRow(h)
  PROVE  AppliedInv'
<1>1. RecordsKept /\ LinesAccounted'
  BY StillAccounted DEF WriteRow
<1>2. PICK row \in tx[h].todo :
        /\ IsNextRow(h, row)
        /\ tx' = [tx EXCEPT
             ![h].todo = @ \ {row},
             ![h].seen = FALSE,
             ![h].flags = @ \cup {row.id},
             ![h].staged =
                IF tx[h].seen THEN @
                ELSE Append(@, IF tx[h].mode = "apply" THEN Deduction(row)
                               ELSE Return(req[h].order, row))]
  BY DEF WriteRow
<1>3. /\ pc[h] = "write" /\ pc' = [pc EXCEPT ![h] = "loop"]
      /\ req' = req /\ line' = line /\ movements' = movements
  BY DEF WriteRow
<1>4. pc'[h] = "loop" /\ OnlyMoves(h)
  BY <1>2, <1>3 DEF OnlyMoves, TypeOK, HandlersTyped
<1>5. /\ tx'[h].mode = tx[h].mode
      /\ tx'[h].todo \subseteq tx[h].todo
      /\ tx'[h].flags = tx[h].flags \cup {row.id}
      /\ tx'[h].staged =
           IF tx[h].seen THEN tx[h].staged
           ELSE Append(tx[h].staged, IF tx[h].mode = "apply" THEN Deduction(row)
                                     ELSE Return(req[h].order, row))
  BY <1>2 DEF TypeOK, HandlersTyped, Transaction
<1>6. /\ movements \in Seq(Movement) /\ tx[h].staged \in Seq(Movement)
      /\ tx[h].todo \subseteq LoopRow /\ tx[h].flags \subseteq Lines
      /\ req[h].order \in Orders
  BY DEF TypeOK, HandlersTyped, Transaction, Request
<1>7. row \in LoopRow /\ row.id \in Lines
  BY <1>6 DEF LoopRow
<1>8. /\ Deduction(row) \in Movement
      /\ Deduction(row).reference = "sale_order_line" /\ Deduction(row).id = row.id
  BY <1>6, <1>7, MovementTypes DEF Deduction
<1>9. /\ line[row.id].presence # "unused"
      /\ line[row.id].order = req[h].order
      /\ tx[h].mode = "apply" /\ tx[h].seen
           => Deducts(Visible(h), row.id, req[h].order)
  BY <1>2, <1>3 DEF AppliedInv, HandlerAccounted
<1>10. ASSUME tx[h].mode = "apply", ~tx[h].seen
       PROVE  \A l, o : /\ Deducts(Visible(h), l, o) => Deducts(Visible(h)', l, o)
                        /\ l = row.id => Deducts(Visible(h)', l, o)
  <2> DEFINE new == Append(tx[h].staged, Deduction(row))
  <2>1. Visible(h)' = movements \o new
    BY <1>3, <1>5, <1>10 DEF Visible
  <2>2. new \in Seq(Movement)
    BY <1>6, <1>8
  <2>3. \A l, o : /\ Deducts(tx[h].staged, l, o) => Deducts(new, l, o)
                  /\ l = row.id => Deducts(new, l, o)
    BY <1>6, <1>8, DeductsAppend
  <2> HIDE DEF new
  <2> QED
    BY <1>6, <2>1, <2>2, <2>3, DeductsConcat DEF Visible
<1>11. ASSUME tx[h].seen
       PROVE  Visible(h)' = Visible(h)
  BY <1>3, <1>5, <1>11 DEF Visible
<1>12. ASSUME tx'[h].mode = "apply", NEW l \in tx'[h].flags
       PROVE  /\ line'[l].presence # "unused"
              /\ Deducts(Visible(h)', l, line'[l].order)
  <2>1. CASE l = row.id
    BY <1>3, <1>5, <1>9, <1>10, <1>11, <1>12, <2>1
  <2>2. CASE l \in tx[h].flags
    <3>1. line[l].presence # "unused" /\ Deducts(Visible(h), l, line[l].order)
      BY <1>5, <1>12, <2>2 DEF AppliedInv, HandlerAccounted
    <3> QED
      BY <1>3, <1>5, <1>10, <1>11, <1>12, <3>1
  <2> QED
    BY <1>5, <1>12, <2>1, <2>2
<1>13. ASSUME NEW other \in tx'[h].todo
       PROVE  /\ line'[other.id].presence # "unused"
              /\ line'[other.id].order = req'[h].order
  BY <1>3, <1>5, <1>13 DEF AppliedInv, HandlerAccounted
<1>14. HandlerAccounted(h)'
  BY <1>4, <1>12, <1>13 DEF HandlerAccounted
<1> QED
  BY <1>1, <1>4, <1>14, OneMoves

LEMMA AccountedCommit ==
  ASSUME TypeOK, TypeOK', AppliedInv, NEW h \in Handlers, CommitTransaction(h)
  PROVE  AppliedInv'
<1>1. /\ movements \in Seq(Movement) /\ tx[h].staged \in Seq(Movement)
      /\ movements' = movements \o tx[h].staged
      /\ movements' = Visible(h)
  BY DEF CommitTransaction, Visible, TypeOK, HandlersTyped, Transaction
<1>2. \A l, o : Deducts(movements, l, o) => Deducts(movements', l, o)
  <2> DEFINE all == movements \o tx[h].staged
  <2>1. \A l, o : Deducts(movements, l, o) => Deducts(all, l, o)
    BY <1>1, DeductsConcat
  <2>2. movements' = all
    BY <1>1
  <2> HIDE DEF all
  <2> QED
    BY <2>1, <2>2
<1>3. ASSUME NEW l \in Lines
      PROVE  /\ line'[l].presence = line[l].presence
             /\ line'[l].order = line[l].order
             /\ line'[l].given = line[l].given
             /\ line'[l].applied =>
                  \/ line[l].applied
                  \/ l \in tx[h].flags /\ tx[h].mode = "apply"
  <2>1. line[l] \in LineRow
    BY DEF TypeOK
  <2>2. line'[l] = IF l \in tx[h].flags /\ line[l].presence = "live"
                   THEN [line[l] EXCEPT !.applied = (tx[h].mode = "apply")]
                   ELSE line[l]
    BY DEF CommitTransaction
  <2> QED
    BY <2>1, <2>2 DEF LineRow
<1>4. RecordsKept
  BY <1>2, <1>3 DEF RecordsKept
<1>5. ASSUME NEW l \in Lines
      PROVE  /\ line'[l].presence = "unused" => ~line'[l].applied
             /\ line'[l].applied =>
                  Deducts(movements', l, line'[l].order) \/ line'[l].given # {}
  <2>1. /\ line[l].presence = "unused" => ~line[l].applied
        /\ line[l].applied =>
             Deducts(movements, l, line[l].order) \/ line[l].given # {}
    BY DEF AppliedInv, LinesAccounted, Accounted
  <2>2. l \in tx[h].flags /\ tx[h].mode = "apply" =>
          line[l].presence # "unused" /\ Deducts(Visible(h), l, line[l].order)
    BY DEF AppliedInv, HandlerAccounted
  <2> QED
    BY <1>1, <1>2, <1>3, <2>1, <2>2
<1>6. LinesAccounted'
  BY <1>5 DEF LinesAccounted, Accounted
<1>7. HandlerAccounted(h)' /\ OnlyMoves(h)
  BY LeavesNothing DEF CommitTransaction
<1> QED
  BY <1>4, <1>6, <1>7, OneMoves

(***************************************************************************)
(* The steps of the line routes write a flag only when it is FALSE or was  *)
(* read from the line.                                                     *)
(***************************************************************************)
LEMMA AccountedLineWrites ==
  ASSUME TypeOK, TypeOK', AppliedInv, NEW h \in Handlers,
         WriteLine(h) \/ DeleteLine(h)
  PROVE  AppliedInv'
<1>1. req[h].line \in Lines /\ movements' = movements
  BY DEF WriteLine, DeleteLine, TypeOK, HandlersTyped, Request
<1>2. ASSUME NEW l \in Lines
      PROVE  /\ line'[l].presence = "unused" => line[l] = line'[l]
             /\ line[l].presence # "unused" => line'[l].presence # "unused"
             /\ line'[l].order = line[l].order
             /\ line[l].given # {} => line'[l].given # {}
             /\ line'[l].applied =>
                  \/ line[l].applied
                  \/ pc[h] = "lineWrite" /\ l = req[h].line /\ req[h].applied
  <2>1. line[l] \in LineRow
    BY DEF TypeOK
  <2>2. CASE WriteLine(h)
    <3>1. req[h] \in Request /\ pc[h] = "lineWrite"
      BY <2>2 DEF WriteLine, TypeOK, HandlersTyped
    <3> QED
      BY <2>1, <2>2, <3>1, WrittenLine, EditedRow
  <2>3. CASE DeleteLine(h)
    BY <1>1, <2>1, <2>3 DEF DeleteLine, TypeOK, LineRow
  <2> QED
    BY <2>2, <2>3
<1>3. RecordsKept
  BY <1>1, <1>2 DEF RecordsKept
<1>4. pc[h] = "lineWrite" /\ req[h].applied =>
        \/ Deducts(movements, req[h].line, line[req[h].line].order)
        \/ line[req[h].line].given # {}
  BY DEF AppliedInv, HandlerAccounted, Accounted
<1>5. \A l \in Lines :
        /\ line[l].presence = "unused" => ~line[l].applied
        /\ line[l].applied =>
             Deducts(movements, l, line[l].order) \/ line[l].given # {}
  BY DEF AppliedInv, LinesAccounted, Accounted
<1>6. LinesAccounted'
  BY <1>1, <1>2, <1>4, <1>5 DEF LinesAccounted, Accounted
<1>7. HandlerAccounted(h)' /\ OnlyMoves(h)
  BY LeavesNothing DEF WriteLine, DeleteLine
<1> QED
  BY <1>3, <1>6, <1>7, OneMoves

LEMMA FreshLine ==
  ASSUME TypeOK, AppliedInv, NEW l \in Lines, NextLine(l),
         NEW o, NEW p, NEW q, NEW a \in BOOLEAN, NewLine(l, o, p, q, a),
         movements' = movements
  PROVE  RecordsKept /\ LinesAccounted'
<1>1. ASSUME NEW k \in Lines
      PROVE  IF k = l
             THEN /\ line'[k].presence = "live"
                  /\ line'[k].applied => line'[k].given # {}
             ELSE line'[k] = line[k]
  BY DEF NewLine, TypeOK
<1>2. RecordsKept
  BY <1>1 DEF RecordsKept, NextLine
<1>3. LinesAccounted'
  BY <1>1 DEF LinesAccounted, Accounted, AppliedInv
<1> QED
  BY <1>2, <1>3

LEMMA AccountedSlip ==
  ASSUME TypeOK, TypeOK', AppliedInv, NEW h \in Handlers,
         AddSlipLine(h) \/ RecordSlipMovement(h)
  PROVE  AppliedInv'
<1>1. CASE AddSlipLine(h) /\ Finish(h) /\ UNCHANGED line
  BY <1>1, StillAccounted, LeavesNothing, OneMoves DEF AddSlipLine
<1>2. CASE AddSlipLine(h) /\ ~(Finish(h) /\ UNCHANGED line)
  <2>1. /\ \E l \in Lines :
             NextLine(l) /\ NewLine(l, req[h].order, req[h].product, 1, FALSE)
        /\ pc[h] = "labelLine" /\ pc' = [pc EXCEPT ![h] = "labelMove"]
        /\ UNCHANGED <<req, tx, movements>>
    BY <1>2 DEF AddSlipLine
  <2>2. RecordsKept /\ LinesAccounted'
    BY <2>1, FreshLine
  <2>3. tx[h].flags = {} /\ tx[h].todo = {}
    BY <2>1 DEF AppliedInv, HandlerAccounted
  <2>4. pc'[h] = "labelMove" /\ tx'[h] = tx[h] /\ OnlyMoves(h)
    BY <2>1 DEF OnlyMoves, TypeOK, HandlersTyped
  <2> QED
    BY <2>2, <2>3, <2>4, NothingPending, OneMoves
<1>3. CASE RecordSlipMovement(h)
  <2> DEFINE row == [reference |-> "sale_order", id |-> req[h].order,
                     product |-> req[h].product, delta |-> -1]
  <2>1. row \in Movement /\ movements \in Seq(Movement)
    BY <1>3 DEF RecordSlipMovement, TypeOK, HandlersTyped, Request, Movement
  <2>2. movements' = Append(movements, row) /\ line' = line
    BY <1>3 DEF RecordSlipMovement
  <2> HIDE DEF row
  <2>3. \A l, o : Deducts(movements, l, o) => Deducts(movements', l, o)
    BY <2>1, <2>2, DeductsAppend
  <2>4. RecordsKept /\ LinesAccounted'
    BY <2>2, <2>3 DEF RecordsKept, LinesAccounted, Accounted, AppliedInv
  <2>5. HandlerAccounted(h)' /\ OnlyMoves(h)
    BY <1>3, LeavesNothing DEF RecordSlipMovement
  <2> QED
    BY <2>4, <2>5, OneMoves
<1> QED
  BY <1>1, <1>2, <1>3

LEMMA AccountedAdd ==
  ASSUME TypeOK, TypeOK', AppliedInv, NEW o \in Orders, AddLine(o)
  PROVE  AppliedInv'
<1>1. RecordsKept /\ LinesAccounted'
  <2>1. PICK l \in Lines, p \in Products \cup {NoProduct}, q \in Quantities,
             a \in NewLineApplied :
          NextLine(l) /\ NewLine(l, o, p, q, a)
    BY DEF AddLine
  <2>2. a \in BOOLEAN
    BY ConstantTypes DEF ConstantTypes
  <2> QED
    BY <2>1, <2>2, FreshLine DEF AddLine
<1>2. ASSUME NEW g \in Handlers
      PROVE  HandlerAccounted(g)'
  BY <1>1, Elsewhere DEF AddLine, AppliedInv
<1> QED
  BY <1>1, <1>2 DEF AppliedInv

(***************************************************************************)
(* A line flagged inventory_applied has a deduction on record, whatever    *)
(* the handlers interleave, fail, read stale or write back, unless the     *)
(* request that added the line set the flag.                               *)
(***************************************************************************)
THEOREM AppliedLinesDeducted == Spec => []AppliedHasDeduction
<1>1. Init => AppliedInv
  BY AccountedInit
<1>2. TypeOK /\ TypeOK' /\ AppliedInv /\ [Next]_vars => AppliedInv'
  <2> SUFFICES ASSUME TypeOK, TypeOK', AppliedInv, [Next]_vars
               PROVE  AppliedInv'
    OBVIOUS
  <2>1. CASE UNCHANGED vars
    BY <2>1, StillAccounted, Elsewhere DEF vars, AppliedInv
  <2>2. ASSUME NEW o \in Orders, AddLine(o)
        PROVE  AppliedInv'
    BY <2>2, AccountedAdd
  <2>3. ASSUME NEW h \in Handlers, NewRequest(h)
        PROVE  AppliedInv'
    BY <2>3, AccountedRequests
  <2>4. ASSUME NEW h \in Handlers, Step(h)
        PROVE  AppliedInv'
    BY <2>4, AccountedQuietSteps, AccountedBegin, AccountedCheck, AccountedWrite,
       AccountedCommit, AccountedLineWrites, AccountedSlip DEF Step
  <2>5. ASSUME NEW h \in Handlers, BreakDeadlock(h) \/ Fail(h)
        PROVE  AppliedInv'
    BY <2>5, AccountedQuietSteps
  <2> QED
    BY <2>1, <2>2, <2>3, <2>4, <2>5 DEF Next
<1>3. AppliedInv => AppliedHasDeduction
  BY DEF AppliedInv, LinesAccounted, AppliedHasDeduction
<1> QED
  BY <1>1, <1>2, <1>3, TypeCorrect, PTL DEF Spec

-----------------------------------------------------------------------------
(* Requests served one at a time *)

(***************************************************************************)
(* The assumption: one thread serves the requests.  With two, both may     *)
(* look for a movement before either has committed its own.                *)
(***************************************************************************)
OneAtATime == \A g, h \in Handlers : g = h

SameMovement(m, n) ==
  /\ m.reference = n.reference /\ m.reference # "sale_order"
  /\ m.id = n.id /\ m.product = n.product

NoneTwice(rows) ==
  \A i, j \in DOMAIN rows : SameMovement(rows[i], rows[j]) => i = j

(***************************************************************************)
(* A row takes the product of a return from its order: a deduction of one  *)
(* of the order's lines, or of the whole order.                            *)
(***************************************************************************)
TookFor(row, m, ls) ==
  /\ row.product = m.product
  /\ \/ row.reference = "sale_order_line" /\ ls[row.id].order = m.id
     \/ row.reference = "sale_order" /\ row.id = m.id

(***************************************************************************)
(* What holds of the movements there are, and of those a transaction sees: *)
(* none twice, deductions of lines that exist, and returns after a         *)
(* deduction or of the product of a line that its request has flagged.     *)
(***************************************************************************)
GivenTo(ls, o, p) ==
  \E l \in Lines :
    ls[l].presence # "unused" /\ ls[l].order = o /\ p \in ls[l].given

GoodRows(rows, ls) ==
  /\ NoneTwice(rows)
  /\ \A i \in DOMAIN rows :
       rows[i].reference = "sale_order_line" =>
         rows[i].id \in Lines /\ ls[rows[i].id].presence # "unused"
  /\ \A i \in DOMAIN rows :
       rows[i].reference = "sale_order_cancel" =>
         \/ GivenTo(ls, rows[i].id, rows[i].product)
         \/ \E j \in 1 .. (i - 1) : TookFor(rows[j], rows[i], ls)

(***************************************************************************)
(* Rows hold a deduction of the product of line l, whose row is r.         *)
(***************************************************************************)
ProductDeducted(rows, l, r) ==
  \E i \in DOMAIN rows :
    /\ rows[i].product = r.product
    /\ \/ rows[i].reference = "sale_order_line" /\ rows[i].id = l
       \/ rows[i].reference = "sale_order" /\ rows[i].id = r.order

LinesDeducted(ls, rows) ==
  \A l \in Lines :
    /\ ls[l].presence = "unused" => ~ls[l].applied
    /\ ls[l].applied =>
         ProductDeducted(rows, l, ls[l]) \/ ls[l].product \in ls[l].given

(***************************************************************************)
(* A row a transaction is to go over is still the line as it is; a         *)
(* reversal goes over flagged lines only.                                  *)
(***************************************************************************)
RowIsCurrent(row, ls, o, mode) ==
  /\ row.id \in Lines
  /\ ls[row.id].presence = "live" /\ ls[row.id].order = o
  /\ row.product = ls[row.id].product /\ row.qty = ls[row.id].qty
  /\ row.applied = ls[row.id].applied
  /\ mode = "reverse" => row.applied

(***************************************************************************)
(* What the handler knows: a transaction sees good rows, its rows to come  *)
(* are current, what it has flagged is deducted, and what it has looked up *)
(* for the next row still holds; an edit still has before it the line it   *)
(* has read.                                                               *)
(***************************************************************************)
Found(h, row) ==
  IF tx[h].mode = "apply"
  THEN DeductionExists(req[h].order, row, Visible(h))
  ELSE ReturnExists(req[h].order, row, Visible(h))

InTransaction(h) ==
  /\ pc[h] \notin {"loop", "write"} =>
       tx[h].staged = << >> /\ tx[h].flags = {} /\ tx[h].todo = {}
  /\ GoodRows(Visible(h), line)
  /\ \A row \in tx[h].todo : RowIsCurrent(row, line, req[h].order, tx[h].mode)
  /\ tx[h].mode = "apply" =>
       \A l \in tx[h].flags : /\ line[l].presence # "unused"
                             /\ ProductDeducted(Visible(h), l, line[l])
  /\ pc[h] = "write" =>
       \A row \in tx[h].todo : IsNextRow(h, row) => (tx[h].seen <=> Found(h, row))

InEdit(h) ==
  pc[h] = "lineWrite" =>
    /\ line[req[h].line].presence = "live"
    /\ req[h].applied = line[req[h].line].applied
    /\ line[req[h].line].applied =>
         line[req[h].line].product \in {NoProduct, req[h].product}

SerialInv ==
  /\ LinesDeducted(line, movements)
  /\ GoodRows(movements, line)
  /\ \A h \in Handlers : InTransaction(h) /\ InEdit(h)

(***************************************************************************)
(* What is good of rows stays good when lines that exist stay with their   *)
(* orders, and when a row is appended that is the first of its key, of a   *)
(* line that exists or a return after a deduction.                         *)
(***************************************************************************)
LEMMA GoodKept ==
  ASSUME NEW rows \in Seq(Movement), NEW ls, NEW ms, GoodRows(rows, ls),
         \A l \in Lines : ls[l].presence # "unused" =>
           /\ ms[l].presence # "unused" /\ ms[l].order = ls[l].order
           /\ ls[l].given \subseteq ms[l].given
  PROVE  GoodRows(rows, ms)
<1>1. NoneTwice(rows)
  BY DEF GoodRows
<1>2. \A i \in DOMAIN rows :
        rows[i].reference = "sale_order_line" =>
          /\ rows[i].id \in Lines /\ ms[rows[i].id].presence # "unused"
          /\ ms[rows[i].id].order = ls[rows[i].id].order
  BY DEF GoodRows
<1>3. ASSUME NEW i \in DOMAIN rows, rows[i].reference = "sale_order_cancel",
             ~GivenTo(ms, rows[i].id, rows[i].product)
      PROVE  \E j \in 1 .. (i - 1) : TookFor(rows[j], rows[i], ms)
  <2>0. ~GivenTo(ls, rows[i].id, rows[i].product)
    BY <1>3 DEF GivenTo
  <2>1. PICK j \in 1 .. (i - 1) : TookFor(rows[j], rows[i], ls)
    BY <1>3, <2>0 DEF GoodRows
  <2>2. j \in DOMAIN rows
    BY <2>1
  <2>3. TookFor(rows[j], rows[i], ms)
    BY <1>2, <2>1, <2>2 DEF TookFor
  <2> QED
    BY <2>3
<1> QED
  BY <1>1, <1>2, <1>3 DEF GoodRows

LEMMA GoodAppend ==
  ASSUME NEW rows \in Seq(Movement), NEW m \in Movement, NEW ls,
         GoodRows(rows, ls),
         \A i \in DOMAIN rows : ~SameMovement(rows[i], m),
         m.reference = "sale_order_line" =>
           m.id \in Lines /\ ls[m.id].presence # "unused",
         m.reference = "sale_order_cancel" =>
           GivenTo(ls, m.id, m.product) \/ \E j \in DOMAIN rows : TookFor(rows[j], m, ls)
  PROVE  GoodRows(Append(rows, m), ls)
<1> DEFINE all == Append(rows, m)
           n == Len(rows)
<1>1. /\ n \in Nat /\ DOMAIN rows = 1 .. n /\ DOMAIN all = 1 .. (n + 1)
      /\ \A i \in 1 .. n : all[i] = rows[i]
      /\ all[n + 1] = m
  OBVIOUS
<1> HIDE DEF all, n
<1>2. NoneTwice(all)
  <2> SUFFICES ASSUME NEW i \in 1 .. (n + 1), NEW j \in 1 .. (n + 1),
                      SameMovement(all[i], all[j])
               PROVE  i = j
    BY <1>1 DEF NoneTwice
  <2>1. CASE i \in 1 .. n /\ j \in 1 .. n
    BY <1>1, <2>1 DEF GoodRows, NoneTwice
  <2>2. CASE i \in 1 .. n /\ j = n + 1
    BY <1>1, <2>2
  <2>3. CASE i = n + 1 /\ j \in 1 .. n
    BY <1>1, <2>3 DEF SameMovement
  <2>4. CASE i = n + 1 /\ j = n + 1
    BY <2>4
  <2> QED
    BY <1>1, <2>1, <2>2, <2>3, <2>4
<1>3. \A i \in DOMAIN all :
        all[i].reference = "sale_order_line" =>
          all[i].id \in Lines /\ ls[all[i].id].presence # "unused"
  BY <1>1 DEF GoodRows
<1>4. ASSUME NEW i \in DOMAIN all, all[i].reference = "sale_order_cancel",
             ~GivenTo(ls, all[i].id, all[i].product)
      PROVE  \E j \in 1 .. (i - 1) : TookFor(all[j], all[i], ls)
  <2>1. CASE i \in 1 .. n
    <3>1. PICK j \in 1 .. (i - 1) : TookFor(rows[j], rows[i], ls)
      BY <1>1, <1>4, <2>1 DEF GoodRows
    <3>2. all[j] = rows[j] /\ all[i] = rows[i]
      BY <1>1, <2>1
    <3> QED
      BY <3>1, <3>2
  <2>2. CASE i = n + 1
    <3>1. PICK j \in DOMAIN rows : TookFor(rows[j], m, ls)
      BY <1>1, <1>4, <2>2
    <3>2. all[j] = rows[j] /\ all[i] = m /\ j \in 1 .. (i - 1)
      BY <1>1, <2>2
    <3> QED
      BY <3>1, <3>2
  <2> QED
    BY <1>1, <2>1, <2>2
<1> QED
  BY <1>2, <1>3, <1>4 DEF GoodRows, all

LEMMA ProductDeductedAppend ==
  ASSUME NEW rows \in Seq(Movement), NEW m \in Movement, NEW l, NEW r
  PROVE  /\ ProductDeducted(rows, l, r) => ProductDeducted(Append(rows, m), l, r)
         /\ /\ m.reference = "sale_order_line" /\ m.id = l
            /\ m.product = r.product
            => ProductDeducted(Append(rows, m), l, r)
<1> DEFINE all == Append(rows, m)
           n == Len(rows)
<1>1. /\ n \in Nat /\ DOMAIN rows = 1 .. n /\ DOMAIN all = 1 .. (n + 1)
      /\ \A i \in 1 .. n : all[i] = rows[i]
      /\ all[n + 1] = m
  OBVIOUS
<1>2. n + 1 \in DOMAIN all /\ \A i \in DOMAIN rows : i \in DOMAIN all
  BY <1>1
<1> HIDE DEF all, n
<1>3. ProductDeducted(rows, l, r) => ProductDeducted(all, l, r)
  BY <1>1, <1>2 DEF ProductDeducted
<1>4. m.reference = "sale_order_line" /\ m.id = l /\ m.product = r.product
        => ProductDeducted(all, l, r)
  BY <1>1, <1>2 DEF ProductDeducted
<1> QED
  BY <1>3, <1>4 DEF all

LEMMA ProductDeductedPrefix ==
  ASSUME NEW old \in Seq(Movement), NEW new \in Seq(Movement), NEW l, NEW r,
         ProductDeducted(old, l, r)
  PROVE  ProductDeducted(old \o new, l, r)
<1> DEFINE all == old \o new
<1>1. /\ Len(old) \in Nat /\ Len(new) \in Nat
      /\ all \in Seq(Movement)
      /\ Len(all) = Len(old) + Len(new)
      /\ \A i \in 1 .. Len(old) : all[i] = old[i]
  BY ConcatProperties
<1>2. /\ DOMAIN old = 1 .. Len(old)
      /\ DOMAIN all = 1 .. Len(all)
  BY <1>1
<1> HIDE DEF all
<1>3. \A i \in DOMAIN old : i \in DOMAIN all /\ all[i] = old[i]
  BY <1>1, <1>2
<1>4. ProductDeducted(all, l, r)
  BY <1>3 DEF ProductDeducted
<1> QED
  BY <1>4 DEF all

(***************************************************************************)
(* A row staged is a row appended to those the transaction sees.           *)
(***************************************************************************)
LEMMA StagedLast ==
  ASSUME NEW old \in Seq(Movement), NEW new \in Seq(Movement), NEW m \in Movement
  PROVE  old \o Append(new, m) = Append(old \o new, m)
<1>1. /\ old \o Append(new, m) \in Seq(Movement)
      /\ Append(old \o new, m) \in Seq(Movement)
      /\ Len(old \o Append(new, m)) = Len(old) + Len(new) + 1
      /\ Len(Append(old \o new, m)) = Len(old) + Len(new) + 1
  OBVIOUS
<1>2. \A i \in 1 .. (Len(old) + Len(new) + 1) :
        (old \o Append(new, m))[i] = Append(old \o new, m)[i]
  OBVIOUS
<1> QED
  BY <1>1, <1>2, SeqEqual

(***************************************************************************)
(* Nothing is pending after the steps that end a stage, and the invariant  *)
(* holds then if it holds of what is committed.                            *)
(***************************************************************************)
LEMMA NothingStaged ==
  ASSUME TypeOK, NEW h \in Handlers, NEW stage,
         \/ Finish(h)
         \/ LeaveStage(h, stage)
         \/ \E mode \in {"apply", "reverse"} :
              OpenTransaction(h, mode, stage) /\ UNCHANGED req
  PROVE  /\ tx'[h].staged = << >> /\ tx'[h].flags = {} /\ tx'[h].todo = {}
         /\ pc'[h] \notin {"loop", "write", "lineWrite", "lineDelete"}
<1>1. CASE Finish(h)
  BY <1>1, IdleValues DEF Finish, TypeOK, HandlersTyped
<1>2. ASSUME NEW mode, NEW at, OpenTransaction(h, mode, at)
      PROVE  /\ tx'[h].staged = << >> /\ tx'[h].flags = {} /\ tx'[h].todo = {}
             /\ pc'[h] = "begin"
  BY <1>2 DEF OpenTransaction, NoTransaction, TypeOK, HandlersTyped
<1>3. CASE /\ pc' = [pc EXCEPT ![h] = "labelLine"]
           /\ tx' = [tx EXCEPT ![h] = NoTransaction]
  BY <1>3, IdleValues DEF TypeOK, HandlersTyped
<1> QED
  BY <1>1, <1>2, <1>3 DEF LeaveStage

LEMMA SerialSettled ==
  ASSUME OneAtATime, TypeOK', NEW h \in Handlers,
         tx'[h].staged = << >>, tx'[h].flags = {}, tx'[h].todo = {},
         pc'[h] \notin {"loop", "write", "lineWrite"},
         LinesDeducted(line', movements'), GoodRows(movements', line')
  PROVE  SerialInv'
<1>1. Visible(h)' = movements'
  BY DEF Visible, TypeOK
<1>2. GoodRows(Visible(h), line)'
  BY <1>1
<1>3. InTransaction(h)'
  BY <1>2 DEF InTransaction
<1>4. InEdit(h)'
  BY DEF InEdit
<1>5. \A g \in Handlers : g = h
  BY DEF OneAtATime
<1> QED
  BY <1>3, <1>4, <1>5 DEF SerialInv

LEMMA SerialInit == Init => SerialInv
<1> SUFFICES ASSUME Init PROVE SerialInv
  OBVIOUS
<1>1. LinesDeducted(line, movements)
  BY InitialLinesMarked DEF Init, LinesDeducted, InitialLinesMarked
<1>2. movements = << >>
  BY DEF Init
<1>3. GoodRows(movements, line)
  BY <1>2 DEF GoodRows, NoneTwice
<1>4. ASSUME NEW h \in Handlers
      PROVE  InTransaction(h) /\ InEdit(h)
  <2>1. /\ tx[h].staged = << >> /\ tx[h].flags = {} /\ tx[h].todo = {}
        /\ pc[h] = "idle"
    BY IdleValues DEF Init
  <2>2. Visible(h) = movements
    BY <1>2, <2>1 DEF Visible
  <2> QED
    BY <1>3, <2>1, <2>2 DEF InTransaction, InEdit
<1> QED
  BY <1>1, <1>3, <1>4 DEF SerialInv

LEMMA SerialRequests ==
  ASSUME OneAtATime, TypeOK, TypeOK', SerialInv, NEW h \in Handlers, NewRequest(h)
  PROVE  SerialInv'
<1>1. /\ pc[h] = "idle" /\ tx' = tx /\ line' = line /\ movements' = movements
  BY DEF NewRequest, ReadOrder, ReadSlip, ReadLineForEdit, ReadLineForDelete
<1>2. /\ tx'[h].staged = << >> /\ tx'[h].flags = {} /\ tx'[h].todo = {}
  BY <1>1 DEF SerialInv, InTransaction
<1>3. LinesDeducted(line', movements') /\ GoodRows(movements', line')
  BY <1>1 DEF SerialInv
<1>4. ASSUME ~ \E l \in Lines : ReadLineForEdit(h, l)
      PROVE  SerialInv'
  <2>1. pc'[h] \in {"update", "lineDelete"}
    BY <1>4 DEF NewRequest, ReadOrder, ReadSlip, ReadLineForDelete, TypeOK,
       HandlersTyped
  <2> QED
    BY <1>2, <1>3, <2>1, SerialSettled
<1>5. ASSUME NEW l \in Lines, ReadLineForEdit(h, l)
      PROVE  SerialInv'
  <2>1. PICK p \in Products \cup {NoProduct}, q \in Quantities :
          /\ line[l].applied => line[l].product \in {NoProduct, p}
          /\ req' = [req EXCEPT ![h] = [NoRequest EXCEPT
               !.line = l, !.product = p, !.qty = q, !.applied = line[l].applied]]
    BY <1>5 DEF ReadLineForEdit
  <2>2. /\ pc'[h] = "lineWrite"
        /\ req'[h].line = l /\ req'[h].applied = line[l].applied
        /\ req'[h].product = p
        /\ line[l].presence = "live"
    BY <1>5, <2>1, IdleValues DEF ReadLineForEdit, TypeOK, HandlersTyped, Request
  <2>3. line[l].applied => line[l].product \in {NoProduct, p}
    BY <2>1
  <2>4. InEdit(h)'
    BY <1>1, <2>2, <2>3 DEF InEdit
  <2>5. Visible(h)' = movements'
    BY <1>2 DEF Visible, TypeOK
  <2>6. InTransaction(h)'
    BY <1>2, <1>3, <2>2, <2>5 DEF InTransaction
  <2>7. \A g \in Handlers : g = h
    BY DEF OneAtATime
  <2> QED
    BY <1>3, <2>4, <2>6, <2>7 DEF SerialInv
<1> QED
  BY <1>4, <1>5

LEMMA SerialQuietSteps ==
  ASSUME OneAtATime, TypeOK, TypeOK', SerialInv, NEW h \in Handlers,
         \/ UpdateOrder(h) \/ SyncRead(h)
         \/ BreakDeadlock(h) \/ Fail(h)
  PROVE  SerialInv'
<1>1. LinesDeducted(line', movements') /\ GoodRows(movements', line')
  BY DEF UpdateOrder, SyncRead, BreakDeadlock, Fail, SerialInv
<1>2. CASE UpdateOrder(h)
  <2>1. /\ tx'[h].staged = << >> /\ tx'[h].flags = {} /\ tx'[h].todo = {}
        /\ pc'[h] = "sync"
    BY <1>2 DEF UpdateOrder, SerialInv, InTransaction, TypeOK, HandlersTyped
  <2> QED
    BY <1>1, <2>1, SerialSettled
<1>3. CASE SyncRead(h)
  BY <1>1, <1>3, NothingStaged, SerialSettled DEF SyncRead
<1>4. CASE BreakDeadlock(h) \/ Fail(h)
  BY <1>1, <1>4, NothingStaged, SerialSettled DEF BreakDeadlock, Fail
<1> QED
  BY <1>2, <1>3, <1>4

LEMMA SerialBegin ==
  ASSUME OneAtATime, TypeOK, TypeOK', SerialInv, NEW h \in Handlers,
         BeginTransaction(h)
  PROVE  SerialInv'
<1>1. /\ line' = line /\ movements' = movements /\ pc[h] = "begin"
      /\ LinesDeducted(line', movements') /\ GoodRows(movements', line')
  BY DEF BeginTransaction, SerialInv
<1>2. CASE tx[h].mode = "apply" /\ ~ShouldBeApplied(req[h].order)
  BY <1>1, <1>2, NothingStaged, SerialSettled DEF BeginTransaction
<1>3. CASE ~(tx[h].mode = "apply" /\ ~ShouldBeApplied(req[h].order))
  <2> DEFINE S == IF tx[h].mode = "apply" THEN ProductLines(req[h].order)
                  ELSE LinesToReverse(req[h].order)
  <2>1. /\ pc' = [pc EXCEPT ![h] = "loop"]
        /\ tx' = [tx EXCEPT ![h].todo = LoopRows(S)]
        /\ req' = req
    BY <1>3 DEF BeginTransaction
  <2>2. \A l \in S : /\ l \in Lines
                     /\ line[l].presence = "live"
                     /\ line[l].order = req[h].order
                     /\ tx[h].mode = "reverse" => line[l].applied
    BY DEF LinesToReverse, ProductLines
  <2> HIDE DEF S
  <2>3. \A row \in LoopRows(S) :
          RowIsCurrent(row, line, req[h].order, tx[h].mode)
    BY <2>2 DEF LoopRows, RowIsCurrent
  <2>4. tx[h].flags = {} /\ tx[h].staged = << >>
    BY <1>1 DEF SerialInv, InTransaction
  <2>5. /\ pc'[h] = "loop" /\ tx'[h].flags = {} /\ tx'[h].todo = LoopRows(S)
        /\ tx'[h].staged = << >> /\ tx'[h].mode = tx[h].mode
    BY <2>1, <2>4 DEF TypeOK, HandlersTyped, Transaction
  <2>6. Visible(h)' = movements'
    BY <2>5 DEF Visible, TypeOK
  <2>7. \A row \in tx'[h].todo :
          RowIsCurrent(row, line', req'[h].order, tx'[h].mode)
    BY <1>1, <2>1, <2>3, <2>5
  <2>8. InTransaction(h)'
    BY <1>1, <2>5, <2>6, <2>7 DEF InTransaction
  <2>9. InEdit(h)' /\ \A g \in Handlers : g = h
    BY <2>5 DEF InEdit, OneAtATime
  <2> QED
    BY <1>1, <2>8, <2>9 DEF SerialInv
<1> QED
  BY <1>2, <1>3

(***************************************************************************)
(* Two next rows are one row, since both are the line as it is.            *)
(***************************************************************************)
LEMMA OneNextRow ==
  ASSUME TypeOK, SerialInv, NEW h \in Handlers,
         NEW row \in tx[h].todo, NEW other \in tx[h].todo,
         IsNextRow(h, row), IsNextRow(h, other)
  PROVE  row = other
<1>1. row \in LoopRow /\ other \in LoopRow
  BY DEF TypeOK, HandlersTyped, Transaction
<1>2. row.id \in Nat /\ other.id \in Nat
  BY <1>1, ConstantTypes DEF LoopRow, ConstantTypes
<1>3. row.id <= other.id /\ other.id <= row.id
  BY DEF IsNextRow
<1>4. row.id = other.id
  BY <1>2, <1>3
<1>5. /\ RowIsCurrent(row, line, req[h].order, tx[h].mode)
      /\ RowIsCurrent(other, line, req[h].order, tx[h].mode)
  BY DEF SerialInv, InTransaction
<1>6. /\ row.product = other.product /\ row.qty = other.qty
      /\ row.applied = other.applied
  BY <1>4, <1>5 DEF RowIsCurrent
<1> QED
  BY <1>1, <1>4, <1>6 DEF LoopRow

LEMMA SerialCheck ==
  ASSUME OneAtATime, TypeOK, TypeOK', SerialInv, NEW h \in Handlers, CheckRow(h)
  PROVE  SerialInv'
<1>1. PICK row \in tx[h].todo :
        /\ IsNextRow(h, row)
        /\ \/ /\ tx' = [tx EXCEPT ![h].todo = @ \ {row}]
              /\ pc' = pc
           \/ /\ tx' = [tx EXCEPT ![h].seen = Found(h, row)]
              /\ pc' = [pc EXCEPT ![h] = "write"]
  BY DEF CheckRow, Found
<1>2. pc[h] = "loop" /\ req' = req /\ line' = line /\ movements' = movements
  BY DEF CheckRow
<1>3. LinesDeducted(line', movements') /\ GoodRows(movements', line')
  BY <1>2 DEF SerialInv
<1>4. /\ tx'[h].mode = tx[h].mode /\ tx'[h].flags = tx[h].flags
      /\ tx'[h].staged = tx[h].staged
      /\ tx'[h].todo \subseteq tx[h].todo
  <2>1. CASE tx' = [tx EXCEPT ![h].todo = @ \ {row}]
    BY <2>1 DEF TypeOK, HandlersTyped, Transaction
  <2>2. CASE tx' = [tx EXCEPT ![h].seen = Found(h, row)]
    BY <2>2 DEF TypeOK, HandlersTyped, Transaction
  <2> QED
    BY <1>1, <2>1, <2>2
<1>5. Visible(h)' = Visible(h)
  BY <1>2, <1>4 DEF Visible
<1>6. pc'[h] \in {"loop", "write"}
  BY <1>1, <1>2 DEF TypeOK, HandlersTyped
<1>7. ASSUME pc'[h] = "write", NEW other \in tx'[h].todo, IsNextRow(h, other)'
      PROVE  tx'[h].seen <=> Found(h, other)'
  <2>1. tx' = [tx EXCEPT ![h].seen = Found(h, row)]
    BY <1>1, <1>2, <1>7
  <2>2. tx'[h].todo = tx[h].todo /\ tx'[h].seen = Found(h, row)
    BY <2>1 DEF TypeOK, HandlersTyped, Transaction
  <2>3. IsNextRow(h, other)
    BY <1>7, <2>2 DEF IsNextRow
  <2>4. other = row
    BY <1>1, <2>2, <2>3, OneNextRow
  <2>5. Found(h, other)' = Found(h, row)
    BY <1>2, <1>4, <1>5, <2>4 DEF Found
  <2> QED
    BY <2>2, <2>5
<1>8. \A r \in tx'[h].todo : RowIsCurrent(r, line', req'[h].order, tx'[h].mode)
  BY <1>2, <1>4 DEF SerialInv, InTransaction
<1>9. /\ GoodRows(Visible(h)', line')
      /\ tx'[h].mode = "apply" =>
           \A l \in tx'[h].flags : /\ line'[l].presence # "unused"
                                  /\ ProductDeducted(Visible(h)', l, line'[l])
  BY <1>2, <1>4, <1>5 DEF SerialInv, InTransaction
<1>10. InTransaction(h)'
  BY <1>6, <1>7, <1>8, <1>9 DEF InTransaction
<1>11. InEdit(h)' /\ \A g \in Handlers : g = h
  BY <1>6 DEF InEdit, OneAtATime
<1> QED
  BY <1>3, <1>10, <1>11 DEF SerialInv

(***************************************************************************)
(* The movement of a row for which none was found is the first of its key. *)
(***************************************************************************)
LEMMA NewDeduction ==
  ASSUME NEW o, NEW row \in LoopRow, NEW rows,
         ~DeductionExists(o, row, rows)
  PROVE  \A i \in DOMAIN rows : ~SameMovement(rows[i], Deduction(row))
BY DEF DeductionExists, SameMovement, Deduction

LEMMA NewReturn ==
  ASSUME NEW o, NEW row \in LoopRow, NEW rows,
         ~ReturnExists(o, row, rows)
  PROVE  \A i \in DOMAIN rows : ~SameMovement(rows[i], Return(o, row))
BY DEF ReturnExists, SameMovement, Return

(***************************************************************************)
(* Writing a row: a deduction has a line that exists, a return follows the *)
(* deduction its flagged line has.                                         *)
(***************************************************************************)
LEMMA SerialWrite ==
  ASSUME OneAtATime, TypeOK, TypeOK', SerialInv, NEW h \in Handlers, WriteRow(h)
  PROVE  SerialInv'
<1>1. PICK row \in tx[h].todo :
        /\ IsNextRow(h, row)
        /\ tx' = [tx EXCEPT
             ![h].todo = @ \ {row},
             ![h].seen = FALSE,
             ![h].flags = @ \cup {row.id},
             ![h].staged =
                IF tx[h].seen THEN @
                ELSE Append(@, IF tx[h].mode = "apply" THEN Deduction(row)
                               ELSE Return(req[h].order, row))]
  BY DEF WriteRow
<1>2. /\ pc[h] = "write" /\ pc' = [pc EXCEPT ![h] = "loop"]
      /\ req' = req /\ line' = line /\ movements' = movements
  BY DEF WriteRow
<1>3. LinesDeducted(line', movements') /\ GoodRows(movements', line')
  BY <1>2 DEF SerialInv
<1>4. pc'[h] = "loop"
  BY <1>2 DEF TypeOK, HandlersTyped
<1>5. /\ tx'[h].mode = tx[h].mode
      /\ tx'[h].todo \subseteq tx[h].todo
      /\ tx'[h].flags = tx[h].flags \cup {row.id}
      /\ tx'[h].staged =
           IF tx[h].seen THEN tx[h].staged
           ELSE Append(tx[h].staged, IF tx[h].mode = "apply" THEN Deduction(row)
                                     ELSE Return(req[h].order, row))
  BY <1>1 DEF TypeOK, HandlersTyped, Transaction
<1>6. /\ movements \in Seq(Movement) /\ tx[h].staged \in Seq(Movement)
      /\ tx[h].mode \in {"apply", "reverse"}
      /\ row \in LoopRow /\ row.id \in Lines
      /\ req[h].order \in Orders
  BY DEF TypeOK, HandlersTyped, Transaction, Request, LoopRow
<1>7. Visible(h) \in Seq(Movement)
  BY <1>6 DEF Visible
<1>8. /\ GoodRows(Visible(h), line)
      /\ RowIsCurrent(row, line, req[h].order, tx[h].mode)
      /\ tx[h].seen <=> Found(h, row)
  BY <1>1, <1>2 DEF SerialInv, InTransaction
<1>9. Deduction(row) \in Movement /\ Return(req[h].order, row) \in Movement
  BY <1>6, MovementTypes
<1>10. ASSUME tx[h].seen
       PROVE  InTransaction(h)'
  <2>1. Visible(h)' = Visible(h)
    BY <1>2, <1>5, <1>10 DEF Visible
  <2>2. tx[h].mode = "apply" => ProductDeducted(Visible(h), row.id, line[row.id])
    BY <1>8, <1>10 DEF Found, DeductionExists, ProductDeducted, RowIsCurrent
  <2>3. ASSUME tx'[h].mode = "apply", NEW l \in tx'[h].flags
        PROVE  line'[l].presence # "unused" /\ ProductDeducted(Visible(h)', l, line'[l])
    <3>1. CASE l = row.id
      BY <1>2, <1>5, <1>8, <2>1, <2>2, <2>3, <3>1 DEF RowIsCurrent
    <3>2. CASE l \in tx[h].flags
      BY <1>2, <1>5, <2>1, <2>3, <3>2 DEF SerialInv, InTransaction
    <3> QED
      BY <1>5, <2>3, <3>1, <3>2
  <2>4. GoodRows(Visible(h)', line')
    BY <1>2, <1>8, <2>1
  <2>5. \A r \in tx'[h].todo : RowIsCurrent(r, line', req'[h].order, tx'[h].mode)
    BY <1>2, <1>5 DEF SerialInv, InTransaction
  <2> QED
    BY <1>4, <2>3, <2>4, <2>5 DEF InTransaction
<1>11. ASSUME ~tx[h].seen, tx[h].mode = "apply"
       PROVE  InTransaction(h)'
  <2>1. Visible(h)' = Append(Visible(h), Deduction(row))
    <3>1. movements \o Append(tx[h].staged, Deduction(row))
            = Append(movements \o tx[h].staged, Deduction(row))
      BY <1>6, <1>9, StagedLast
    <3>2. tx'[h].staged = Append(tx[h].staged, Deduction(row))
      BY <1>5, <1>11
    <3> QED
      BY <1>2, <3>1, <3>2 DEF Visible
  <2>2. ~DeductionExists(req[h].order, row, Visible(h))
    BY <1>8, <1>11 DEF Found
  <2>3. /\ Deduction(row).reference = "sale_order_line"
        /\ Deduction(row).id = row.id /\ Deduction(row).product = row.product
    BY DEF Deduction
  <2>4. \A i \in DOMAIN Visible(h) : ~SameMovement(Visible(h)[i], Deduction(row))
    BY <1>6, <2>2, NewDeduction
  <2> DEFINE m == Deduction(row)
             rows == Visible(h)
  <2>5. /\ m \in Movement /\ rows \in Seq(Movement) /\ GoodRows(rows, line)
        /\ \A i \in DOMAIN rows : ~SameMovement(rows[i], m)
        /\ m.reference = "sale_order_line" /\ m.id = row.id
        /\ m.product = line[row.id].product
        /\ m.id \in Lines /\ line[m.id].presence # "unused"
    BY <1>6, <1>7, <1>8, <1>9, <2>3, <2>4 DEF RowIsCurrent
  <2>6. Visible(h)' = Append(rows, m)
    BY <2>1
  <2>7. \A l \in tx[h].flags : /\ line[l].presence # "unused"
                               /\ ProductDeducted(rows, l, line[l])
    BY <1>11 DEF SerialInv, InTransaction
  <2> HIDE DEF m, rows
  <2>8. GoodRows(Append(rows, m), line)
    BY <2>5, GoodAppend
  <2>9. GoodRows(Visible(h)', line')
    BY <1>2, <2>6, <2>8
  <2>10. ASSUME NEW l \in tx'[h].flags
         PROVE  line'[l].presence # "unused" /\ ProductDeducted(Visible(h)', l, line'[l])
    <3>1. CASE l = row.id
      <4>1. ProductDeducted(Append(rows, m), l, line[l])
        BY <2>5, <3>1, ProductDeductedAppend
      <4> QED
        BY <1>2, <1>8, <2>6, <3>1, <4>1 DEF RowIsCurrent
    <3>2. CASE l \in tx[h].flags
      <4>1. ProductDeducted(Append(rows, m), l, line[l])
        BY <2>5, <2>7, <3>2, ProductDeductedAppend
      <4> QED
        BY <1>2, <2>6, <2>7, <3>2, <4>1
    <3> QED
      BY <1>5, <2>10, <3>1, <3>2
  <2>11. \A r \in tx'[h].todo : RowIsCurrent(r, line', req'[h].order, tx'[h].mode)
    BY <1>2, <1>5 DEF SerialInv, InTransaction
  <2> QED
    BY <1>4, <2>9, <2>10, <2>11 DEF InTransaction
<1>12. ASSUME ~tx[h].seen, tx[h].mode = "reverse"
       PROVE  InTransaction(h)'
  <2> DEFINE m == Return(req[h].order, row)
             rows == Visible(h)
  <2>1. Visible(h)' = Append(rows, m)
    <3>1. movements \o Append(tx[h].staged, m) = Append(movements \o tx[h].staged, m)
      BY <1>6, <1>9, StagedLast
    <3>2. tx'[h].staged = Append(tx[h].staged, m)
      BY <1>5, <1>12
    <3> QED
      BY <1>2, <3>1, <3>2 DEF Visible
  <2>2. ~ReturnExists(req[h].order, row, rows)
    BY <1>8, <1>12 DEF Found
  <2>3. /\ m.reference = "sale_order_cancel"
        /\ m.id = req[h].order /\ m.product = row.product
    BY DEF Return
  <2>4. \A i \in DOMAIN rows : ~SameMovement(rows[i], m)
    BY <1>6, <2>2, NewReturn
  <2>5. GivenTo(line, m.id, m.product) \/ \E j \in DOMAIN rows : TookFor(rows[j], m, line)
    <3>1. line[row.id].applied /\ line[row.id].order = req[h].order
          /\ line[row.id].product = row.product
      BY <1>8, <1>12 DEF RowIsCurrent
    <3>4. CASE line[row.id].product \in line[row.id].given
      BY <1>6, <1>8, <2>3, <3>1, <3>4 DEF GivenTo, RowIsCurrent
    <3> SUFFICES ASSUME line[row.id].product \notin line[row.id].given
                 PROVE  \E j \in DOMAIN rows : TookFor(rows[j], m, line)
      BY <3>4
    <3>2. ProductDeducted(movements, row.id, line[row.id])
      BY <1>6, <3>1 DEF SerialInv, LinesDeducted
    <3>3. ProductDeducted(rows, row.id, line[row.id])
      BY <1>6, <3>2, ProductDeductedPrefix DEF Visible
    <3> QED
      BY <2>3, <3>1, <3>3 DEF ProductDeducted, TookFor
  <2>6. m \in Movement /\ rows \in Seq(Movement) /\ GoodRows(rows, line)
    BY <1>7, <1>8, <1>9
  <2> HIDE DEF m, rows
  <2>7. GoodRows(Append(rows, m), line)
    BY <2>3, <2>4, <2>5, <2>6, GoodAppend
  <2>8. GoodRows(Visible(h)', line')
    BY <1>2, <2>1, <2>7
  <2>9. \A r \in tx'[h].todo : RowIsCurrent(r, line', req'[h].order, tx'[h].mode)
    BY <1>2, <1>5 DEF SerialInv, InTransaction
  <2> QED
    BY <1>4, <1>5, <1>12, <2>8, <2>9 DEF InTransaction
<1>13. InTransaction(h)'
  BY <1>6, <1>10, <1>11, <1>12
<1>14. InEdit(h)' /\ \A g \in Handlers : g = h
  BY <1>4 DEF InEdit, OneAtATime
<1> QED
  BY <1>3, <1>13, <1>14 DEF SerialInv

LEMMA SerialCommit ==
  ASSUME OneAtATime, TypeOK, TypeOK', SerialInv, NEW h \in Handlers,
         CommitTransaction(h)
  PROVE  SerialInv'
<1>1. /\ movements \in Seq(Movement) /\ tx[h].staged \in Seq(Movement)
      /\ movements' = movements \o tx[h].staged
      /\ movements' = Visible(h) /\ movements' \in Seq(Movement)
  BY DEF CommitTransaction, Visible, TypeOK, HandlersTyped, Transaction
<1>2. ASSUME NEW l \in Lines
      PROVE  /\ line'[l].presence = line[l].presence
             /\ line'[l].order = line[l].order
             /\ line'[l].product = line[l].product
             /\ line'[l].given = line[l].given
             /\ line'[l].applied =>
                  \/ line[l].applied
                  \/ l \in tx[h].flags /\ tx[h].mode = "apply"
  <2>1. line[l] \in LineRow
    BY DEF TypeOK
  <2>2. line'[l] = IF l \in tx[h].flags /\ line[l].presence = "live"
                   THEN [line[l] EXCEPT !.applied = (tx[h].mode = "apply")]
                   ELSE line[l]
    BY DEF CommitTransaction
  <2> QED
    BY <2>1, <2>2 DEF LineRow
<1>3. GoodRows(movements', line')
  <2>1. GoodRows(movements', line)
    BY <1>1 DEF SerialInv, InTransaction
  <2>2. \A l \in Lines : line[l].presence # "unused" =>
          /\ line'[l].presence # "unused"
          /\ line'[l].order = line[l].order
          /\ line[l].given \subseteq line'[l].given
    BY <1>2
  <2> QED
    BY <1>1, <2>1, <2>2, GoodKept
<1>4. ASSUME NEW l \in Lines
      PROVE  /\ line'[l].presence = "unused" => ~line'[l].applied
             /\ line'[l].applied => \/ ProductDeducted(movements', l, line'[l])
                                   \/ line'[l].product \in line'[l].given
  <2>1. /\ line[l].presence = "unused" => ~line[l].applied
        /\ line[l].applied => \/ ProductDeducted(movements, l, line[l])
                             \/ line[l].product \in line[l].given
    BY DEF SerialInv, LinesDeducted
  <2>2. l \in tx[h].flags /\ tx[h].mode = "apply" =>
          line[l].presence # "unused" /\ ProductDeducted(movements', l, line[l])
    BY <1>1 DEF SerialInv, InTransaction
  <2>3. line[l].applied => \/ ProductDeducted(movements', l, line[l])
                           \/ line[l].product \in line[l].given
    BY <1>1, <2>1, ProductDeductedPrefix
  <2>4. ProductDeducted(movements', l, line[l]) =>
          ProductDeducted(movements', l, line'[l])
    BY <1>2 DEF ProductDeducted
  <2> QED
    BY <1>2, <2>1, <2>2, <2>3, <2>4
<1>5. LinesDeducted(line', movements')
  BY <1>4 DEF LinesDeducted
<1>6. LeaveStage(h, tx[h].stage)
  BY DEF CommitTransaction
<1> QED
  BY <1>3, <1>5, <1>6, NothingStaged, SerialSettled

(***************************************************************************)
(* A line is written or deleted as it was read.                            *)
(***************************************************************************)
LEMMA SerialLineWrites ==
  ASSUME OneAtATime, TypeOK, TypeOK', SerialInv, NEW h \in Handlers,
         WriteLine(h) \/ DeleteLine(h)
  PROVE  SerialInv'
<1>1. req[h].line \in Lines /\ movements' = movements /\ movements \in Seq(Movement)
  BY DEF WriteLine, DeleteLine, TypeOK, HandlersTyped, Request
<1>2. ASSUME NEW l \in Lines
      PROVE  /\ line'[l].presence = "unused" => line[l].presence = "unused"
             /\ line'[l].order = line[l].order
             /\ line[l].given \subseteq line'[l].given
             /\ line'[l].applied = line[l].applied
             /\ line[l].applied =>
                  \/ line'[l].product = line[l].product
                  \/ /\ line[l].product = NoProduct
                     /\ line[l].given # {} => line'[l].product \in line'[l].given
  <2>1. line[l] \in LineRow
    BY DEF TypeOK
  <2>2. CASE WriteLine(h)
    <3>1. InEdit(h) /\ pc[h] = "lineWrite"
      BY <2>2 DEF WriteLine, SerialInv
    <3>2. req[h] \in Request
      BY DEF TypeOK, HandlersTyped
    <3> QED
      BY <1>1, <2>1, <2>2, <3>1, <3>2, WrittenLine, EditedRow DEF InEdit
  <2>3. CASE DeleteLine(h)
    BY <1>1, <2>1, <2>3 DEF DeleteLine, TypeOK, LineRow
  <2> QED
    BY <2>2, <2>3
<1>3. GoodRows(movements', line')
  BY <1>1, <1>2, GoodKept DEF SerialInv
<1>4. LinesDeducted(line', movements')
  <2>1. ASSUME NEW l \in Lines, line[l].applied
        PROVE  \/ ProductDeducted(movements, l, line'[l])
               \/ line'[l].product \in line'[l].given
    <3>1. ProductDeducted(movements, l, line[l]) \/ line[l].product \in line[l].given
      BY <2>1 DEF SerialInv, LinesDeducted
    <3>2. CASE line'[l].product = line[l].product
      BY <1>2, <2>1, <3>1, <3>2 DEF ProductDeducted
    <3>3. CASE line[l].product = NoProduct
      <4>1. ~ProductDeducted(movements, l, line[l])
        <5> SUFFICES ASSUME NEW i \in DOMAIN movements,
                            movements[i].product = NoProduct
                     PROVE  FALSE
          BY <3>3 DEF ProductDeducted
        <5>1. movements[i] \in Movement
          BY DEF TypeOK
        <5> QED
          BY <5>1, ConstantTypes DEF Movement, ConstantTypes
      <4> QED
        BY <1>2, <2>1, <3>1, <3>2, <4>1
    <3> QED
      BY <1>2, <2>1, <3>2, <3>3
  <2> QED
    BY <1>1, <1>2, <2>1 DEF SerialInv, LinesDeducted
<1>5. Finish(h)
  BY DEF WriteLine, DeleteLine
<1> QED
  BY <1>3, <1>4, <1>5, NothingStaged, SerialSettled

(***************************************************************************)
(* A new line takes an id that no movement and no transaction knows.       *)
(***************************************************************************)
LEMMA SerialFreshLine ==
  ASSUME TypeOK, SerialInv, NEW l \in Lines, NextLine(l),
         NEW o, NEW p, NEW q, NEW a \in BOOLEAN, NewLine(l, o, p, q, a),
         movements' = movements
  PROVE  /\ \A k \in Lines : line[k].presence # "unused" => line'[k] = line[k]
         /\ LinesDeducted(line', movements')
         /\ \A rows \in Seq(Movement) : GoodRows(rows, line) => GoodRows(rows, line')
<1>1. ASSUME NEW k \in Lines
      PROVE  IF k = l
             THEN /\ line'[k].presence = "live"
                  /\ line'[k].applied => line'[k].product \in line'[k].given
             ELSE line'[k] = line[k]
  BY DEF NewLine, TypeOK
<1>2. \A k \in Lines : line[k].presence # "unused" => line'[k] = line[k]
  BY <1>1 DEF NextLine
<1>3. LinesDeducted(line', movements')
  BY <1>1 DEF LinesDeducted, SerialInv
<1>4. \A rows \in Seq(Movement) : GoodRows(rows, line) => GoodRows(rows, line')
  BY <1>2, GoodKept
<1> QED
  BY <1>2, <1>3, <1>4

LEMMA SerialSlip ==
  ASSUME OneAtATime, TypeOK, TypeOK', SerialInv, NEW h \in Handlers,
         AddSlipLine(h) \/ RecordSlipMovement(h)
  PROVE  SerialInv'
<1>1. CASE AddSlipLine(h) /\ Finish(h) /\ UNCHANGED line
  <2>1. LinesDeducted(line', movements') /\ GoodRows(movements', line')
    BY <1>1 DEF AddSlipLine, SerialInv
  <2> QED
    BY <1>1, <2>1, NothingStaged, SerialSettled
<1>2. CASE AddSlipLine(h) /\ ~(Finish(h) /\ UNCHANGED line)
  <2>1. /\ \E l \in Lines :
             NextLine(l) /\ NewLine(l, req[h].order, req[h].product, 1, FALSE)
        /\ pc[h] = "labelLine" /\ pc' = [pc EXCEPT ![h] = "labelMove"]
        /\ tx' = tx /\ movements' = movements
    BY <1>2 DEF AddSlipLine
  <2>2. GoodRows(movements, line) /\ movements \in Seq(Movement)
    BY DEF SerialInv, TypeOK
  <2>3. LinesDeducted(line', movements') /\ GoodRows(movements', line')
    BY <2>1, <2>2, SerialFreshLine
  <2>4. /\ tx'[h].staged = << >> /\ tx'[h].flags = {} /\ tx'[h].todo = {}
        /\ pc'[h] = "labelMove"
    BY <2>1 DEF SerialInv, InTransaction, TypeOK, HandlersTyped
  <2> QED
    BY <2>3, <2>4, SerialSettled
<1>3. CASE RecordSlipMovement(h)
  <2> DEFINE m == [reference |-> "sale_order", id |-> req[h].order,
                   product |-> req[h].product, delta |-> -1]
  <2>1. m \in Movement /\ movements \in Seq(Movement) /\ m.reference = "sale_order"
    BY <1>3 DEF RecordSlipMovement, TypeOK, HandlersTyped, Request, Movement
  <2>2. movements' = Append(movements, m) /\ line' = line /\ Finish(h)
    BY <1>3 DEF RecordSlipMovement
  <2> HIDE DEF m
  <2>3. \A i \in DOMAIN movements : ~SameMovement(movements[i], m)
    BY <2>1 DEF SameMovement
  <2>4. GoodRows(Append(movements, m), line)
    BY <2>1, <2>3, GoodAppend DEF SerialInv
  <2>5. LinesDeducted(line, Append(movements, m))
    BY <2>1, ProductDeductedAppend DEF SerialInv, LinesDeducted
  <2>6. LinesDeducted(line', movements') /\ GoodRows(movements', line')
    BY <2>2, <2>4, <2>5
  <2> QED
    BY <2>2, <2>6, NothingStaged, SerialSettled
<1> QED
  BY <1>1, <1>2, <1>3

LEMMA SerialAdd ==
  ASSUME OneAtATime, TypeOK, TypeOK', SerialInv, NEW o \in Orders, AddLine(o)
  PROVE  SerialInv'
<1>1. /\ pc' = pc /\ req' = req /\ tx' = tx /\ movements' = movements
      /\ movements \in Seq(Movement)
  BY DEF AddLine, TypeOK
<1>2. /\ \A k \in Lines : line[k].presence # "unused" => line'[k] = line[k]
      /\ LinesDeducted(line', movements')
      /\ \A rows \in Seq(Movement) : GoodRows(rows, line) => GoodRows(rows, line')
  <2>1. PICK l \in Lines, p \in Products \cup {NoProduct}, q \in Quantities,
             a \in NewLineApplied :
          NextLine(l) /\ NewLine(l, o, p, q, a)
    BY DEF AddLine
  <2>2. a \in BOOLEAN
    BY ConstantTypes DEF ConstantTypes
  <2> QED
    BY <1>1, <2>1, <2>2, SerialFreshLine
<1>3. ASSUME NEW h \in Handlers
      PROVE  InTransaction(h)'
  <2>1. InTransaction(h)
    BY DEF SerialInv
  <2>2. Visible(h)' = Visible(h) /\ Visible(h) \in Seq(Movement)
    BY <1>1 DEF Visible, TypeOK, HandlersTyped, Transaction
  <2>3. GoodRows(Visible(h)', line')
    BY <1>2, <2>1, <2>2 DEF InTransaction
  <2>4. ASSUME NEW row \in tx'[h].todo
        PROVE  RowIsCurrent(row, line', req'[h].order, tx'[h].mode)
    BY <1>1, <1>2, <2>1, <2>4 DEF InTransaction, RowIsCurrent
  <2>5. tx[h].flags \subseteq Lines
    BY DEF TypeOK, HandlersTyped, Transaction
  <2>6. ASSUME tx'[h].mode = "apply", NEW l \in tx'[h].flags
        PROVE  /\ line'[l].presence # "unused"
               /\ ProductDeducted(Visible(h)', l, line'[l])
    BY <1>1, <1>2, <2>1, <2>2, <2>5, <2>6 DEF InTransaction
  <2>7. ASSUME NEW row
        PROVE  /\ IsNextRow(h, row)' <=> IsNextRow(h, row)
               /\ Found(h, row)' <=> Found(h, row)
    BY <1>1, <2>2 DEF IsNextRow, Found
  <2> QED
    BY <1>1, <2>1, <2>3, <2>4, <2>6, <2>7 DEF InTransaction
<1>4. ASSUME NEW h \in Handlers
      PROVE  InEdit(h)'
  <2>1. InEdit(h) /\ req[h].line \in Lines
    BY DEF SerialInv, TypeOK, HandlersTyped, Request
  <2> QED
    BY <1>1, <1>2, <2>1 DEF InEdit
<1>5. GoodRows(movements', line')
  BY <1>1, <1>2 DEF SerialInv
<1> QED
  BY <1>2, <1>3, <1>4, <1>5 DEF SerialInv

LEMMA SerialStutter ==
  ASSUME SerialInv, UNCHANGED vars
  PROVE  SerialInv'
<1>1. ASSUME NEW h \in Handlers
      PROVE  InTransaction(h)' /\ InEdit(h)'
  <2>1. InTransaction(h) /\ InEdit(h)
    BY DEF SerialInv
  <2> QED
    BY <2>1 DEF vars, InTransaction, InEdit, Visible, IsNextRow, Found
<1> QED
  BY <1>1 DEF vars, SerialInv

LEMMA SerialNext ==
  ASSUME OneAtATime, TypeOK, TypeOK', SerialInv, [Next]_vars
  PROVE  SerialInv'
<1>1. CASE UNCHANGED vars
  BY <1>1, SerialStutter
<1>2. ASSUME NEW o \in Orders, AddLine(o)
      PROVE  SerialInv'
  BY <1>2, SerialAdd
<1>3. ASSUME NEW h \in Handlers, NewRequest(h)
      PROVE  SerialInv'
  BY <1>3, SerialRequests
<1>4. ASSUME NEW h \in Handlers, Step(h)
      PROVE  SerialInv'
  BY <1>4, SerialQuietSteps, SerialBegin, SerialCheck, SerialWrite, SerialCommit,
     SerialLineWrites, SerialSlip DEF Step
<1>5. ASSUME NEW h \in Handlers, BreakDeadlock(h) \/ Fail(h)
      PROVE  SerialInv'
  BY <1>5, SerialQuietSteps
<1> QED
  BY <1>1, <1>2, <1>3, <1>4, <1>5 DEF Next

(***************************************************************************)
(* With requests served one at a time, no line's product is deducted twice *)
(* and no order's product is given back twice, also when a request has     *)
(* added a line with its flag set.                                         *)
(***************************************************************************)
THEOREM MovementsOnce ==
  ASSUME OneAtATime
  PROVE  Spec => []OneMovementPerReference
<1>1. TypeOK /\ TypeOK' /\ SerialInv /\ [Next]_vars => SerialInv'
  BY SerialNext, OneAtATime
<1>2. SerialInv => OneMovementPerReference
  BY DEF SerialInv, GoodRows, NoneTwice, SameMovement, OneMovementPerReference
<1> QED
  BY <1>1, <1>2, SerialInit, TypeCorrect, PTL DEF Spec

(***************************************************************************)
(* Under the same assumption, stock given back for an order's product was  *)
(* taken for that order before, unless a request has added a line of the   *)
(* product to the order with its flag set.                                 *)
(***************************************************************************)
THEOREM ReturnsFollow ==
  ASSUME OneAtATime
  PROVE  Spec => []ReturnFollowsDeduction
<1>1. TypeOK /\ TypeOK' /\ SerialInv /\ [Next]_vars => SerialInv'
  BY SerialNext, OneAtATime
<1>2. SerialInv => ReturnFollowsDeduction
  BY DEF SerialInv, GoodRows, GivenTo, TookFor, ReturnFollowsDeduction,
         FlaggedByRequest
<1> QED
  BY <1>1, <1>2, SerialInit, TypeCorrect, PTL DEF Spec

-----------------------------------------------------------------------------
(* What a first sale takes *)

(***************************************************************************)
(* No movement of the whole order, and no return, has touched a product of *)
(* an order.                                                               *)
(***************************************************************************)
Untouched(rows, o, p) ==
  \A i \in DOMAIN rows :
    ~ /\ rows[i].reference \in {"sale_order", "sale_order_cancel"}
      /\ rows[i].id = o /\ rows[i].product = p

(***************************************************************************)
(* What a deduction took is what its line still holds: the line is there,  *)
(* flagged, or to be flagged at the commit, with the product of the        *)
(* movement, and with its quantity unless that was edited since.           *)
(***************************************************************************)
StillHeld(row, ls, flags) ==
  /\ ls[row.id].presence = "live"
  /\ ls[row.id].applied \/ row.id \in flags
  /\ ls[row.id].product = row.product
  /\ row.delta = -MovedQty(ls[row.id].qty) \/ ls[row.id].altered

FirstDeductions(rows, ls, flags) ==
  \A i \in DOMAIN rows :
    /\ rows[i].reference = "sale_order_line"
    /\ Untouched(rows, ls[rows[i].id].order, rows[i].product)
    => StillHeld(rows[i], ls, flags)

ToFlag(h) == IF tx[h].mode = "apply" THEN tx[h].flags ELSE {}

(***************************************************************************)
(* In a transaction that gives back, what the unflagged lines held has its *)
(* return among the rows it sees; a deletion takes a line without the      *)
(* flag.                                                                   *)
(***************************************************************************)
InFirstSale(h) ==
  /\ FirstDeductions(Visible(h), line, ToFlag(h))
  /\ tx[h].mode = "reverse" =>
       \A l \in tx[h].flags :
         /\ line[l].presence # "unused"
         /\ ~Untouched(Visible(h), line[l].order, line[l].product)
  /\ pc[h] = "lineDelete" =>
       line[req[h].line].presence # "unused" /\ ~line[req[h].line].applied

FirstInv == FirstDeductions(movements, line, {}) /\ \A h \in Handlers : InFirstSale(h)

LEMMA UntouchedBefore ==
  ASSUME NEW rows \in Seq(Movement), NEW m \in Movement, NEW o, NEW p,
         Untouched(Append(rows, m), o, p)
  PROVE  Untouched(rows, o, p)
<1> DEFINE all == Append(rows, m)
<1>1. \A i \in DOMAIN rows : i \in DOMAIN all /\ all[i] = rows[i]
  OBVIOUS
<1>2. Untouched(all, o, p)
  OBVIOUS
<1> HIDE DEF all
<1> QED
  BY <1>1, <1>2 DEF Untouched

(***************************************************************************)
(* A deduction recorded is one of a line that holds it; other movements    *)
(* add nothing to show.                                                    *)
(***************************************************************************)
LEMMA FirstAppend ==
  ASSUME NEW rows \in Seq(Movement), NEW m \in Movement, NEW ls,
         NEW flags, NEW more, flags \subseteq more,
         FirstDeductions(rows, ls, flags),
         m.reference = "sale_order_line" => StillHeld(m, ls, more)
  PROVE  FirstDeductions(Append(rows, m), ls, more)
<1> DEFINE all == Append(rows, m)
           n == Len(rows)
<1>1. /\ n \in Nat /\ DOMAIN rows = 1 .. n /\ DOMAIN all = 1 .. (n + 1)
      /\ \A i \in 1 .. n : all[i] = rows[i]
      /\ all[n + 1] = m
  OBVIOUS
<1>2. \A o, p : Untouched(all, o, p) => Untouched(rows, o, p)
  BY UntouchedBefore
<1> HIDE DEF all, n
<1>3. ASSUME NEW i \in DOMAIN all, all[i].reference = "sale_order_line",
             Untouched(all, ls[all[i].id].order, all[i].product)
      PROVE  StillHeld(all[i], ls, more)
  <2>1. CASE i = n + 1
    BY <1>1, <1>3, <2>1
  <2>2. CASE i \in 1 .. n
    <3>1. StillHeld(rows[i], ls, flags)
      BY <1>1, <1>2, <1>3, <2>2 DEF FirstDeductions
    <3> QED
      BY <1>1, <2>2, <3>1 DEF StillHeld
  <2> QED
    BY <1>1, <2>1, <2>2
<1> QED
  BY <1>3 DEF FirstDeductions, all

(***************************************************************************)
(* Lines change and each deduction of an untouched product stays with its  *)
(* line.                                                                   *)
(***************************************************************************)
LEMMA FirstKept ==
  ASSUME NEW rows \in Seq(Movement), NEW ls, NEW ms, NEW flags, NEW more,
         GoodRows(rows, ls), FirstDeductions(rows, ls, flags),
         \A l \in Lines : ls[l].presence # "unused" => ms[l].order = ls[l].order,
         \A i \in DOMAIN rows :
           /\ rows[i].reference = "sale_order_line" /\ rows[i].id \in Lines
           /\ Untouched(rows, ls[rows[i].id].order, rows[i].product)
           /\ StillHeld(rows[i], ls, flags)
           => StillHeld(rows[i], ms, more)
  PROVE  FirstDeductions(rows, ms, more)
<1>1. ASSUME NEW i \in DOMAIN rows, rows[i].reference = "sale_order_line",
             Untouched(rows, ms[rows[i].id].order, rows[i].product)
      PROVE  StillHeld(rows[i], ms, more)
  <2>1. rows[i].id \in Lines /\ ms[rows[i].id].order = ls[rows[i].id].order
    BY <1>1 DEF GoodRows
  <2>2. StillHeld(rows[i], ls, flags)
    BY <1>1, <2>1 DEF FirstDeductions
  <2> QED
    BY <1>1, <2>1, <2>2
<1> QED
  BY <1>1 DEF FirstDeductions

(***************************************************************************)
(* When a stage or a request ends, what is committed is all there is.      *)
(***************************************************************************)
LEMMA FirstSettled ==
  ASSUME OneAtATime, TypeOK', NEW h \in Handlers,
         tx'[h].staged = << >>, tx'[h].flags = {},
         pc'[h] # "lineDelete",
         FirstDeductions(movements', line', {})
  PROVE  FirstInv'
<1>1. Visible(h)' = movements' /\ ToFlag(h)' = {}
  BY DEF Visible, ToFlag, TypeOK
<1>2. InFirstSale(h)'
  BY <1>1 DEF InFirstSale
<1>3. \A g \in Handlers : g = h
  BY DEF OneAtATime
<1> QED
  BY <1>2, <1>3 DEF FirstInv

LEMMA FirstInit == Init => FirstInv
<1> SUFFICES ASSUME Init PROVE FirstInv
  OBVIOUS
<1>1. movements = << >>
  BY DEF Init
<1>2. ASSUME NEW flags PROVE FirstDeductions(<< >>, line, flags)
  BY DEF FirstDeductions
<1>3. ASSUME NEW h \in Handlers PROVE InFirstSale(h)
  <2>1. /\ tx[h].staged = << >> /\ tx[h].flags = {}
        /\ pc[h] = "idle"
    BY IdleValues DEF Init
  <2>2. Visible(h) = << >>
    BY <1>1, <2>1 DEF Visible
  <2> QED
    BY <1>2, <2>1, <2>2 DEF InFirstSale
<1> QED
  BY <1>1, <1>2, <1>3 DEF FirstInv

LEMMA FirstRequests ==
  ASSUME OneAtATime, TypeOK, TypeOK', SerialInv, FirstInv,
         NEW h \in Handlers, NewRequest(h)
  PROVE  FirstInv'
<1>1. /\ pc[h] = "idle" /\ tx' = tx /\ line' = line /\ movements' = movements
  BY DEF NewRequest, ReadOrder, ReadSlip, ReadLineForEdit, ReadLineForDelete
<1>2. /\ tx'[h].staged = << >> /\ tx'[h].flags = {}
      /\ FirstDeductions(movements', line', {})
  BY <1>1 DEF SerialInv, InTransaction, FirstInv
<1>3. CASE \/ \E o \in Orders : ReadOrder(h, o)
           \/ \E o \in Orders, p \in Products : ReadSlip(h, o, p)
           \/ \E l \in Lines : ReadLineForEdit(h, l)
  <2>1. pc'[h] # "lineDelete"
    BY <1>3 DEF ReadOrder, ReadSlip, ReadLineForEdit, TypeOK, HandlersTyped
  <2> QED
    BY <1>2, <2>1, FirstSettled
<1>4. ASSUME NEW l \in Lines, ReadLineForDelete(h, l)
      PROVE  FirstInv'
  <2>1. /\ req'[h].line = l /\ pc'[h] = "lineDelete"
        /\ line[l].presence # "unused" /\ ~line[l].applied
    BY <1>4, IdleValues DEF ReadLineForDelete, TypeOK, HandlersTyped, Request
  <2>2. Visible(h)' = movements' /\ ToFlag(h)' = {}
    BY <1>2 DEF Visible, ToFlag, TypeOK
  <2>3. InFirstSale(h)'
    BY <1>1, <1>2, <2>1, <2>2 DEF InFirstSale
  <2> QED
    BY <1>2, <2>3 DEF FirstInv, OneAtATime
<1> QED
  BY <1>3, <1>4 DEF NewRequest

LEMMA FirstQuietSteps ==
  ASSUME OneAtATime, TypeOK, TypeOK', SerialInv, FirstInv, NEW h \in Handlers,
         \/ UpdateOrder(h) \/ SyncRead(h)
         \/ BreakDeadlock(h) \/ Fail(h)
  PROVE  FirstInv'
<1>1. FirstDeductions(movements', line', {})
  BY DEF UpdateOrder, SyncRead, BreakDeadlock, Fail, FirstInv
<1>2. CASE UpdateOrder(h)
  <2>1. /\ tx'[h].staged = << >> /\ tx'[h].flags = {} /\ pc'[h] = "sync"
    BY <1>2 DEF UpdateOrder, SerialInv, InTransaction, TypeOK, HandlersTyped
  <2> QED
    BY <1>1, <2>1, FirstSettled
<1>3. CASE SyncRead(h)
  BY <1>1, <1>3, NothingStaged, FirstSettled DEF SyncRead
<1>4. CASE BreakDeadlock(h) \/ Fail(h)
  BY <1>1, <1>4, NothingStaged, FirstSettled DEF BreakDeadlock, Fail
<1> QED
  BY <1>2, <1>3, <1>4

LEMMA FirstBegin ==
  ASSUME OneAtATime, TypeOK, TypeOK', SerialInv, FirstInv, NEW h \in Handlers,
         BeginTransaction(h)
  PROVE  FirstInv'
<1>1. /\ line' = line /\ movements' = movements /\ pc[h] = "begin"
      /\ FirstDeductions(movements', line', {})
  BY DEF BeginTransaction, FirstInv
<1>2. CASE tx[h].mode = "apply" /\ ~ShouldBeApplied(req[h].order)
  BY <1>1, <1>2, NothingStaged, FirstSettled DEF BeginTransaction
<1>3. CASE ~(tx[h].mode = "apply" /\ ~ShouldBeApplied(req[h].order))
  <2>1. PICK rows : tx' = [tx EXCEPT ![h].todo = rows]
    BY <1>3 DEF BeginTransaction
  <2>2. tx \in [Handlers -> Transaction] /\ pc \in [Handlers -> HandlerPC]
    BY DEF TypeOK, HandlersTyped
  <2>3. tx[h].flags = {} /\ tx[h].staged = << >>
    BY <1>1 DEF SerialInv, InTransaction
  <2>4. tx'[h].flags = tx[h].flags /\ tx'[h].staged = tx[h].staged
    BY <2>1, <2>2 DEF Transaction
  <2>5. pc' = [pc EXCEPT ![h] = "loop"]
    BY <1>3 DEF BeginTransaction
  <2>6. pc'[h] = "loop"
    BY <2>2, <2>5
  <2>7. tx'[h].flags = {} /\ tx'[h].staged = << >>
    BY <2>3, <2>4
  <2> QED
    BY <1>1, <2>6, <2>7, FirstSettled
<1> QED
  BY <1>2, <1>3

LEMMA FirstCheck ==
  ASSUME OneAtATime, TypeOK, TypeOK', FirstInv, NEW h \in Handlers, CheckRow(h)
  PROVE  FirstInv'
<1>1. line' = line /\ movements' = movements /\ pc[h] = "loop"
      /\ pc'[h] \in {"loop", "write"}
  BY DEF CheckRow, TypeOK, HandlersTyped
<1>2. /\ tx'[h].mode = tx[h].mode /\ tx'[h].flags = tx[h].flags
      /\ tx'[h].staged = tx[h].staged
  BY DEF CheckRow, TypeOK, HandlersTyped, Transaction
<1>3. Visible(h)' = Visible(h) /\ ToFlag(h)' = ToFlag(h)
  BY <1>1, <1>2 DEF Visible, ToFlag
<1>4. InFirstSale(h)'
  BY <1>1, <1>2, <1>3 DEF FirstInv, InFirstSale
<1> QED
  BY <1>1, <1>4 DEF FirstInv, OneAtATime

(***************************************************************************)
(* Writing a row: its line holds what is deducted, or gets it back.        *)
(***************************************************************************)
LEMMA FirstWrite ==
  ASSUME OneAtATime, TypeOK, TypeOK', SerialInv, FirstInv, NEW h \in Handlers, WriteRow(h)
  PROVE  FirstInv'
<1>1. PICK row \in tx[h].todo :
        /\ IsNextRow(h, row)
        /\ tx' = [tx EXCEPT
             ![h].todo = @ \ {row},
             ![h].seen = FALSE,
             ![h].flags = @ \cup {row.id},
             ![h].staged =
                IF tx[h].seen THEN @
                ELSE Append(@, IF tx[h].mode = "apply" THEN Deduction(row)
                               ELSE Return(req[h].order, row))]
  BY DEF WriteRow
<1>2. /\ pc[h] = "write" /\ pc' = [pc EXCEPT ![h] = "loop"]
      /\ line' = line /\ movements' = movements
  BY DEF WriteRow
<1>3. pc'[h] = "loop"
  BY <1>2 DEF TypeOK, HandlersTyped
<1> DEFINE m == IF tx[h].mode = "apply" THEN Deduction(row) ELSE Return(req[h].order, row)
           rows == Visible(h)
<1>4. /\ tx'[h].mode = tx[h].mode
      /\ tx'[h].flags = tx[h].flags \cup {row.id}
      /\ tx'[h].staged = IF tx[h].seen THEN tx[h].staged ELSE Append(tx[h].staged, m)
  BY <1>1 DEF TypeOK, HandlersTyped, Transaction
<1>5. /\ movements \in Seq(Movement) /\ tx[h].staged \in Seq(Movement)
      /\ tx[h].mode \in {"apply", "reverse"}
      /\ row \in LoopRow /\ row.id \in Lines
      /\ req[h].order \in Orders
  BY DEF TypeOK, HandlersTyped, Transaction, Request, LoopRow
<1>6. rows \in Seq(Movement) /\ m \in Movement
  BY <1>5, MovementTypes DEF Visible
<1>7. /\ RowIsCurrent(row, line, req[h].order, tx[h].mode)
      /\ tx[h].seen <=> Found(h, row)
      /\ FirstDeductions(rows, line, ToFlag(h))
      /\ tx[h].mode = "reverse" =>
           \A l \in tx[h].flags : /\ line[l].presence # "unused"
                                  /\ ~Untouched(rows, line[l].order, line[l].product)
  BY <1>1, <1>2 DEF SerialInv, InTransaction, FirstInv, InFirstSale
<1>8. Visible(h)' = IF tx[h].seen THEN rows ELSE Append(rows, m)
  <2>1. movements \o Append(tx[h].staged, m) = Append(rows, m)
    BY <1>5, <1>6, StagedLast DEF Visible
  <2> QED
    BY <1>2, <1>4, <2>1 DEF Visible
<1>9. ToFlag(h)' = IF tx[h].mode = "apply" THEN ToFlag(h) \cup {row.id} ELSE ToFlag(h)
  BY <1>4 DEF ToFlag
<1>10. m.reference = "sale_order_line" => StillHeld(m, line, ToFlag(h)')
  <2>1. CASE tx[h].mode = "apply"
    <3>1. /\ m.id = row.id /\ m.product = row.product /\ m.delta = -MovedQty(row.qty)
      BY <2>1 DEF Deduction
    <3> QED
      BY <1>7, <1>9, <2>1, <3>1 DEF StillHeld, RowIsCurrent
  <2>2. CASE tx[h].mode = "reverse"
    BY <2>2 DEF Return
  <2> QED
    BY <1>5, <2>1, <2>2
<1>11. tx[h].mode = "reverse" /\ ~tx[h].seen =>
         /\ m.reference = "sale_order_cancel" /\ m.id = line[row.id].order
         /\ m.product = line[row.id].product
  BY <1>7 DEF Return, RowIsCurrent
<1>12. tx[h].mode = "reverse" /\ tx[h].seen =>
         ~Untouched(rows, line[row.id].order, line[row.id].product)
  BY <1>7 DEF Found, ReturnExists, RowIsCurrent, Untouched
<1> HIDE DEF m, rows
<1>13. FirstDeductions(rows, line, ToFlag(h)')
  BY <1>7, <1>9 DEF FirstDeductions, StillHeld
<1>14. FirstDeductions(Visible(h)', line', ToFlag(h)')
  <2>1. ToFlag(h) \subseteq ToFlag(h)'
    BY <1>9
  <2>2. FirstDeductions(Append(rows, m), line, ToFlag(h)')
    BY <1>6, <1>7, <1>10, <2>1, FirstAppend
  <2> QED
    BY <1>2, <1>8, <1>13, <2>2
<1>15. ASSUME tx'[h].mode = "reverse", NEW l \in tx'[h].flags
       PROVE  /\ line'[l].presence # "unused"
              /\ ~Untouched(Visible(h)', line'[l].order, line'[l].product)
  <2>1. CASE tx[h].seen
    <3>1. ~Untouched(rows, line[l].order, line[l].product)
      BY <1>4, <1>7, <1>12, <1>15, <2>1
    <3> QED
      BY <1>2, <1>4, <1>7, <1>8, <1>15, <2>1, <3>1 DEF RowIsCurrent
  <2>2. CASE ~tx[h].seen
    <3>1. \E i \in DOMAIN Append(rows, m) : Append(rows, m)[i] = m
      <4> DEFINE n == Len(rows) + 1
      <4>1. n \in DOMAIN Append(rows, m) /\ Append(rows, m)[n] = m
        BY <1>6
      <4> QED
        BY <4>1
    <3>2. l = row.id => ~Untouched(Append(rows, m), line[l].order, line[l].product)
      BY <1>4, <1>11, <1>15, <2>2, <3>1 DEF Untouched
    <3>3. l \in tx[h].flags => ~Untouched(Append(rows, m), line[l].order, line[l].product)
      BY <1>4, <1>6, <1>7, <1>15, UntouchedBefore
    <3> QED
      BY <1>2, <1>4, <1>7, <1>8, <1>15, <2>2, <3>2, <3>3 DEF RowIsCurrent
  <2> QED
    BY <2>1, <2>2
<1>16. InFirstSale(h)'
  BY <1>3, <1>14, <1>15 DEF InFirstSale
<1>17. FirstDeductions(movements', line', {})
  BY <1>2 DEF FirstInv
<1> QED
  BY <1>16, <1>17 DEF FirstInv, OneAtATime

(***************************************************************************)
(* The commit flags the lines whose deduction it records, or unflags those *)
(* whose return it records.                                                *)
(***************************************************************************)
LEMMA FirstCommit ==
  ASSUME OneAtATime, TypeOK, TypeOK', SerialInv, FirstInv, NEW h \in Handlers,
         CommitTransaction(h)
  PROVE  FirstInv'
<1> DEFINE rows == Visible(h)
<1>1. movements' = rows /\ rows \in Seq(Movement)
  BY DEF CommitTransaction, Visible, TypeOK, HandlersTyped, Transaction
<1>2. /\ GoodRows(rows, line) /\ FirstDeductions(rows, line, ToFlag(h))
      /\ tx[h].mode = "reverse" =>
           \A l \in tx[h].flags : /\ line[l].presence # "unused"
                                  /\ ~Untouched(rows, line[l].order, line[l].product)
      /\ tx[h].mode \in {"apply", "reverse"}
  BY DEF SerialInv, InTransaction, FirstInv, InFirstSale, TypeOK, HandlersTyped, Transaction
<1> HIDE DEF rows
<1>3. ASSUME NEW l \in Lines
      PROVE  /\ line'[l].presence = line[l].presence
             /\ line'[l].order = line[l].order
             /\ line'[l].product = line[l].product
             /\ line'[l].qty = line[l].qty
             /\ line'[l].altered = line[l].altered
             /\ line'[l].applied =
                  IF l \in tx[h].flags /\ line[l].presence = "live"
                  THEN tx[h].mode = "apply" ELSE line[l].applied
  <2>1. line[l] \in LineRow
    BY DEF TypeOK
  <2>2. line'[l] = IF l \in tx[h].flags /\ line[l].presence = "live"
                   THEN [line[l] EXCEPT !.applied = (tx[h].mode = "apply")]
                   ELSE line[l]
    BY DEF CommitTransaction
  <2> QED
    BY <2>1, <2>2 DEF LineRow
<1>4. ASSUME NEW i \in DOMAIN rows, rows[i].id \in Lines,
             Untouched(rows, line[rows[i].id].order, rows[i].product),
             StillHeld(rows[i], line, ToFlag(h))
      PROVE  StillHeld(rows[i], line', {})
  <2> DEFINE l == rows[i].id
  <2>1. line[l].presence = "live" /\ line[l].product = rows[i].product
    BY <1>4 DEF StillHeld
  <2>2. CASE tx[h].mode = "apply"
    BY <1>3, <1>4, <2>2 DEF StillHeld, ToFlag
  <2>3. CASE tx[h].mode = "reverse"
    <3>1. l \notin tx[h].flags
      BY <1>2, <1>4, <2>1, <2>3
    <3> QED
      BY <1>3, <1>4, <2>3, <3>1 DEF StillHeld, ToFlag
  <2> QED
    BY <1>2, <2>2, <2>3
<1>5. FirstDeductions(rows, line', {})
  BY <1>1, <1>2, <1>3, <1>4, FirstKept
<1>6. LeaveStage(h, tx[h].stage)
  BY DEF CommitTransaction
<1> QED
  BY <1>1, <1>5, <1>6, NothingStaged, FirstSettled

LEMMA FirstLineWrites ==
  ASSUME OneAtATime, TypeOK, TypeOK', SerialInv, FirstInv, NEW h \in Handlers,
         WriteLine(h) \/ DeleteLine(h)
  PROVE  FirstInv'
<1>1. /\ req[h].line \in Lines /\ movements' = movements /\ movements \in Seq(Movement)
      /\ GoodRows(movements, line) /\ FirstDeductions(movements, line, {})
  BY DEF WriteLine, DeleteLine, TypeOK, HandlersTyped, Request, SerialInv, FirstInv
<1>2. ASSUME NEW l \in Lines
      PROVE  /\ line'[l].order = line[l].order
             /\ line[l].altered => line'[l].altered
             /\ /\ line[l].applied /\ line[l].presence = "live"
                /\ line[l].product # NoProduct
                => /\ line'[l].presence = "live" /\ line'[l].applied
                   /\ line'[l].product = line[l].product
                   /\ line'[l].qty = line[l].qty \/ line'[l].altered
  <2>1. line[l] \in LineRow
    BY DEF TypeOK
  <2>2. CASE WriteLine(h)
    <3>1. InEdit(h) /\ pc[h] = "lineWrite"
      BY <2>2 DEF WriteLine, SerialInv
    <3>2. req[h] \in Request
      BY DEF TypeOK, HandlersTyped
    <3> QED
      BY <1>1, <2>1, <2>2, <3>1, <3>2, WrittenLine, EditedRow DEF InEdit
  <2>3. CASE DeleteLine(h)
    <3>1. InFirstSale(h) /\ pc[h] = "lineDelete"
      BY <2>3 DEF DeleteLine, FirstInv
    <3> QED
      BY <1>1, <2>1, <2>3, <3>1 DEF DeleteLine, InFirstSale, TypeOK, LineRow
  <2> QED
    BY <2>2, <2>3
<1>3. ASSUME NEW i \in DOMAIN movements, movements[i].id \in Lines,
             StillHeld(movements[i], line, {})
      PROVE  StillHeld(movements[i], line', {})
  <2>1. movements[i] \in Movement
    BY <1>1
  <2>2. movements[i].product # NoProduct
    BY <2>1, ConstantTypes DEF Movement, ConstantTypes
  <2> QED
    BY <1>2, <1>3, <2>2 DEF StillHeld
<1>4. FirstDeductions(movements', line', {})
  BY <1>1, <1>2, <1>3, FirstKept
<1>5. Finish(h)
  BY DEF WriteLine, DeleteLine
<1> QED
  BY <1>4, <1>5, NothingStaged, FirstSettled

(***************************************************************************)
(* A new line has no deduction.                                            *)
(***************************************************************************)
LEMMA FirstFreshLine ==
  ASSUME NEW ms, \A k \in Lines : line[k].presence # "unused" => ms[k] = line[k],
         NEW rows \in Seq(Movement), GoodRows(rows, line), NEW flags,
         FirstDeductions(rows, line, flags)
  PROVE  FirstDeductions(rows, ms, flags)
<1>1. ASSUME NEW i \in DOMAIN rows, rows[i].reference = "sale_order_line",
             StillHeld(rows[i], line, flags)
      PROVE  StillHeld(rows[i], ms, flags)
  <2>1. ms[rows[i].id] = line[rows[i].id]
    BY <1>1 DEF GoodRows
  <2> QED
    BY <1>1, <2>1 DEF StillHeld
<1> QED
  BY <1>1, FirstKept

LEMMA FirstSlip ==
  ASSUME OneAtATime, TypeOK, TypeOK', SerialInv, FirstInv, NEW h \in Handlers,
         AddSlipLine(h) \/ RecordSlipMovement(h)
  PROVE  FirstInv'
<1>1. CASE AddSlipLine(h) /\ Finish(h) /\ UNCHANGED line
  <2>1. FirstDeductions(movements', line', {})
    BY <1>1 DEF AddSlipLine, FirstInv
  <2> QED
    BY <1>1, <2>1, NothingStaged, FirstSettled
<1>2. CASE AddSlipLine(h) /\ ~(Finish(h) /\ UNCHANGED line)
  <2>1. /\ \E l \in Lines :
             NextLine(l) /\ NewLine(l, req[h].order, req[h].product, 1, FALSE)
        /\ pc[h] = "labelLine" /\ pc' = [pc EXCEPT ![h] = "labelMove"]
        /\ tx' = tx /\ movements' = movements
    BY <1>2 DEF AddSlipLine
  <2>2. GoodRows(movements, line) /\ movements \in Seq(Movement)
        /\ FirstDeductions(movements, line, {})
    BY DEF SerialInv, TypeOK, FirstInv
  <2>3. \A k \in Lines : line[k].presence # "unused" => line'[k] = line[k]
    BY <2>1, SerialFreshLine
  <2>4. FirstDeductions(movements', line', {})
    BY <2>1, <2>2, <2>3, FirstFreshLine
  <2>5. /\ tx'[h].staged = << >> /\ tx'[h].flags = {} /\ pc'[h] = "labelMove"
    BY <2>1 DEF SerialInv, InTransaction, TypeOK, HandlersTyped
  <2> QED
    BY <2>4, <2>5, FirstSettled
<1>3. CASE RecordSlipMovement(h)
  <2> DEFINE m == [reference |-> "sale_order", id |-> req[h].order,
                   product |-> req[h].product, delta |-> -1]
  <2>1. m \in Movement /\ movements \in Seq(Movement) /\ m.reference = "sale_order"
    BY <1>3 DEF RecordSlipMovement, TypeOK, HandlersTyped, Request, Movement
  <2>2. movements' = Append(movements, m) /\ line' = line /\ Finish(h)
    BY <1>3 DEF RecordSlipMovement
  <2> HIDE DEF m
  <2>3. FirstDeductions(Append(movements, m), line, {})
    BY <2>1, FirstAppend DEF FirstInv
  <2>4. FirstDeductions(movements', line', {})
    BY <2>2, <2>3
  <2> QED
    BY <2>2, <2>4, NothingStaged, FirstSettled
<1> QED
  BY <1>1, <1>2, <1>3

LEMMA FirstAdd ==
  ASSUME OneAtATime, TypeOK, TypeOK', SerialInv, FirstInv,
         NEW o \in Orders, AddLine(o)
  PROVE  FirstInv'
<1>1. /\ pc' = pc /\ req' = req /\ tx' = tx /\ movements' = movements
      /\ movements \in Seq(Movement)
  BY DEF AddLine, TypeOK
<1>2. PICK l \in Lines, p \in Products \cup {NoProduct}, q \in Quantities,
           a \in NewLineApplied :
        NextLine(l) /\ NewLine(l, o, p, q, a)
  BY DEF AddLine
<1>3. /\ \A k \in Lines : line[k].presence # "unused" => line'[k] = line[k]
      /\ \A k \in Lines : k # l => line'[k] = line[k]
      /\ line[l].presence = "unused"
  BY <1>2 DEF NextLine, NewLine, TypeOK
<1>4. ASSUME NEW h \in Handlers
      PROVE  InFirstSale(h)'
  <2>1. InFirstSale(h) /\ InTransaction(h) /\ InEdit(h)
    BY DEF FirstInv, SerialInv
  <2>2. /\ Visible(h)' = Visible(h) /\ Visible(h) \in Seq(Movement)
        /\ ToFlag(h)' = ToFlag(h)
    BY <1>1 DEF Visible, ToFlag, TypeOK, HandlersTyped, Transaction
  <2>3. FirstDeductions(Visible(h), line', ToFlag(h))
    BY <1>3, <2>1, <2>2, FirstFreshLine DEF InFirstSale, InTransaction
  <2>4. tx[h].flags \subseteq Lines /\ req[h].line \in Lines
    BY DEF TypeOK, HandlersTyped, Transaction, Request
  <2>5. ASSUME tx[h].mode = "reverse", NEW k \in tx[h].flags
        PROVE  /\ line'[k].presence # "unused"
               /\ ~Untouched(Visible(h), line'[k].order, line'[k].product)
    BY <1>3, <2>1, <2>4, <2>5 DEF InFirstSale
  <2>6. pc[h] = "lineDelete" =>
          line'[req[h].line].presence # "unused" /\ ~line'[req[h].line].applied
    BY <1>3, <2>1, <2>4 DEF InFirstSale
  <2> QED
    BY <1>1, <2>2, <2>3, <2>5, <2>6 DEF InFirstSale
<1>5. FirstDeductions(movements', line', {})
  BY <1>1, <1>3, FirstFreshLine DEF FirstInv, SerialInv
<1> QED
  BY <1>4, <1>5 DEF FirstInv

(***************************************************************************)
(* The sums of the ledger are those of the lemmas.                         *)
(***************************************************************************)
LEMMA SumOfLedger ==
  ASSUME NEW f, NEW S
  PROVE  Ledger!SumFunctionOnSet(f, S) = SumFunctionOnSet(f, S)
  BY DEF Ledger!SumFunctionOnSet, Ledger!FoldFunctionOnSet, Ledger!MapThenFoldSet,
         SumFunctionOnSet, FoldFunctionOnSet, MapThenFoldSet

LEMMA FirstStutter ==
  ASSUME FirstInv, UNCHANGED vars
  PROVE  FirstInv'
<1>1. ASSUME NEW h \in Handlers PROVE InFirstSale(h)'
  <2>1. InFirstSale(h)
    BY DEF FirstInv
  <2> QED
    BY <2>1 DEF vars, InFirstSale, Visible, ToFlag
<1> QED
  BY <1>1 DEF vars, FirstInv

LEMMA FirstNext ==
  ASSUME OneAtATime, TypeOK, TypeOK', SerialInv, FirstInv, [Next]_vars
  PROVE  FirstInv'
<1>1. CASE UNCHANGED vars
  BY <1>1, FirstStutter
<1>2. ASSUME NEW o \in Orders, AddLine(o)
      PROVE  FirstInv'
  BY <1>2, FirstAdd
<1>3. ASSUME NEW h \in Handlers, NewRequest(h)
      PROVE  FirstInv'
  BY <1>3, FirstRequests
<1>4. ASSUME NEW h \in Handlers, Step(h)
      PROVE  FirstInv'
  BY <1>4, FirstQuietSteps, FirstBegin, FirstCheck, FirstWrite, FirstCommit,
     FirstLineWrites, FirstSlip DEF Step
<1>5. ASSUME NEW h \in Handlers, BreakDeadlock(h) \/ Fail(h)
      PROVE  FirstInv'
  BY <1>5, FirstQuietSteps
<1> QED
  BY <1>1, <1>2, <1>3, <1>4, <1>5 DEF Next

(***************************************************************************)
(* The deductions of an untouched product are those of the flagged lines   *)
(* that hold it, one for each: the lookup finds a line's own movement, so  *)
(* that there is no second, and no movement of the whole order, so that    *)
(* there is one.  So the two sums are over the same quantities.            *)
(***************************************************************************)
LEMMA SoldAsHeld ==
  ASSUME TypeOK, SerialInv, FirstInv, NEW o \in Orders, NEW p \in Products,
         Untouched(movements, o, p), ~SetByRequest(o, p)
  PROVE  NetOfOrder(o, p) = -AppliedQty(o, p)
<1> DEFINE T == RowsOfOrder(o, p)
           S == {l \in ProductLines(o) : line[l].product = p /\ line[l].applied}
           at == [i \in T |-> movements[i].id]
           delta == [i \in DOMAIN movements |-> movements[i].delta]
           qty == [l \in Lines |-> MovedQty(line[l].qty)]
           took == [l \in Lines |-> -MovedQty(line[l].qty)]
           none == [l \in Lines |-> 0]
<1>1. movements \in Seq(Movement) /\ \A i \in DOMAIN movements : movements[i] \in Movement
  BY LenProperties, ElementOfSeq DEF TypeOK
<1>2. ASSUME NEW i \in T
      PROVE  /\ i \in DOMAIN movements /\ movements[i].reference = "sale_order_line"
             /\ at[i] = movements[i].id /\ at[i] \in Lines /\ line[at[i]].order = o
             /\ movements[i].product = p
             /\ StillHeld(movements[i], line, {})
  <2>1. i \in DOMAIN movements /\ movements[i].product = p
        /\ at[i] = movements[i].id
    BY DEF RowsOfOrder
  <2>2. movements[i].reference = "sale_order_line"
    BY <1>1, <2>1 DEF RowsOfOrder, Untouched, Movement
  <2>3. at[i] \in Lines /\ line[at[i]].order = o
    BY <2>1, <2>2 DEF RowsOfOrder, SerialInv, GoodRows
  <2> QED
    BY <2>1, <2>2, <2>3 DEF FirstInv, FirstDeductions
<1>3. ASSUME NEW i \in T PROVE at[i] \in S /\ delta[i] = took[at[i]]
  <2>1. line[at[i]].presence = "live" /\ line[at[i]].applied /\ line[at[i]].product = p
    BY <1>2 DEF StillHeld
  <2>2. at[i] \in ProductLines(o)
    BY <1>2, <2>1, ConstantTypes DEF ProductLines, ConstantTypes
  <2>4. movements[i].delta = -MovedQty(line[at[i]].qty)
    BY <1>2, <2>1, <2>2 DEF StillHeld, SetByRequest
  <2>3. delta[i] = movements[i].delta /\ took[at[i]] = -MovedQty(line[at[i]].qty)
    BY <1>2
  <2> QED
    BY <2>1, <2>2, <2>3, <2>4
<1>4. ASSUME NEW l \in S PROVE \E i \in T : at[i] = l
  <2>1. l \in Lines /\ line[l].order = o /\ line[l].product = p /\ line[l].applied
    BY DEF ProductLines
  <2>2. PICK i \in DOMAIN movements :
          /\ movements[i].product = p
          /\ \/ movements[i].reference = "sale_order_line" /\ movements[i].id = l
             \/ movements[i].reference = "sale_order" /\ movements[i].id = o
    <3>1. line[l].given = {}
      BY <2>1 DEF SetByRequest
    <3> QED
      BY <2>1, <3>1 DEF SerialInv, LinesDeducted, ProductDeducted
  <2>3. movements[i].reference = "sale_order_line" /\ movements[i].id = l
    BY <2>2 DEF Untouched
  <2> QED
    BY <2>1, <2>2, <2>3 DEF RowsOfOrder
<1>5. ASSUME NEW i \in T, NEW j \in T, at[i] = at[j] PROVE i = j
  BY <1>2, <1>5 DEF SerialInv, GoodRows, NoneTwice, SameMovement
<1>6. IsFiniteSet(T)
  <2>1. Len(movements) \in Nat /\ DOMAIN movements = 1 .. Len(movements)
    BY <1>1, LenProperties
  <2>2. IsFiniteSet(1 .. Len(movements))
    BY <2>1, FS_Interval
  <2>3. T \subseteq 1 .. Len(movements)
    BY <1>2, <2>1
  <2> HIDE DEF T
  <2> QED
    BY <2>2, <2>3, FS_Subset
<1>7. IsFiniteSet(S)
  <2>1. at \in Surjection(T, S)
    BY <1>3, <1>4 DEF Surjection
  <2> QED
    BY <1>6, <2>1, FS_Surjection
<1>8. ASSUME NEW l \in S
      PROVE  /\ took[l] \in Int /\ qty[l] \in Int /\ none[l] = took[l] + qty[l]
             /\ none[l] = 0
  <2>1. l \in Lines /\ line[l].qty \in Nat
    BY ConstantTypes DEF ProductLines, TypeOK, LineRow, ConstantTypes
  <2>2. MovedQty(line[l].qty) \in Int
    BY <2>1 DEF MovedQty
  <2>3. took[l] = -MovedQty(line[l].qty) /\ qty[l] = MovedQty(line[l].qty) /\ none[l] = 0
    BY <2>1
  <2> QED
    BY <2>2, <2>3
<1>9. NetOfOrder(o, p) = SumFunctionOnSet(delta, T)
  BY SumOfLedger DEF NetOfOrder, Ledger!NetOfRows
<1>10. AppliedQty(o, p) = SumFunctionOnSet(qty, S)
  BY SumOfLedger DEF AppliedQty
<1> HIDE DEF T, S, at, delta, qty, took, none
<1>11. SumFunctionOnSet(delta, T) = SumFunctionOnSet(took, S)
  BY <1>3, <1>4, <1>5, <1>6, <1>7, <1>8, SumListed
<1>12. SumFunctionOnSet(none, S) = SumFunctionOnSet(took, S) + SumFunctionOnSet(qty, S)
  BY <1>7, <1>8, SumOfSums
<1>13. SumFunctionOnSet(none, S) = 0
  BY <1>7, <1>8, SumOfZeros
<1>14. SumFunctionOnSet(took, S) \in Int /\ SumFunctionOnSet(qty, S) \in Int
  BY <1>7, <1>8, SumType
<1> QED
  BY <1>9, <1>10, <1>11, <1>12, <1>13, <1>14

(***************************************************************************)
(* With requests served one at a time: until an order's product has been   *)
(* given back or imported from a packing slip, its movements have taken    *)
(* exactly the quantity of its applied lines, over any history of          *)
(* payments, edits, deletions and failures, unless a request has set the   *)
(* flag or the flagged quantity of one of these lines.                     *)
(***************************************************************************)
THEOREM FirstSalesExact ==
  ASSUME OneAtATime
  PROVE  Spec => []FirstSaleTakesItsQuantity
<1>1. TypeOK /\ TypeOK' /\ SerialInv /\ [Next]_vars => SerialInv'
  BY SerialNext, OneAtATime
<1>2. TypeOK /\ TypeOK' /\ SerialInv /\ FirstInv /\ [Next]_vars => FirstInv'
  BY FirstNext, OneAtATime
<1>3. TypeOK /\ SerialInv /\ FirstInv => FirstSaleTakesItsQuantity
  BY SoldAsHeld DEF FirstSaleTakesItsQuantity, Untouched
<1> QED
  BY <1>1, <1>2, <1>3, SerialInit, FirstInit, TypeCorrect, PTL DEF Spec
=============================================================================
