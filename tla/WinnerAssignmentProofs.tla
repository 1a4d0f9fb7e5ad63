----------------------- MODULE WinnerAssignmentProofs -----------------------
(***************************************************************************)
(* What is proved of WinnerAssignment for every set of lots, products and  *)
(* handlers and every setting.                                             *)
(***************************************************************************)
EXTENDS WinnerAssignment, SumProofs, SequenceTheorems, FiniteSetTheorems, TLAPS

-----------------------------------------------------------------------------
(* Sets that are written out as rows *)

(***************************************************************************)
(* The sequence made of a finite set lists each of its elements once.      *)
(***************************************************************************)
LEMMA SequenceOfSet ==
  ASSUME NEW S, IsFiniteSet(S)
  PROVE  /\ SetToSeq(S) \in Seq(S)
         /\ Len(SetToSeq(S)) = Cardinality(S)
         /\ \A i, j \in 1..Len(SetToSeq(S)) :
              SetToSeq(S)[i] = SetToSeq(S)[j] => i = j
         /\ \A e \in S : \E i \in 1..Len(SetToSeq(S)) : SetToSeq(S)[i] = e
<1> DEFINE n == Cardinality(S)
           f == SetToSeq(S)
<1>1. n \in Nat /\ ExistsBijection(1..n, S)
  BY FS_CardinalityType
<1>2. \E g \in [1..n -> S] : IsInjective(g)
  BY <1>1 DEF ExistsBijection, Bijection, Injection
<1>3. f \in [1..n -> S] /\ IsInjective(f)
  BY <1>2 DEF SetToSeq
<1>4. IsFiniteSet(1..n) /\ Cardinality(1..n) = n
  BY <1>1, FS_Interval
<1>5. f \in Surjection(1..n, S)
  <2>1. f \in Injection(1..n, S)
    BY <1>3 DEF Injection
  <2> HIDE DEF f, n
  <2> QED
    BY <1>4, <2>1, FS_Injection DEF n
<1>6. f \in Seq(S) /\ Len(f) = n
  BY <1>1, <1>3, IsASeq
<1>7. \A i, j \in 1..n : f[i] = f[j] => i = j
  BY <1>3 DEF IsInjective
<1>8. \A e \in S : \E i \in 1..n : f[i] = e
  BY <1>5 DEF Surjection
<1> HIDE DEF f, n
<1> QED
  BY <1>6, <1>7, <1>8 DEF f, n

-----------------------------------------------------------------------------
(* Types *)

HandlersTyped ==
  /\ pc \in [Handlers -> HandlerPC]
  /\ job \in [Handlers -> Job]

LEMMA IdleJob ==
  /\ NoJob \in Job
  /\ NoJob.orders = {} /\ NoJob.todo = {}
  /\ \A p \in Products : NoJob.found[p] = 0
<1>1. /\ (CHOOSE a \in Lots : TRUE) \in Lots
      /\ (CHOOSE p \in Products : TRUE) \in Products
  BY ConstantTypes DEF ConstantTypes
<1>2. [p \in Products |-> 0] \in [Products -> 0..MaxQty]
  BY ConstantTypes DEF ConstantTypes
<1>3. NoJob \in Job
  BY <1>1, <1>2 DEF NoJob, Job, RouteNames, Statuses, Open
<1> QED
  BY <1>3 DEF NoJob

(***************************************************************************)
(* Wherever a handler goes, with a well typed job, the types are kept.     *)
(***************************************************************************)
LEMMA GotoWithType ==
  ASSUME TypeOK, NEW h \in Handlers, NEW at \in HandlerPC, NEW j \in Job,
         GotoWith(h, at, j)
  PROVE  HandlersTyped'
BY DEF TypeOK, HandlersTyped, GotoWith

LEMMA GotoType ==
  ASSUME TypeOK, NEW h \in Handlers, NEW at \in HandlerPC, Goto(h, at)
  PROVE  HandlersTyped'
BY DEF TypeOK, HandlersTyped, Goto

LEMMA FinishType ==
  ASSUME TypeOK, NEW h \in Handlers, Finish(h)
  PROVE  HandlersTyped'
<1>1. "idle" \in HandlerPC
  BY DEF HandlerPC
<1> QED
  BY <1>1, IdleJob, GotoWithType DEF Finish

LEMMA JobFields ==
  ASSUME TypeOK, NEW h \in Handlers
  PROVE  /\ job[h] \in Job
         /\ job[h].route \in RouteNames /\ job[h].lot \in Lots
         /\ job[h].product \in Products /\ job[h].status \in Statuses
         /\ job[h].seen \in Statuses /\ job[h].order \in Nat
         /\ job[h].orders \in SUBSET Nat /\ job[h].todo \in SUBSET Products
         /\ job[h].found \in [Products -> 0..MaxQty]
         /\ job[h].reads \in 0..2 /\ job[h].pay \in BOOLEAN
<1>1. job[h] \in Job
  BY DEF TypeOK
<1> QED
  BY <1>1 DEF Job

LEMMA StatusType ==
  ASSUME TypeOK, NEW a \in Lots, NEW status \in Statuses, SetStatus(a, status)
  PROVE  lot' \in [Lots -> LotRow]
BY DEF TypeOK, SetStatus, LotRow

(***************************************************************************)
(* Rows of items after a reservation, its release or a removal.            *)
(***************************************************************************)
LEMMA ItemTypes ==
  ASSUME TypeOK, NEW a \in Lots
  PROVE  /\ ReservedInFull(a) \in [Products -> ItemRow]
         /\ Unreserved(a) \in [Products -> ItemRow]
         /\ [p \in Products |-> item[a][p].qty] \in [Products -> 0..MaxQty]
         /\ NoItem \in ItemRow
         /\ Items(a) \in SUBSET Products
<1>1. 0 \in 0..MaxQty
  BY ConstantTypes DEF ConstantTypes
<1>2. ASSUME NEW p \in Products
      PROVE  item[a][p].qty \in 0..MaxQty /\ item[a][p].reserved \in 0..MaxQty
  <2>1. item[a][p] \in ItemRow
    BY DEF TypeOK
  <2> QED
    BY <2>1 DEF ItemRow
<1>3. NoItem \in ItemRow
  BY <1>1 DEF NoItem, ItemRow
<1> QED
  BY <1>1, <1>2, <1>3 DEF ReservedInFull, Unreserved, ItemRow, Items

LEMMA LineFields ==
  ASSUME TypeOK
  PROVE  /\ Len(line) \in Nat /\ DOMAIN line = 1..Len(line)
         /\ \A l \in DOMAIN line :
              /\ line[l] \in LineRow
              /\ line[l].live \in BOOLEAN /\ line[l].order \in Nat
              /\ line[l].lot \in Lots /\ line[l].product \in Products
              /\ line[l].qty \in 1..MaxQty /\ line[l].applied \in BOOLEAN
<1>1. line \in Seq(LineRow)
  BY DEF TypeOK
<1>2. \A l \in DOMAIN line : line[l] \in LineRow
  BY <1>1
<1>3. Len(line) \in Nat /\ DOMAIN line = 1..Len(line)
  BY <1>1
<1> QED
  BY <1>2, <1>3 DEF LineRow

LEMMA OrderFields ==
  ASSUME TypeOK
  PROVE  /\ Len(order) \in Nat /\ DOMAIN order = 1..Len(order)
         /\ \A o \in DOMAIN order : order[o] \in OrderRow
<1>1. order \in Seq(OrderRow)
  BY DEF TypeOK
<1> QED
  BY <1>1

(***************************************************************************)
(* A table of which rows are rewritten in place has the rows it had.       *)
(***************************************************************************)
LEMMA Rewritten ==
  ASSUME NEW Row, NEW n \in Nat, NEW f, DOMAIN f = 1..n,
         f = [i \in 1..n |-> f[i]],
         \A i \in 1..n : f[i] \in Row
  PROVE  f \in Seq(Row) /\ Len(f) = n
<1>1. f \in [1..n -> Row]
  OBVIOUS
<1> QED
  BY <1>1

(***************************************************************************)
(* The rows of a stock transaction are movements, whatever lines it takes. *)
(***************************************************************************)
LEMMA LinesFinite ==
  ASSUME TypeOK, NEW S \in SUBSET DOMAIN line
  PROVE  IsFiniteSet(S)
<1>1. DOMAIN line = 1..Len(line) /\ Len(line) \in Nat
  BY LineFields
<1>2. IsFiniteSet(DOMAIN line)
  BY <1>1, FS_Interval
<1> QED
  BY <1>2, FS_Subset

LEMMA DeductionsFinite ==
  ASSUME TypeOK, NEW S \in SUBSET DOMAIN line
  PROVE  IsFiniteSet({Deduction(l) : l \in S})
<1> DEFINE T == {Deduction(l) : l \in S}
           f == [l \in S |-> Deduction(l)]
<1>1. IsFiniteSet(S)
  BY LinesFinite
<1>2. f \in Surjection(S, T)
  BY DEF Surjection
<1> HIDE DEF f, T
<1>3. IsFiniteSet(T)
  BY <1>1, <1>2, FS_Surjection
<1> QED
  BY <1>3 DEF T

LEMMA ReturnsFinite ==
  ASSUME TypeOK, NEW o, NEW S \in SUBSET DOMAIN line
  PROVE  IsFiniteSet({Return(o, l) : l \in S})
<1> DEFINE T == {Return(o, l) : l \in S}
           f == [l \in S |-> Return(o, l)]
<1>1. IsFiniteSet(S)
  BY LinesFinite
<1>2. f \in Surjection(S, T)
  BY DEF Surjection
<1> HIDE DEF f, T
<1>3. IsFiniteSet(T)
  BY <1>1, <1>2, FS_Surjection
<1> QED
  BY <1>3 DEF T

LEMMA DeductionType ==
  ASSUME TypeOK, NEW l \in DOMAIN line
  PROVE  Deduction(l) \in Movement
<1>1. /\ line[l].product \in Products /\ line[l].qty \in 1..MaxQty
      /\ l \in Nat
  BY LineFields
<1> QED
  BY <1>1, ConstantTypes DEF ConstantTypes, Deduction, Movement

LEMMA ReturnType ==
  ASSUME TypeOK, NEW o \in Nat, NEW l \in DOMAIN line
  PROVE  Return(o, l) \in Movement
<1>1. line[l].product \in Products /\ line[l].qty \in 1..MaxQty
  BY LineFields
<1> QED
  BY <1>1, ConstantTypes DEF ConstantTypes, Return, Movement

LEMMA ReleaseType ==
  ASSUME TypeOK, NEW a \in Lots, NEW p \in Products
  PROVE  Release(a, p) \in Movement
<1>1. item[a][p].reserved \in 0..MaxQty
  BY DEF TypeOK, ItemRow
<1> QED
  BY <1>1, ConstantTypes DEF ConstantTypes, Release, Movement

LEMMA AddRowsType ==
  ASSUME TypeOK, NEW rows \in Seq(Movement), AddRows(rows)
  PROVE  movements' \in Seq(Movement) /\ DOMAIN onHand' = Products
BY DEF TypeOK, AddRows, Ledger!Moved

(***************************************************************************)
(* The two stock transactions as their callers see them: movements are     *)
(* added, and of some lines the flag that stock was taken is set or reset. *)
(***************************************************************************)
Flagged(S, applied) ==
  line' = [l \in DOMAIN line |->
    IF l \in S THEN [line[l] EXCEPT !.applied = applied] ELSE line[l]]

StockTransaction ==
  /\ \E rows \in Seq(Movement) : AddRows(rows)
  /\ \E S \in SUBSET DOMAIN line, applied \in BOOLEAN : Flagged(S, applied)

LEMMA ApplyAllRuns ==
  ASSUME TypeOK, NEW o, ApplyAll(o)
  PROVE  StockTransaction
<1> DEFINE S == {k \in OrderLines(o) : Undeducted(k)}
           R == {Deduction(l) : l \in S}
<1>1. OrderLines(o) \in SUBSET DOMAIN line
  BY DEF OrderLines
<1>2. IsFiniteSet(R) /\ R \subseteq Movement
  BY <1>1, DeductionsFinite, DeductionType
<1>3. SetToSeq(R) \in Seq(Movement)
  <2>1. SetToSeq(R) \in Seq(R)
    BY <1>2, SequenceOfSet
  <2> HIDE DEF R
  <2> QED
    BY <1>2, <2>1, SeqMonotonic
<1>4. AddRows(SetToSeq(R))
  BY DEF ApplyAll
<1>5. Flagged(OrderLines(o), TRUE)
  BY DEF ApplyAll, Flagged
<1> HIDE DEF R
<1> QED
  BY <1>1, <1>3, <1>4, <1>5 DEF StockTransaction

LEMMA ReverseRuns ==
  ASSUME TypeOK, NEW o \in Nat, ReverseOrder(o)
  PROVE  StockTransaction
<1> DEFINE R == {Return(o, l) : l \in LinesGivenBack(o)}
<1>1. /\ AppliedLines(o) \in SUBSET DOMAIN line
      /\ LinesGivenBack(o) \in SUBSET DOMAIN line
  BY DEF OrderLines, AppliedLines, LinesGivenBack
<1>2. IsFiniteSet(R) /\ R \subseteq Movement
  BY <1>1, ReturnsFinite, ReturnType
<1>3. SetToSeq(R) \in Seq(Movement)
  <2>1. SetToSeq(R) \in Seq(R)
    BY <1>2, SequenceOfSet
  <2> HIDE DEF R
  <2> QED
    BY <1>2, <2>1, SeqMonotonic
<1>4. AddRows(SetToSeq(R))
  BY DEF ReverseOrder
<1>5. Flagged(AppliedLines(o), FALSE)
  BY DEF ReverseOrder, Flagged
<1> HIDE DEF R
<1> QED
  BY <1>1, <1>3, <1>4, <1>5 DEF StockTransaction

LEMMA ApplyRuns ==
  ASSUME TypeOK, NEW o, ApplyOrder(o)
  PROVE  StockTransaction \/ UNCHANGED <<line, stockVars>>
BY ApplyAllRuns DEF ApplyOrder

LEMMA SyncRuns ==
  ASSUME TypeOK, NEW o \in Nat, SyncOrder(o)
  PROVE  StockTransaction \/ UNCHANGED <<line, stockVars>>
BY ApplyRuns, ReverseRuns DEF SyncOrder

(***************************************************************************)
(* Rewriting lines in place: their number, and all but the fields that     *)
(* change, stay.                                                           *)
(***************************************************************************)
LEMMA FlaggedLines ==
  ASSUME TypeOK, NEW S, NEW applied \in BOOLEAN, Flagged(S, applied)
  PROVE  /\ line' \in Seq(LineRow) /\ DOMAIN line' = DOMAIN line
         /\ \A l \in DOMAIN line :
              /\ line'[l].live = line[l].live /\ line'[l].lot = line[l].lot
              /\ line'[l].product = line[l].product
              /\ line'[l].qty = line[l].qty
              /\ line'[l].order = line[l].order
              /\ line'[l].applied = IF l \in S THEN applied ELSE line[l].applied
<1>1. /\ Len(line) \in Nat /\ DOMAIN line = 1..Len(line)
      /\ \A l \in DOMAIN line : line[l] \in LineRow
  BY LineFields
<1>2. line' = [l \in 1..Len(line) |->
        IF l \in S THEN [line[l] EXCEPT !.applied = applied] ELSE line[l]]
  BY <1>1 DEF Flagged
<1>3. \A row \in LineRow :
        /\ [row EXCEPT !.applied = applied] \in LineRow
        /\ [row EXCEPT !.applied = applied].live = row.live
        /\ [row EXCEPT !.applied = applied].lot = row.lot
        /\ [row EXCEPT !.applied = applied].product = row.product
        /\ [row EXCEPT !.applied = applied].qty = row.qty
        /\ [row EXCEPT !.applied = applied].order = row.order
        /\ [row EXCEPT !.applied = applied].applied = applied
  BY DEF LineRow
<1>4. line' \in [1..Len(line) -> LineRow]
  BY <1>1, <1>2, <1>3
<1>5. line' \in Seq(LineRow)
  BY <1>1, <1>4
<1>6. ASSUME NEW l \in DOMAIN line
      PROVE  /\ line'[l].live = line[l].live /\ line'[l].lot = line[l].lot
             /\ line'[l].product = line[l].product
             /\ line'[l].qty = line[l].qty
             /\ line'[l].order = line[l].order
             /\ line'[l].applied = IF l \in S THEN applied ELSE line[l].applied
  <2>1. CASE l \in S
    <3>1. line'[l] = [line[l] EXCEPT !.applied = applied]
      BY <1>1, <1>2, <2>1
    <3> QED
      BY <1>1, <1>3, <2>1, <3>1
  <2>2. CASE l \notin S
    <3>1. line'[l] = line[l]
      BY <1>1, <1>2, <2>2
    <3> QED
      BY <2>2, <3>1
  <2> QED
    BY <2>1, <2>2
<1>7. DOMAIN line' = DOMAIN line
  BY <1>1, <1>2
<1> QED
  BY <1>5, <1>6, <1>7

LEMMA DeletedLines ==
  ASSUME TypeOK, NEW S, DeleteLines(S)
  PROVE  /\ line' \in Seq(LineRow) /\ DOMAIN line' = DOMAIN line
         /\ \A l \in DOMAIN line :
              /\ line'[l].live = (line[l].live /\ l \notin S)
              /\ line'[l].lot = line[l].lot
              /\ line'[l].product = line[l].product
              /\ line'[l].qty = line[l].qty
              /\ line'[l].applied = line[l].applied
<1>1. /\ Len(line) \in Nat /\ DOMAIN line = 1..Len(line)
      /\ \A l \in DOMAIN line : line[l] \in LineRow /\ line[l].live \in BOOLEAN
  BY LineFields
<1>2. line' = [l \in 1..Len(line) |->
        IF l \in S THEN [line[l] EXCEPT !.live = FALSE] ELSE line[l]]
  BY <1>1 DEF DeleteLines
<1>3. \A row \in LineRow :
        /\ [row EXCEPT !.live = FALSE] \in LineRow
        /\ [row EXCEPT !.live = FALSE].live = FALSE
        /\ [row EXCEPT !.live = FALSE].lot = row.lot
        /\ [row EXCEPT !.live = FALSE].product = row.product
        /\ [row EXCEPT !.live = FALSE].qty = row.qty
        /\ [row EXCEPT !.live = FALSE].applied = row.applied
  BY DEF LineRow
<1>4. line' \in [1..Len(line) -> LineRow]
  BY <1>1, <1>2, <1>3
<1>5. line' \in Seq(LineRow)
  BY <1>1, <1>4
<1>6. ASSUME NEW l \in DOMAIN line
      PROVE  /\ line'[l].live = (line[l].live /\ l \notin S)
             /\ line'[l].lot = line[l].lot
             /\ line'[l].product = line[l].product
             /\ line'[l].qty = line[l].qty
             /\ line'[l].applied = line[l].applied
  <2>1. CASE l \in S
    <3>1. line'[l] = [line[l] EXCEPT !.live = FALSE]
      BY <1>1, <1>2, <2>1
    <3>2. line[l] \in LineRow
      BY <1>1
    <3>3. /\ line'[l].lot = line[l].lot /\ line'[l].product = line[l].product
          /\ line'[l].qty = line[l].qty /\ line'[l].applied = line[l].applied
      BY ONLY <1>3, <3>1, <3>2
    <3>4. ~line'[l].live /\ line'[l].live \in BOOLEAN
      BY ONLY <1>3, <3>1, <3>2
    <3> QED
      BY ONLY <2>1, <3>3, <3>4
  <2>2. CASE l \notin S
    <3>1. line'[l] = line[l]
      BY <1>1, <1>2, <2>2
    <3> QED
      BY <1>1, <2>2, <3>1
  <2> QED
    BY <2>1, <2>2
<1>7. DOMAIN line' = DOMAIN line
  BY <1>1, <1>2
<1> QED
  BY <1>5, <1>6, <1>7

(***************************************************************************)
(* Reopening and cancelling orders rewrites their states in place.         *)
(***************************************************************************)
LEMMA ReopenedType ==
  ASSUME NEW orders \in Seq(OrderRow), NEW a
  PROVE  Reopened(orders, a) \in Seq(OrderRow) /\ Len(Reopened(orders, a)) = Len(orders)
<1>1. /\ Len(orders) \in Nat /\ DOMAIN orders = 1..Len(orders)
      /\ \A o \in 1..Len(orders) : orders[o] \in OrderRow
  OBVIOUS
<1>2. \A row \in OrderRow : [row EXCEPT !.state = "draft"] \in OrderRow
  BY DEF OrderRow
<1>3. Reopened(orders, a) \in [1..Len(orders) -> OrderRow]
  BY <1>1, <1>2 DEF Reopened
<1> QED
  BY <1>1, <1>3

LEMMA SyncedType ==
  ASSUME NEW orders \in Seq(OrderRow), NEW a, NEW rows
  PROVE  Synced(orders, a, rows) \in Seq(OrderRow) /\ Len(Synced(orders, a, rows)) = Len(orders)
<1>1. /\ Len(orders) \in Nat /\ DOMAIN orders = 1..Len(orders)
      /\ \A o \in 1..Len(orders) : orders[o] \in OrderRow
  OBVIOUS
<1>2. \A row \in OrderRow :
        /\ [row EXCEPT !.state = "cancel", !.payment = "unpaid"] \in OrderRow
        /\ [row EXCEPT !.state = "draft", !.payment = "unpaid"] \in OrderRow
  BY DEF OrderRow
<1>3. Synced(orders, a, rows) \in [1..Len(orders) -> OrderRow]
  BY <1>1, <1>2 DEF Synced
<1> QED
  BY <1>1, <1>3

(***************************************************************************)
(* Requests: what a handler starts with.                                   *)
(***************************************************************************)
LEMMA TypeRequests ==
  ASSUME TypeOK, NEW h \in Handlers, Request(h)
  PROVE  TypeOK'
<1> USE IdleJob
<1>1. ASSUME NEW at \in HandlerPC, NEW j \in Job, GotoWith(h, at, j),
             UNCHANGED <<lot, item, orderVars, line, stockVars>>
      PROVE  TypeOK'
  <2>1. HandlersTyped'
    BY <1>1, GotoWithType
  <2> QED
    BY <1>1, <2>1 DEF TypeOK, HandlersTyped, orderVars, stockVars
<1>2. ASSUME NEW a \in Lots, NEW p \in Products, Scan(h, a, p)
      PROVE  TypeOK'
  <2>1. /\ "scan" \in RouteNames /\ "scanRead" \in HandlerPC
        /\ 2 \in 0..2
    BY DEF RouteNames, HandlerPC
  <2>2. [NoJob EXCEPT !.route = "scan", !.lot = a, !.product = p, !.reads = 2] \in Job
    BY <2>1 DEF Job
  <2> QED
    BY <1>1, <1>2, <2>1, <2>2 DEF Scan
<1>3. ASSUME NEW a \in Lots, NEW p \in Products, RemoveRequest(h, a, p)
      PROVE  TypeOK'
  <2>1. /\ [NoJob EXCEPT !.route = "remove", !.lot = a, !.todo = {p}] \in Job
        /\ "removeRead" \in HandlerPC
    BY DEF Job, RouteNames, HandlerPC
  <2> QED
    BY <1>1, <1>3, <2>1 DEF RemoveRequest
<1>4. ASSUME NEW a \in Lots,
             Confirm(h, a) \/ Undo(h, a) \/ Delete(h, a) \/ OverdueRead(h, a)
      PROVE  TypeOK'
  <2>1. \A route \in RouteNames : [NoJob EXCEPT !.route = route, !.lot = a] \in Job
    BY DEF Job
  <2>2. [NoJob EXCEPT !.lot = a] \in Job
    BY DEF Job
  <2>3. /\ {"undo", "delete", "overdue"} \subseteq RouteNames
        /\ {"confirmRead", "undoRead", "deleteItems", "overdueWrite"} \subseteq HandlerPC
    BY DEF RouteNames, HandlerPC
  <2>4. CASE Confirm(h, a)
    BY <1>1, <2>2, <2>3, <2>4 DEF Confirm
  <2>5. CASE Undo(h, a)
    BY <1>1, <2>1, <2>3, <2>5 DEF Undo
  <2>6. CASE Delete(h, a)
    BY <1>1, <2>1, <2>3, <2>6 DEF Delete
  <2>7. CASE OverdueRead(h, a)
    BY <1>1, <2>1, <2>3, <2>7 DEF OverdueRead
  <2> QED
    BY <1>4, <2>4, <2>5, <2>6, <2>7
<1>5. ASSUME NEW a \in Lots, Approve(h, a)
      PROVE  TypeOK'
  <2>1. /\ [NoJob EXCEPT !.route = "approve", !.lot = a] \in Job
        /\ "confirmRead" \in HandlerPC
    BY DEF Job, RouteNames, HandlerPC
  <2>2. HandlersTyped'
    BY <1>5, <2>1, GotoWithType DEF Approve
  <2>3. \A row \in OrderRow :
          [row EXCEPT !.state = "sale", !.payment = "paid"] \in OrderRow
    BY DEF OrderRow
  <2>4. order' \in Seq(OrderRow) /\ Len(order') = Len(order)
    <3>1. order' \in [1..Len(order) -> OrderRow]
      BY <1>5, <2>3, OrderFields DEF Approve
    <3> QED
      BY <3>1, OrderFields
  <2> QED
    BY <1>5, <2>2, <2>4 DEF Approve, TypeOK, HandlersTyped, orderVars, stockVars
<1>6. ASSUME NEW a \in Lots, NEW status \in setting.statuses, ChangeStatus(h, a, status)
      PROVE  TypeOK'
  <2>1. status \in Statuses /\ lot[a].status \in Statuses
    BY DEF TypeOK, IsSetting, LotRow
  <2>2. [NoJob EXCEPT !.route = "status", !.lot = a, !.status = status,
                      !.seen = lot[a].status] \in Job
    BY <2>1 DEF Job, RouteNames
  <2>3. {"reopen", "confirmRead", "undoRead", "statusWrite"} \subseteq HandlerPC
    BY DEF HandlerPC
  <2> QED
    BY <1>1, <1>6, <2>2, <2>3 DEF ChangeStatus
<1>7. ASSUME NEW o \in DOMAIN order, OrderRequest(h, o)
      PROVE  TypeOK'
  <2>1. o \in Nat
    BY OrderFields
  <2>2. \A pay \in BOOLEAN :
          [NoJob EXCEPT !.route = "order", !.order = o, !.pay = pay] \in Job
    BY <2>1 DEF Job, RouteNames
  <2>3. "orderUpdate" \in HandlerPC
    BY DEF HandlerPC
  <2> QED
    BY <1>1, <1>7, <2>2, <2>3 DEF OrderRequest
<1> QED
  BY <1>2, <1>3, <1>4, <1>5, <1>6, <1>7 DEF Request

(***************************************************************************)
(* The steps that only move the handler on.                                *)
(***************************************************************************)
LEMMA TypeQuietSteps ==
  ASSUME TypeOK, NEW h \in Handlers,
         \/ ScanRead(h) \/ RemoveRead(h) \/ ConfirmRead(h) \/ LookUp(h)
         \/ ConfirmFind(h) \/ UndoRead(h) \/ StatusSeen(h) \/ DeleteItems(h)
         \/ Crash(h) \/ Swallow(h)
  PROVE  TypeOK' /\ UNCHANGED <<lot, item, orderVars, line, stockVars>>
<1> USE JobFields
<1>0. {"idle", "scanRead", "assign", "removeRead", "remove", "confirmRead", "lookUp",
       "create", "confirmFind", "confirmLot", "manual", "undoRead", "snapshot",
       "reverse", "statusWrite", "deleteLot"} \subseteq HandlerPC
  BY DEF HandlerPC
<1>1. UNCHANGED <<lot, item, orderVars, line, stockVars>>
  BY DEF ScanRead, RemoveRead, ConfirmRead, LookUp, ConfirmFind, UndoRead,
     StatusSeen, DeleteItems, Crash, Swallow
<1>2. ASSUME ScanRead(h) PROVE HandlersTyped'
  <2> DEFINE left == [job[h] EXCEPT !.reads = job[h].reads - 1]
  <2>1. CASE job[h].reads = 0
    BY <1>0, <1>2, <2>1, GotoType, FinishType DEF ScanRead
  <2>2. CASE job[h].reads # 0
    <3>1. job[h].reads - 1 \in 0..2
      BY <2>2
    <3>2. left \in Job
      BY <3>1 DEF Job
    <3> HIDE DEF left
    <3> QED
      BY <1>0, <1>2, <3>2, GotoWithType, GotoType, FinishType DEF ScanRead, left
  <2> QED
    BY <2>1, <2>2
<1>3. ASSUME RemoveRead(h) PROVE HandlersTyped'
  <2>1. CASE job[h].todo = {}
    BY <1>0, <1>3, <2>1, GotoType, FinishType DEF RemoveRead, Removed
  <2>2. CASE job[h].todo # {}
    <3>1. PICK p \in job[h].todo :
            \/ GotoWith(h, "remove", [job[h] EXCEPT !.product = p, !.todo = @ \ {p}])
            \/ GotoWith(h, "removeRead", [job[h] EXCEPT !.todo = @ \ {p}])
      BY <1>3, <2>2 DEF RemoveRead
    <3>2. /\ [job[h] EXCEPT !.product = p, !.todo = @ \ {p}] \in Job
          /\ [job[h] EXCEPT !.todo = @ \ {p}] \in Job
      BY DEF Job
    <3> QED
      BY <1>0, <3>1, <3>2, GotoWithType
  <2> QED
    BY <2>1, <2>2
<1>4. ASSUME ConfirmRead(h) PROVE HandlersTyped'
  <2>1. [p \in Products |-> item[job[h].lot][p].qty] \in [Products -> 0..MaxQty]
    BY ItemTypes
  <2>2. [job[h] EXCEPT !.found = [p \in Products |-> item[job[h].lot][p].qty]] \in Job
    BY <2>1 DEF Job
  <2> QED
    BY <1>0, <1>4, <2>2, GotoWithType, GotoType, FinishType DEF ConfirmRead
<1>5. ASSUME LookUp(h) PROVE HandlersTyped'
  <2>1. buyerOrder \in Nat
    BY OrderFields DEF TypeOK
  <2>2. [job[h] EXCEPT !.order = buyerOrder] \in Job
    BY <2>1 DEF Job
  <2> QED
    BY <1>0, <1>5, <2>2, GotoWithType, GotoType DEF LookUp
<1>6. ASSUME ConfirmFind(h) PROVE HandlersTyped'
  <2> DEFINE S == {p \in Items(job[h].lot) :
                     item[job[h].lot][p].reserved # item[job[h].lot][p].qty}
  <2>1. QtyToSell(h) \in [Products -> 0..MaxQty]
    <3>1. /\ NoJob.found \in [Products -> 0..MaxQty]
          /\ [p \in Products |-> item[job[h].lot][p].qty] \in [Products -> 0..MaxQty]
      BY IdleJob, ItemTypes DEF Job
    <3> QED
      BY <3>1 DEF QtyToSell
  <2>2. S \in SUBSET Products
    BY ItemTypes
  <2> HIDE DEF S
  <2>3. [job[h] EXCEPT !.found = QtyToSell(h), !.todo = S] \in Job
    BY <2>1, <2>2 DEF Job
  <2> QED
    BY <1>0, <1>6, <2>3, GotoWithType DEF ConfirmFind, S
<1>7. ASSUME UndoRead(h) PROVE HandlersTyped'
  BY <1>0, <1>7, GotoType, FinishType DEF UndoRead, NotUndone
<1>8. ASSUME StatusSeen(h) PROVE HandlersTyped'
  <2>1. lot[job[h].lot].status \in Statuses
    BY DEF TypeOK, LotRow
  <2>2. [job[h] EXCEPT !.seen = lot[job[h].lot].status] \in Job
    BY <2>1 DEF Job
  <2> QED
    BY <1>0, <1>8, <2>2, GotoWithType, FinishType DEF StatusSeen
<1>9. ASSUME DeleteItems(h) PROVE HandlersTyped'
  <2>1. [job[h] EXCEPT !.todo = Items(job[h].lot)] \in Job
    BY ItemTypes DEF Job
  <2> QED
    BY <1>0, <1>9, <2>1, GotoWithType, FinishType DEF DeleteItems
<1>10. ASSUME Swallow(h) PROVE HandlersTyped'
  <2>1. \A o : [job[h] EXCEPT !.orders = @ \ {o}] \in Job
    BY DEF Job
  <2> QED
    BY <1>0, <1>10, <2>1, GotoWithType, GotoType DEF Swallow
<1>11. ASSUME Crash(h) PROVE HandlersTyped'
  BY <1>11, FinishType DEF Crash
<1>12. HandlersTyped'
  BY <1>2, <1>3, <1>4, <1>5, <1>6, <1>7, <1>8, <1>9, <1>10, <1>11
<1> QED
  BY <1>1, <1>12 DEF TypeOK, HandlersTyped, orderVars, stockVars

(***************************************************************************)
(* The steps that write the lot's products.                                *)
(***************************************************************************)
LEMMA TypeItemSteps ==
  ASSUME TypeOK, NEW h \in Handlers,
         Assign(h) \/ RemoveItem(h) \/ ReleaseReservation(h) \/ Snapshot(h)
  PROVE  TypeOK'
<1> USE JobFields
<1>1. ASSUME Assign(h) PROVE TypeOK'
  <2> DEFINE a == job[h].lot
             p == job[h].product
  <2>1. item[a][p] \in ItemRow /\ item[a][p].qty \in 0..MaxQty
        /\ item[a][p].reserved \in 0..MaxQty
    BY DEF TypeOK, ItemRow
  <2>2. setting.scans \in 0..MaxQty
    BY DEF TypeOK, IsSetting
  <2>a. item[a][p].qty < setting.scans
    BY <1>1 DEF Assign
  <2>3. item[a][p].qty + 1 \in 0..MaxQty
    BY <2>a, <2>1, <2>2, ConstantTypes
  <2>4. [item[a][p] EXCEPT !.qty = @ + 1] \in ItemRow
    BY <2>1, <2>3 DEF ItemRow
  <2>5. item' \in [Lots -> [Products -> ItemRow]]
    BY <1>1, <2>4 DEF Assign, TypeOK
  <2>6. lot' \in [Lots -> LotRow]
    BY <1>1, StatusType DEF Assign, Statuses, Open
  <2>7. HandlersTyped'
    BY <1>1, FinishType DEF Assign
  <2> QED
    BY <1>1, <2>5, <2>6, <2>7 DEF Assign, TypeOK, HandlersTyped, orderVars, stockVars
<1>2. ASSUME RemoveItem(h) PROVE TypeOK'
  <2> DEFINE a == job[h].lot
             p == job[h].product
  <2>1. movements' \in Seq(Movement) /\ DOMAIN onHand' = Products
    <3>1. CASE UNCHANGED stockVars
      BY <3>1 DEF TypeOK, stockVars
    <3>2. CASE AddRows(<<Release(a, p)>>)
      <4>1. <<Release(a, p)>> \in Seq(Movement)
        BY ReleaseType
      <4> QED
        BY <3>2, <4>1, AddRowsType
    <3> QED
      BY <1>2, <3>1, <3>2 DEF RemoveItem
  <2>2. item' \in [Lots -> [Products -> ItemRow]]
    <3>1. item' = [item EXCEPT ![a][p] = NoItem] \/ UNCHANGED item
      BY <1>2 DEF RemoveItem
    <3>2. item \in [Lots -> [Products -> ItemRow]] /\ NoItem \in ItemRow
      BY ItemTypes DEF TypeOK
    <3> QED
      BY <3>1, <3>2
  <2>3. lot' \in [Lots -> LotRow]
    <3>1. "pending" \in Statuses /\ "assigned" \in Statuses
      BY DEF Statuses, Open
    <3>2. CASE UNCHANGED lot
      BY <3>2 DEF TypeOK
    <3> QED
      BY <1>2, <3>1, <3>2, StatusType DEF RemoveItem
  <2>4. HandlersTyped'
    BY <1>2, GotoType DEF RemoveItem, HandlerPC
  <2> QED
    BY <1>2, <2>1, <2>2, <2>3, <2>4 DEF RemoveItem, TypeOK, HandlersTyped, orderVars
<1>3. ASSUME ReleaseReservation(h) PROVE TypeOK'
  <2>1. item' \in [Lots -> [Products -> ItemRow]]
    BY <1>3, ItemTypes DEF ReleaseReservation, TypeOK
  <2>2. HandlersTyped'
    BY <1>3, FinishType DEF ReleaseReservation
  <2> QED
    BY <1>3, <2>1, <2>2 DEF ReleaseReservation, TypeOK, HandlersTyped, orderVars, stockVars
<1>4. ASSUME Snapshot(h) PROVE TypeOK'
  <2>1. item' \in [Lots -> [Products -> ItemRow]]
    BY <1>4, ItemTypes DEF Snapshot, TypeOK
  <2>2. LinkedOrders(job[h].lot) \in SUBSET Nat
    BY LineFields DEF LinkedOrders, LotLines
  <2>3. [job[h] EXCEPT !.orders = LinkedOrders(job[h].lot)] \in Job
    BY <2>2 DEF Job
  <2>4. HandlersTyped'
    BY <1>4, <2>3, GotoWithType DEF Snapshot, HandlerPC
  <2> QED
    BY <1>4, <2>1, <2>4 DEF Snapshot, TypeOK, HandlersTyped, orderVars, stockVars
<1> QED
  BY <1>1, <1>2, <1>3, <1>4

(***************************************************************************)
(* The steps that write the lot's status or its orders.                    *)
(***************************************************************************)
LEMMA TypeStatusSteps ==
  ASSUME TypeOK, NEW h \in Handlers,
         \/ Create(h) \/ ManualConfirm(h) \/ Reopen(h) \/ StatusWrite(h)
         \/ OverdueWrite(h) \/ OrderUpdate(h)
  PROVE  TypeOK' /\ UNCHANGED <<line, stockVars>>
<1> USE JobFields
<1>0. UNCHANGED <<setting, line, stockVars>>
  BY DEF Create, ManualConfirm, Reopen, StatusWrite, OverdueWrite, OrderUpdate,
     orderVars
<1>1. /\ {"pending", "assigned", "confirmed", "payment_cancelled"} \subseteq Statuses
      /\ {"confirmFind", "confirmRead", "orderSync"} \subseteq HandlerPC
  BY DEF Statuses, Open, Review, HandlerPC
<1>2. order \in Seq(OrderRow) /\ buyerOrder \in 0..Len(order)
  BY DEF TypeOK
<1>3. ASSUME Create(h) PROVE TypeOK'
  <2>1. [live |-> TRUE, state |-> "draft", payment |-> "unpaid"] \in OrderRow
    BY DEF OrderRow
  <2>2. order' \in Seq(OrderRow) /\ Len(order') = Len(order) + 1
    BY <1>2, <1>3, <2>1 DEF Create
  <2>3. buyerOrder' \in 0..Len(order')
    BY <1>2, <1>3, <2>2 DEF Create
  <2>4. [job[h] EXCEPT !.order = Len(order) + 1] \in Job
    BY <1>2 DEF Job
  <2>5. HandlersTyped'
    BY <1>1, <1>3, <2>4, GotoWithType DEF Create
  <2> QED
    BY <1>0, <1>3, <2>2, <2>3, <2>5 DEF Create, TypeOK, HandlersTyped, stockVars
<1>4. ASSUME ManualConfirm(h) \/ OverdueWrite(h) PROVE TypeOK'
  <2>1. lot' \in [Lots -> LotRow]
    BY <1>1, <1>4, StatusType DEF ManualConfirm, OverdueWrite
  <2>2. HandlersTyped'
    BY <1>4, FinishType DEF ManualConfirm, OverdueWrite
  <2> QED
    BY <1>0, <1>4, <2>1, <2>2
    DEF ManualConfirm, OverdueWrite, TypeOK, HandlersTyped, orderVars, stockVars
<1>5. ASSUME Reopen(h) PROVE TypeOK'
  <2>1. lot' \in [Lots -> LotRow]
    BY <1>1, <1>5, StatusType DEF Reopen
  <2>2. HandlersTyped'
    BY <1>1, <1>5, GotoType DEF Reopen
  <2>3. order' \in Seq(OrderRow) /\ Len(order') = Len(order)
    BY <1>2, <1>5, ReopenedType DEF Reopen
  <2> QED
    BY <1>0, <1>5, <2>1, <2>2, <2>3 DEF Reopen, TypeOK, HandlersTyped, stockVars
<1>6. ASSUME StatusWrite(h) PROVE TypeOK'
  <2> DEFINE a == job[h].lot
             reopened == Reopened(order, a)
             restored == IF job[h].seen \notin Review \/ job[h].status \notin Open THEN order
                         ELSE IF Live(a) THEN Synced(reopened, a, lot) ELSE reopened
  <2>1. lot' \in [Lots -> LotRow]
    BY <1>6, StatusType DEF StatusWrite
  <2>2. item' \in [Lots -> [Products -> ItemRow]]
    <3>1. item' = [item EXCEPT ![a] = Unreserved(a)] \/ UNCHANGED item
      BY <1>6 DEF StatusWrite
    <3>2. /\ item \in [Lots -> [Products -> ItemRow]]
          /\ Unreserved(a) \in [Products -> ItemRow]
      BY ItemTypes DEF TypeOK
    <3> QED
      BY <3>1, <3>2
  <2>3. restored \in Seq(OrderRow) /\ Len(restored) = Len(order)
    <3>1. reopened \in Seq(OrderRow) /\ Len(reopened) = Len(order)
      BY <1>2, ReopenedType
    <3> HIDE DEF reopened
    <3>2. Synced(reopened, a, lot) \in Seq(OrderRow)
          /\ Len(Synced(reopened, a, lot)) = Len(order)
      BY <3>1, SyncedType
    <3> QED
      BY <1>2, <3>1, <3>2
  <2>4. order' = restored \/ order' = Synced(restored, a, lot')
    BY <1>6 DEF StatusWrite
  <2> HIDE DEF restored
  <2>5. order' \in Seq(OrderRow) /\ Len(order') = Len(order)
    BY <2>3, <2>4, SyncedType
  <2>6. HandlersTyped'
    BY <1>6, FinishType DEF StatusWrite
  <2>7. UNCHANGED buyerOrder
    BY <1>6 DEF StatusWrite
  <2> QED
    BY <1>0, <2>1, <2>2, <2>5, <2>6, <2>7 DEF TypeOK, HandlersTyped, stockVars
<1>7. ASSUME OrderUpdate(h) PROVE TypeOK'
  <2>1. \A row \in OrderRow :
          /\ [row EXCEPT !.state = "sale", !.payment = "paid"] \in OrderRow
          /\ [row EXCEPT !.state = "cancel", !.payment = "unpaid"] \in OrderRow
    BY DEF OrderRow
  <2>2. order' \in Seq(OrderRow) /\ Len(order') = Len(order)
    <3>1. order' = [order EXCEPT ![job[h].order] =
            IF job[h].pay THEN [@ EXCEPT !.state = "sale", !.payment = "paid"]
            ELSE [@ EXCEPT !.state = "cancel", !.payment = "unpaid"]]
      BY <1>7 DEF OrderUpdate
    <3>2. order' \in [1..Len(order) -> OrderRow]
      BY <2>1, <3>1, OrderFields
    <3> QED
      BY <3>2, OrderFields
  <2>3. HandlersTyped'
    BY <1>1, <1>7, GotoType DEF OrderUpdate
  <2> QED
    BY <1>0, <1>7, <2>2, <2>3 DEF OrderUpdate, TypeOK, HandlersTyped, stockVars
<1> QED
  BY <1>0, <1>3, <1>4, <1>5, <1>6, <1>7

(***************************************************************************)
(* The rows a confirmation adds: finitely many, one for each product that  *)
(* is to be sold and is not on a line of the lot yet.                      *)
(***************************************************************************)
SoldRow(h, p) ==
  [live |-> TRUE, order |-> job[h].order, lot |-> job[h].lot, product |-> p,
   qty |-> job[h].found[p], applied |-> FALSE]

LEMMA SoldRowsAre ==
  ASSUME TypeOK, NEW h \in Handlers
  PROVE  /\ IsFiniteSet(SoldRows(h))
         /\ SoldRows(h) \subseteq LineRow
         /\ \A row \in SoldRows(h) :
              /\ row.live /\ ~row.applied /\ row.lot = job[h].lot /\ row.product \in Products
              /\ row.qty = job[h].found[row.product]
              /\ Unsold(job[h].lot, row.product)
              /\ row = SoldRow(h, row.product)
         /\ \A p \in Products : job[h].found[p] > 0 /\ Unsold(job[h].lot, p) =>
              \E row \in SoldRows(h) : row.product = p
<1> DEFINE sold == {q \in Products : job[h].found[q] > 0 /\ Unsold(job[h].lot, q)}
           rows == {SoldRow(h, p) : p \in sold}
           f == [p \in sold |-> SoldRow(h, p)]
<1>1. SoldRows(h) = rows
  BY DEF SoldRows, SoldRow
<1>2. IsFiniteSet(rows)
  <2>1. IsFiniteSet(sold)
    BY ConstantTypes, FS_Subset DEF ConstantTypes
  <2>2. f \in Surjection(sold, rows)
    BY DEF Surjection
  <2> HIDE DEF f, rows, sold
  <2> QED
    BY <2>1, <2>2, FS_Surjection
<1>3. ASSUME NEW p \in sold
      PROVE  /\ SoldRow(h, p) \in LineRow /\ SoldRow(h, p).product = p
             /\ SoldRow(h, p).live /\ ~SoldRow(h, p).applied /\ SoldRow(h, p).lot = job[h].lot
             /\ SoldRow(h, p).qty = job[h].found[p]
  <2>1. job[h].found[p] \in 1..MaxQty
    <3>1. job[h].found[p] \in 0..MaxQty /\ job[h].found[p] > 0
      BY JobFields
    <3> QED
      BY <3>1, ConstantTypes DEF ConstantTypes
  <2> QED
    BY <2>1, JobFields DEF SoldRow, LineRow
<1>4. \A p \in sold : p \in Products /\ Unsold(job[h].lot, p)
  OBVIOUS
<1>5. \A p \in Products : job[h].found[p] > 0 /\ Unsold(job[h].lot, p) => p \in sold
  OBVIOUS
<1> HIDE DEF sold
<1> QED
  BY <1>1, <1>2, <1>3, <1>4, <1>5

(***************************************************************************)
(* u is s with the rows R at its end, each once.                           *)
(***************************************************************************)
Appended(s, R, u) ==
  /\ DOMAIN s = 1..Len(s) /\ DOMAIN u = 1..Len(u)
  /\ Len(s) \in Nat /\ Len(u) \in Nat /\ Len(s) <= Len(u)
  /\ \A l \in 1..Len(s) : u[l] = s[l]
  /\ \A l \in (Len(s) + 1)..Len(u) : u[l] \in R
  /\ \A k, l \in (Len(s) + 1)..Len(u) : u[k] = u[l] => k = l
  /\ \A e \in R : \E l \in (Len(s) + 1)..Len(u) : u[l] = e

LEMMA RowsAppended ==
  ASSUME NEW Row, NEW R, R \subseteq Row, NEW s \in Seq(Row), NEW t \in Seq(R),
         \A i, j \in 1..Len(t) : t[i] = t[j] => i = j,
         \A e \in R : \E i \in 1..Len(t) : t[i] = e
  PROVE  s \o t \in Seq(Row) /\ Appended(s, R, s \o t)
<1> DEFINE n == Len(s)
           m == Len(t)
           u == s \o t
<1>1. n \in Nat /\ m \in Nat /\ DOMAIN s = 1..n
  OBVIOUS
<1>2. t \in Seq(Row)
  BY SeqMonotonic
<1>3. /\ u \in Seq(Row) /\ Len(u) = n + m /\ DOMAIN u = 1..(n + m)
      /\ \A l \in 1..(n + m) : u[l] = IF l <= n THEN s[l] ELSE t[l - n]
  BY <1>2
<1>4. \A i \in 1..m : t[i] \in R
  OBVIOUS
<1> HIDE DEF n, m, u
<1>5. \A l \in 1..n : u[l] = s[l]
  BY <1>1, <1>3
<1>6. \A l \in (n + 1)..(n + m) : l - n \in 1..m /\ u[l] = t[l - n]
  BY <1>1, <1>3
<1>7. \A l \in (n + 1)..(n + m) : u[l] \in R
  BY <1>4, <1>6
<1>8. \A k, l \in (n + 1)..(n + m) : u[k] = u[l] => k = l
  <2> SUFFICES ASSUME NEW k \in (n + 1)..(n + m), NEW l \in (n + 1)..(n + m), u[k] = u[l]
               PROVE  k = l
    OBVIOUS
  <2>1. k - n \in 1..m /\ l - n \in 1..m /\ t[k - n] = t[l - n]
    BY <1>6
  <2>2. k - n = l - n
    BY <2>1 DEF m
  <2> QED
    BY <1>1, <2>2
<1>9. \A e \in R : \E l \in (n + 1)..(n + m) : u[l] = e
  <2> SUFFICES ASSUME NEW e \in R
               PROVE  \E l \in (n + 1)..(n + m) : u[l] = e
    OBVIOUS
  <2>1. PICK i \in 1..m : t[i] = e
    BY DEF m
  <2>2. n + i \in (n + 1)..(n + m) /\ (n + i) - n = i
    BY <1>1
  <2>3. u[n + i] = t[(n + i) - n]
    BY <1>6, <2>2
  <2> QED
    BY <2>1, <2>2, <2>3
<1>10. Len(s) = n /\ Len(u) = n + m /\ DOMAIN u = 1..Len(u)
  BY <1>3 DEF n
<1>11. Appended(s, R, u)
  <2>1. /\ \A l \in 1..Len(s) : u[l] = s[l]
        /\ \A l \in (Len(s) + 1)..Len(u) : u[l] \in R
        /\ \A k, l \in (Len(s) + 1)..Len(u) : u[k] = u[l] => k = l
        /\ \A e \in R : \E l \in (Len(s) + 1)..Len(u) : u[l] = e
    BY <1>5, <1>7, <1>8, <1>9, <1>10
  <2>2. DOMAIN s = 1..Len(s) /\ Len(s) \in Nat /\ Len(u) \in Nat /\ Len(s) <= Len(u)
    BY <1>1, <1>10
  <2> QED
    BY <1>10, <2>1, <2>2 DEF Appended
<1> QED
  BY <1>3, <1>11 DEF u

LEMMA LinesAdded ==
  ASSUME TypeOK, NEW h \in Handlers, line' = line \o SetToSeq(SoldRows(h))
  PROVE  line' \in Seq(LineRow) /\ Appended(line, SoldRows(h), line')
<1> DEFINE R == SoldRows(h)
           t == SetToSeq(R)
<1>1. IsFiniteSet(R) /\ R \subseteq LineRow
  BY SoldRowsAre
<1> HIDE DEF R
<1>2. /\ t \in Seq(R)
      /\ \A i, j \in 1..Len(t) : t[i] = t[j] => i = j
      /\ \A e \in R : \E i \in 1..Len(t) : t[i] = e
  BY <1>1, SequenceOfSet
<1>3. line \in Seq(LineRow) /\ line' = line \o t
  BY DEF TypeOK, R
<1> HIDE DEF t
<1>4. line \o t \in Seq(LineRow) /\ Appended(line, R, line \o t)
  BY <1>1, <1>2, <1>3, RowsAppended
<1> QED
  BY <1>3, <1>4 DEF R

(***************************************************************************)
(* The steps that write sale order lines or stock.                         *)
(***************************************************************************)
LEMMA StockTransactionType ==
  ASSUME TypeOK, StockTransaction \/ UNCHANGED <<line, stockVars>>
  PROVE  /\ line' \in Seq(LineRow)
         /\ movements' \in Seq(Movement) /\ DOMAIN onHand' = Products
<1>1. CASE StockTransaction
  BY <1>1, AddRowsType, FlaggedLines DEF StockTransaction
<1>2. CASE UNCHANGED <<line, stockVars>>
  BY <1>2 DEF TypeOK, stockVars
<1> QED
  BY <1>1, <1>2

LEMMA TypeLineSteps ==
  ASSUME TypeOK, NEW h \in Handlers,
         \/ Apply(h) \/ ReverseOrders(h) \/ OrderSync(h)
         \/ ConfirmLot(h) \/ Unconfirm(h) \/ DeleteLot(h)
  PROVE  TypeOK'
<1> USE JobFields
<1>0. /\ {"confirmed", "assigned"} \subseteq Statuses
      /\ {"release", "unconfirm", "reverse", "apply", "statusSeen",
          "deleteItems", "scanRead"} \subseteq HandlerPC
  BY DEF Statuses, Open, HandlerPC
<1>1. ASSUME Apply(h) PROVE TypeOK'
  <2>1. StockTransaction \/ UNCHANGED <<line, stockVars>>
    BY <1>1, ApplyRuns DEF Apply
  <2>2. HandlersTyped'
    BY <1>0, <1>1, GotoType DEF Apply
  <2> QED
    BY <1>1, <2>1, <2>2, StockTransactionType DEF Apply, TypeOK, HandlersTyped, orderVars
<1>2. ASSUME ReverseOrders(h) PROVE TypeOK'
  <2>1. (StockTransaction \/ UNCHANGED <<line, stockVars>>) /\ HandlersTyped'
    <3>1. CASE job[h].orders = {}
      BY <1>0, <1>2, <3>1, GotoType DEF ReverseOrders
    <3>2. CASE job[h].orders # {}
      <4>1. PICK o \in job[h].orders :
              /\ ReverseOrder(o)
              /\ GotoWith(h, "reverse", [job[h] EXCEPT !.orders = @ \ {o}])
        BY <1>2, <3>2 DEF ReverseOrders
      <4>2. [job[h] EXCEPT !.orders = @ \ {o}] \in Job /\ o \in Nat
        BY DEF Job
      <4> QED
        BY <1>0, <4>1, <4>2, ReverseRuns, GotoWithType
    <3> QED
      BY <3>1, <3>2
  <2> QED
    BY <1>2, <2>1, StockTransactionType DEF ReverseOrders, TypeOK, HandlersTyped, orderVars
<1>3. ASSUME OrderSync(h) PROVE TypeOK'
  <2>1. StockTransaction \/ UNCHANGED <<line, stockVars>>
    BY <1>3, SyncRuns DEF OrderSync
  <2>2. HandlersTyped'
    BY <1>3, FinishType DEF OrderSync
  <2> QED
    BY <1>3, <2>1, <2>2, StockTransactionType DEF OrderSync, TypeOK, HandlersTyped, orderVars
<1>4. ASSUME ConfirmLot(h) PROVE TypeOK'
  <2> DEFINE a == job[h].lot
             held == [p \in Products |->
               IF p \in job[h].todo THEN [item[a][p] EXCEPT !.reserved = item[a][p].qty]
               ELSE item[a][p]]
  <2>1. line' \in Seq(LineRow)
    BY <1>4, LinesAdded DEF ConfirmLot
  <2>2. held \in [Products -> ItemRow]
    <3>1. \A p \in Products : item[a][p] \in ItemRow
      BY DEF TypeOK
    <3>2. \A row \in ItemRow : [row EXCEPT !.reserved = row.qty] \in ItemRow
      BY DEF ItemRow
    <3> QED
      BY <3>1, <3>2
  <2>3. item' = [item EXCEPT ![a] = held]
    BY <1>4 DEF ConfirmLot
  <2> HIDE DEF held
  <2>4. item' \in [Lots -> [Products -> ItemRow]]
    BY <2>2, <2>3 DEF TypeOK
  <2>5. lot' \in [Lots -> LotRow]
    BY <1>0, <1>4, StatusType DEF ConfirmLot
  <2>6. [job[h] EXCEPT !.todo = {}] \in Job
    BY DEF Job
  <2>7. HandlersTyped'
    BY <1>0, <1>4, <2>6, GotoWithType DEF ConfirmLot
  <2> QED
    BY <1>4, <2>1, <2>4, <2>5, <2>7 DEF ConfirmLot, TypeOK, HandlersTyped, orderVars, stockVars
<1>5. ASSUME Unconfirm(h) PROVE TypeOK'
  <2>1. line' \in Seq(LineRow)
    BY <1>5, DeletedLines DEF Unconfirm
  <2>2. lot' \in [Lots -> LotRow]
    BY <1>0, <1>5, StatusType DEF Unconfirm
  <2>3. HandlersTyped'
    BY <1>0, <1>5, GotoType, FinishType DEF Unconfirm, Undone
  <2> QED
    BY <1>5, <2>1, <2>2, <2>3 DEF Unconfirm, TypeOK, HandlersTyped, orderVars, stockVars
<1>6. ASSUME DeleteLot(h) PROVE TypeOK'
  <2> DEFINE a == job[h].lot
  <2>1. HandlersTyped'
    BY <1>6, FinishType DEF DeleteLot
  <2>2. CASE ~Live(a)
    BY <1>6, <2>1, <2>2 DEF DeleteLot, TypeOK, HandlersTyped, stockVars
  <2>3. CASE Live(a)
    <3>1. line' \in Seq(LineRow)
      BY <1>6, <2>3, DeletedLines DEF DeleteLot
    <3>2. item' \in [Lots -> [Products -> ItemRow]]
      <4>1. item' = [item EXCEPT ![a] = [p \in Products |-> NoItem]]
        BY <1>6, <2>3 DEF DeleteLot
      <4>2. [p \in Products |-> NoItem] \in [Products -> ItemRow]
        BY ItemTypes
      <4> QED
        BY <4>1, <4>2 DEF TypeOK
    <3>3. lot' \in [Lots -> LotRow]
      <4>1. lot' = [lot EXCEPT ![a].presence = "deleted"]
        BY <1>6, <2>3 DEF DeleteLot
      <4>2. lot \in [Lots -> LotRow]
        BY DEF TypeOK
      <4> QED
        BY <4>1, <4>2 DEF LotRow
    <3>4. order' \in Seq(OrderRow) /\ Len(order') = Len(order)
      <4>1. \A row \in OrderRow : [row EXCEPT !.live = FALSE] \in OrderRow
        BY DEF OrderRow
      <4>2. order' = [o \in DOMAIN order |->
               IF o \in LinkedOrders(a) /\ OrderLines(o) \subseteq LotLines(a)
               THEN [order[o] EXCEPT !.live = FALSE] ELSE order[o]]
        BY <1>6, <2>3 DEF DeleteLot
      <4>3. order' \in [1..Len(order) -> OrderRow]
        BY <4>1, <4>2, OrderFields
      <4> QED
        BY <4>3, OrderFields
    <3> QED
      BY <1>6, <2>1, <3>1, <3>2, <3>3, <3>4 DEF DeleteLot, TypeOK, HandlersTyped, stockVars
  <2> QED
    BY <2>2, <2>3
<1> QED
  BY <1>1, <1>2, <1>3, <1>4, <1>5, <1>6

LEMMA TypeLots ==
  ASSUME TypeOK, NEW a \in setting.lots, Queue(a) \/ Reserve(a)
  PROVE  TypeOK'
<1>1. a \in Lots
  BY DEF TypeOK, IsSetting
<1>2. CASE Queue(a)
  <2>1. [presence |-> "live", status |-> "pending"] \in LotRow
    BY DEF LotRow, Statuses, Open
  <2>2. lot' \in [Lots -> LotRow]
    BY <1>1, <1>2, <2>1 DEF Queue, TypeOK
  <2> QED
    BY <1>2, <2>2 DEF Queue, TypeOK, orderVars, stockVars
<1>3. CASE Reserve(a)
  <2>1. item' \in [Lots -> [Products -> ItemRow]]
    BY <1>1, <1>3, ItemTypes DEF Reserve, TypeOK
  <2> QED
    BY <1>3, <2>1 DEF Reserve, TypeOK, orderVars, stockVars
<1> QED
  BY <1>2, <1>3

LEMMA TypeInit == Init => TypeOK
<1> SUFFICES ASSUME Init PROVE TypeOK
  OBVIOUS
<1>1. NoItem \in ItemRow
  BY ConstantTypes DEF ConstantTypes, NoItem, ItemRow
<1>2. lot \in [Lots -> LotRow]
  BY DEF Init, LotRow, Statuses, Open
<1>3. item \in [Lots -> [Products -> ItemRow]]
  BY <1>1 DEF Init
<1>4. order \in Seq(OrderRow) /\ buyerOrder \in 0..Len(order)
  BY DEF Init
<1>5. IsSetting(setting) /\ DOMAIN onHand = Products
  BY ConstantTypes DEF ConstantTypes, Init
<1>6. line \in Seq(LineRow) /\ movements \in Seq(Movement)
  BY DEF Init
<1>7. HandlersTyped
  BY IdleJob DEF Init, HandlersTyped, HandlerPC
<1> QED
  BY <1>2, <1>3, <1>4, <1>5, <1>6, <1>7 DEF TypeOK, HandlersTyped

LEMMA TypeNext ==
  ASSUME TypeOK, [Next]_vars
  PROVE  TypeOK'
<1>1. CASE UNCHANGED vars
  BY <1>1 DEF vars, orderVars, stockVars, TypeOK
<1>2. ASSUME NEW a \in setting.lots, Queue(a) \/ Reserve(a)
      PROVE  TypeOK'
  BY <1>2, TypeLots
<1>3. ASSUME NEW h \in setting.handlers, Request(h) \/ Step(h) \/ Crash(h) \/ Swallow(h)
      PROVE  TypeOK'
  <2>1. h \in Handlers
    BY DEF TypeOK, IsSetting
  <2>2. CASE Request(h)
    BY <2>1, <2>2, TypeRequests
  <2>3. CASE Crash(h) \/ Swallow(h)
    BY <2>1, <2>3, TypeQuietSteps
  <2>4. CASE Step(h)
    BY <2>1, <2>4, TypeQuietSteps, TypeItemSteps, TypeStatusSteps, TypeLineSteps DEF Step
  <2> QED
    BY <1>3, <2>2, <2>3, <2>4
<1> QED
  BY <1>1, <1>2, <1>3 DEF Next

(***************************************************************************)
(* The rows and what the handlers carry keep their shape, and the buyer's  *)
(* order is always one that exists, however the requests of any number of  *)
(* handlers interleave and wherever they fail.                             *)
(***************************************************************************)
THEOREM TypeCorrect == Spec => []TypeOK
<1>1. Init => TypeOK
  BY TypeInit
<1>2. TypeOK /\ [Next]_vars => TypeOK'
  BY TypeNext
<1> QED
  BY <1>1, <1>2, PTL DEF Spec

-----------------------------------------------------------------------------
(* The ledger *)

(***************************************************************************)
(* Appending a sequence of rows keeps the rows there were and records      *)
(* exactly the new ones.                                                   *)
(***************************************************************************)
LEMMA AppendedRows ==
  ASSUME NEW S, NEW old \in Seq(S), NEW new \in Seq(S)
  PROVE  /\ Len(old \o new) >= Len(old)
         /\ SubSeq(old \o new, 1, Len(old)) = old
         /\ SubSeq(old \o new, Len(old) + 1, Len(old \o new)) = new
<1> DEFINE all == old \o new
<1>1. /\ Len(old) \in Nat /\ Len(new) \in Nat
      /\ all \in Seq(S)
      /\ Len(all) = Len(old) + Len(new)
      /\ \A i \in 1 .. Len(old) : all[i] = old[i]
      /\ \A i \in 1 .. Len(new) : all[Len(old) + i] = new[i]
  BY ConcatProperties
<1> HIDE DEF all
<1>2. SubSeq(all, 1, Len(old)) = old
  BY <1>1
<1>3. SubSeq(all, Len(old) + 1, Len(all)) = new
  BY <1>1
<1> QED
  BY <1>1, <1>2, <1>3 DEF all

(***************************************************************************)
(* A transaction that adds rows is a step of the ledger.                   *)
(***************************************************************************)
LEMMA AddedRows ==
  ASSUME TypeOK, NEW rows \in Seq(Movement), AddRows(rows)
  PROVE  Ledger!Record
<1>1. /\ movements \in Seq(Movement) /\ movements' = movements \o rows
      /\ onHand' = Ledger!Moved(onHand, rows)
  BY DEF TypeOK, AddRows
<1>2. /\ Len(movements') >= Len(movements)
      /\ SubSeq(movements', 1, Len(movements)) = movements
      /\ SubSeq(movements', Len(movements) + 1, Len(movements')) = rows
  BY <1>1, AppendedRows
<1> QED
  BY <1>1, <1>2 DEF Ledger!Record, Ledger!Recorded

LEMMA StockTransactionRecords ==
  ASSUME TypeOK, StockTransaction \/ UNCHANGED <<line, stockVars>>
  PROVE  [Ledger!Record]_(Ledger!ledgerVars)
BY AddedRows DEF StockTransaction, stockVars, Ledger!ledgerVars

(***************************************************************************)
(* Stock and movement history move together whatever the lots' handlers    *)
(* do: the transactions of confirmations, undos, removals and order        *)
(* changes implement the ledger.                                           *)
(***************************************************************************)
THEOREM LedgerImplemented == Spec => StockMovesWithLedger
<1>1. Init => Ledger!LedgerInit
  BY DEF Init, Ledger!LedgerInit
<1>2. TypeOK /\ [Next]_vars => [Ledger!Record]_(Ledger!ledgerVars)
  <2> SUFFICES ASSUME TypeOK, [Next]_vars
               PROVE  [Ledger!Record]_(Ledger!ledgerVars)
    OBVIOUS
  <2>1. CASE UNCHANGED stockVars
    BY <2>1 DEF stockVars, Ledger!ledgerVars
  <2>2. ASSUME NEW h \in Handlers, RemoveItem(h)
        PROVE  [Ledger!Record]_(Ledger!ledgerVars)
    <3> DEFINE r == Release(job[h].lot, job[h].product)
    <3>1. CASE AddRows(<<r>>)
      <4>1. r \in Movement
        BY JobFields, ReleaseType
      <4> HIDE DEF r
      <4>2. <<r>> \in Seq(Movement)
        BY <4>1
      <4> QED
        BY <3>1, <4>2, AddedRows
    <3> QED
      BY <2>1, <2>2, <3>1 DEF RemoveItem
  <2>3. ASSUME NEW h \in Handlers, Apply(h) \/ OrderSync(h)
        PROVE  [Ledger!Record]_(Ledger!ledgerVars)
    BY <2>3, JobFields, ApplyRuns, SyncRuns, StockTransactionRecords DEF Apply, OrderSync
  <2>4. ASSUME NEW h \in Handlers, ReverseOrders(h)
        PROVE  [Ledger!Record]_(Ledger!ledgerVars)
    <3>1. \A o \in job[h].orders : o \in Nat
      BY JobFields
    <3> QED
      BY <2>4, <3>1, ReverseRuns, StockTransactionRecords DEF ReverseOrders
  <2>5. ASSUME NEW h \in Handlers, Request(h)
        PROVE  UNCHANGED stockVars
    BY <2>5 DEF Request, Scan, RemoveRequest, Confirm, Undo, Delete, Approve,
       OverdueRead, ChangeStatus, OrderRequest
  <2>6. ASSUME NEW h \in Handlers, Crash(h) \/ Swallow(h)
        PROVE  UNCHANGED stockVars
    BY <2>6, TypeQuietSteps
  <2>7. ASSUME NEW h \in Handlers, Step(h)
        PROVE  [Ledger!Record]_(Ledger!ledgerVars)
    <3>1. CASE \/ Assign(h) \/ ReleaseReservation(h) \/ Snapshot(h)
               \/ ConfirmLot(h) \/ Unconfirm(h) \/ DeleteLot(h)
      BY <2>1, <3>1
      DEF Assign, ReleaseReservation, Snapshot, ConfirmLot, Unconfirm, DeleteLot
    <3> QED
      BY <2>1, <2>2, <2>3, <2>4, <2>7, <3>1, TypeQuietSteps, TypeStatusSteps DEF Step
  <2>8. setting.handlers \subseteq Handlers
    BY DEF TypeOK, IsSetting
  <2>9. CASE UNCHANGED vars
    BY <2>1, <2>9 DEF vars
  <2>10. CASE Next
    BY <2>1, <2>5, <2>6, <2>7, <2>8, <2>10 DEF Next, Queue, Reserve
  <2> QED
    BY <2>9, <2>10
<1> QED
  BY <1>1, <1>2, TypeCorrect, PTL DEF Spec, StockMovesWithLedger, Ledger!LedgerSpec

-----------------------------------------------------------------------------
(* The sale order lines of a lot *)

(***************************************************************************)
(* What a step may do to the lines: set or reset the flag of some, delete  *)
(* some, or add those of a confirmation.                                   *)
(***************************************************************************)
LEMMA LinesChange ==
  ASSUME TypeOK, [Next]_vars
  PROVE  \/ UNCHANGED line
         \/ \E S \in SUBSET DOMAIN line, applied \in BOOLEAN : Flagged(S, applied)
         \/ \E S : DeleteLines(S)
         \/ \E h \in Handlers : line' = line \o SetToSeq(SoldRows(h))
<1> DEFINE Goal == \/ UNCHANGED line
                   \/ \E S \in SUBSET DOMAIN line, applied \in BOOLEAN : Flagged(S, applied)
                   \/ \E S : DeleteLines(S)
                   \/ \E h \in Handlers : line' = line \o SetToSeq(SoldRows(h))
<1>1. ASSUME StockTransaction \/ UNCHANGED <<line, stockVars>> PROVE Goal
  BY <1>1 DEF StockTransaction
<1>2. ASSUME NEW h \in Handlers, Apply(h) \/ OrderSync(h) PROVE Goal
  BY <1>1, <1>2, JobFields, ApplyRuns, SyncRuns DEF Apply, OrderSync
<1>3. ASSUME NEW h \in Handlers, ReverseOrders(h) PROVE Goal
  <2>1. \A o \in job[h].orders : o \in Nat
    BY JobFields
  <2> QED
    BY <1>1, <1>3, <2>1, ReverseRuns DEF ReverseOrders
<1>4. ASSUME NEW h \in Handlers, ConfirmLot(h) \/ Unconfirm(h) \/ DeleteLot(h)
      PROVE  Goal
  BY <1>4 DEF ConfirmLot, Unconfirm, DeleteLot
<1>5. ASSUME NEW h \in Handlers,
             \/ Request(h) \/ Assign(h) \/ RemoveItem(h) \/ ReleaseReservation(h)
             \/ Snapshot(h)
      PROVE  UNCHANGED line
  BY <1>5 DEF Request, Scan, RemoveRequest, Confirm, Undo, Delete, Approve,
     OverdueRead, ChangeStatus, OrderRequest, Assign, RemoveItem,
     ReleaseReservation, Snapshot
<1>6. setting.handlers \subseteq Handlers
  BY DEF TypeOK, IsSetting
<1>7. CASE UNCHANGED vars
  BY <1>7 DEF vars
<1>8. CASE \E a \in setting.lots : Queue(a) \/ Reserve(a)
  BY <1>8 DEF Queue, Reserve
<1>9. ASSUME NEW h \in Handlers, Request(h) \/ Step(h) \/ Crash(h) \/ Swallow(h)
      PROVE  Goal
  BY <1>2, <1>3, <1>4, <1>5, <1>9, TypeQuietSteps, TypeStatusSteps DEF Step
<1> HIDE DEF Goal
<1>10. Goal
  BY <1>6, <1>7, <1>8, <1>9 DEF Next, Goal
<1> QED
  BY <1>10 DEF Goal

(***************************************************************************)
(* No product of a lot is on two lines, whether the lot is there or not:   *)
(* the inductive form of LotSoldOnce.                                      *)
(***************************************************************************)
SoldOnce ==
  \A k, l \in DOMAIN line :
    /\ line[k].live /\ line[l].live
    /\ line[k].lot = line[l].lot /\ line[k].product = line[l].product
    => k = l

LEMMA SoldOnceKept ==
  ASSUME TypeOK, SoldOnce, [Next]_vars
  PROVE  SoldOnce'
<1>1. CASE UNCHANGED line
  BY <1>1 DEF SoldOnce
<1>2. ASSUME NEW S \in SUBSET DOMAIN line, NEW applied \in BOOLEAN, Flagged(S, applied)
      PROVE  SoldOnce'
  BY <1>2, FlaggedLines DEF SoldOnce
<1>3. ASSUME NEW S, DeleteLines(S)
      PROVE  SoldOnce'
  BY <1>3, DeletedLines DEF SoldOnce
<1>4. ASSUME NEW h \in Handlers, line' = line \o SetToSeq(SoldRows(h))
      PROVE  SoldOnce'
  <2> DEFINE n == Len(line)
             m == Len(line')
  <2>1. /\ DOMAIN line = 1..n /\ DOMAIN line' = 1..m
        /\ n \in Nat /\ m \in Nat /\ n <= m
        /\ \A l \in 1..n : line'[l] = line[l]
        /\ \A l \in (n + 1)..m : line'[l] \in SoldRows(h)
        /\ \A k, l \in (n + 1)..m : line'[k] = line'[l] => k = l
    BY <1>4, LinesAdded DEF Appended
  <2>2. ASSUME NEW k \in 1..n, NEW l \in (n + 1)..m, line'[k].live
        PROVE  ~(line'[k].lot = line'[l].lot /\ line'[k].product = line'[l].product)
    <3>1. /\ line'[l].lot = job[h].lot
          /\ \A i \in LotLines(job[h].lot) : line[i].product # line'[l].product
      BY <2>1, SoldRowsAre DEF Unsold
    <3>2. line'[k] = line[k]
      BY <2>1
    <3>3. line[k].lot = job[h].lot => k \in LotLines(job[h].lot)
      BY <2>1, <2>2, <3>2 DEF LotLines
    <3> QED
      BY <3>1, <3>2, <3>3
  <2>3. ASSUME NEW k \in (n + 1)..m, NEW l \in (n + 1)..m,
               line'[k].product = line'[l].product
        PROVE  k = l
    <3>1. line'[k] = SoldRow(h, line'[k].product) /\ line'[l] = SoldRow(h, line'[l].product)
      BY <2>1, SoldRowsAre
    <3>2. line'[k] = line'[l]
      BY <2>3, <3>1
    <3> QED
      BY <2>1, <3>2
  <2>4. \A i \in 1..m : i \in 1..n \/ i \in (n + 1)..m
    BY <2>1
  <2>5. ASSUME NEW k \in 1..n, NEW l \in 1..n,
               line'[k].live, line'[l].live, line'[k].lot = line'[l].lot,
               line'[k].product = line'[l].product
        PROVE  k = l
    BY <2>1, <2>5 DEF SoldOnce
  <2> HIDE DEF n, m
  <2>6. ASSUME NEW k \in 1..m, NEW l \in 1..m,
               line'[k].live, line'[l].live, line'[k].lot = line'[l].lot,
               line'[k].product = line'[l].product
        PROVE  k = l
    BY <2>2, <2>3, <2>4, <2>5, <2>6
  <2> QED
    BY <2>1, <2>6 DEF SoldOnce
<1> QED
  BY <1>1, <1>2, <1>3, <1>4, LinesChange

(***************************************************************************)
(* A product of a lot that is there is never on two lines at once, however *)
(* many operators confirm, undo, scan and cancel the lot at the same time. *)
(***************************************************************************)
THEOREM EachProductSoldOnce == Spec => []LotSoldOnce
<1>1. Init => SoldOnce
  BY DEF Init, SoldOnce
<1>2. TypeOK /\ SoldOnce /\ [Next]_vars => SoldOnce'
  BY SoldOnceKept
<1>3. SoldOnce => LotSoldOnce
  BY DEF SoldOnce, LotSoldOnce
<1> QED
  BY <1>1, <1>2, <1>3, TypeCorrect, PTL DEF Spec

-----------------------------------------------------------------------------
(* The lines and the status of a lot, with one operator *)

(***************************************************************************)
(* What the operator's handler may rely on between its transactions: where *)
(* it has checked that the lot is not confirmed, that stays so until it    *)
(* confirms the lot itself; what it is to sell is what is scanned.         *)
(***************************************************************************)
NotConfirmed(a) == ~(Live(a) /\ lot[a].status = "confirmed")

Knows(h) ==
  LET a == job[h].lot
  IN /\ pc[h] \in {"assign", "remove", "reopen", "statusSeen", "statusWrite",
                   "overdueWrite", "lookUp", "create", "confirmFind", "confirmLot"}
          => NotConfirmed(a)
     /\ pc[h] = "scanRead" =>
          job[h].route = "scan" /\ (job[h].reads = 0 => NotConfirmed(a))
     /\ pc[h] \in {"reopen", "confirmRead", "manual", "lookUp", "create",
                   "confirmFind", "confirmLot"} => Live(a)
     /\ pc[h] \in {"lookUp", "create", "confirmFind", "confirmLot"} =>
          \A p \in Products : job[h].found[p] = item[a][p].qty
     /\ pc[h] = "manual" => Items(a) = {}
     /\ pc[h] \in {"statusSeen", "statusWrite"} => job[h].status # "confirmed"
     /\ job[h].route = "status" /\ pc[h] \in {"undoRead", "snapshot", "reverse", "unconfirm"}
          => job[h].status # "confirmed"

(***************************************************************************)
(* The inductive form of LinesMatchStatus: the lots agree with their lines *)
(* between any two transactions, not only at rest.                         *)
(***************************************************************************)
AgreesInv ==
  Undisturbed => /\ \A a \in Lots : LotAgrees(a)
                 /\ \A h \in setting.handlers : Knows(h)

(***************************************************************************)
(* The lines as far as a lot's agreement with them goes.                   *)
(***************************************************************************)
SameLines ==
  /\ DOMAIN line' = DOMAIN line
  /\ \A l \in DOMAIN line :
       /\ line'[l].live = line[l].live /\ line'[l].lot = line[l].lot
       /\ line'[l].product = line[l].product /\ line'[l].qty = line[l].qty

LEMMA StockKeepsLines ==
  ASSUME TypeOK, StockTransaction \/ UNCHANGED <<line, stockVars>>
  PROVE  SameLines
BY FlaggedLines DEF StockTransaction, SameLines

LEMMA SameLotAgrees ==
  ASSUME TypeOK, NEW a \in Lots, LotAgrees(a), SameLines, lot'[a] = lot[a],
         \A p \in Products : item'[a][p].qty = item[a][p].qty
  PROVE  LotAgrees(a)'
<1>1. LotLines(a)' = LotLines(a) /\ Items(a)' = Items(a)
  BY DEF SameLines, LotLines, Items
<1>2. \A l \in LotLines(a) : l \in DOMAIN line
  BY DEF LotLines
<1>3. Live(a)' = Live(a)
  BY DEF Live
<1>4. \A p \in Items(a) : p \in Products
  BY DEF Items
<1> QED
  BY <1>1, <1>2, <1>3, <1>4 DEF LotAgrees, SameLines

LEMMA UnconfirmedLotAgrees ==
  ASSUME NEW a \in Lots, LotAgrees(a), SameLines, NotConfirmed(a), NotConfirmed(a)'
  PROVE  LotAgrees(a)'
<1>1. LotLines(a)' = LotLines(a)
  BY DEF SameLines, LotLines
<1> QED
  BY <1>1 DEF LotAgrees, NotConfirmed

LEMMA Went ==
  ASSUME TypeOK, NEW h \in Handlers
  PROVE  /\ \A at, j : GotoWith(h, at, j) => pc'[h] = at /\ job'[h] = j
         /\ \A at : Goto(h, at) => pc'[h] = at /\ job'[h] = job[h]
         /\ Finish(h) => pc'[h] = "idle"
BY DEF TypeOK, GotoWith, Goto, Finish

(***************************************************************************)
(* SetStatus leaves the other lots alone; a lot that is not there stays as *)
(* it is.                                                                  *)
(***************************************************************************)
LEMMA StatusSet ==
  ASSUME TypeOK, NEW a \in Lots, NEW status, SetStatus(a, status)
  PROVE  /\ \A b \in Lots \ {a} : lot'[b] = lot[b]
         /\ Live(a)' = Live(a)
         /\ Live(a) => lot'[a].status = status
         /\ ~Live(a) => lot'[a] = lot[a]
BY DEF TypeOK, SetStatus, Live, LotRow

(***************************************************************************)
(* What the operator's handler still knows after each of its steps.        *)
(***************************************************************************)
LEMMA KnowsRequests ==
  ASSUME TypeOK, NEW h \in Handlers, Request(h)
  PROVE  Knows(h)' /\ UNCHANGED <<lot, item, line>>
<1>1. UNCHANGED <<lot, item, line>>
  BY DEF Request, Scan, RemoveRequest, Confirm, Undo, Delete, Approve,
     OverdueRead, ChangeStatus, OrderRequest
<1>2. NoJob \in Job
  BY IdleJob
<1>3. ASSUME NEW a \in Lots, NEW p \in Products, Scan(h, a, p) \/ RemoveRequest(h, a, p)
      PROVE  Knows(h)'
  <2>1. \/ /\ pc'[h] = "scanRead"
           /\ job'[h] = [NoJob EXCEPT !.route = "scan", !.lot = a, !.product = p, !.reads = 2]
        \/ pc'[h] = "removeRead" 
    BY <1>3, Went DEF Scan, RemoveRequest
  <2> DEFINE j == [NoJob EXCEPT !.route = "scan", !.lot = a, !.product = p, !.reads = 2]
  <2>2. j.reads # 0 /\ j.route = "scan"
    BY <1>2 DEF Job
  <2> QED
    BY <2>1, <2>2 DEF Knows
<1>4. ASSUME NEW a \in Lots, Confirm(h, a) \/ Approve(h, a) \/ Undo(h, a) \/ Delete(h, a)
      PROVE  Knows(h)'
  <2>1. CASE Confirm(h, a)
    <3>1. pc'[h] = "confirmRead" /\ job'[h] = [NoJob EXCEPT !.lot = a] /\ Live(a)
      BY <2>1, Went DEF Confirm
    <3>2. job'[h].lot = a
      BY <1>2, <3>1 DEF Job
    <3> QED
      BY <1>1, <3>1, <3>2 DEF Knows, Live
  <2>2. CASE Approve(h, a)
    <3>1. /\ pc'[h] = "confirmRead" /\ Live(a)
          /\ job'[h] = [NoJob EXCEPT !.route = "approve", !.lot = a]
      BY <2>2, Went DEF Approve
    <3>2. job'[h].lot = a
      BY <1>2, <3>1 DEF Job
    <3> QED
      BY <1>1, <3>1, <3>2 DEF Knows, Live
  <2>3. CASE Undo(h, a)
    <3>1. /\ pc'[h] = "undoRead"
          /\ job'[h] = [NoJob EXCEPT !.route = "undo", !.lot = a]
      BY <2>3, Went DEF Undo
    <3>2. job'[h].route = "undo"
      BY <1>2, <3>1 DEF Job
    <3> QED
      BY <3>1, <3>2 DEF Knows
  <2>4. CASE Delete(h, a)
    <3>1. /\ pc'[h] \in {"undoRead", "deleteItems"}
          /\ job'[h] = [NoJob EXCEPT !.route = "delete", !.lot = a]
      BY <2>4, Went DEF Delete
    <3>2. job'[h].route = "delete"
      BY <1>2, <3>1 DEF Job
    <3> QED
      BY <3>1, <3>2 DEF Knows
  <2> QED
    BY <1>4, <2>1, <2>2, <2>3, <2>4
<1>5. ASSUME NEW a \in Lots, OverdueRead(h, a)
      PROVE  Knows(h)'
  <2>1. /\ pc'[h] = "overdueWrite" /\ lot[a].status = "payment_review"
        /\ job'[h] = [NoJob EXCEPT !.route = "overdue", !.lot = a]
    BY <1>5, Went DEF OverdueRead
  <2>2. job'[h].lot = a
    BY <1>2, <2>1 DEF Job
  <2> QED
    BY <1>1, <2>1, <2>2 DEF Knows, NotConfirmed
<1>6. ASSUME NEW a \in Lots, NEW status \in setting.statuses, ChangeStatus(h, a, status)
      PROVE  Knows(h)'
  <2> DEFINE j == [NoJob EXCEPT !.route = "status", !.lot = a, !.status = status,
                               !.seen = lot[a].status]
  <2>1. /\ job'[h] = j /\ Live(a)
        /\ pc'[h] = IF status = "confirmed"
                    THEN IF lot[a].status \in Review THEN "reopen" ELSE "confirmRead"
                    ELSE IF lot[a].status = "confirmed" THEN "undoRead" ELSE "statusWrite"
    BY <1>6, Went DEF ChangeStatus
  <2>2. j.lot = a /\ j.status = status
    BY <1>2 DEF Job
  <2> HIDE DEF j
  <2> QED
    BY <1>1, <2>1, <2>2 DEF Knows, NotConfirmed, Live, Review
<1>7. ASSUME NEW o \in DOMAIN order, OrderRequest(h, o)
      PROVE  Knows(h)'
  <2>1. pc'[h] = "orderUpdate"
    BY <1>7, Went DEF OrderRequest
  <2> QED
    BY <2>1 DEF Knows
<1> QED
  BY <1>1, <1>3, <1>4, <1>5, <1>6, <1>7 DEF Request

LEMMA KnowsQuietSteps ==
  ASSUME TypeOK, NEW h \in Handlers, Knows(h), "error" \notin setting.failures,
         \/ ScanRead(h) \/ RemoveRead(h) \/ ConfirmRead(h) \/ LookUp(h)
         \/ ConfirmFind(h) \/ UndoRead(h) \/ StatusSeen(h) \/ DeleteItems(h)
         \/ Crash(h) \/ Swallow(h)
  PROVE  Knows(h)'
<1> USE JobFields, Went
<1> DEFINE a == job[h].lot
<1>0. UNCHANGED <<lot, item>>
  BY TypeQuietSteps
<1>1. \A b : NotConfirmed(b)' = NotConfirmed(b) /\ Live(b)' = Live(b) /\ Items(b)' = Items(b)
  BY <1>0 DEF NotConfirmed, Live, Items
<1>2. CASE ScanRead(h)
  <2> DEFINE left == [job[h] EXCEPT !.reads = job[h].reads - 1]
  <2>1. left.lot = a /\ left.route = job[h].route /\ left.reads = job[h].reads - 1
    BY DEF Job
  <2>2. job[h].route = "scan" /\ (job[h].reads = 0 => NotConfirmed(a))
    BY <1>2 DEF Knows, ScanRead
  <2> HIDE DEF left
  <2>3. CASE ~NotConfirmed(a)
    <3>1. pc'[h] = "undoRead" /\ job'[h] = left
      BY <1>2, <2>2, <2>3 DEF ScanRead, NotConfirmed, left
    <3> QED
      BY <2>1, <2>2, <3>1 DEF Knows
  <2>4. CASE NotConfirmed(a)
    <3>1. \/ pc'[h] = "scanRead" /\ job'[h] = left
          \/ pc'[h] = "assign" /\ job'[h] = job[h]
          \/ pc'[h] = "idle"
      BY <1>2, <2>4 DEF ScanRead, NotConfirmed, left
    <3> QED
      BY <1>1, <2>1, <2>2, <2>4, <3>1 DEF Knows
  <2> QED
    BY <2>3, <2>4
<1>3. CASE RemoveRead(h)
  <2>1. CASE job[h].todo = {}
    BY <1>3, <2>1 DEF RemoveRead, Removed, Knows
  <2>2. CASE job[h].todo # {}
    <3>1. PICK p \in job[h].todo :
            IF Live(a) /\ lot[a].status # "confirmed"
            THEN GotoWith(h, "remove", [job[h] EXCEPT !.product = p, !.todo = @ \ {p}])
            ELSE GotoWith(h, "removeRead", [job[h] EXCEPT !.todo = @ \ {p}])
      BY <1>3, <2>2 DEF RemoveRead
    <3>2. [job[h] EXCEPT !.product = p, !.todo = @ \ {p}].lot = a
      BY DEF Job
    <3>3. \/ pc'[h] = "remove" /\ job'[h].lot = a /\ NotConfirmed(a)
          \/ pc'[h] = "removeRead"
      BY <3>1, <3>2 DEF NotConfirmed
    <3> QED
      BY <1>1, <3>3 DEF Knows
  <2> QED
    BY <2>1, <2>2
<1>4. CASE ConfirmRead(h)
  <2> DEFINE j == [job[h] EXCEPT !.found = [p \in Products |-> item[a][p].qty]]
  <2>1. j.lot = a /\ \A p \in Products : j.found[p] = item[a][p].qty
    BY DEF Job
  <2>2. \/ pc'[h] = "lookUp" /\ job'[h] = j /\ Live(a) /\ NotConfirmed(a)
        \/ pc'[h] = "manual" /\ job'[h] = job[h] /\ Live(a) /\ Items(a) = {}
        \/ pc'[h] = "idle"
    BY <1>4 DEF ConfirmRead, NotConfirmed, Knows
  <2> HIDE DEF j
  <2> QED
    BY <1>0, <1>1, <2>1, <2>2 DEF Knows
<1>5. CASE LookUp(h)
  <2> DEFINE j == [job[h] EXCEPT !.order = buyerOrder]
  <2>1. j.lot = a /\ j.found = job[h].found
    BY DEF Job
  <2>2. \/ pc'[h] = "confirmFind" /\ job'[h] = j
        \/ pc'[h] = "create" /\ job'[h] = job[h]
    BY <1>5 DEF LookUp
  <2>3. /\ Live(a) /\ NotConfirmed(a)
        /\ \A p \in Products : job[h].found[p] = item[a][p].qty
    BY <1>5 DEF LookUp, Knows
  <2> HIDE DEF j
  <2> QED
    BY <1>0, <1>1, <2>1, <2>2, <2>3 DEF Knows
<1>6. CASE ConfirmFind(h)
  <2> DEFINE S == {p \in Items(a) : item[a][p].reserved # item[a][p].qty}
             j == [job[h] EXCEPT !.found = QtyToSell(h), !.todo = S]
  <2>1. j.lot = a /\ j.found = QtyToSell(h)
    BY DEF Job
  <2>2. pc'[h] = "confirmLot" /\ job'[h] = j
    BY <1>6 DEF ConfirmFind
  <2>3. /\ Live(a) /\ NotConfirmed(a)
        /\ \A p \in Products : job[h].found[p] = item[a][p].qty
    BY <1>6 DEF ConfirmFind, Knows
  <2>4. \A p \in Products : QtyToSell(h)[p] = item[a][p].qty
    BY <2>3 DEF QtyToSell
  <2> HIDE DEF j
  <2> QED
    BY <1>0, <1>1, <2>1, <2>2, <2>3, <2>4 DEF Knows
<1>7. CASE UndoRead(h)
  <2>1. \/ pc'[h] = "snapshot" /\ job'[h] = job[h]
        \/ /\ pc'[h] = "scanRead" /\ job'[h] = job[h]
           /\ NotConfirmed(a) /\ job[h].route = "scan"
        \/ pc'[h] = "idle"
    BY <1>7 DEF UndoRead, NotUndone, NotConfirmed
  <2>2. job[h].route = "status" => job[h].status # "confirmed"
    BY <1>7 DEF UndoRead, Knows
  <2> QED
    BY <1>1, <2>1, <2>2 DEF Knows
<1>8. CASE StatusSeen(h)
  <2> DEFINE j == [job[h] EXCEPT !.seen = lot[a].status]
  <2>1. j.lot = a /\ j.status = job[h].status
    BY DEF Job
  <2>2. (pc'[h] = "statusWrite" /\ job'[h] = j) \/ pc'[h] = "idle"
    BY <1>8 DEF StatusSeen
  <2>3. NotConfirmed(a) /\ job[h].status # "confirmed"
    BY <1>8 DEF StatusSeen, Knows
  <2> HIDE DEF j
  <2> QED
    BY <1>1, <2>1, <2>2, <2>3 DEF Knows
<1>9. CASE DeleteItems(h)
  BY <1>9 DEF DeleteItems, Knows
<1>10. CASE Crash(h)
  BY <1>10 DEF Crash, Knows
<1>11. CASE Swallow(h)
  BY <1>11 DEF Swallow
<1> QED
  BY <1>2, <1>3, <1>4, <1>5, <1>6, <1>7, <1>8, <1>9, <1>10, <1>11

AllAgree == \A a \in Lots : LotAgrees(a)

(***************************************************************************)
(* The steps that write the products, the status or the orders of a lot    *)
(* but no line: a lot that is not confirmed has no lines, so that scanning *)
(* and removing its products, or giving it another status, leaves it so.   *)
(***************************************************************************)
LEMMA AgreeItemSteps ==
  ASSUME TypeOK, NEW h \in Handlers, Knows(h), AllAgree,
         Assign(h) \/ RemoveItem(h) \/ ReleaseReservation(h) \/ Snapshot(h)
  PROVE  AllAgree' /\ Knows(h)'
<1> USE JobFields, Went
<1>a. PICK a \in Lots : a = job[h].lot
  OBVIOUS
<1> USE <1>a
<1>0. UNCHANGED line /\ SameLines
  BY DEF Assign, RemoveItem, ReleaseReservation, Snapshot, SameLines
<1>1. /\ item \in [Lots -> [Products -> ItemRow]]
      /\ \A b \in Lots : LotAgrees(b)
  BY DEF TypeOK, AllAgree
<1>2. ASSUME Assign(h) \/ RemoveItem(h)
      PROVE  AllAgree' /\ Knows(h)'
  <2>1. NotConfirmed(a)
    BY <1>2 DEF Assign, RemoveItem, Knows
  <2>2. NotConfirmed(a)' /\ \A b \in Lots \ {a} : lot'[b] = lot[b]
    <3>1. CASE UNCHANGED lot
      BY <2>1, <3>1 DEF NotConfirmed, Live
    <3>2. CASE SetStatus(a, "assigned") \/ SetStatus(a, "pending")
      BY <3>2, StatusSet DEF NotConfirmed
    <3> QED
      BY <1>2, <3>1, <3>2 DEF Assign, RemoveItem
  <2>3. \A b \in Lots \ {a} : item'[b] = item[b]
    <3>1. \/ item' = [item EXCEPT ![a][job[h].product].qty = @ + 1]
          \/ item' = [item EXCEPT ![a][job[h].product] = NoItem]
          \/ UNCHANGED item
      BY <1>2 DEF Assign, RemoveItem
    <3> QED
      BY <1>1, <3>1
  <2>4. \A b \in Lots : LotAgrees(b)'
    BY <1>0, <1>1, <2>1, <2>2, <2>3, SameLotAgrees, UnconfirmedLotAgrees
  <2>5. pc'[h] = "idle" \/ pc'[h] = "removeRead"
    BY <1>2 DEF Assign, RemoveItem
  <2> QED
    BY <2>4, <2>5 DEF AllAgree, Knows
<1>3. ASSUME ReleaseReservation(h) \/ Snapshot(h)
      PROVE  AllAgree' /\ Knows(h)'
  <2>1. UNCHANGED lot
    BY <1>3 DEF ReleaseReservation, Snapshot
  <2>2. \A b \in Lots, p \in Products : item'[b][p].qty = item[b][p].qty
    <3>1. item' = [item EXCEPT ![a] = Unreserved(a)] \/ item' = [item EXCEPT ![a] = ReservedInFull(a)]
      BY <1>3 DEF ReleaseReservation, Snapshot
    <3>2. \A p \in Products : Unreserved(a)[p].qty = item[a][p].qty
                              /\ ReservedInFull(a)[p].qty = item[a][p].qty
      BY DEF Unreserved, ReservedInFull
    <3> QED
      BY <1>1, <3>1, <3>2
  <2>3. \A b \in Lots : LotAgrees(b)'
    BY <1>0, <1>1, <2>1, <2>2, SameLotAgrees
  <2>4. \/ pc'[h] = "idle"
        \/ /\ pc'[h] = "reverse" /\ pc[h] = "snapshot"
           /\ job'[h] = [job[h] EXCEPT !.orders = LinkedOrders(a)]
    BY <1>3 DEF ReleaseReservation, Snapshot
  <2>5. [job[h] EXCEPT !.orders = LinkedOrders(a)].route = job[h].route
        /\ [job[h] EXCEPT !.orders = LinkedOrders(a)].status = job[h].status
    BY DEF Job
  <2>6. Knows(h)'
    BY <2>4, <2>5 DEF Knows
  <2> QED
    BY <2>3, <2>6 DEF AllAgree
<1> QED
  BY <1>2, <1>3

LEMMA AgreeStatusSteps ==
  ASSUME TypeOK, NEW h \in Handlers, Knows(h), AllAgree,
         \/ Create(h) \/ ManualConfirm(h) \/ Reopen(h) \/ StatusWrite(h)
         \/ OverdueWrite(h) \/ OrderUpdate(h)
  PROVE  AllAgree' /\ Knows(h)'
<1> USE JobFields, Went
<1>a. PICK a \in Lots : a = job[h].lot
  OBVIOUS
<1> USE <1>a
<1>0. UNCHANGED line /\ SameLines
  BY TypeStatusSteps DEF SameLines
<1>1. /\ item \in [Lots -> [Products -> ItemRow]]
      /\ \A b \in Lots : LotAgrees(b)
  BY DEF TypeOK, AllAgree
<1>2. ASSUME Create(h) \/ OrderUpdate(h)
      PROVE  AllAgree' /\ Knows(h)'
  <2>1. UNCHANGED <<lot, item>>
    BY <1>2 DEF Create, OrderUpdate
  <2>2. \A b \in Lots : LotAgrees(b)'
    BY <1>0, <1>1, <2>1, SameLotAgrees
  <2>3. Live(a)' = Live(a) /\ NotConfirmed(a)' = NotConfirmed(a)
    BY <2>1 DEF Live, NotConfirmed
  <2>4. [job[h] EXCEPT !.order = Len(order) + 1].lot = a
        /\ [job[h] EXCEPT !.order = Len(order) + 1].found = job[h].found
    BY DEF Job
  <2>5. \/ pc'[h] = "orderSync"
        \/ /\ pc'[h] = "confirmFind" /\ pc[h] = "create"
           /\ job'[h].lot = a /\ job'[h].found = job[h].found
    BY <1>2, <2>4 DEF Create, OrderUpdate
  <2>6. Knows(h)'
    <3>1. CASE pc'[h] = "orderSync"
      BY <3>1 DEF Knows
    <3>2. CASE pc'[h] # "orderSync"
      <4>1. /\ Live(a) /\ NotConfirmed(a)
            /\ \A p \in Products : job[h].found[p] = item[a][p].qty
        BY <2>5, <3>2 DEF Knows
      <4> QED
        BY <2>1, <2>3, <2>5, <3>2, <4>1 DEF Knows
    <3> QED
      BY <3>1, <3>2
  <2> QED
    BY <2>2, <2>6 DEF AllAgree
<1>3. ASSUME Reopen(h) \/ StatusWrite(h) \/ OverdueWrite(h)
      PROVE  AllAgree' /\ Knows(h)'
  <2>1. NotConfirmed(a)
    BY <1>3 DEF Reopen, StatusWrite, OverdueWrite, Knows
  <2>2. PICK status : SetStatus(a, status) /\ status # "confirmed"
    <3>1. CASE Reopen(h)
      BY <3>1 DEF Reopen
    <3>2. CASE StatusWrite(h)
      BY <3>2 DEF StatusWrite, Knows
    <3>3. CASE OverdueWrite(h)
      BY <3>3 DEF OverdueWrite
    <3> QED
      BY <1>3, <3>1, <3>2, <3>3
  <2>3. /\ NotConfirmed(a)' /\ Live(a)' = Live(a)
        /\ \A b \in Lots \ {a} : lot'[b] = lot[b]
    BY <2>2, StatusSet DEF NotConfirmed
  <2>4. \A b \in Lots \ {a} : item'[b] = item[b]
    <3>1. item' = [item EXCEPT ![a] = Unreserved(a)] \/ UNCHANGED item
      BY <1>3 DEF Reopen, StatusWrite, OverdueWrite
    <3> QED
      BY <1>1, <3>1
  <2>5. \A b \in Lots : LotAgrees(b)'
    BY <1>0, <1>1, <2>1, <2>3, <2>4, SameLotAgrees, UnconfirmedLotAgrees
  <2>6. \/ pc'[h] = "idle"
        \/ pc'[h] = "confirmRead" /\ job'[h] = job[h] /\ Live(a)
    BY <1>3 DEF Reopen, StatusWrite, OverdueWrite, Knows
  <2>7. Knows(h)'
    BY <2>3, <2>6 DEF Knows
  <2> QED
    BY <2>5, <2>7 DEF AllAgree
<1>4. ASSUME ManualConfirm(h)
      PROVE  AllAgree' /\ Knows(h)'
  <2>1. Live(a) /\ Items(a) = {} /\ UNCHANGED item /\ SetStatus(a, "confirmed")
    BY <1>4 DEF ManualConfirm, Knows
  <2>2. Items(a)' = {}
    BY <2>1 DEF Items
  <2>3. Live(a)' /\ lot'[a].status = "confirmed" /\ \A b \in Lots \ {a} : lot'[b] = lot[b]
    BY <2>1, StatusSet
  <2>4. LotAgrees(a)'
    BY <2>2, <2>3 DEF LotAgrees
  <2>5. \A b \in Lots : LotAgrees(b)'
    BY <1>0, <1>1, <2>1, <2>3, <2>4, SameLotAgrees
  <2>6. pc'[h] = "idle"
    BY <1>4 DEF ManualConfirm
  <2> QED
    BY <2>5, <2>6 DEF AllAgree, Knows
<1> QED
  BY <1>2, <1>3, <1>4

(***************************************************************************)
(* The steps that write lines.  Stock transactions leave what a lot agrees *)
(* on; a confirmation adds the lines of a lot that has none; an undo and a *)
(* deletion take all lines of the lot away.                                *)
(***************************************************************************)
LEMMA AgreeStockSteps ==
  ASSUME TypeOK, NEW h \in Handlers, Knows(h), AllAgree,
         Apply(h) \/ ReverseOrders(h) \/ OrderSync(h)
  PROVE  AllAgree' /\ Knows(h)'
<1> USE JobFields, Went
<1>1. UNCHANGED <<lot, item>>
  BY DEF Apply, ReverseOrders, OrderSync
<1>2. SameLines
  <2>1. \A o \in job[h].orders : o \in Nat
    OBVIOUS
  <2>2. StockTransaction \/ UNCHANGED <<line, stockVars>>
    BY <2>1, ApplyRuns, SyncRuns, ReverseRuns DEF Apply, ReverseOrders, OrderSync
  <2> QED
    BY <2>2, StockKeepsLines
<1>3. \A b \in Lots : LotAgrees(b)'
  BY <1>1, <1>2, SameLotAgrees DEF AllAgree
<1>4. Knows(h)'
  <2>1. CASE Apply(h) \/ OrderSync(h)
    BY <2>1 DEF Apply, OrderSync, Knows
  <2>2. CASE ReverseOrders(h) /\ job[h].orders = {}
    BY <2>2 DEF ReverseOrders, Knows
  <2>3. CASE ReverseOrders(h) /\ job[h].orders # {}
    <3>1. PICK o : GotoWith(h, "reverse", [job[h] EXCEPT !.orders = @ \ {o}])
      BY <2>3 DEF ReverseOrders
    <3>2. /\ [job[h] EXCEPT !.orders = @ \ {o}].route = job[h].route
          /\ [job[h] EXCEPT !.orders = @ \ {o}].status = job[h].status
      BY DEF Job
    <3>3. pc[h] = "reverse" /\ pc'[h] = "reverse"
          /\ job'[h].route = job[h].route /\ job'[h].status = job[h].status
      BY <2>3, <3>1, <3>2 DEF ReverseOrders
    <3> QED
      BY <3>3 DEF Knows
  <2> QED
    BY <2>1, <2>2, <2>3
<1> QED
  BY <1>3, <1>4 DEF AllAgree

LEMMA AgreeConfirm ==
  ASSUME TypeOK, NEW h \in Handlers, Knows(h), AllAgree, ConfirmLot(h)
  PROVE  AllAgree' /\ Knows(h)'
<1> USE JobFields, Went
<1>a. PICK a \in Lots : a = job[h].lot
  OBVIOUS
<1>1. /\ Live(a) /\ NotConfirmed(a)
      /\ \A p \in Products : job[h].found[p] = item[a][p].qty
  BY <1>a DEF ConfirmLot, Knows
<1>2. LotLines(a) = {}
  BY <1>1 DEF AllAgree, LotAgrees, NotConfirmed
<1>3. /\ DOMAIN line = 1..Len(line) /\ DOMAIN line' = 1..Len(line')
      /\ Len(line) \in Nat /\ Len(line') \in Nat /\ Len(line) <= Len(line')
      /\ \A l \in 1..Len(line) : line'[l] = line[l]
      /\ \A l \in (Len(line) + 1)..Len(line') : line'[l] \in SoldRows(h)
      /\ \A row \in SoldRows(h) :
           \E l \in (Len(line) + 1)..Len(line') : line'[l] = row
  BY LinesAdded DEF ConfirmLot, Appended
<1>4. item' = [item EXCEPT ![a] = [p \in Products |->
        IF p \in job[h].todo THEN [item[a][p] EXCEPT !.reserved = item[a][p].qty]
        ELSE item[a][p]]]
  BY <1>a DEF ConfirmLot
<1>5. \A b \in Lots, p \in Products : item'[b][p].qty = item[b][p].qty
  <2>1. item \in [Lots -> [Products -> ItemRow]]
    BY DEF TypeOK
  <2>2. \A row \in ItemRow : [row EXCEPT !.reserved = row.qty].qty = row.qty
    BY DEF ItemRow
  <2>3. item[a] \in [Products -> ItemRow]
    BY <2>1
  <2>4. \A p \in Products : item'[a][p].qty = item[a][p].qty
    BY <1>4, <2>1, <2>2, <2>3
  <2>5. \A b \in Lots : b # a => item'[b] = item[b]
    BY <1>4, <2>1
  <2> QED
    BY <2>4, <2>5
<1>6. /\ Live(a)' /\ lot'[a].status = "confirmed"
      /\ \A b \in Lots \ {a} : lot'[b] = lot[b]
  BY <1>a, <1>1, StatusSet DEF ConfirmLot
<1>7. LotAgrees(a)'
  <2>1. ASSUME NEW p \in Products, item[a][p].qty > 0
        PROVE  \E l \in LotLines(a)' : line'[l].product = p /\ line'[l].qty = item'[a][p].qty
    <3>1. job[h].found[p] > 0 /\ Unsold(job[h].lot, p)
      BY <1>a, <1>1, <1>2, <2>1 DEF Unsold
    <3>2. PICK row \in SoldRows(h) : row.product = p
      BY <3>1, SoldRowsAre
    <3>3. row.live /\ row.lot = a /\ row.qty = item'[a][p].qty
      BY <1>a, <1>1, <1>5, <3>2, SoldRowsAre
    <3>4. PICK l \in (Len(line) + 1)..Len(line') : line'[l] = row
      BY <1>3
    <3>5. l \in DOMAIN line'
      BY <1>3
    <3>6. l \in LotLines(a)'
      BY <3>3, <3>4, <3>5 DEF LotLines
    <3> QED
      BY <3>2, <3>3, <3>4, <3>6
  <2>2. \A p \in Items(a)' : p \in Products /\ item[a][p].qty > 0
    BY <1>5 DEF Items
  <2> QED
    BY <1>6, <2>1, <2>2 DEF LotAgrees
<1>8. ASSUME NEW b \in Lots, b # a
      PROVE  LotAgrees(b)'
  <2>1. \A l \in (Len(line) + 1)..Len(line') : line'[l].lot = a
    BY <1>a, <1>3, SoldRowsAre
  <2>2. \A l \in 1..Len(line') : l \in 1..Len(line) \/ l \in (Len(line) + 1)..Len(line')
    BY <1>3
  <2>3. LotLines(b)' = LotLines(b) /\ \A l \in LotLines(b) : line'[l] = line[l]
    BY <1>3, <1>8, <2>1, <2>2 DEF LotLines
  <2>4. Live(b)' = Live(b) /\ lot'[b] = lot[b] /\ Items(b)' = Items(b)
    BY <1>5, <1>6, <1>8 DEF Live, Items
  <2>5. \A p \in Items(b) : p \in Products
    BY DEF Items
  <2> QED
    BY <1>5, <2>3, <2>4, <2>5 DEF AllAgree, LotAgrees
<1>9. pc'[h] = "apply"
  BY DEF ConfirmLot
<1> QED
  BY <1>7, <1>8, <1>9 DEF AllAgree, Knows

LEMMA AgreeDeletes ==
  ASSUME TypeOK, NEW h \in Handlers, Knows(h), AllAgree,
         Unconfirm(h) \/ DeleteLot(h)
  PROVE  AllAgree' /\ Knows(h)'
<1> USE JobFields, Went
<1>a. PICK a \in Lots : a = job[h].lot
  OBVIOUS
<1>1. \A b \in Lots : LotAgrees(b)
  BY DEF AllAgree
<1>2. /\ item \in [Lots -> [Products -> ItemRow]] /\ lot \in [Lots -> LotRow]
  BY DEF TypeOK
<1>3. PICK S : /\ S = IF Live(a) THEN LotLines(a) ELSE {}
               /\ DeleteLines(S) \/ (S = {} /\ UNCHANGED line)
  BY <1>a DEF Unconfirm, DeleteLot, LinesOfUndone
<1>4. /\ DOMAIN line' = DOMAIN line
      /\ \A l \in DOMAIN line :
           /\ line'[l].live = (line[l].live /\ l \notin S)
           /\ line'[l].lot = line[l].lot /\ line'[l].product = line[l].product
           /\ line'[l].qty = line[l].qty
  <2>1. CASE DeleteLines(S)
    BY <2>1, DeletedLines
  <2>2. CASE S = {} /\ UNCHANGED line
    BY <2>2, LineFields
  <2> QED
    BY <1>3, <2>1, <2>2
<1>5. LotLines(a)' = {}
  <2>1. LotLines(a) \subseteq S
    BY <1>1, <1>3 DEF LotAgrees
  <2> QED
    BY <1>4, <2>1 DEF LotLines
<1>6. \A b \in Lots \ {a} : LotLines(b)' = LotLines(b)
  <2>1. \A b \in Lots \ {a} : \A l \in LotLines(b) : l \notin S
    BY <1>3 DEF LotLines
  <2> QED
    BY <1>4, <2>1 DEF LotLines
<1>7. NotConfirmed(a)' /\ \A b \in Lots \ {a} : lot'[b] = lot[b] /\ item'[b] = item[b]
  <2>1. CASE Unconfirm(h)
    <3>1. SetStatus(a, "assigned") /\ UNCHANGED item
      BY <1>a, <2>1 DEF Unconfirm
    <3> QED
      BY <3>1, StatusSet DEF NotConfirmed
  <2>2. CASE DeleteLot(h)
    <3>1. IF Live(a)
          THEN /\ item' = [item EXCEPT ![a] = [p \in Products |-> NoItem]]
               /\ lot' = [lot EXCEPT ![a].presence = "deleted"]
          ELSE UNCHANGED <<item, lot>>
      BY <1>a, <2>2 DEF DeleteLot
    <3>2. lot[a] \in LotRow
      BY <1>2
    <3> QED
      BY <1>2, <3>1, <3>2 DEF NotConfirmed, Live, LotRow
  <2> QED
    BY <2>1, <2>2
<1>8. LotAgrees(a)'
  BY <1>5, <1>7 DEF LotAgrees, NotConfirmed
<1>9. ASSUME NEW b \in Lots, b # a
      PROVE  LotAgrees(b)'
  <2>1. LotLines(b)' = LotLines(b) /\ \A l \in LotLines(b) : l \in DOMAIN line
    BY <1>6, <1>9 DEF LotLines
  <2>2. Live(b)' = Live(b) /\ lot'[b] = lot[b] /\ item'[b] = item[b] /\ Items(b)' = Items(b)
    BY <1>7, <1>9 DEF Live, Items
  <2> QED
    BY <1>1, <1>4, <2>1, <2>2 DEF LotAgrees
<1>10. Knows(h)'
  <2>1. CASE DeleteLot(h)
    BY <2>1 DEF DeleteLot, Knows
  <2>2. CASE Unconfirm(h)
    <3>1. job[h].route = "status" => job[h].status # "confirmed"
      BY <2>2 DEF Unconfirm, Knows
    <3>2. \/ pc'[h] = "statusSeen" /\ job'[h] = job[h] /\ job[h].route = "status"
          \/ pc'[h] = "deleteItems"
          \/ pc'[h] = "scanRead" /\ job'[h] = job[h] /\ job[h].route = "scan"
          \/ pc'[h] = "idle"
      BY <2>2 DEF Unconfirm, Undone
    <3> QED
      BY <1>a, <1>7, <3>1, <3>2 DEF Knows
  <2> QED
    BY <2>1, <2>2
<1> QED
  BY <1>8, <1>9, <1>10 DEF AllAgree

LEMMA AgreeLots ==
  ASSUME TypeOK, NEW h \in Handlers, Knows(h), AllAgree,
         NEW a \in setting.lots, Queue(a) \/ Reserve(a)
  PROVE  AllAgree' /\ Knows(h)'
<1>1. a \in Lots /\ item \in [Lots -> [Products -> ItemRow]] /\ lot \in [Lots -> LotRow]
  BY DEF TypeOK, IsSetting
<1>2. UNCHANGED <<line, pc, job>> /\ SameLines
  BY DEF Queue, Reserve, SameLines
<1>3. \A b \in Lots : LotAgrees(b)
  BY DEF AllAgree
<1>4. CASE Queue(a)
  <2>1. /\ UNCHANGED item /\ ~Live(a) /\ lot'[a].presence = "live"
        /\ lot'[a].status = "pending"
        /\ \A b \in Lots \ {a} : lot'[b] = lot[b]
    BY <1>1, <1>4 DEF Queue, Live
  <2>2. NotConfirmed(a) /\ NotConfirmed(a)'
    BY <2>1 DEF NotConfirmed
  <2>3. \A b \in Lots : LotAgrees(b)'
    BY <1>2, <1>3, <2>1, <2>2, SameLotAgrees, UnconfirmedLotAgrees
  <2>4. \A b \in Lots : (NotConfirmed(b) => NotConfirmed(b)') /\ (Live(b) => Live(b)')
    BY <2>1, <2>2 DEF NotConfirmed, Live
  <2>5. \A b : Items(b)' = Items(b)
    BY <2>1 DEF Items
  <2>6. job[h].lot \in Lots
    BY JobFields
  <2>7. Knows(h)'
    BY <1>2, <2>1, <2>4, <2>5, <2>6 DEF Knows
  <2> QED
    BY <2>3, <2>7 DEF AllAgree
<1>5. CASE Reserve(a)
  <2>1. UNCHANGED lot
    BY <1>5 DEF Reserve
  <2>2. \A b \in Lots, p \in Products : item'[b][p].qty = item[b][p].qty
    <3>1. item' = [item EXCEPT ![a] = ReservedInFull(a)]
      BY <1>5 DEF Reserve
    <3>2. \A p \in Products : ReservedInFull(a)[p].qty = item[a][p].qty
      BY DEF ReservedInFull
    <3> QED
      BY <1>1, <3>1, <3>2
  <2>3. \A b \in Lots : LotAgrees(b)'
    BY <1>2, <1>3, <2>1, <2>2, SameLotAgrees
  <2>4. \A b \in Lots : NotConfirmed(b)' = NotConfirmed(b) /\ Live(b)' = Live(b)
                         /\ Items(b)' = Items(b)
    BY <2>1, <2>2 DEF NotConfirmed, Live, Items
  <2>5. job[h].lot \in Lots
    BY JobFields
  <2>6. Knows(h)'
    BY <1>2, <2>2, <2>4, <2>5 DEF Knows
  <2> QED
    BY <2>3, <2>6 DEF AllAgree
<1> QED
  BY <1>4, <1>5

LEMMA SettingKept ==
  ASSUME [Next]_vars
  PROVE  UNCHANGED setting
<1>1. ASSUME NEW h \in setting.handlers, Request(h) \/ Step(h) \/ Crash(h) \/ Swallow(h)
      PROVE  UNCHANGED setting
  <2>1. CASE Request(h)
    BY <2>1 DEF Request, Scan, RemoveRequest, Confirm, Undo, Delete, Approve,
       OverdueRead, ChangeStatus, OrderRequest, orderVars
  <2>2. CASE Crash(h) \/ Swallow(h)
    BY <2>2 DEF Crash, Swallow, orderVars
  <2>3. CASE Step(h)
    BY <2>3 DEF Step, ScanRead, Assign, RemoveRead, RemoveItem, ConfirmRead, LookUp,
       Create, ConfirmFind, ConfirmLot, Apply, ReleaseReservation, ManualConfirm,
       UndoRead, Snapshot, ReverseOrders, Unconfirm, Reopen, StatusSeen, StatusWrite,
       DeleteItems, DeleteLot, OverdueWrite, OrderUpdate, OrderSync, orderVars
  <2> QED
    BY <1>1, <2>1, <2>2, <2>3
<1> QED
  BY <1>1 DEF Next, Queue, Reserve, vars, orderVars

LEMMA AgreesKept ==
  ASSUME TypeOK, AgreesInv, [Next]_vars
  PROVE  AgreesInv'
<1> SUFFICES ASSUME Undisturbed'
             PROVE  AllAgree' /\ (\A h \in setting.handlers : Knows(h))'
  BY DEF AgreesInv, AllAgree
<1>1. UNCHANGED setting
  BY SettingKept
<1>2. Undisturbed
  BY <1>1 DEF Undisturbed, OneHandler
<1>3. PICK h \in Handlers : setting.handlers = {h}
  BY <1>2 DEF Undisturbed, OneHandler
<1>4. /\ AllAgree /\ Knows(h) /\ "error" \notin setting.failures
  BY <1>2, <1>3 DEF AgreesInv, AllAgree, Undisturbed
<1>5. AllAgree' /\ Knows(h)'
  <2>1. CASE UNCHANGED vars
    <3>1. UNCHANGED <<lot, item, line, pc, job>>
      BY <2>1 DEF vars
    <3>2. AllAgree'
      BY <1>4, <3>1 DEF AllAgree, LotAgrees, LotLines, Items, Live
    <3>3. Knows(h)'
      BY <1>4, <3>1 DEF Knows, NotConfirmed, Items, Live
    <3> QED
      BY <3>2, <3>3
  <2>2. CASE \E a \in setting.lots : Queue(a) \/ Reserve(a)
    BY <1>4, <2>2, AgreeLots
  <2>3. CASE Request(h)
    <3>1. Knows(h)' /\ UNCHANGED <<lot, item, line>>
      BY <2>3, KnowsRequests
    <3>2. AllAgree'
      BY <1>4, <3>1 DEF AllAgree, LotAgrees, LotLines, Items, Live
    <3> QED
      BY <3>1, <3>2
  <2>4. CASE \/ ScanRead(h) \/ RemoveRead(h) \/ ConfirmRead(h) \/ LookUp(h)
             \/ ConfirmFind(h) \/ UndoRead(h) \/ StatusSeen(h) \/ DeleteItems(h)
             \/ Crash(h) \/ Swallow(h)
    <3>1. Knows(h)' /\ UNCHANGED <<lot, item, line>>
      BY <1>4, <2>4, KnowsQuietSteps, TypeQuietSteps
    <3>2. AllAgree'
      BY <1>4, <3>1 DEF AllAgree, LotAgrees, LotLines, Items, Live
    <3> QED
      BY <3>1, <3>2
  <2>5. CASE Step(h)
    BY <1>4, <2>4, <2>5, AgreeItemSteps, AgreeStatusSteps, AgreeStockSteps,
       AgreeConfirm, AgreeDeletes DEF Step
  <2>6. CASE Next
    BY <1>3, <2>2, <2>3, <2>4, <2>5, <2>6 DEF Next
  <2> QED
    BY <2>1, <2>6
<1> QED
  BY <1>1, <1>3, <1>5

LEMMA AgreesInit == Init => AgreesInv
<1> SUFFICES ASSUME Init
             PROVE  AgreesInv
  OBVIOUS
<1>1. setting.handlers \subseteq Handlers
  BY ConstantTypes DEF Init, IsSetting
<1>2. \A a \in Lots : LotLines(a) = {}
  BY DEF Init, LotLines
<1>3. \A a \in Lots : LotAgrees(a)
  BY <1>2 DEF Init, LotAgrees, Live
<1>4. ASSUME NEW h \in setting.handlers
      PROVE  Knows(h)
  <2>1. pc[h] = "idle"
    BY <1>1 DEF Init
  <2> QED
    BY <2>1 DEF Knows
<1> QED
  BY <1>3, <1>4 DEF AgreesInv

(***************************************************************************)
(* With one operator and no swallowed error, the status of a lot and its   *)
(* sale order lines agree whenever the operator is at rest, whatever was   *)
(* confirmed, undone, scanned, removed or cancelled before, and wherever   *)
(* the server failed between two transactions.                             *)
(***************************************************************************)
THEOREM LinesAgree == Spec => []LinesMatchStatus
<1>1. Init => AgreesInv
  BY AgreesInit
<1>2. TypeOK /\ AgreesInv /\ [Next]_vars => AgreesInv'
  BY AgreesKept
<1>3. AgreesInv => LinesMatchStatus
  BY DEF AgreesInv, LinesMatchStatus
<1> QED
  BY <1>1, <1>2, <1>3, TypeCorrect, PTL DEF Spec

-----------------------------------------------------------------------------
(* The stock a lot takes *)

(***************************************************************************)
(* The stock is what there was and the movements since.                    *)
(***************************************************************************)
StockAsMoved ==
  \A p \in Products : onHand[p] = Opening[p] + Ledger!NetQty(p, movements)

IsDeduction(row) == row.reference = "sale_order_line"

(***************************************************************************)
(* A deduction took the quantity of its line, a line has one at most, and  *)
(* an applied line has one.                                                *)
(***************************************************************************)
DeductionsMatch ==
  \A i \in DOMAIN movements : IsDeduction(movements[i]) =>
    /\ movements[i].id \in DOMAIN line
    /\ movements[i].product = line[movements[i].id].product
    /\ movements[i].delta = -line[movements[i].id].qty

DeductedOnce ==
  \A i, j \in DOMAIN movements :
    /\ IsDeduction(movements[i]) /\ IsDeduction(movements[j])
    /\ movements[i].id = movements[j].id
    => i = j

AppliedDeducted == \A l \in DOMAIN line : line[l].applied => ~Undeducted(l)

StockInv == StockAsMoved /\ DeductionsMatch /\ DeductedOnce /\ AppliedDeducted

(***************************************************************************)
(* As long as nothing of a product came back, its deductions are those of  *)
(* applied lines that are there.                                           *)
(***************************************************************************)
StillOut ==
  \A l \in DOMAIN line :
    NeverReturned(line[l].product) /\ ~Undeducted(l) => line[l].live /\ line[l].applied

(***************************************************************************)
(* An undo reverses every order that has an applied line of the lot before *)
(* it deletes the lot's lines, and a deletion goes on with a lot that is   *)
(* not confirmed.                                                          *)
(***************************************************************************)
LinesOut(a) == {l \in LotLines(a) : line[l].applied /\ NeverReturned(line[l].product)}

Undoing(h) ==
  /\ pc[h] = "reverse" => \A l \in LinesOut(job[h].lot) : line[l].order \in job[h].orders
  /\ pc[h] = "unconfirm" => LinesOut(job[h].lot) = {}
  /\ \/ pc[h] \in {"deleteItems", "deleteLot"}
     \/ pc[h] \in {"removeRead", "remove"} /\ job[h].route = "delete"
     => NotConfirmed(job[h].lot)

HeldInv == Undisturbed => StillOut /\ \A h \in setting.handlers : Undoing(h)

(***************************************************************************)
(* What a step does to lines and stock together.                           *)
(***************************************************************************)
Releases ==
  /\ UNCHANGED line
  /\ \E r \in Movement : r.reference = "winner_assignment_release" /\ AddRows(<<r>>)

Deletes == \E h \in setting.handlers : Unconfirm(h) \/ DeleteLot(h)

Confirms ==
  (\E h \in Handlers : line' = line \o SetToSeq(SoldRows(h))) /\ UNCHANGED stockVars

StockChange ==
  \/ UNCHANGED <<line, stockVars>>
  \/ \E o \in Nat : ApplyAll(o) \/ ReverseOrder(o)
  \/ Releases \/ Deletes \/ Confirms

LEMMA StockChanges ==
  ASSUME TypeOK, [Next]_vars
  PROVE  StockChange
<1>1. ASSUME NEW h \in Handlers, Apply(h) \/ OrderSync(h) PROVE StockChange
  BY <1>1, JobFields DEF Apply, OrderSync, ApplyOrder, SyncOrder, StockChange
<1>2. ASSUME NEW h \in Handlers, ReverseOrders(h) PROVE StockChange
  BY <1>2, JobFields DEF ReverseOrders, StockChange
<1>3. ASSUME NEW h \in Handlers, RemoveItem(h) PROVE StockChange
  <2> DEFINE r == Release(job[h].lot, job[h].product)
  <2>1. r \in Movement /\ r.reference = "winner_assignment_release"
    BY JobFields, ReleaseType DEF Release
  <2>2. UNCHANGED line /\ (AddRows(<<r>>) \/ UNCHANGED stockVars)
    BY <1>3 DEF RemoveItem
  <2> HIDE DEF r
  <2> QED
    BY <2>1, <2>2 DEF StockChange, Releases
<1>4. ASSUME NEW h \in Handlers, ConfirmLot(h) PROVE StockChange
  BY <1>4 DEF ConfirmLot, StockChange, Confirms
<1>5. ASSUME NEW h \in Handlers,
             Request(h) \/ Assign(h) \/ ReleaseReservation(h) \/ Snapshot(h)
      PROVE  UNCHANGED <<line, stockVars>>
  BY <1>5 DEF Request, Scan, RemoveRequest, Confirm, Undo, Delete, Approve,
     OverdueRead, ChangeStatus, OrderRequest, Assign, ReleaseReservation, Snapshot
<1>6. setting.handlers \subseteq Handlers
  BY DEF TypeOK, IsSetting
<1>7. CASE UNCHANGED vars
  BY <1>7 DEF vars, StockChange
<1>8. CASE \E a \in setting.lots : Queue(a) \/ Reserve(a)
  BY <1>8 DEF Queue, Reserve, StockChange
<1>9. ASSUME UNCHANGED <<line, stockVars>> PROVE StockChange
  BY <1>9 DEF StockChange
<1>10. ASSUME NEW h \in setting.handlers, Unconfirm(h) \/ DeleteLot(h) PROVE StockChange
  BY <1>10 DEF StockChange, Deletes
<1>11. ASSUME NEW h \in setting.handlers, Request(h) \/ Step(h) \/ Crash(h) \/ Swallow(h)
       PROVE  StockChange
  BY <1>1, <1>2, <1>3, <1>4, <1>5, <1>6, <1>9, <1>10, <1>11,
     TypeQuietSteps, TypeStatusSteps DEF Step
<1> QED
  BY <1>7, <1>8, <1>11 DEF Next

(***************************************************************************)
(* The rows a transaction adds stand at the end of the movements, each     *)
(* once, and move the stock of a product by their net quantity.            *)
(***************************************************************************)
LEMMA SumOfLedger ==
  ASSUME NEW f, NEW S
  PROVE  Ledger!SumFunctionOnSet(f, S) = SumFunctionOnSet(f, S)
  BY DEF Ledger!SumFunctionOnSet, Ledger!FoldFunctionOnSet, Ledger!MapThenFoldSet,
         SumFunctionOnSet, FoldFunctionOnSet, MapThenFoldSet

LEMMA NetOfLedger ==
  ASSUME NEW p, NEW rows \in Seq(Movement)
  PROVE  Ledger!NetQty(p, rows) = NetAmong(rows, {r \in Movement : r.product = p})
<1> DEFINE f == [i \in DOMAIN rows |-> rows[i].delta]
           S == {i \in DOMAIN rows : rows[i].product = p}
           T == {i \in DOMAIN rows : rows[i] \in {r \in Movement : r.product = p}}
<1>1. \A i \in DOMAIN rows : rows[i] \in Movement
  BY LenProperties, ElementOfSeq
<1>2. S = T
  BY <1>1
<1>3. Ledger!NetQty(p, rows) = SumFunctionOnSet(f, S)
  BY SumOfLedger DEF Ledger!NetQty, Ledger!NetOfRows
<1> HIDE DEF f, S, T
<1>4. SumFunctionOnSet(f, S) = SumFunctionOnSet(f, T)
  BY <1>2
<1> QED
  BY <1>3, <1>4 DEF NetAmong, f, T

LEMMA MovedWithRows ==
  ASSUME TypeOK, StockAsMoved, NEW rows \in Seq(Movement), AddRows(rows)
  PROVE  StockAsMoved'
<1>1. /\ movements \in Seq(Movement) /\ movements' = movements \o rows
      /\ \A p \in Products : onHand'[p] = onHand[p] + Ledger!NetQty(p, rows)
      /\ \A r \in Movement : r.delta \in Int
  BY DEF TypeOK, AddRows, Ledger!Moved, Movement
<1>2. ASSUME NEW p \in Products
      PROVE  onHand'[p] = Opening[p] + Ledger!NetQty(p, movements')
  <2> DEFINE counted == {r \in Movement : r.product = p}
  <2>1. movements' \in Seq(Movement)
    BY <1>1, ConcatProperties
  <2>2. /\ Ledger!NetQty(p, movements) = NetAmong(movements, counted)
        /\ Ledger!NetQty(p, rows) = NetAmong(rows, counted)
        /\ Ledger!NetQty(p, movements') = NetAmong(movements', counted)
    BY <1>1, <2>1, NetOfLedger
  <2> HIDE DEF counted
  <2>3. /\ NetAmong(movements, counted) \in Int /\ NetAmong(rows, counted) \in Int
        /\ Opening[p] \in Int
    BY <1>1, NetType, ConstantTypes DEF ConstantTypes
  <2>4. NetAmong(movements \o rows, counted)
          = NetAmong(movements, counted) + NetAmong(rows, counted)
    BY <1>1, NetOfBoth
  <2>5. onHand[p] = Opening[p] + Ledger!NetQty(p, movements)
    BY DEF StockAsMoved
  <2>6. onHand'[p] = onHand[p] + Ledger!NetQty(p, rows)
    BY <1>1
  <2> QED
    BY <1>1, <2>2, <2>3, <2>4, <2>5, <2>6
<1> QED
  BY <1>2 DEF StockAsMoved

LEMMA RowsAdded ==
  ASSUME TypeOK, StockAsMoved, NEW R, R \subseteq Movement, IsFiniteSet(R),
         AddRows(SetToSeq(R))
  PROVE  StockAsMoved' /\ Appended(movements, R, movements')
<1> DEFINE t == SetToSeq(R)
<1>1. /\ t \in Seq(R)
      /\ \A i, j \in 1..Len(t) : t[i] = t[j] => i = j
      /\ \A e \in R : \E i \in 1..Len(t) : t[i] = e
  BY SequenceOfSet
<1> HIDE DEF t
<1>2. t \in Seq(Movement) /\ movements \in Seq(Movement)
  BY <1>1, SeqMonotonic DEF TypeOK
<1>3. AddRows(t)
  BY DEF t
<1>4. movements' = movements \o t
  BY <1>3 DEF AddRows
<1>5. Appended(movements, R, movements \o t)
  BY <1>1, <1>2, RowsAppended
<1> QED
  BY <1>2, <1>3, <1>4, <1>5, MovedWithRows

LEMMA RowAdded ==
  ASSUME TypeOK, StockAsMoved, NEW r \in Movement, AddRows(<<r>>)
  PROVE  StockAsMoved' /\ Appended(movements, {r}, movements')
<1> DEFINE t == <<r>>
<1>1. /\ t \in Seq({r}) /\ t \in Seq(Movement) /\ Len(t) = 1 /\ t[1] = r
  OBVIOUS
<1> HIDE DEF t
<1>2. movements \in Seq(Movement) /\ AddRows(t)
  BY DEF TypeOK, t
<1>3. movements' = movements \o t
  BY <1>2 DEF AddRows
<1>4. /\ \A i, j \in 1..Len(t) : t[i] = t[j] => i = j
      /\ \A e \in {r} : \E i \in 1..Len(t) : t[i] = e
  BY <1>1
<1>5. Appended(movements, {r}, movements \o t)
  BY <1>1, <1>2, <1>4, RowsAppended
<1> QED
  BY <1>1, <1>2, <1>3, <1>5, MovedWithRows

(***************************************************************************)
(* Which of the movements are new.                                         *)
(***************************************************************************)
NewRow(i) == i \notin DOMAIN movements

LEMMA AppendedMovements ==
  ASSUME NEW R, Appended(movements, R, movements')
  PROVE  /\ \A i \in DOMAIN movements : i \in DOMAIN movements' /\ movements'[i] = movements[i]
         /\ \A i \in DOMAIN movements' : NewRow(i) => movements'[i] \in R
         /\ \A i, j \in DOMAIN movements' :
              NewRow(i) /\ NewRow(j) /\ movements'[i] = movements'[j] => i = j
         /\ \A r \in R : \E i \in DOMAIN movements' : NewRow(i) /\ movements'[i] = r
<1> DEFINE n == Len(movements)
           m == Len(movements')
<1>1. /\ DOMAIN movements = 1..n /\ DOMAIN movements' = 1..m
      /\ n \in Nat /\ m \in Nat /\ n <= m
      /\ \A l \in 1..n : movements'[l] = movements[l]
      /\ \A l \in (n + 1)..m : movements'[l] \in R
      /\ \A k, l \in (n + 1)..m : movements'[k] = movements'[l] => k = l
      /\ \A e \in R : \E l \in (n + 1)..m : movements'[l] = e
  BY DEF Appended
<1> HIDE DEF n, m
<1>2. \A i \in 1..m : i \notin 1..n <=> i \in (n + 1)..m
  BY <1>1
<1>3. \A i \in (n + 1)..m : i \in 1..m
  BY <1>1
<1>4. \A i \in 1..n : i \in 1..m
  BY <1>1
<1> QED
  BY <1>1, <1>2, <1>3, <1>4 DEF NewRow

LEMMA UndeductedMeans ==
  ASSUME NEW l
  PROVE  ~Undeducted(l) <=> \E i \in DOMAIN movements :
           /\ IsDeduction(movements[i]) /\ movements[i].id = l
           /\ movements[i].product = line[l].product
  BY DEF Undeducted, IsDeduction

LEMMA ReturnsStay ==
  ASSUME NEW R, Appended(movements, R, movements'), NEW p, NeverReturned(p)'
  PROVE  NeverReturned(p)
  BY AppendedMovements DEF NeverReturned

(***************************************************************************)
(* Lines keep their product and quantity, and none becomes applied.        *)
(***************************************************************************)
LinesStay ==
  /\ DOMAIN line \subseteq DOMAIN line'
  /\ \A l \in DOMAIN line : /\ line'[l].product = line[l].product
                            /\ line'[l].qty = line[l].qty
  /\ \A l \in DOMAIN line' : line'[l].applied => l \in DOMAIN line /\ line[l].applied

LEMMA OthersRecorded ==
  ASSUME TypeOK, StockInv, LinesStay, StockAsMoved',
         NEW R, Appended(movements, R, movements'), \A r \in R : ~IsDeduction(r)
  PROVE  /\ StockInv'
         /\ \A l \in DOMAIN line : Undeducted(l)' = Undeducted(l)
         /\ \A l \in DOMAIN line' \ DOMAIN line : Undeducted(l)'
<1>1. /\ \A i \in DOMAIN movements : i \in DOMAIN movements' /\ movements'[i] = movements[i]
      /\ \A i \in DOMAIN movements' : NewRow(i) => movements'[i] \in R
  BY AppendedMovements
<1>2. ASSUME NEW i \in DOMAIN movements', IsDeduction(movements'[i])
      PROVE  /\ i \in DOMAIN movements /\ movements'[i] = movements[i]
             /\ IsDeduction(movements[i])
             /\ movements[i].id \in DOMAIN line
             /\ movements[i].product = line[movements[i].id].product
             /\ movements[i].delta = -line[movements[i].id].qty
  <2>1. ~NewRow(i)
    BY <1>1, <1>2
  <2>2. i \in DOMAIN movements /\ movements'[i] = movements[i]
    BY <1>1, <2>1 DEF NewRow
  <2> QED
    BY <1>2, <2>2 DEF StockInv, DeductionsMatch
<1>3. DeductionsMatch'
  <2>1. ASSUME NEW i \in DOMAIN movements', IsDeduction(movements'[i])
        PROVE  /\ movements'[i].id \in DOMAIN line'
               /\ movements'[i].product = line'[movements'[i].id].product
               /\ movements'[i].delta = -line'[movements'[i].id].qty
    BY <1>2, <2>1 DEF LinesStay
  <2> QED
    BY <2>1 DEF DeductionsMatch, IsDeduction
<1>4. DeductedOnce'
  <2>1. ASSUME NEW i \in DOMAIN movements', NEW j \in DOMAIN movements',
               IsDeduction(movements'[i]), IsDeduction(movements'[j]),
               movements'[i].id = movements'[j].id
        PROVE  i = j
    BY <1>2, <2>1 DEF StockInv, DeductedOnce
  <2> QED
    BY <2>1 DEF DeductedOnce, IsDeduction
<1>5. ASSUME NEW l \in DOMAIN line
      PROVE  Undeducted(l)' = Undeducted(l)
  <2>1. line'[l].product = line[l].product
    BY DEF LinesStay
  <2>2. ASSUME NEW i \in DOMAIN movements, IsDeduction(movements[i]), movements[i].id = l,
               movements[i].product = line[l].product
        PROVE  /\ i \in DOMAIN movements' /\ IsDeduction(movements'[i])
               /\ movements'[i].id = l /\ movements'[i].product = line'[l].product
    BY <1>1, <2>1, <2>2
  <2>3. ASSUME NEW i \in DOMAIN movements', IsDeduction(movements'[i]), movements'[i].id = l,
               movements'[i].product = line'[l].product
        PROVE  /\ i \in DOMAIN movements /\ IsDeduction(movements[i])
               /\ movements[i].id = l /\ movements[i].product = line[l].product
    BY <1>2, <2>1, <2>3
  <2> QED
    BY <2>2, <2>3 DEF Undeducted, IsDeduction
<1>6. ASSUME NEW l \in DOMAIN line' \ DOMAIN line
      PROVE  Undeducted(l)'
  <2>1. \A i \in DOMAIN movements' : IsDeduction(movements'[i]) => movements'[i].id # l
    BY <1>2
  <2> QED
    BY <2>1 DEF Undeducted, IsDeduction
<1>7. AppliedDeducted'
  <2>1. ASSUME NEW l \in DOMAIN line', line'[l].applied
        PROVE  ~Undeducted(l)'
    <3>1. l \in DOMAIN line /\ line[l].applied
      BY <2>1 DEF LinesStay
    <3> QED
      BY <1>5, <3>1 DEF StockInv, AppliedDeducted
  <2> QED
    BY <2>1 DEF AppliedDeducted
<1> QED
  BY <1>3, <1>4, <1>5, <1>6, <1>7 DEF StockInv

LEMMA NothingRecorded ==
  ASSUME TypeOK, StockInv, LinesStay, UNCHANGED stockVars
  PROVE  /\ StockInv'
         /\ \A l \in DOMAIN line : Undeducted(l)' = Undeducted(l)
         /\ \A l \in DOMAIN line' \ DOMAIN line : Undeducted(l)'
         /\ \A p : NeverReturned(p)' = NeverReturned(p)
<1>1. onHand' = onHand /\ movements' = movements /\ movements \in Seq(Movement)
  BY DEF TypeOK, stockVars
<1>2. Appended(movements, {}, movements')
  BY <1>1 DEF Appended
<1>3. StockAsMoved'
  BY <1>1 DEF StockInv, StockAsMoved
<1>4. \A p : NeverReturned(p)' = NeverReturned(p)
  BY <1>1 DEF NeverReturned
<1> QED
  BY <1>2, <1>3, <1>4, OthersRecorded

(***************************************************************************)
(* apply_sale_order_inventory: the lines that have no deduction get one,   *)
(* and all lines of the order are flagged.                                 *)
(***************************************************************************)
LEMMA ApplyRecorded ==
  ASSUME TypeOK, StockInv, NEW o, ApplyAll(o)
  PROVE  /\ Flagged(OrderLines(o), TRUE)
         /\ Appended(movements,
                     {Deduction(l) : l \in {k \in OrderLines(o) : Undeducted(k)}},
                     movements')
         /\ StockAsMoved'
<1> DEFINE S == {k \in OrderLines(o) : Undeducted(k)}
           R == {Deduction(l) : l \in S}
<1>1. S \subseteq DOMAIN line
  BY DEF OrderLines
<1>2. IsFiniteSet(R) /\ R \subseteq Movement
  BY <1>1, DeductionsFinite, DeductionType
<1>3. AddRows(SetToSeq(R)) /\ Flagged(OrderLines(o), TRUE)
  BY DEF ApplyAll, Flagged
<1> HIDE DEF R
<1>4. StockAsMoved' /\ Appended(movements, R, movements')
  BY <1>2, <1>3, RowsAdded DEF StockInv
<1> QED
  BY <1>3, <1>4 DEF R

LEMMA ApplyKeeps ==
  ASSUME TypeOK, StockInv, NEW o, ApplyAll(o)
  PROVE  StockInv' /\ (StillOut => StillOut')
<1> DEFINE S == {k \in OrderLines(o) : Undeducted(k)}
           R == {Deduction(l) : l \in S}
<1>1. Flagged(OrderLines(o), TRUE) /\ Appended(movements, R, movements') /\ StockAsMoved'
  BY ApplyRecorded
<1>2. /\ DOMAIN line' = DOMAIN line
      /\ \A l \in DOMAIN line :
           /\ line'[l].live = line[l].live
           /\ line'[l].product = line[l].product
           /\ line'[l].qty = line[l].qty
           /\ line'[l].applied = IF l \in OrderLines(o) THEN TRUE ELSE line[l].applied
  BY <1>1, FlaggedLines
<1>3. \A r \in R : \E l \in S : r = Deduction(l)
  OBVIOUS
<1>4. \A l \in S : Deduction(l) \in R
  OBVIOUS
<1>5. \A l \in S : l \in DOMAIN line /\ line[l].live /\ l \in OrderLines(o) /\ Undeducted(l)
  BY DEF OrderLines
<1>6. \A l : /\ IsDeduction(Deduction(l)) /\ Deduction(l).id = l
             /\ Deduction(l).product = line[l].product
             /\ Deduction(l).delta = -line[l].qty
  BY DEF Deduction, IsDeduction
<1> HIDE DEF R
<1>7. /\ \A i \in DOMAIN movements : i \in DOMAIN movements' /\ movements'[i] = movements[i]
      /\ \A i \in DOMAIN movements' : NewRow(i) => movements'[i] \in R
      /\ \A i, j \in DOMAIN movements' :
           NewRow(i) /\ NewRow(j) /\ movements'[i] = movements'[j] => i = j
      /\ \A r \in R : \E i \in DOMAIN movements' : NewRow(i) /\ movements'[i] = r
  BY <1>1, AppendedMovements
<1>8. ASSUME NEW i \in DOMAIN movements', NewRow(i)
      PROVE  \E l \in S : movements'[i] = Deduction(l)
  BY <1>3, <1>7, <1>8
<1> HIDE DEF S
<1>9. ASSUME NEW i \in DOMAIN movements', ~NewRow(i)
      PROVE  i \in DOMAIN movements /\ movements'[i] = movements[i]
  BY <1>7, <1>9 DEF NewRow
<1>10. ASSUME NEW i \in DOMAIN movements', ~NewRow(i), IsDeduction(movements'[i])
       PROVE  /\ movements'[i].id \in DOMAIN line
              /\ movements'[i].product = line[movements'[i].id].product
              /\ movements'[i].delta = -line[movements'[i].id].qty
              /\ ~Undeducted(movements'[i].id)
  <2>1. i \in DOMAIN movements /\ movements'[i] = movements[i] /\ IsDeduction(movements[i])
    BY <1>9, <1>10
  <2>2. /\ movements[i].id \in DOMAIN line
        /\ movements[i].product = line[movements[i].id].product
        /\ movements[i].delta = -line[movements[i].id].qty
    BY <2>1 DEF StockInv, DeductionsMatch
  <2>3. ~Undeducted(movements[i].id)
    BY <2>1, <2>2, UndeductedMeans
  <2> QED
    BY <2>1, <2>2, <2>3
<1>11. DeductionsMatch'
  <2>1. ASSUME NEW i \in DOMAIN movements', IsDeduction(movements'[i])
        PROVE  /\ movements'[i].id \in DOMAIN line'
               /\ movements'[i].product = line'[movements'[i].id].product
               /\ movements'[i].delta = -line'[movements'[i].id].qty
    <3>1. CASE NewRow(i)
      <4>1. PICK l \in S : movements'[i] = Deduction(l)
        BY <1>8, <3>1
      <4>2. /\ movements'[i].id = l /\ movements'[i].product = line[l].product
            /\ movements'[i].delta = -line[l].qty
        BY <1>6, <4>1
      <4>3. l \in DOMAIN line /\ l \in DOMAIN line'
        BY <1>2, <1>5
      <4>4. line'[l].product = line[l].product /\ line'[l].qty = line[l].qty
        BY <1>2, <4>3
      <4> QED
        BY <4>2, <4>3, <4>4
    <3>2. CASE ~NewRow(i)
      BY <1>2, <1>10, <2>1, <3>2
    <3> QED
      BY <3>1, <3>2
  <2> QED
    BY <2>1 DEF DeductionsMatch, IsDeduction
<1>12. ASSUME NEW i \in DOMAIN movements', NEW j \in DOMAIN movements',
              IsDeduction(movements'[i]), IsDeduction(movements'[j]),
              movements'[i].id = movements'[j].id, NewRow(i)
       PROVE  i = j
  <2>1. PICK l \in S : movements'[i] = Deduction(l)
    BY <1>8, <1>12
  <2>2. Undeducted(movements'[i].id) /\ movements'[i].id = l
    BY <1>5, <1>6, <2>1
  <2>3. NewRow(j)
    BY <1>10, <1>12, <2>2
  <2>4. PICK k \in S : movements'[j] = Deduction(k)
    BY <1>8, <2>3
  <2>5. k = l
    BY <1>6, <1>12, <2>2, <2>4
  <2> QED
    BY <1>7, <1>12, <2>1, <2>3, <2>4, <2>5
<1>13. DeductedOnce'
  <2>1. ASSUME NEW i \in DOMAIN movements', NEW j \in DOMAIN movements',
               IsDeduction(movements'[i]), IsDeduction(movements'[j]),
               movements'[i].id = movements'[j].id
        PROVE  i = j
    <3>1. CASE ~NewRow(i) /\ ~NewRow(j)
      BY <1>9, <2>1, <3>1 DEF StockInv, DeductedOnce
    <3> QED
      BY <1>12, <2>1, <3>1
  <2> QED
    BY <2>1 DEF DeductedOnce, IsDeduction
<1>14. ASSUME NEW l \in DOMAIN line, ~Undeducted(l)
       PROVE  ~Undeducted(l)'
  <2>1. PICK i \in DOMAIN movements : /\ IsDeduction(movements[i]) /\ movements[i].id = l
                                      /\ movements[i].product = line[l].product
    BY <1>14, UndeductedMeans
  <2>2. i \in DOMAIN movements' /\ movements'[i] = movements[i]
    BY <1>7
  <2> QED
    BY <1>2, <2>1, <2>2 DEF Undeducted, IsDeduction
<1>15. ASSUME NEW l \in S
       PROVE  ~Undeducted(l)'
  <2>1. PICK i \in DOMAIN movements' : movements'[i] = Deduction(l)
    BY <1>4, <1>7
  <2>2. /\ IsDeduction(movements'[i]) /\ movements'[i].id = l
        /\ movements'[i].product = line[l].product
    BY <1>6, <2>1
  <2>3. line'[l].product = line[l].product
    BY <1>2, <1>5
  <2> QED
    BY <2>1, <2>2, <2>3 DEF Undeducted, IsDeduction
<1>16. \A l \in OrderLines(o) : l \in DOMAIN line /\ line[l].live /\ (l \in S \/ ~Undeducted(l))
  BY DEF OrderLines, S
<1>17. AppliedDeducted'
  <2>1. ASSUME NEW l \in DOMAIN line', line'[l].applied
        PROVE  ~Undeducted(l)'
    <3>1. CASE l \in OrderLines(o)
      BY <1>14, <1>15, <1>16, <3>1
    <3>2. CASE l \notin OrderLines(o)
      <4>1. l \in DOMAIN line /\ line[l].applied
        BY <1>2, <2>1, <3>2
      <4>2. ~Undeducted(l)
        BY <4>1 DEF StockInv, AppliedDeducted
      <4> QED
        BY <1>14, <4>1, <4>2
    <3> QED
      BY <3>1, <3>2
  <2> QED
    BY <2>1 DEF AppliedDeducted
<1>18. ASSUME StillOut PROVE StillOut'
  <2>1. ASSUME NEW l \in DOMAIN line', NEW p, p = line'[l].product,
               NeverReturned(p)', ~Undeducted(l)'
        PROVE  line'[l].live /\ line'[l].applied
    <3>1. l \in DOMAIN line /\ NeverReturned(p) /\ p = line[l].product
      BY <1>1, <1>2, <2>1, ReturnsStay
    <3>2. CASE l \in OrderLines(o)
      BY <1>2, <1>16, <3>2
    <3>3. CASE l \notin OrderLines(o)
      <4>1. ~Undeducted(l)
        <5>1. PICK i \in DOMAIN movements' :
                /\ IsDeduction(movements'[i]) /\ movements'[i].id = l
          BY <2>1 DEF Undeducted, IsDeduction
        <5>2. ~NewRow(i)
          BY <1>5, <1>6, <1>8, <3>3, <5>1
        <5> QED
          BY <1>10, <5>1, <5>2
      <4>2. line[l].live /\ line[l].applied
        BY <1>18, <3>1, <4>1 DEF StillOut
      <4> QED
        BY <1>2, <3>1, <3>3, <4>2
    <3> QED
      BY <3>2, <3>3
  <2>2. ASSUME NEW l \in DOMAIN line', NeverReturned(line[l].product)', ~Undeducted(l)'
        PROVE  line'[l].live /\ line'[l].applied
    <3>1. PICK p : p = line'[l].product
      OBVIOUS
    <3>2. NeverReturned(p)'
      BY <2>2, <3>1 DEF NeverReturned
    <3> QED
      BY <2>1, <2>2, <3>1, <3>2
  <2> QED
    BY <2>2 DEF StillOut
<1> QED
  BY <1>1, <1>11, <1>13, <1>17, <1>18 DEF StockInv

LEMMA StillOutNext ==
  ASSUME \A l \in DOMAIN line' : \A p :
           p = line'[l].product /\ NeverReturned(p)' /\ ~Undeducted(l)'
           => line'[l].live /\ line'[l].applied
  PROVE  StillOut'
<1>1. ASSUME NEW l \in DOMAIN line', NeverReturned(line[l].product)', ~Undeducted(l)'
      PROVE  line'[l].live /\ line'[l].applied
  <2>1. PICK p : p = line'[l].product
    OBVIOUS
  <2>2. NeverReturned(p)'
    BY <1>1, <2>1 DEF NeverReturned
  <2> QED
    BY <1>1, <2>1, <2>2
<1> QED
  BY <1>1 DEF StillOut

(***************************************************************************)
(* reverse_sale_order_inventory: a product of which an applied line is     *)
(* unflagged has been given back, now or before.                           *)
(***************************************************************************)
LEMMA ReverseRecorded ==
  ASSUME TypeOK, StockInv, NEW o \in Nat, ReverseOrder(o)
  PROVE  /\ Flagged(AppliedLines(o), FALSE)
         /\ Appended(movements, {Return(o, l) : l \in LinesGivenBack(o)}, movements')
         /\ StockAsMoved'
<1> DEFINE R == {Return(o, l) : l \in LinesGivenBack(o)}
<1>1. LinesGivenBack(o) \subseteq DOMAIN line
  BY DEF OrderLines, AppliedLines, LinesGivenBack
<1>2. IsFiniteSet(R) /\ R \subseteq Movement
  BY <1>1, ReturnsFinite, ReturnType
<1>3. AddRows(SetToSeq(R)) /\ Flagged(AppliedLines(o), FALSE)
  BY DEF ReverseOrder, Flagged
<1> HIDE DEF R
<1>4. StockAsMoved' /\ Appended(movements, R, movements')
  BY <1>2, <1>3, RowsAdded DEF StockInv
<1> QED
  BY <1>3, <1>4 DEF R

LEMMA ReversedReturned ==
  ASSUME TypeOK, StockInv, NEW o \in Nat, ReverseOrder(o),
         NEW l \in AppliedLines(o), NEW p, p = line[l].product
  PROVE  ~NeverReturned(p)'
<1> DEFINE R == {Return(o, k) : k \in LinesGivenBack(o)}
           K == {k \in AppliedLines(o) : line[k].product = p}
<1>1. /\ \A i \in DOMAIN movements : i \in DOMAIN movements' /\ movements'[i] = movements[i]
      /\ \A r \in R : \E i \in DOMAIN movements' : movements'[i] = r
  BY ReverseRecorded, AppendedMovements
<1>2. SUFFICES \E i \in DOMAIN movements' :
        movements'[i].product = p /\ movements'[i].reference = "sale_order_cancel"
  BY DEF NeverReturned
<1>3. CASE Returned(o, p)
  BY <1>1, <1>3 DEF Returned
<1>4. CASE ~Returned(o, p)
  <2>1. K \subseteq Nat /\ K # {}
    BY LineFields DEF AppliedLines, OrderLines
  <2>2. PICK k \in K : \A j \in K : k <= j
    BY <2>1, LeastElement
  <2>3. k \in LinesGivenBack(o) /\ line[k].product = p
    BY <1>4, <2>2 DEF LinesGivenBack
  <2>4. /\ Return(o, k) \in R /\ Return(o, k).product = p
        /\ Return(o, k).reference = "sale_order_cancel"
    BY <2>3 DEF Return
  <2> HIDE DEF R
  <2> QED
    BY <1>1, <2>4
<1> QED
  BY <1>3, <1>4

LEMMA ReverseKeeps ==
  ASSUME TypeOK, StockInv, NEW o \in Nat, ReverseOrder(o)
  PROVE  StockInv' /\ (StillOut => StillOut')
<1> DEFINE R == {Return(o, l) : l \in LinesGivenBack(o)}
<1>1. /\ Flagged(AppliedLines(o), FALSE) /\ StockAsMoved'
      /\ Appended(movements, R, movements')
  BY ReverseRecorded
<1>2. \A r \in R : ~IsDeduction(r)
  BY DEF Return, IsDeduction
<1> HIDE DEF R
<1>3. /\ DOMAIN line' = DOMAIN line
      /\ \A l \in DOMAIN line :
           /\ line'[l].live = line[l].live
           /\ line'[l].product = line[l].product
           /\ line'[l].qty = line[l].qty
           /\ line'[l].applied = IF l \in AppliedLines(o) THEN FALSE ELSE line[l].applied
  BY <1>1, FlaggedLines
<1>4. LinesStay
  BY <1>3 DEF LinesStay
<1>5. StockInv' /\ \A l \in DOMAIN line : Undeducted(l)' = Undeducted(l)
  BY <1>1, <1>2, <1>4, OthersRecorded
<1>6. ASSUME StillOut, NEW l \in DOMAIN line', NEW p, p = line'[l].product,
             NeverReturned(p)', ~Undeducted(l)'
      PROVE  line'[l].live /\ line'[l].applied
  <2>1. l \in DOMAIN line /\ p = line[l].product /\ NeverReturned(p) /\ ~Undeducted(l)
    BY <1>1, <1>3, <1>5, <1>6, ReturnsStay
  <2>2. line[l].live /\ line[l].applied
    BY <1>6, <2>1 DEF StillOut
  <2>3. l \notin AppliedLines(o)
    BY <1>6, <2>1, ReversedReturned
  <2> QED
    BY <1>3, <2>1, <2>2, <2>3
<1> QED
  BY <1>5, <1>6, StillOutNext

(***************************************************************************)
(* The other changes: a reservation released, lines added by a             *)
(* confirmation.                                                           *)
(***************************************************************************)
LEMMA ReleaseKeeps ==
  ASSUME TypeOK, StockInv, Releases
  PROVE  StockInv' /\ (StillOut => StillOut')
<1>1. PICK r \in Movement : r.reference = "winner_assignment_release" /\ AddRows(<<r>>)
  BY DEF Releases
<1>2. StockAsMoved' /\ Appended(movements, {r}, movements')
  BY <1>1, RowAdded DEF StockInv
<1>3. line' = line /\ LinesStay
  BY DEF Releases, LinesStay
<1>4. \A e \in {r} : ~IsDeduction(e)
  BY <1>1 DEF IsDeduction
<1>5. StockInv' /\ \A l \in DOMAIN line : Undeducted(l)' = Undeducted(l)
  BY <1>2, <1>3, <1>4, OthersRecorded
<1>6. ASSUME StillOut, NEW l \in DOMAIN line', NEW p, p = line'[l].product,
             NeverReturned(p)', ~Undeducted(l)'
      PROVE  line'[l].live /\ line'[l].applied
  BY <1>2, <1>3, <1>5, <1>6, ReturnsStay DEF StillOut
<1> QED
  BY <1>5, <1>6, StillOutNext

LEMMA ConfirmKeeps ==
  ASSUME TypeOK, StockInv, Confirms
  PROVE  StockInv' /\ (StillOut => StillOut')
<1>1. PICK h \in Handlers : line' = line \o SetToSeq(SoldRows(h))
  BY DEF Confirms
<1>2. /\ DOMAIN line = 1..Len(line) /\ DOMAIN line' = 1..Len(line')
      /\ Len(line) \in Nat /\ Len(line') \in Nat /\ Len(line) <= Len(line')
      /\ \A l \in 1..Len(line) : line'[l] = line[l]
      /\ \A l \in (Len(line) + 1)..Len(line') : line'[l] \in SoldRows(h)
  BY <1>1, LinesAdded DEF Appended
<1>3. \A l \in (Len(line) + 1)..Len(line') : ~line'[l].applied
  BY <1>2, SoldRowsAre
<1>4. \A l \in 1..Len(line') : l \in 1..Len(line) \/ l \in (Len(line) + 1)..Len(line')
  BY <1>2
<1>5. LinesStay
  BY <1>2, <1>3, <1>4 DEF LinesStay
<1>6. /\ StockInv' /\ \A l \in DOMAIN line : Undeducted(l)' = Undeducted(l)
      /\ \A l \in DOMAIN line' \ DOMAIN line : Undeducted(l)'
      /\ \A p : NeverReturned(p)' = NeverReturned(p)
  BY <1>5, NothingRecorded DEF Confirms
<1>7. ASSUME StillOut, NEW l \in DOMAIN line', NEW p, p = line'[l].product,
             NeverReturned(p)', ~Undeducted(l)'
      PROVE  line'[l].live /\ line'[l].applied
  <2>1. l \in DOMAIN line
    BY <1>6, <1>7
  <2>2. line'[l] = line[l] /\ ~Undeducted(l) /\ NeverReturned(p)
    BY <1>2, <1>6, <1>7, <2>1
  <2> QED
    BY <1>7, <2>1, <2>2 DEF StillOut
<1> QED
  BY <1>6, <1>7, StillOutNext

(***************************************************************************)
(* Deleted lines keep the rest of the invariant; nothing stays out for     *)
(* them if they had none of a product's stock.                             *)
(***************************************************************************)
LEMMA DeleteKeeps ==
  ASSUME TypeOK, StockInv, NEW S, DeleteLines(S), UNCHANGED stockVars
  PROVE  /\ StockInv'
         /\ StillOut /\ (\A l \in S \cap DOMAIN line : line[l].applied => ~NeverReturned(line[l].product))
            => StillOut'
<1>1. /\ DOMAIN line' = DOMAIN line
      /\ \A l \in DOMAIN line :
           /\ line'[l].live = (line[l].live /\ l \notin S)
           /\ line'[l].product = line[l].product /\ line'[l].qty = line[l].qty
           /\ line'[l].applied = line[l].applied
  BY DeletedLines
<1>2. LinesStay
  BY <1>1 DEF LinesStay
<1>3. /\ StockInv' /\ \A l \in DOMAIN line : Undeducted(l)' = Undeducted(l)
      /\ \A p : NeverReturned(p)' = NeverReturned(p)
  BY <1>2, NothingRecorded
<1>4. ASSUME StillOut,
             \A l \in S \cap DOMAIN line : line[l].applied => ~NeverReturned(line[l].product),
             NEW l \in DOMAIN line', NEW p, p = line'[l].product,
             NeverReturned(p)', ~Undeducted(l)'
      PROVE  line'[l].live /\ line'[l].applied
  <2>1. l \in DOMAIN line /\ p = line[l].product /\ NeverReturned(p) /\ ~Undeducted(l)
    BY <1>1, <1>3, <1>4
  <2>2. line[l].live /\ line[l].applied
    BY <1>4, <2>1 DEF StillOut
  <2> QED
    BY <1>1, <1>4, <2>1, <2>2
<1> QED
  BY <1>3, <1>4, StillOutNext

LEMMA StockInvNext ==
  ASSUME TypeOK, StockInv, [Next]_vars
  PROVE  StockInv'
<1>1. StockChange
  BY StockChanges
<1>2. CASE UNCHANGED <<line, stockVars>>
  <2>1. LinesStay
    BY <1>2 DEF LinesStay
  <2> QED
    BY <1>2, <2>1, NothingRecorded
<1>3. CASE Deletes
  <2>1. UNCHANGED stockVars /\ (UNCHANGED line \/ \E S : DeleteLines(S))
    BY <1>3 DEF Deletes, Unconfirm, DeleteLot
  <2> QED
    BY <1>2, <2>1, DeleteKeeps
<1> QED
  BY <1>1, <1>2, <1>3, ApplyKeeps, ReverseKeeps, ReleaseKeeps, ConfirmKeeps DEF StockChange

(***************************************************************************)
(* What an undo deletes it has reversed; a lot that is deleted has no      *)
(* lines.                                                                  *)
(***************************************************************************)
LEMMA DeletedNotOut ==
  ASSUME TypeOK, StockInv, StillOut, AllAgree, NEW h \in Handlers, Undoing(h),
         Unconfirm(h) \/ DeleteLot(h)
  PROVE  StillOut'
<1> USE JobFields
<1>a. PICK a \in Lots : a = job[h].lot
  OBVIOUS
<1>1. UNCHANGED stockVars
  BY DEF Unconfirm, DeleteLot
<1>2. CASE Unconfirm(h)
  <2>1. PICK S : DeleteLines(S) /\ S \subseteq LotLines(a)
    BY <1>a, <1>2 DEF Unconfirm, LinesOfUndone
  <2>2. LinesOut(a) = {}
    BY <1>a, <1>2 DEF Unconfirm, Undoing
  <2>3. \A l \in S \cap DOMAIN line : line[l].applied => ~NeverReturned(line[l].product)
    BY <2>1, <2>2 DEF LinesOut
  <2> QED
    BY <1>1, <2>1, <2>3, DeleteKeeps
<1>3. CASE DeleteLot(h)
  <2>1. LotLines(a) = {}
    BY <1>a, <1>3 DEF DeleteLot, Undoing, AllAgree, LotAgrees, NotConfirmed
  <2>2. CASE DeleteLines(LotLines(a))
    BY <1>1, <2>1, <2>2, DeleteKeeps
  <2>3. CASE UNCHANGED line
    BY <1>1, <2>3 DEF StillOut, NeverReturned, Undeducted, stockVars
  <2> QED
    BY <1>a, <1>3, <2>2, <2>3 DEF DeleteLot
<1> QED
  BY <1>2, <1>3

(***************************************************************************)
(* Where an undo or a deletion stands after each step of its handler.      *)
(***************************************************************************)
Removing == {"deleteItems", "deleteLot", "removeRead", "remove"}

LEMMA NotUndoing ==
  ASSUME NEW h, pc'[h] \notin {"reverse", "unconfirm"} \cup Removing
  PROVE  Undoing(h)'
  BY DEF Undoing, Removing

LEMMA RemovingUnconfirmed ==
  ASSUME NEW h \in Handlers, NEW a \in Lots, pc'[h] \in Removing, job'[h].lot = a,
         \/ NotConfirmed(a)'
         \/ pc'[h] \in {"removeRead", "remove"} /\ job'[h].route # "delete"
  PROVE  Undoing(h)'
  BY DEF Undoing, Removing, NotConfirmed, Live

LEMMA UndoingRequests ==
  ASSUME TypeOK, NEW h \in Handlers, Request(h)
  PROVE  Undoing(h)'
<1> USE Went
<1>1. NoJob \in Job
  BY IdleJob
<1>2. ASSUME NEW a \in Lots, NEW p \in Products, RemoveRequest(h, a, p)
      PROVE  Undoing(h)'
  <2> DEFINE j == [NoJob EXCEPT !.route = "remove", !.lot = a, !.todo = {p}]
  <2>1. j.route = "remove" /\ j.lot = a
    BY <1>1 DEF Job
  <2>2. pc'[h] = "removeRead" /\ job'[h] = j
    BY <1>2 DEF RemoveRequest
  <2> HIDE DEF j
  <2> QED
    BY <2>1, <2>2, RemovingUnconfirmed DEF Removing
<1>3. ASSUME NEW a \in Lots, Delete(h, a)
      PROVE  Undoing(h)'
  <2> DEFINE j == [NoJob EXCEPT !.route = "delete", !.lot = a]
  <2>1. j.lot = a
    BY <1>1 DEF Job
  <2>2. /\ job'[h] = j /\ UNCHANGED lot
        /\ pc'[h] = IF lot[a].status = "confirmed" THEN "undoRead" ELSE "deleteItems"
    BY <1>3 DEF Delete
  <2> HIDE DEF j
  <2>3. CASE lot[a].status = "confirmed"
    BY <2>2, <2>3, NotUndoing DEF Removing
  <2>4. CASE lot[a].status # "confirmed"
    <3>1. NotConfirmed(a)'
      BY <2>2, <2>4 DEF NotConfirmed
    <3> QED
      BY <2>1, <2>2, <2>4, <3>1, RemovingUnconfirmed DEF Removing
  <2> QED
    BY <2>3, <2>4
<1>4. ASSUME NEW a \in Lots, NEW p \in Products,
             \/ Scan(h, a, p) \/ Confirm(h, a) \/ Undo(h, a) \/ Approve(h, a)
             \/ OverdueRead(h, a)
      PROVE  Undoing(h)'
  <2>1. pc'[h] \in {"scanRead", "confirmRead", "undoRead", "overdueWrite"}
    BY <1>4 DEF Scan, Confirm, Undo, Approve, OverdueRead
  <2> QED
    BY <2>1, NotUndoing DEF Removing
<1>5. ASSUME NEW a \in Lots, NEW status, ChangeStatus(h, a, status)
      PROVE  Undoing(h)'
  <2>1. pc'[h] \in {"reopen", "confirmRead", "undoRead", "statusWrite"}
    BY <1>5 DEF ChangeStatus
  <2> QED
    BY <2>1, NotUndoing DEF Removing
<1>6. ASSUME NEW o, OrderRequest(h, o)
      PROVE  Undoing(h)'
  <2>1. pc'[h] = "orderUpdate"
    BY <1>6 DEF OrderRequest
  <2> QED
    BY <2>1, NotUndoing DEF Removing
<1>7. PICK p \in Products : TRUE
  BY ConstantTypes DEF ConstantTypes
<1> QED
  BY <1>2, <1>3, <1>4, <1>5, <1>6, <1>7 DEF Request

LEMMA UndoingElsewhere ==
  ASSUME TypeOK, NEW h \in Handlers, "error" \notin setting.failures,
         \/ ScanRead(h) \/ Assign(h) \/ ConfirmRead(h) \/ LookUp(h) \/ Create(h)
         \/ ConfirmFind(h) \/ ConfirmLot(h) \/ Apply(h) \/ ReleaseReservation(h)
         \/ ManualConfirm(h) \/ UndoRead(h) \/ Reopen(h) \/ StatusSeen(h)
         \/ StatusWrite(h) \/ DeleteLot(h) \/ OverdueWrite(h) \/ OrderUpdate(h)
         \/ OrderSync(h) \/ Crash(h) \/ Swallow(h)
  PROVE  Undoing(h)'
<1> USE Went
<1> DEFINE away == {"undoRead", "scanRead", "assign", "idle", "lookUp", "manual",
                    "confirmFind", "create", "confirmLot", "apply", "release",
                    "snapshot", "confirmRead", "statusWrite", "orderSync"}
<1> SUFFICES pc'[h] \in away
  BY NotUndoing DEF Removing
<1>1. CASE ScanRead(h)
  BY <1>1 DEF ScanRead
<1>2. CASE Assign(h)
  BY <1>2 DEF Assign
<1>3. CASE ConfirmRead(h)
  BY <1>3 DEF ConfirmRead
<1>4. CASE LookUp(h) \/ Create(h)
  BY <1>4 DEF LookUp, Create
<1>5. CASE ConfirmFind(h) \/ ConfirmLot(h)
  <2>1. \E at \in {"confirmLot", "apply"} : \E j : GotoWith(h, at, j)
    BY <1>5 DEF ConfirmFind, ConfirmLot
  <2> QED
    BY <2>1
<1>6. CASE Apply(h) \/ ReleaseReservation(h) \/ ManualConfirm(h)
  BY <1>6 DEF Apply, ReleaseReservation, ManualConfirm
<1>7. CASE UndoRead(h)
  <2>1. CASE Live(job[h].lot) /\ lot[job[h].lot].status = "confirmed"
    BY <1>7, <2>1 DEF UndoRead
  <2>2. CASE ~(Live(job[h].lot) /\ lot[job[h].lot].status = "confirmed")
    <3>1. NotUndone(h)
      BY <1>7, <2>2 DEF UndoRead
    <3> QED
      BY <3>1 DEF NotUndone
  <2> QED
    BY <2>1, <2>2
<1>8. CASE Reopen(h) \/ StatusSeen(h)
  BY <1>8 DEF Reopen, StatusSeen
<1>9. CASE StatusWrite(h)
  BY <1>9 DEF StatusWrite
<1>10. CASE DeleteLot(h) \/ OverdueWrite(h)
  BY <1>10 DEF DeleteLot, OverdueWrite
<1>11. CASE OrderUpdate(h) \/ OrderSync(h) \/ Crash(h)
  BY <1>11 DEF OrderUpdate, OrderSync, Crash
<1>12. ~Swallow(h)
  BY DEF Swallow
<1> QED
  BY <1>1, <1>2, <1>3, <1>4, <1>5, <1>6, <1>7, <1>8, <1>9, <1>10, <1>11, <1>12

LEMMA UndoingRemovals ==
  ASSUME TypeOK, NEW h \in Handlers, Undoing(h), RemoveRead(h) \/ RemoveItem(h) \/ DeleteItems(h)
  PROVE  Undoing(h)'
<1> USE JobFields, Went
<1>a. PICK a \in Lots : a = job[h].lot
  OBVIOUS
<1>1. CASE RemoveRead(h)
  <2>1. UNCHANGED lot /\ pc[h] = "removeRead"
    BY <1>1 DEF RemoveRead
  <2>2. job[h].route = "delete" => NotConfirmed(a)'
    BY <1>a, <2>1 DEF Undoing, NotConfirmed, Live
  <2>3. CASE job[h].todo = {}
    <3>1. CASE job[h].route = "delete"
      <4>1. pc'[h] = "deleteLot" /\ job'[h] = job[h]
        BY <1>1, <2>3, <3>1 DEF RemoveRead, Removed
      <4> QED
        BY <1>a, <2>2, <3>1, <4>1, RemovingUnconfirmed DEF Removing
    <3>2. CASE job[h].route # "delete"
      <4>1. pc'[h] = "idle"
        BY <1>1, <2>3, <3>2 DEF RemoveRead, Removed
      <4> QED
        BY <4>1, NotUndoing DEF Removing
    <3> QED
      BY <3>1, <3>2
  <2>4. CASE job[h].todo # {}
    <3>1. PICK p \in job[h].todo :
            \/ GotoWith(h, "remove", [job[h] EXCEPT !.product = p, !.todo = @ \ {p}])
            \/ GotoWith(h, "removeRead", [job[h] EXCEPT !.todo = @ \ {p}])
      BY <1>1, <2>4 DEF RemoveRead
    <3>2. /\ [job[h] EXCEPT !.product = p, !.todo = @ \ {p}].lot = a
          /\ [job[h] EXCEPT !.product = p, !.todo = @ \ {p}].route = job[h].route
          /\ [job[h] EXCEPT !.todo = @ \ {p}].lot = a
          /\ [job[h] EXCEPT !.todo = @ \ {p}].route = job[h].route
      BY <1>a DEF Job
    <3>3. /\ pc'[h] \in {"remove", "removeRead"}
          /\ job'[h].lot = a /\ job'[h].route = job[h].route
      BY <3>1, <3>2
    <3> QED
      BY <2>2, <3>3, RemovingUnconfirmed DEF Removing
  <2> QED
    BY <2>3, <2>4
<1>2. CASE RemoveItem(h)
  <2>1. pc'[h] = "removeRead" /\ job'[h] = job[h] /\ pc[h] = "remove"
    BY <1>2 DEF RemoveItem
  <2>2. job[h].route = "delete" => NotConfirmed(a)
    BY <1>a, <2>1 DEF Undoing
  <2>3. NotConfirmed(a) => NotConfirmed(a)'
    <3>1. CASE UNCHANGED lot
      BY <3>1 DEF NotConfirmed, Live
    <3>2. CASE SetStatus(a, "assigned") \/ SetStatus(a, "pending")
      BY <3>2, StatusSet DEF NotConfirmed
    <3> QED
      BY <1>a, <1>2, <3>1, <3>2 DEF RemoveItem
  <2> QED
    BY <1>a, <2>1, <2>2, <2>3, RemovingUnconfirmed DEF Removing
<1>3. CASE DeleteItems(h)
  <2>1. UNCHANGED lot /\ pc[h] = "deleteItems"
    BY <1>3 DEF DeleteItems
  <2>2. NotConfirmed(a)'
    BY <1>a, <2>1 DEF Undoing, NotConfirmed, Live
  <2>3. [job[h] EXCEPT !.todo = Items(a)].lot = a
    BY <1>a DEF Job
  <2>4. \/ pc'[h] = "removeRead" /\ job'[h].lot = a
        \/ pc'[h] = "idle"
    BY <1>a, <1>3, <2>3 DEF DeleteItems
  <2> QED
    BY <2>2, <2>4, RemovingUnconfirmed, NotUndoing DEF Removing
<1> QED
  BY <1>1, <1>2, <1>3

(***************************************************************************)
(* An undo: the orders it collects are those of the lot's lines, a         *)
(* reversal unflags all lines of its order.                                *)
(***************************************************************************)
LEMMA UndoingUndo ==
  ASSUME TypeOK, StockInv, NEW h \in Handlers, Undoing(h),
         Snapshot(h) \/ ReverseOrders(h) \/ Unconfirm(h)
  PROVE  Undoing(h)'
<1> USE JobFields, Went
<1>a. PICK a \in Lots : a = job[h].lot
  OBVIOUS
<1>1. CASE Snapshot(h)
  <2> DEFINE j == [job[h] EXCEPT !.orders = LinkedOrders(a)]
  <2>1. j.lot = a /\ j.orders = LinkedOrders(a)
    BY <1>a DEF Job
  <2>2. pc'[h] = "reverse" /\ job'[h] = j /\ UNCHANGED <<line, movements>>
    BY <1>a, <1>1 DEF Snapshot, stockVars
  <2> HIDE DEF j
  <2>3. \A l \in LotLines(a) : line[l].order \in LinkedOrders(a)
    BY DEF LinkedOrders
  <2> QED
    BY <2>1, <2>2, <2>3 DEF Undoing, LinesOut, LotLines
<1>2. CASE ReverseOrders(h) /\ job[h].orders = {}
  <2>1. pc'[h] = "unconfirm" /\ job'[h] = job[h] /\ UNCHANGED <<line, movements>>
    BY <1>2 DEF ReverseOrders, stockVars
  <2>2. LinesOut(a) = {}
    BY <1>a, <1>2 DEF ReverseOrders, Undoing
  <2> QED
    BY <1>a, <2>1, <2>2 DEF Undoing, LinesOut, LotLines, NeverReturned
<1>3. CASE ReverseOrders(h) /\ job[h].orders # {}
  <2>1. PICK o \in job[h].orders :
          ReverseOrder(o) /\ GotoWith(h, "reverse", [job[h] EXCEPT !.orders = @ \ {o}])
    BY <1>3 DEF ReverseOrders
  <2>2. /\ [job[h] EXCEPT !.orders = @ \ {o}].lot = a
        /\ [job[h] EXCEPT !.orders = @ \ {o}].orders = job[h].orders \ {o}
        /\ o \in Nat
    BY <1>a DEF Job
  <2>3. /\ pc[h] = "reverse" /\ pc'[h] = "reverse" /\ job'[h].lot = a
        /\ job'[h].orders = job[h].orders \ {o}
    BY <1>3, <2>1, <2>2 DEF ReverseOrders
  <2>4. /\ DOMAIN line' = DOMAIN line
        /\ \A l \in DOMAIN line :
             /\ line'[l].live = line[l].live /\ line'[l].lot = line[l].lot
             /\ line'[l].product = line[l].product
             /\ line'[l].order = line[l].order
             /\ line'[l].applied = IF l \in AppliedLines(o) THEN FALSE ELSE line[l].applied
    <3> DEFINE S == AppliedLines(o)
    <3> DEFINE applied == FALSE
    <3>1. Flagged(S, applied)
      BY <2>1, <2>2, ReverseRecorded
    <3> HIDE DEF S
    <3>2. applied \in BOOLEAN
      OBVIOUS
    <3>3. /\ DOMAIN line' = DOMAIN line
          /\ \A l \in DOMAIN line :
               /\ line'[l].live = line[l].live /\ line'[l].lot = line[l].lot
               /\ line'[l].product = line[l].product
               /\ line'[l].order = line[l].order
               /\ line'[l].applied = IF l \in S THEN applied ELSE line[l].applied
      <4> HIDE DEF applied
      <4> QED
        BY ONLY TypeOK, <3>1, <3>2, FlaggedLines
    <3> QED
      BY <3>3 DEF S
  <2>5. ASSUME NEW l \in DOMAIN line', line'[l].live, line'[l].lot = a, line'[l].applied,
               NEW p, p = line'[l].product, NeverReturned(p)'
        PROVE  line'[l].order \in job'[h].orders
    <3>1. NeverReturned(p)
      BY <2>1, <2>2, <2>5, ReverseRecorded, ReturnsStay
    <3>2. l \in LinesOut(a) /\ l \notin AppliedLines(o)
      BY <2>4, <2>5, <3>1 DEF LinesOut, LotLines
    <3>3. line[l].order \in job[h].orders
      BY <1>a, <2>3, <3>2 DEF Undoing
    <3>4. line[l].order # o
      BY <3>2 DEF LinesOut, LotLines, AppliedLines, OrderLines
    <3> QED
      BY <2>3, <2>4, <2>5, <3>3, <3>4
  <2>6. ASSUME NEW l \in DOMAIN line', line'[l].live, line'[l].lot = a, line'[l].applied,
               NeverReturned(line[l].product)'
        PROVE  line'[l].order \in job'[h].orders
    <3>1. PICK p : p = line'[l].product
      OBVIOUS
    <3>2. NeverReturned(p)'
      BY <2>6, <3>1 DEF NeverReturned
    <3> QED
      BY <2>5, <2>6, <3>1, <3>2
  <2> QED
    BY <2>3, <2>6 DEF Undoing, LinesOut, LotLines
<1>4. CASE Unconfirm(h)
  <2>1. SetStatus(a, "assigned")
    BY <1>a, <1>4 DEF Unconfirm
  <2>2. NotConfirmed(a)'
    BY <2>1, StatusSet DEF NotConfirmed
  <2>3. \/ pc'[h] \in {"statusSeen", "scanRead", "idle"}
        \/ pc'[h] = "deleteItems" /\ job'[h] = job[h]
    BY <1>4 DEF Unconfirm, Undone
  <2> QED
    BY <1>a, <2>2, <2>3, RemovingUnconfirmed, NotUndoing DEF Removing
<1> QED
  BY <1>1, <1>2, <1>3, <1>4

LEMMA UndoingLots ==
  ASSUME TypeOK, NEW h \in Handlers, Undoing(h),
         NEW a \in setting.lots, Queue(a) \/ Reserve(a)
  PROVE  Undoing(h)'
<1>1. a \in Lots /\ lot \in [Lots -> LotRow] /\ job[h].lot \in Lots
  BY JobFields DEF TypeOK, IsSetting
<1>2. UNCHANGED <<line, movements, pc, job>>
  BY DEF Queue, Reserve, stockVars
<1>3. \A b \in Lots : NotConfirmed(b) => NotConfirmed(b)'
  <2>1. CASE Queue(a)
    BY <1>1, <2>1 DEF Queue, NotConfirmed, Live
  <2>2. CASE Reserve(a)
    BY <2>2 DEF Reserve, NotConfirmed, Live
  <2> QED
    BY <2>1, <2>2
<1>4. NotConfirmed(job[h].lot) => NotConfirmed(job[h].lot)'
  <2>1. PICK b \in Lots : b = job[h].lot
    BY <1>1
  <2> QED
    BY <1>2, <1>3, <2>1 DEF NotConfirmed, Live
<1> QED
  BY <1>2, <1>4 DEF Undoing, LinesOut, LotLines, NeverReturned

LEMMA UndoingStutter ==
  ASSUME NEW h, Undoing(h), UNCHANGED vars
  PROVE  Undoing(h)'
BY DEF Undoing, LinesOut, LotLines, NeverReturned, NotConfirmed, Live, vars, stockVars

LEMMA HeldNext ==
  ASSUME TypeOK, StockInv, AgreesInv, HeldInv, [Next]_vars
  PROVE  HeldInv'
<1> SUFFICES ASSUME Undisturbed'
             PROVE  StillOut' /\ (\A h \in setting.handlers : Undoing(h))'
  BY DEF HeldInv
<1>1. UNCHANGED setting
  BY SettingKept
<1>2. Undisturbed
  BY <1>1 DEF Undisturbed, OneHandler
<1>3. PICK h \in Handlers : setting.handlers = {h}
  BY <1>2 DEF Undisturbed, OneHandler
<1>4. AllAgree /\ StillOut /\ Undoing(h) /\ "error" \notin setting.failures
  BY <1>2, <1>3 DEF AgreesInv, AllAgree, HeldInv, Undisturbed
<1>5. StillOut'
  <2>1. StockChange
    BY StockChanges
  <2>2. CASE UNCHANGED <<line, stockVars>>
    BY <1>4, <2>2 DEF StillOut, NeverReturned, Undeducted, stockVars
  <2>3. CASE Deletes
    BY <1>3, <1>4, <2>3, DeletedNotOut DEF Deletes
  <2> QED
    BY <1>4, <2>1, <2>2, <2>3, ApplyKeeps, ReverseKeeps, ReleaseKeeps, ConfirmKeeps
    DEF StockChange
<1>6. Undoing(h)'
  <2>1. CASE UNCHANGED vars
    BY <1>4, <2>1, UndoingStutter
  <2>2. CASE \E a \in setting.lots : Queue(a) \/ Reserve(a)
    BY <1>4, <2>2, UndoingLots
  <2>3. CASE Request(h)
    BY <2>3, UndoingRequests
  <2>4. CASE Step(h) \/ Crash(h) \/ Swallow(h)
    BY <1>4, <2>4, UndoingElsewhere, UndoingRemovals, UndoingUndo DEF Step
  <2> QED
    BY <1>3, <2>1, <2>2, <2>3, <2>4 DEF Next
<1> QED
  BY <1>1, <1>3, <1>5, <1>6

LEMMA HeldInit == Init => StockInv /\ HeldInv
<1> SUFFICES ASSUME Init PROVE StockInv /\ HeldInv
  OBVIOUS
<1>1. /\ line = << >> /\ movements = << >> /\ onHand = Opening
      /\ setting.handlers \subseteq Handlers
  BY ConstantTypes DEF Init, IsSetting
<1>2. << >> \in Seq(Movement)
  OBVIOUS
<1>3. StockAsMoved
  <2>1. ASSUME NEW p \in Products
        PROVE  Opening[p] = Opening[p] + Ledger!NetQty(p, << >>)
    <3>1. Ledger!NetQty(p, << >>) = 0
      BY <1>2, NetOfLedger, NetOfNone
    <3>2. Opening[p] \in Int
      BY ConstantTypes DEF ConstantTypes
    <3> QED
      BY <3>1, <3>2
  <2> QED
    BY <1>1, <2>1 DEF StockAsMoved
<1>4. DeductionsMatch /\ DeductedOnce /\ AppliedDeducted /\ StillOut
  BY <1>1 DEF DeductionsMatch, DeductedOnce, AppliedDeducted, StillOut
<1>5. ASSUME NEW h \in setting.handlers PROVE Undoing(h)
  <2>1. pc[h] = "idle"
    BY <1>1 DEF Init
  <2> QED
    BY <2>1 DEF Undoing
<1> QED
  BY <1>3, <1>4, <1>5 DEF StockInv, HeldInv

(***************************************************************************)
(* The movements of a product of which nothing came back are the           *)
(* deductions of its applied lines, one each.                              *)
(***************************************************************************)
LEMMA OutAsApplied ==
  ASSUME TypeOK, StockInv, StillOut, NEW p \in Products, NeverReturned(p)
  PROVE  onHand[p] = Opening[p]
           - Ledger!SumFunctionOnSet([l \in DOMAIN line |-> line[l].qty],
               {l \in DOMAIN line :
                  line[l].live /\ line[l].applied /\ line[l].product = p})
<1> DEFINE T == {i \in DOMAIN movements : movements[i].product = p}
           S == {l \in DOMAIN line :
                   line[l].live /\ line[l].applied /\ line[l].product = p}
           at == [i \in T |-> movements[i].id]
           delta == [i \in DOMAIN movements |-> movements[i].delta]
           qty == [l \in DOMAIN line |-> line[l].qty]
           took == [l \in DOMAIN line |-> -line[l].qty]
           none == [l \in DOMAIN line |-> 0]
<1>1. movements \in Seq(Movement) /\ DOMAIN movements = 1 .. Len(movements)
      /\ Len(movements) \in Nat
  BY LenProperties DEF TypeOK
<1>2. ASSUME NEW i \in T
      PROVE  /\ at[i] \in S /\ delta[i] = took[at[i]]
             /\ IsDeduction(movements[i]) /\ at[i] = movements[i].id
             /\ i \in DOMAIN movements
  <2>1. i \in DOMAIN movements /\ movements[i].product = p /\ at[i] = movements[i].id
    OBVIOUS
  <2>2. IsDeduction(movements[i])
    BY <2>1 DEF NeverReturned, IsDeduction
  <2>3. /\ at[i] \in DOMAIN line /\ line[at[i]].product = p
        /\ movements[i].delta = -line[at[i]].qty
    BY <2>1, <2>2 DEF StockInv, DeductionsMatch
  <2>4. ~Undeducted(at[i])
    BY <2>1, <2>2, <2>3, UndeductedMeans
  <2>5. line[at[i]].live /\ line[at[i]].applied
    BY <2>3, <2>4 DEF StillOut
  <2>6. delta[i] = took[at[i]]
    BY <2>1, <2>3
  <2> QED
    BY <2>1, <2>2, <2>3, <2>5, <2>6
<1>3. ASSUME NEW l \in S PROVE \E i \in T : at[i] = l
  <2>1. ~Undeducted(l)
    BY DEF StockInv, AppliedDeducted
  <2>2. PICK i \in DOMAIN movements : /\ movements[i].id = l
                                      /\ movements[i].product = line[l].product
    BY <2>1, UndeductedMeans
  <2> QED
    BY <2>2
<1>4. ASSUME NEW i \in T, NEW j \in T, at[i] = at[j] PROVE i = j
  BY <1>2, <1>4 DEF StockInv, DeductedOnce
<1>5. IsFiniteSet(T)
  <2>1. IsFiniteSet(1 .. Len(movements)) /\ T \subseteq 1 .. Len(movements)
    BY <1>1, FS_Interval
  <2> HIDE DEF T
  <2> QED
    BY <2>1, FS_Subset
<1>6. IsFiniteSet(S)
  <2>1. S \in SUBSET DOMAIN line
    OBVIOUS
  <2> HIDE DEF S
  <2> QED
    BY <2>1, LinesFinite
<1>7. ASSUME NEW l \in S
      PROVE  /\ took[l] \in Int /\ qty[l] \in Int /\ none[l] = took[l] + qty[l]
             /\ none[l] = 0
  <2>1. l \in DOMAIN line /\ line[l].qty \in 1..MaxQty
    BY LineFields
  <2>2. took[l] = -line[l].qty /\ qty[l] = line[l].qty /\ none[l] = 0
    BY <2>1
  <2> QED
    BY <2>1, <2>2, ConstantTypes DEF ConstantTypes
<1>8. Ledger!NetQty(p, movements) = SumFunctionOnSet(delta, T)
  BY SumOfLedger DEF Ledger!NetQty, Ledger!NetOfRows
<1>9. Ledger!SumFunctionOnSet(qty, S) = SumFunctionOnSet(qty, S)
  BY SumOfLedger
<1>10. onHand[p] = Opening[p] + Ledger!NetQty(p, movements) /\ Opening[p] \in Int
  BY ConstantTypes DEF StockInv, StockAsMoved, ConstantTypes
<1> HIDE DEF T, S, at, delta, qty, took, none
<1>11. SumFunctionOnSet(delta, T) = SumFunctionOnSet(took, S)
  BY <1>2, <1>3, <1>4, <1>5, <1>6, <1>7, SumListed
<1>12. SumFunctionOnSet(none, S) = SumFunctionOnSet(took, S) + SumFunctionOnSet(qty, S)
  BY <1>6, <1>7, SumOfSums
<1>13. SumFunctionOnSet(none, S) = 0
  BY <1>6, <1>7, SumOfZeros
<1>14. SumFunctionOnSet(took, S) \in Int /\ SumFunctionOnSet(qty, S) \in Int
  BY <1>6, <1>7, SumType
<1>15. onHand[p] = Opening[p] - Ledger!SumFunctionOnSet(qty, S)
  BY <1>8, <1>9, <1>10, <1>11, <1>12, <1>13, <1>14
<1> QED
  BY <1>15 DEF qty, S

(***************************************************************************)
(* Whatever the handlers and failures: the stock is what the movements     *)
(* say, no line is deducted twice, each deduction took its line's          *)
(* quantity, and a line flagged as applied has its deduction.              *)
(***************************************************************************)
THEOREM LinesDeductedOnce == Spec => []StockInv
<1>1. TypeOK /\ StockInv /\ [Next]_vars => StockInv'
  BY StockInvNext
<1> QED
  BY <1>1, HeldInit, TypeCorrect, PTL DEF Spec

(***************************************************************************)
(* With one operator and no swallowed error, the stock of a product of     *)
(* which nothing was given back or released is short of what there was by  *)
(* exactly the quantities of its applied lines, between any two            *)
(* transactions of confirmations, undos, order changes and deletions, and  *)
(* wherever the server failed.                                             *)
(***************************************************************************)
THEOREM StockOutExactly == Spec => []StockIsOutForAppliedLines
<1>1. Init => AgreesInv
  BY AgreesInit
<1>2. TypeOK /\ AgreesInv /\ [Next]_vars => AgreesInv'
  BY AgreesKept
<1>3. TypeOK /\ StockInv /\ [Next]_vars => StockInv'
  BY StockInvNext
<1>4. TypeOK /\ StockInv /\ AgreesInv /\ HeldInv /\ [Next]_vars => HeldInv'
  BY HeldNext
<1>5. TypeOK /\ StockInv /\ HeldInv => StockIsOutForAppliedLines
  BY OutAsApplied DEF HeldInv, StockIsOutForAppliedLines
<1> QED
  BY <1>1, <1>2, <1>3, <1>4, <1>5, HeldInit, TypeCorrect, PTL DEF Spec
=============================================================================
