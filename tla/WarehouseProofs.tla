-------------------------- MODULE WarehouseProofs --------------------------
(***************************************************************************)
(* What is proved of the counter sales, the purchases and TikTok's orders  *)
(* for every number of products, requests, threads and orders.             *)
(***************************************************************************)
EXTENDS Warehouse, SumProofs, SequenceTheorems

-----------------------------------------------------------------------------
(* Rows in the order of their ids *)

(***************************************************************************)
(* Every finite set of ids can be listed in ascending order: otherwise     *)
(* take one of the least cardinality that cannot; without its least        *)
(* element it can be, and the least element goes first.                    *)
(***************************************************************************)
LEMMA AscendingListing ==
  ASSUME NEW ids, ids \subseteq Nat, IsFiniteSet(ids)
  PROVE  \E s \in [1 .. Cardinality(ids) -> ids] : Ascending(s)
<1> DEFINE Unlisted(S) == /\ IsFiniteSet(S)
                          /\ ~\E s \in [1 .. Cardinality(S) -> S] : Ascending(s)
           sizes == {Cardinality(S) : S \in {R \in SUBSET Nat : Unlisted(R)}}
<1> SUFFICES ASSUME Unlisted(ids) PROVE FALSE
  OBVIOUS
<1>1. sizes \subseteq Nat /\ sizes # {}
  BY FS_CardinalityType
<1>2. PICK size \in sizes : \A n \in sizes : size <= n
  BY <1>1, LeastElement
<1>3. PICK S \in SUBSET Nat : Unlisted(S) /\ Cardinality(S) = size
  BY <1>2
<1>4. S # {}
  <2> SUFFICES ASSUME S = {} PROVE FALSE
    OBVIOUS
  <2>1. Cardinality(S) = 0
    BY FS_EmptySet
  <2> DEFINE s == [n \in 1 .. 0 |-> 0]
  <2>2. s \in [1 .. Cardinality(S) -> S] /\ Ascending(s)
    BY <2>1 DEF Ascending
  <2> QED
    BY <1>3, <2>2
<1>5. PICK least \in S : \A m \in S : least <= m
  BY <1>4, LeastElement
<1> DEFINE R == S \ {least}
<1>6. /\ IsFiniteSet(R) /\ Cardinality(R) = size - 1
      /\ size \in Nat
  BY <1>1, <1>2, <1>3, <1>5, FS_RemoveElement
<1>7. Cardinality(R) \in Nat
  BY <1>6, FS_CardinalityType
<1>8. ~Unlisted(R)
  <2>1. R \in SUBSET Nat
    OBVIOUS
  <2>2. Cardinality(R) \notin sizes
    BY <1>2, <1>6, <1>7
  <2> QED
    BY <2>1, <2>2
<1>9. PICK s \in [1 .. size - 1 -> R] : Ascending(s)
  BY <1>6, <1>8
<1> DEFINE t == [n \in 1 .. size |-> IF n = 1 THEN least ELSE s[n - 1]]
<1>10. t \in [1 .. size -> S]
  BY <1>5, <1>6, <1>9
<1>11. ASSUME NEW m \in 1 .. size, NEW n \in 1 .. size, m < n
       PROVE  t[m] < t[n]
  <2>1. n # 1 /\ n - 1 \in 1 .. size - 1 /\ t[n] = s[n - 1] /\ s[n - 1] \in R
    BY <1>6, <1>9, <1>11
  <2>2. CASE m = 1
    <3>1. least <= s[n - 1] /\ least # s[n - 1] /\ s[n - 1] \in Nat /\ least \in Nat
      BY <2>1, <1>5
    <3> QED
      BY <2>1, <2>2, <3>1
  <2>3. CASE m # 1
    <3>1. m - 1 \in 1 .. size - 1 /\ m - 1 < n - 1 /\ t[m] = s[m - 1]
      BY <1>6, <1>11, <2>3
    <3> QED
      BY <2>1, <3>1, <1>9 DEF Ascending
  <2> QED
    BY <2>2, <2>3
<1>12. Ascending(t)
  <2>1. DOMAIN t = 1 .. size
    OBVIOUS
  <2> HIDE DEF t
  <2> QED
    BY <1>11, <2>1 DEF Ascending
<1> HIDE DEF t
<1> QED
  BY <1>3, <1>10, <1>12

(***************************************************************************)
(* What InIdOrder returns: a sequence of the ids, each of them once.       *)
(***************************************************************************)
LEMMA IdsInOrder ==
  ASSUME NEW ids, ids \subseteq Nat, IsFiniteSet(ids)
  PROVE  /\ Cardinality(ids) \in Nat
         /\ InIdOrder(ids) \in [1 .. Cardinality(ids) -> ids]
         /\ InIdOrder(ids) \in Seq(ids)
         /\ Ascending(InIdOrder(ids))
<1>1. InIdOrder(ids) \in [1 .. Cardinality(ids) -> ids] /\ Ascending(InIdOrder(ids))
  BY AscendingListing DEF InIdOrder
<1>2. Cardinality(ids) \in Nat
  BY FS_CardinalityType
<1> QED
  BY <1>1, <1>2, IsASeq

(***************************************************************************)
(* What a query maps row by row is a sequence, too.                        *)
(***************************************************************************)
LEMMA RowsInOrder ==
  ASSUME NEW ids, ids \subseteq Nat, IsFiniteSet(ids), NEW T,
         NEW f, f \in [ids -> T]
  PROVE  [n \in DOMAIN InIdOrder(ids) |-> f[InIdOrder(ids)[n]]] \in Seq(T)
<1> DEFINE s == InIdOrder(ids)
<1>1. Cardinality(ids) \in Nat /\ s \in [1 .. Cardinality(ids) -> ids]
  BY IdsInOrder
<1> HIDE DEF s
<1>2. [n \in DOMAIN s |-> f[s[n]]] \in [1 .. Cardinality(ids) -> T]
  BY <1>1
<1>3. [n \in DOMAIN s |-> f[s[n]]] \in Seq(T)
  BY <1>1, <1>2, IsASeq
<1> QED
  BY <1>3 DEF s

-----------------------------------------------------------------------------
(* Sums and movements *)

LEMMA LedgerSum ==
  ASSUME NEW f, NEW S
  PROVE  Ledger!SumFunctionOnSet(f, S) = SumFunctionOnSet(f, S)
  BY DEF Ledger!SumFunctionOnSet, Ledger!FoldFunctionOnSet, Ledger!MapThenFoldSet,
         SumFunctionOnSet, FoldFunctionOnSet, MapThenFoldSet

LEMMA PositionsFinite ==
  ASSUME NEW T, NEW s \in Seq(T), NEW S, S \subseteq DOMAIN s
  PROVE  IsFiniteSet(S) /\ S \subseteq Nat
<1>1. Len(s) \in Nat /\ DOMAIN s = 1 .. Len(s)
  BY LenProperties
<1>2. IsFiniteSet(1 .. Len(s))
  BY <1>1, FS_Interval
<1>3. IsFiniteSet(S)
  BY <1>1, <1>2, FS_Subset
<1> QED
  BY <1>1, <1>3

LEMMA NetOfRowsType ==
  ASSUME NEW rows \in Seq(MovementRow), NEW S, S \subseteq DOMAIN rows
  PROVE  Ledger!NetOfRows(rows, S) \in Int
<1> DEFINE f == [i \in DOMAIN rows |-> rows[i].delta]
<1>1. ASSUME NEW x \in S PROVE f[x] \in Int
  <2>1. rows[x] \in MovementRow
    BY ElementOfSeq, LenProperties
  <2>2. rows[x].delta \in Int
    BY <2>1 DEF MovementRow
  <2> QED
    BY <2>2
<1>2. IsFiniteSet(S)
  BY PositionsFinite
<1>3. SumFunctionOnSet(f, S) \in Int
  <2> HIDE DEF f
  <2> QED
    BY <1>1, <1>2, SumType
<1> QED
  BY <1>3, LedgerSum DEF Ledger!NetOfRows

LEMMA MovedType ==
  ASSUME NEW quantity \in [Products -> Int], NEW rows \in Seq(MovementRow)
  PROVE  Ledger!Moved(quantity, rows) \in [Products -> Int]
<1>1. \A p \in Products : Ledger!NetQty(p, rows) \in Int
  BY NetOfRowsType DEF Ledger!NetQty
<1> QED
  BY <1>1 DEF Ledger!Moved

LEMMA AppendedRows ==
  ASSUME NEW S, NEW old \in Seq(S), NEW new \in Seq(S)
  PROVE  /\ Len(old \o new) >= Len(old)
         /\ SubSeq(old \o new, 1, Len(old)) = old
         /\ SubSeq(old \o new, Len(old) + 1, Len(old \o new)) = new
<1> DEFINE all == old \o new
<1>1. /\ Len(old) \in Nat /\ Len(new) \in Nat
      /\ all \in Seq(S)
      /\ Len(all) = Len(old) + Len(new)
      /\ \A i \in 1 .. Len(old) : all[i] = old[i]
      /\ \A i \in 1 .. Len(new) : all[Len(old) + i] = new[i]
  BY ConcatProperties
<1> HIDE DEF all
<1>2. SubSeq(all, 1, Len(old)) = old
  BY <1>1
<1>3. SubSeq(all, Len(old) + 1, Len(all)) = new
  BY <1>1
<1> QED
  BY <1>1, <1>2, <1>3 DEF all

(***************************************************************************)
(* Recording rows keeps the types, and is a step of the ledger.            *)
(***************************************************************************)
LEMMA RecordingRows ==
  ASSUME StockType, NEW rows \in Seq(MovementRow), RecordMovements(rows)
  PROVE  /\ StockType'
         /\ Ledger!Record
<1>1. movements' = movements \o rows /\ onHand' = Ledger!Moved(onHand, rows)
  BY DEF RecordMovements
<1>2. movements' \in Seq(MovementRow)
  BY <1>1, ConcatProperties DEF StockType
<1>3. onHand' \in [Products -> Int]
  BY <1>1, MovedType DEF StockType
<1>4. /\ Len(movements') >= Len(movements)
      /\ SubSeq(movements', 1, Len(movements)) = movements
      /\ Ledger!Recorded = rows
  BY <1>1, AppendedRows DEF StockType, Ledger!Recorded
<1> QED
  BY <1>1, <1>2, <1>3, <1>4 DEF StockType, Ledger!Record

(***************************************************************************)
(* A step of the whole that concerns the stock: it records rows, or none.  *)
(***************************************************************************)
StockStep == NoMovement \/ \E rows \in Seq(MovementRow) : RecordMovements(rows)

(***************************************************************************)
(* The rows of counter sales, of purchases and of TikTok's orders are told *)
(* apart by what they refer to.                                            *)
(***************************************************************************)
CounterRow == {r \in MovementRow : r.reference = "in_house_sale"}

ArrivalRow == {r \in MovementRow : r.reference = "purchase_order"}

LineMovementRow ==
  {r \in MovementRow : r.reference \notin {"in_house_sale", "purchase_order"}}

CounterStep == NoMovement \/ \E rows \in Seq(CounterRow) : RecordMovements(rows)

ArrivalStep == NoMovement \/ \E rows \in Seq(ArrivalRow) : RecordMovements(rows)

LineStep == NoMovement \/ \E rows \in Seq(LineMovementRow) : RecordMovements(rows)

LEMMA SidesMoveStock == CounterStep \/ ArrivalStep \/ LineStep => StockStep
<1>1. CounterRow \subseteq MovementRow /\ ArrivalRow \subseteq MovementRow
      /\ LineMovementRow \subseteq MovementRow
  BY DEF CounterRow, ArrivalRow, LineMovementRow
<1>2. /\ \A rows \in Seq(CounterRow) : rows \in Seq(MovementRow)
      /\ \A rows \in Seq(ArrivalRow) : rows \in Seq(MovementRow)
      /\ \A rows \in Seq(LineMovementRow) : rows \in Seq(MovementRow)
  BY <1>1, SeqMonotonic
<1> QED
  BY <1>2 DEF CounterStep, ArrivalStep, LineStep, StockStep

LEMMA StockStepIsLedgerStep ==
  ASSUME StockType, StockStep
  PROVE  StockType' /\ [Ledger!Record]_(Ledger!ledgerVars)
<1>1. CASE NoMovement
  BY <1>1 DEF NoMovement, StockType, Ledger!ledgerVars
<1>2. CASE \E rows \in Seq(MovementRow) : RecordMovements(rows)
  BY <1>2, RecordingRows
<1> QED
  BY <1>1, <1>2 DEF StockStep

LEMMA SameLength ==
  ASSUME NEW S, NEW T, NEW s \in Seq(S), NEW t \in [DOMAIN s -> T]
  PROVE  t \in Seq(T) /\ Len(t) = Len(s) /\ DOMAIN t = DOMAIN s
<1>1. Len(s) \in Nat /\ DOMAIN s = 1 .. Len(s)
  BY LenProperties
<1>2. t \in Seq(T)
  BY <1>1, IsASeq
<1>3. Len(t) = Len(s)
  BY <1>1, <1>2, LenProperties
<1> QED
  BY <1>2, <1>3

LEMMA LongerThan ==
  ASSUME NEW S, NEW s \in Seq(S), NEW t \in Seq(S)
  PROVE  s \o t \in Seq(S) /\ DOMAIN s \subseteq DOMAIN (s \o t)
  BY ConcatProperties, LenProperties

LEMMA OneLonger ==
  ASSUME NEW S, NEW s \in Seq(S), NEW e \in S
  PROVE  /\ Append(s, e) \in Seq(S)
         /\ DOMAIN s \subseteq DOMAIN Append(s, e)
         /\ Len(s) + 1 \in DOMAIN Append(s, e)
  BY AppendProperties, LenProperties

-----------------------------------------------------------------------------
(* The types of the counter sales *)

LEMMA DeskSet ==
  ASSUME PosTypeOK, NEW h \in Clerks, NEW d, IsDesk(d),
         clerk' = [clerk EXCEPT ![h] = d],
         DOMAIN d.rows \subseteq DOMAIN invoiceLines',
         d.step # "idle" => d.order \in DOMAIN invoices',
         invoices' \in Seq(InvoiceRow), DOMAIN invoices \subseteq DOMAIN invoices',
         invoiceLines' \in Seq(InvoiceLineRow),
         DOMAIN invoiceLines \subseteq DOMAIN invoiceLines',
         sales' \in Seq(SaleRow)
  PROVE  PosTypeOK'
<1>1. DOMAIN clerk' = Clerks
  BY DEF PosTypeOK
<1>2. ASSUME NEW k \in Clerks
      PROVE  /\ IsDesk(clerk'[k])
             /\ DOMAIN clerk'[k].rows \subseteq DOMAIN invoiceLines'
             /\ clerk'[k].step # "idle" => clerk'[k].order \in DOMAIN invoices'
  <2>1. CASE k = h
    <3>1. clerk'[k] = d
      BY <2>1 DEF PosTypeOK
    <3> QED
      BY <3>1
  <2>2. CASE k # h
    <3>1. clerk'[k] = clerk[k]
      BY <2>2 DEF PosTypeOK
    <3> QED
      BY <3>1 DEF PosTypeOK
  <2> QED
    BY <2>1, <2>2
<1> QED
  BY <1>1, <1>2 DEF PosTypeOK

LEMMA IdleDesk == IsDesk(Idle) /\ DOMAIN Idle.rows = {} /\ Idle.step = "idle"
  BY DEF IsDesk, Idle, InvoiceRow, Statuses, NoId

LEMMA Answered ==
  ASSUME PosTypeOK, NEW h \in Clerks, Answer(h),
         invoices' \in Seq(InvoiceRow), DOMAIN invoices \subseteq DOMAIN invoices',
         invoiceLines' \in Seq(InvoiceLineRow),
         DOMAIN invoiceLines \subseteq DOMAIN invoiceLines',
         sales' \in Seq(SaleRow)
  PROVE  PosTypeOK'
<1> DEFINE d == Idle
<1>1. IsDesk(d) /\ DOMAIN d.rows = {} /\ d.step = "idle"
  BY IdleDesk
<1>2. clerk' = [clerk EXCEPT ![h] = d]
  BY DEF Answer
<1> HIDE DEF d
<1> QED
  BY <1>1, <1>2, DeskSet

(***************************************************************************)
(* A request is a desk that has read nothing.                              *)
(***************************************************************************)
IsRequest(r) ==
  /\ IsDesk(r)
  /\ r.step = "order" /\ r.order \in DOMAIN invoices /\ DOMAIN r.rows = {}
  /\ r.rows = << >> /\ r.match = << >>

LEMMA StatusRequested ==
  ASSUME PosTypeOK, NEW op \in {"update", "split", "merge", "approve", "reject", "cancel"},
         NEW o \in DOMAIN invoices
  PROVE  IsRequest(On(op, o)) /\ On(op, o).qtys = << >> /\ On(op, o).added = << >>
<1>1. o \in Nat
  BY LenProperties DEF PosTypeOK
<1> DEFINE i == Idle
           d == [i EXCEPT !.step = "order", !.op = op, !.order = o]
<1>2. IsDesk(i) /\ DOMAIN i.rows = {}
  BY IdleDesk
<1>3. i.rows = << >> /\ i.match = << >> /\ i.qtys = << >> /\ i.added = << >>
  BY DEF Idle
<1>4. On(op, o) = d
  BY DEF On
<1> HIDE DEF i
<1> QED
  BY <1>1, <1>2, <1>3, <1>4 DEF IsRequest, IsDesk

LEMMA Edited ==
  ASSUME PosTypeOK, NEW op \in {"update", "split"}, NEW o \in DOMAIN invoices,
         NEW q, q \in [DOMAIN q -> SoldQty], DOMAIN q \subseteq Nat, NEW a \in Seq(Item)
  PROVE  IsRequest(Edit(op, o, q, a))
<1> DEFINE d == On(op, o)
<1>1. IsRequest(d)
  BY StatusRequested
<1>2. Edit(op, o, q, a) = [d EXCEPT !.qtys = q, !.added = a]
  BY DEF Edit
<1> HIDE DEF d
<1> QED
  BY <1>1, <1>2 DEF IsRequest, IsDesk

LEMMA Requested ==
  ASSUME PosTypeOK, NEW r \in EditRequests \cup StatusRequests
  PROVE  IsRequest(r)
<1>1. ASSUME NEW o \in DOMAIN invoices, NEW q \in Functions(LinesOf(o), SoldQty)
      PROVE  q \in [DOMAIN q -> SoldQty] /\ DOMAIN q \subseteq Nat
  <2>1. LinesOf(o) \subseteq Nat
    BY LenProperties DEF PosTypeOK, LinesOf
  <2> QED
    BY <2>1 DEF Functions
<1>2. CASE r \in UpdateRequests
  <2> DEFINE Updates(o) ==
               {Edit("update", o, q, a) :
                  q \in Functions(LinesOf(o), SoldQty), a \in Carts \cup {<< >>}}
  <2>0. r \in UNION {Updates(o) : o \in DOMAIN invoices}
    BY <1>2 DEF UpdateRequests
  <2> HIDE DEF Updates
  <2>1. PICK o \in DOMAIN invoices : r \in Updates(o)
    BY <2>0
  <2> USE DEF Updates
  <2>2. PICK q \in Functions(LinesOf(o), SoldQty), a \in Carts \cup {<< >>} :
          r = Edit("update", o, q, a)
    BY <2>1
  <2>3. a \in Seq(Item)
    BY PosConstants, EmptySeq
  <2> QED
    BY <1>1, <2>2, <2>3, Edited
<1>3. CASE r \in SplitRequests
  <2>1. PICK o \in DOMAIN invoices :
          \E q \in Functions(LinesOf(o), SoldQty) : r = Edit("split", o, q, << >>)
    BY <1>3 DEF SplitRequests
  <2>2. PICK q \in Functions(LinesOf(o), SoldQty) : r = Edit("split", o, q, << >>)
    BY <2>1
  <2> QED
    BY <1>1, <2>2, Edited, EmptySeq
<1>4. CASE r \in MergeRequests
  <2>1. PICK o \in DOMAIN invoices, t \in DOMAIN invoices :
          r = [On("merge", o) EXCEPT !.target = t]
    BY <1>4 DEF MergeRequests
  <2>2. t \in Nat
    BY LenProperties DEF PosTypeOK
  <2> DEFINE d == On("merge", o)
  <2>3. IsRequest(d)
    BY StatusRequested
  <2> HIDE DEF d
  <2>4. r = [d EXCEPT !.target = t]
    BY <2>1 DEF d
  <2> QED
    BY <2>2, <2>3, <2>4 DEF IsRequest, IsDesk
<1>5. CASE r \in StatusRequests
  BY <1>5, StatusRequested DEF StatusRequests
<1> QED
  BY <1>2, <1>3, <1>4, <1>5 DEF EditRequests

(***************************************************************************)
(* A desk that has read its invoice.                                       *)
(***************************************************************************)
LEMMA InvoiceRead ==
  ASSUME PosTypeOK, NEW r, IsDesk(r), r.order \in DOMAIN invoices
  PROVE  /\ IsDesk(ReadBy(r))
         /\ ReadBy(r).order = r.order /\ ReadBy(r).rows = r.rows
<1>1. invoices[r.order] \in InvoiceRow
  BY ElementOfSeq, LenProperties DEF PosTypeOK
<1> DEFINE row == invoices[r.order]
           step == IF r.op \in {"reject", "cancel"} THEN "write" ELSE "lines"
<1>2. ReadBy(r) = [r EXCEPT !.row = row, !.step = step]
  BY DEF ReadBy
<1>3. step \in {"write", "lines"}
  OBVIOUS
<1> HIDE DEF row, step
<1> QED
  BY <1>1, <1>2, <1>3 DEF IsDesk, row

LEMMA RequestTypes ==
  ASSUME PosTypeOK, NEW h \in Clerks,
         StaffRequest(h) \/ GuestRequest(h) \/ ReadOrder(h)
  PROVE  PosTypeOK' /\ NoMovement
<1>1. /\ invoices' = invoices /\ invoiceLines' = invoiceLines /\ sales' = sales
      /\ NoMovement
  BY DEF StaffRequest, GuestRequest, ReadOrder, posTables
<1>2. /\ invoices' \in Seq(InvoiceRow) /\ DOMAIN invoices \subseteq DOMAIN invoices'
      /\ invoiceLines' \in Seq(InvoiceLineRow)
      /\ DOMAIN invoiceLines \subseteq DOMAIN invoiceLines'
      /\ sales' \in Seq(SaleRow)
  BY <1>1 DEF PosTypeOK
<1>3. CASE StaffRequest(h)
  <2>1. PICK r \in EditRequests \cup StatusRequests :
          clerk' = [clerk EXCEPT ![h] = ReadBy(r)]
    BY <1>3 DEF StaffRequest
  <2>2. IsRequest(r)
    BY <2>1, Requested
  <2> DEFINE d == ReadBy(r)
  <2>3. IsDesk(d) /\ d.order \in DOMAIN invoices /\ DOMAIN d.rows = {}
    BY <2>2, InvoiceRead DEF IsRequest
  <2> HIDE DEF d
  <2>4. clerk' = [clerk EXCEPT ![h] = d]
    BY <2>1 DEF d
  <2> QED
    BY <1>1, <1>2, <2>3, <2>4, DeskSet
<1>4. CASE GuestRequest(h)
  <2>1. PICK r \in EditRequests : clerk' = [clerk EXCEPT ![h] = r]
    BY <1>4 DEF GuestRequest
  <2>2. IsRequest(r)
    BY <2>1, Requested
  <2> QED
    BY <1>1, <1>2, <2>1, <2>2, DeskSet DEF IsRequest
<1>5. CASE ReadOrder(h)
  <2>1. CASE Answer(h)
    BY <1>1, <1>2, <2>1, Answered
  <2>2. CASE clerk' = [clerk EXCEPT ![h] = ReadBy(clerk[h])]
    <3> DEFINE r == clerk[h]
               d == ReadBy(r)
    <3>1. IsDesk(r) /\ r.order \in DOMAIN invoices /\ DOMAIN r.rows \subseteq DOMAIN invoiceLines
      BY <1>5 DEF ReadOrder, PosTypeOK
    <3> HIDE DEF r
    <3>2. IsDesk(d) /\ d.order = r.order /\ d.rows = r.rows
      BY <3>1, InvoiceRead
    <3> HIDE DEF d
    <3>3. clerk' = [clerk EXCEPT ![h] = d]
      BY <2>2 DEF d, r
    <3> QED
      BY <1>1, <1>2, <3>1, <3>2, <3>3, DeskSet
  <2> QED
    BY <1>5, <2>1, <2>2 DEF ReadOrder
<1> QED
  BY <1>1, <1>3, <1>4, <1>5

(***************************************************************************)
(* The lines of an invoice, and the sales matched to them.                 *)
(***************************************************************************)
LEMMA LinesRead ==
  ASSUME PosTypeOK, NEW o
  PROVE  /\ DOMAIN LineRowsOf(o) = LinesOf(o)
         /\ LineRowsOf(o) \in [LinesOf(o) -> LineRead]
         /\ LinesOf(o) \subseteq DOMAIN invoiceLines
<1>1. ASSUME NEW l \in LinesOf(o)
      PROVE  [product |-> invoiceLines[l].product, qty |-> invoiceLines[l].qty] \in LineRead
  <2>1. invoiceLines[l] \in InvoiceLineRow
    BY ElementOfSeq, LenProperties DEF PosTypeOK, LinesOf
  <2> QED
    BY <2>1 DEF InvoiceLineRow, LineRead
<1> QED
  BY <1>1 DEF LineRowsOf, LinesOf

LEMMA SalesMatched ==
  ASSUME PosTypeOK, NEW o, NEW rows, NEW lines, NEW f \in Matches(o, rows, lines)
  PROVE  f \in [lines -> Nat]
<1>1. f \in [lines -> SalesNaming(o) \cup {NoId}]
  BY DEF Matches
<1>2. SalesNaming(o) \cup {NoId} \subseteq Nat
  BY LenProperties DEF PosTypeOK, SalesNaming, NoId
<1> QED
  BY <1>1, <1>2

LEMMA ReadLinesTypes ==
  ASSUME PosTypeOK, NEW h \in Clerks, ReadLines(h)
  PROVE  PosTypeOK' /\ NoMovement
<1>1. /\ invoices' = invoices /\ invoiceLines' = invoiceLines /\ sales' = sales
      /\ NoMovement
  BY DEF ReadLines, posTables
<1>2. /\ invoices' \in Seq(InvoiceRow) /\ DOMAIN invoices \subseteq DOMAIN invoices'
      /\ invoiceLines' \in Seq(InvoiceLineRow)
      /\ DOMAIN invoiceLines \subseteq DOMAIN invoiceLines'
      /\ sales' \in Seq(SaleRow)
  BY <1>1 DEF PosTypeOK
<1> DEFINE r == clerk[h]
           rows == LineRowsOf(r.order)
<1>3. IsDesk(r) /\ r.order \in DOMAIN invoices
  BY DEF ReadLines, PosTypeOK
<1>4. rows \in [DOMAIN rows -> LineRead] /\ DOMAIN rows \subseteq DOMAIN invoiceLines
  BY LinesRead
<1>5. PICK match \in IF r.op \in {"update", "split"} /\ r.row.status = "approved"
                       THEN Matches(r.order, rows, MatchedLines(r, rows))
                       ELSE {<< >>} :
        IF Rejected(r, rows, match)
          THEN Answer(h)
          ELSE clerk' = [clerk EXCEPT ![h] =
                           [r EXCEPT !.step = "write", !.rows = rows, !.match = match]]
  BY DEF ReadLines
<1>6. CASE Rejected(r, rows, match)
  BY <1>1, <1>2, <1>5, <1>6, Answered
<1>7. CASE ~Rejected(r, rows, match)
  <2> DEFINE d == [r EXCEPT !.step = "write", !.rows = rows, !.match = match]
  <2>1. /\ match \in [DOMAIN match -> Nat]
        /\ DOMAIN match \subseteq DOMAIN rows \cap DOMAIN r.qtys
    <3>1. CASE r.op \in {"update", "split"} /\ r.row.status = "approved"
      <4>1. match \in [MatchedLines(r, rows) -> Nat]
        BY <1>5, <3>1, SalesMatched
      <4>2. MatchedLines(r, rows) \subseteq DOMAIN rows \cap DOMAIN r.qtys
        BY <1>7, <3>1 DEF MatchedLines, Selected, Rejected
      <4> QED
        BY <4>1, <4>2
    <3>2. CASE ~(r.op \in {"update", "split"} /\ r.row.status = "approved")
      <4>1. match = << >>
        BY <1>5, <3>2
      <4>2. DOMAIN match = {} /\ match \in [{} -> Nat]
        BY <4>1
      <4> QED
        BY <4>2
    <3> QED
      BY <3>1, <3>2
  <2>2. clerk' = [clerk EXCEPT ![h] = d]
    BY <1>5, <1>7
  <2>3. d.rows = rows /\ d.order = r.order
    BY <1>3 DEF IsDesk
  <2> HIDE DEF rows, r
  <2>4. IsDesk(d)
    <3>1. IsDesk(r) /\ rows \in [DOMAIN rows -> LineRead]
      BY <1>3, <1>4
    <3>2. /\ d.step = "write" /\ d.op = r.op /\ d.order = r.order
          /\ d.target = r.target /\ d.qtys = r.qtys /\ d.added = r.added
          /\ d.row = r.row /\ d.rows = rows /\ d.match = match
      BY <3>1 DEF IsDesk
    <3>3. DOMAIN d = DOMAIN r
      OBVIOUS
    <3> HIDE DEF d
    <3> QED
      BY <2>1, <3>1, <3>2, <3>3 DEF IsDesk
  <2> HIDE DEF d
  <2>5. DOMAIN d.rows \subseteq DOMAIN invoiceLines' /\ d.order \in DOMAIN invoices'
    BY <1>1, <1>3, <1>4, <2>3
  <2> QED
    BY <1>1, <1>2, <2>2, <2>4, <2>5, DeskSet
<1> QED
  BY <1>1, <1>6, <1>7

LEMMA SoldIsPositive == \A q \in SoldQty : q \in Int /\ q \in Nat /\ q > 0
  BY PosConstants

LEMMA NewLinesType ==
  ASSUME NEW o \in Nat, NEW items \in Seq(Item)
  PROVE  NewLines(o, items) \in Seq(InvoiceLineRow)
<1>1. ASSUME NEW n \in DOMAIN items
      PROVE  [order |-> o, product |-> items[n].product, qty |-> items[n].qty]
               \in InvoiceLineRow
  <2>1. items[n] \in Item
    BY ElementOfSeq, LenProperties
  <2>2. items[n].product \in Products /\ items[n].qty \in SoldQty
    BY <2>1 DEF Item
  <2>3. items[n].qty \in Int
    BY <2>2, SoldIsPositive
  <2> QED
    BY <2>2, <2>3 DEF InvoiceLineRow
<1> DEFINE t == [n \in DOMAIN items |-> [order |-> o, product |-> items[n].product,
                                         qty |-> items[n].qty]]
<1>2. t \in [DOMAIN items -> InvoiceLineRow]
  BY <1>1
<1>3. NewLines(o, items) = t
  BY DEF NewLines, MapSeq
<1> HIDE DEF t
<1> QED
  BY <1>2, <1>3, SameLength

LEMMA CreateInvoiceTypes ==
  ASSUME PosTypeOK, NEW h \in Clerks, CreateInvoice(h)
  PROVE  PosTypeOK' /\ NoMovement
<1> DEFINE o == Len(invoices) + 1
           row == [status |-> "pending_approval", notes |-> {}]
<1>1. PICK cart \in Carts, approve \in BOOLEAN :
        /\ invoices' = Append(invoices, row)
        /\ invoiceLines' = invoiceLines \o NewLines(o, cart)
        /\ IF approve THEN clerk' = [clerk EXCEPT ![h] = On("approve", o)]
           ELSE Answer(h)
  BY DEF CreateInvoice
<1>2. NoMovement /\ sales' = sales
  BY DEF CreateInvoice
<1>3. row \in InvoiceRow
  BY DEF InvoiceRow, Statuses
<1> HIDE DEF row
<1>4. /\ invoices' \in Seq(InvoiceRow) /\ DOMAIN invoices \subseteq DOMAIN invoices'
      /\ o \in DOMAIN invoices' /\ o \in Nat
  BY <1>1, <1>3, OneLonger, LenProperties DEF PosTypeOK
<1>5. NewLines(o, cart) \in Seq(InvoiceLineRow)
  BY <1>4, NewLinesType, PosConstants
<1>6. /\ invoiceLines' \in Seq(InvoiceLineRow)
      /\ DOMAIN invoiceLines \subseteq DOMAIN invoiceLines'
  BY <1>1, <1>5, LongerThan DEF PosTypeOK
<1>7. sales' \in Seq(SaleRow)
  BY <1>2 DEF PosTypeOK
<1>8. CASE approve
  <2> DEFINE i == Idle
             d == [i EXCEPT !.step = "order", !.op = "approve", !.order = o]
  <2>1. IsDesk(i) /\ DOMAIN i.rows = {}
    BY IdleDesk
  <2>2. clerk' = [clerk EXCEPT ![h] = d]
    BY <1>1, <1>8 DEF On
  <2> HIDE DEF i, o
  <2>3. o \in Nat
    BY <1>4
  <2>4. d.rows = i.rows /\ d.order = o
    BY <2>1 DEF IsDesk
  <2>5. IsDesk(d)
    BY <2>1, <2>3 DEF IsDesk
  <2> HIDE DEF d
  <2> QED
    BY <1>2, <1>4, <1>6, <1>7, <2>1, <2>2, <2>4, <2>5, DeskSet
<1>9. CASE ~approve
  BY <1>1, <1>2, <1>4, <1>6, <1>7, <1>9, Answered
<1> QED
  BY <1>8, <1>9

(***************************************************************************)
(* What a desk at its writes has read.                                     *)
(***************************************************************************)
LEMMA AtDesk ==
  ASSUME PosTypeOK, NEW h \in Clerks
  PROVE  /\ IsDesk(clerk[h])
         /\ DOMAIN clerk[h].rows \subseteq Nat
         /\ IsFiniteSet(DOMAIN clerk[h].rows)
         /\ clerk[h].step # "idle" =>
              clerk[h].order \in DOMAIN invoices /\ clerk[h].order \in Nat
         /\ \A l \in DOMAIN clerk[h].rows :
              clerk[h].rows[l].product \in Products /\ clerk[h].rows[l].qty \in Int
<1>1. IsDesk(clerk[h]) /\ DOMAIN clerk[h].rows \subseteq DOMAIN invoiceLines
  BY DEF PosTypeOK
<1>2. clerk[h].rows \in [DOMAIN clerk[h].rows -> LineRead]
  BY <1>1 DEF IsDesk
<1>3. \A l \in DOMAIN clerk[h].rows :
        clerk[h].rows[l].product \in Products /\ clerk[h].rows[l].qty \in Int
  BY <1>2 DEF LineRead
<1>4. invoiceLines \in Seq(InvoiceLineRow)
  BY DEF PosTypeOK
<1>5. DOMAIN clerk[h].rows \subseteq Nat /\ IsFiniteSet(DOMAIN clerk[h].rows)
  BY <1>1, <1>4, PositionsFinite
<1>6. clerk[h].step # "idle" => clerk[h].order \in DOMAIN invoices
  BY DEF PosTypeOK
<1>7. clerk[h].order \in Nat
  BY <1>1 DEF IsDesk
<1> QED
  BY <1>1, <1>3, <1>5, <1>6, <1>7

LEMMA SaleMovementType ==
  ASSUME NEW s \in Nat, NEW p \in Products, NEW delta \in Int
  PROVE  SaleMovement(s, p, delta) \in CounterRow
  BY DEF SaleMovement, MovementRow, CounterRow

LEMMA SellAtCounterTypes ==
  ASSUME PosTypeOK, NEW h \in Clerks, SellAtCounter(h)
  PROVE  PosTypeOK' /\ CounterStep
<1>1. PICK cart \in Carts :
        /\ sales' = Append(sales, [order |-> NoId, line |-> NoId,
                                   product |-> Head(cart).product,
                                   qty |-> Head(cart).qty, notes |-> {}])
        /\ RecordMovements(<<SaleMovement(Len(sales'), Head(cart).product,
                                          -Head(cart).qty)>>)
  BY DEF SellAtCounter
<1> DEFINE i == Head(cart)
           sale == [order |-> NoId, line |-> NoId, product |-> i.product,
                    qty |-> i.qty, notes |-> {}]
           row == SaleMovement(Len(sales'), i.product, -i.qty)
<1>2. i \in Item
  <2>1. cart \in Seq(Item) /\ cart # << >>
    BY PosConstants
  <2> QED
    BY <2>1, HeadTailProperties
<1>3. i.product \in Products /\ i.qty \in SoldQty
  BY <1>2 DEF Item
<1>4. i.qty \in Int /\ -i.qty \in Int
  BY <1>3, SoldIsPositive
<1>5. sale \in SaleRow
  BY <1>3, <1>4 DEF SaleRow, NoId
<1>6. sales' = Append(sales, sale) /\ RecordMovements(<<row>>)
  BY <1>1
<1> HIDE DEF sale
<1>7. sales' \in Seq(SaleRow) /\ Len(sales') \in Nat
  BY <1>5, <1>6, OneLonger, LenProperties DEF PosTypeOK
<1> HIDE DEF i
<1>8. row \in CounterRow
  BY <1>3, <1>4, <1>7, SaleMovementType
<1> HIDE DEF row
<1>9. <<row>> \in Seq(CounterRow)
  BY <1>8
<1>10. CounterStep
  BY <1>6, <1>9 DEF CounterStep
<1>11. invoices' = invoices /\ invoiceLines' = invoiceLines /\ clerk' = clerk
  BY DEF SellAtCounter
<1>12. PosTypeOK'
  BY <1>7, <1>11 DEF PosTypeOK
<1> QED
  BY <1>10, <1>12

LEMMA InvoiceStatusSet ==
  ASSUME PosTypeOK, NEW o \in DOMAIN invoices, NEW status \in Statuses,
         invoices' = [invoices EXCEPT ![o].status = status]
  PROVE  invoices' \in Seq(InvoiceRow) /\ DOMAIN invoices' = DOMAIN invoices
<1>1. invoices \in [DOMAIN invoices -> InvoiceRow]
  BY ElementOfSeq, LenProperties DEF PosTypeOK
<1>2. invoices' \in [DOMAIN invoices -> InvoiceRow]
  BY <1>1 DEF InvoiceRow
<1> QED
  BY <1>2, SameLength DEF PosTypeOK

(***************************************************************************)
(* The movements and sales of an approval, line by line.                   *)
(***************************************************************************)
LEMMA ApproveTypes ==
  ASSUME PosTypeOK, NEW h \in Clerks, ApproveInvoice(h)
  PROVE  PosTypeOK' /\ CounterStep
<1> DEFINE r == clerk[h]
           ids == InIdOrder(DOMAIN r.rows)
           sold(l) == [order |-> r.order, line |-> l, product |-> r.rows[l].product,
                       qty |-> r.rows[l].qty, notes |-> r.row.notes \cup {r.order}]
           newSales == [n \in DOMAIN ids |-> sold(ids[n])]
           moves == [n \in DOMAIN ids |->
                       SaleMovement(Len(sales) + n, r.rows[ids[n]].product,
                                    -r.rows[ids[n]].qty)]
<1>1. /\ r.step = "write" /\ sales' = sales \o newSales /\ RecordMovements(moves)
      /\ invoices' = [invoices EXCEPT ![r.order].status = "approved"]
      /\ Answer(h) /\ invoiceLines' = invoiceLines
  BY ZenonT(60) DEF ApproveInvoice, MapSeq, SetStatus
<1>2. /\ IsDesk(r) /\ DOMAIN r.rows \subseteq Nat /\ IsFiniteSet(DOMAIN r.rows)
      /\ r.order \in DOMAIN invoices /\ r.order \in Nat
      /\ \A l \in DOMAIN r.rows : r.rows[l].product \in Products /\ r.rows[l].qty \in Int
  BY <1>1, AtDesk
<1>3. /\ Cardinality(DOMAIN r.rows) \in Nat
      /\ ids \in [1 .. Cardinality(DOMAIN r.rows) -> DOMAIN r.rows]
  BY <1>2, IdsInOrder
<1>4. r.row.notes \subseteq Nat
  BY <1>2 DEF IsDesk, InvoiceRow
<1> HIDE DEF ids
<1>5. newSales \in [1 .. Cardinality(DOMAIN r.rows) -> SaleRow]
  BY <1>2, <1>3, <1>4 DEF SaleRow
<1>6. newSales \in Seq(SaleRow)
  BY <1>3, <1>5, IsASeq
<1>7. Len(sales) \in Nat
  BY LenProperties DEF PosTypeOK
<1>8. moves \in [1 .. Cardinality(DOMAIN r.rows) -> CounterRow]
  <2>1. ASSUME NEW n \in 1 .. Cardinality(DOMAIN r.rows)
        PROVE  SaleMovement(Len(sales) + n, r.rows[ids[n]].product, -r.rows[ids[n]].qty)
                 \in CounterRow
    <3>1. Len(sales) + n \in Nat /\ ids[n] \in DOMAIN r.rows
      BY <1>3, <1>7
    <3>2. r.rows[ids[n]].product \in Products /\ -r.rows[ids[n]].qty \in Int
      BY <1>2, <3>1, SMTT(40)
    <3> QED
      BY <3>1, <3>2, SaleMovementType
  <2> QED
    BY <1>3, <2>1
<1>9. moves \in Seq(CounterRow)
  BY <1>3, <1>8, IsASeq
<1>10. CounterStep
  BY <1>1, <1>9 DEF CounterStep
<1> HIDE DEF newSales, moves
<1>11. sales' \in Seq(SaleRow)
  BY <1>1, <1>6, LongerThan DEF PosTypeOK
<1>12. invoices' \in Seq(InvoiceRow) /\ DOMAIN invoices' = DOMAIN invoices
  <2>1. "approved" \in Statuses
    BY DEF Statuses
  <2> QED
    BY <1>1, <1>2, <2>1, InvoiceStatusSet
<1>13. invoiceLines' \in Seq(InvoiceLineRow) /\ DOMAIN invoiceLines' = DOMAIN invoiceLines
  BY <1>1 DEF PosTypeOK
<1>14. PosTypeOK'
  BY <1>1, <1>11, <1>12, <1>13, Answered
<1> QED
  BY <1>10, <1>14, SMTT(40)

LEMMA StatusTypes ==
  ASSUME PosTypeOK, NEW h \in Clerks, RejectInvoice(h) \/ CancelInvoice(h)
  PROVE  PosTypeOK' /\ NoMovement
<1>1. PICK status \in {"rejected", "cancelled"} :
        invoices' = [invoices EXCEPT ![clerk[h].order].status = status]
  BY DEF RejectInvoice, CancelInvoice, SetStatus
<1>2. /\ clerk[h].step = "write" /\ Answer(h) /\ NoMovement
      /\ invoiceLines' = invoiceLines /\ sales' = sales
  BY DEF RejectInvoice, CancelInvoice
<1>3. clerk[h].order \in DOMAIN invoices
  BY <1>2, AtDesk
<1>4. status \in Statuses
  BY DEF Statuses
<1>5. invoices' \in Seq(InvoiceRow) /\ DOMAIN invoices' = DOMAIN invoices
  BY <1>1, <1>3, <1>4, InvoiceStatusSet
<1>6. /\ invoiceLines' \in Seq(InvoiceLineRow)
      /\ DOMAIN invoiceLines' = DOMAIN invoiceLines /\ sales' \in Seq(SaleRow)
  BY <1>2 DEF PosTypeOK
<1> QED
  BY <1>2, <1>5, <1>6, Answered

LEMMA PosFailTypes ==
  ASSUME PosTypeOK, NEW h \in Clerks, PosFail(h)
  PROVE  PosTypeOK' /\ NoMovement
<1>1. /\ Answer(h) /\ NoMovement /\ invoices' = invoices
      /\ invoiceLines' = invoiceLines /\ sales' = sales
  BY DEF PosFail, posTables
<1>2. /\ invoices' \in Seq(InvoiceRow) /\ DOMAIN invoices' = DOMAIN invoices
      /\ invoiceLines' \in Seq(InvoiceLineRow)
      /\ DOMAIN invoiceLines' = DOMAIN invoiceLines /\ sales' \in Seq(SaleRow)
  BY <1>1 DEF PosTypeOK
<1> QED
  BY <1>1, <1>2, Answered

(***************************************************************************)
(* The rows of the two tables.                                             *)
(***************************************************************************)
LEMMA PosRows ==
  ASSUME PosTypeOK
  PROVE  /\ \A l \in DOMAIN invoiceLines :
              /\ invoiceLines[l] \in InvoiceLineRow /\ l \in Nat
         /\ \A s \in DOMAIN sales : sales[s] \in SaleRow
         /\ \A o \in DOMAIN invoices : invoices[o] \in InvoiceRow
  BY ElementOfSeq, LenProperties DEF PosTypeOK

LEMMA QuantityAsked ==
  ASSUME NEW r, IsDesk(r), NEW l \in DOMAIN r.qtys
  PROVE  r.qtys[l] \in Int /\ r.qtys[l] \in Nat /\ r.qtys[l] > 0
<1>1. r.qtys[l] \in SoldQty
  BY DEF IsDesk
<1> QED
  BY <1>1, SoldIsPositive

LEMMA MatchedSale ==
  ASSUME NEW r, IsDesk(r), NEW s, IsMatched(r, s)
  PROVE  /\ LineMatched(r, s) \in DOMAIN r.match /\ r.match[LineMatched(r, s)] = s
         /\ LineMatched(r, s) \in DOMAIN r.rows /\ LineMatched(r, s) \in DOMAIN r.qtys
         /\ LineMatched(r, s) \in Nat
<1>1. LineMatched(r, s) \in DOMAIN r.match /\ r.match[LineMatched(r, s)] = s
  BY DEF IsMatched, LineMatched
<1>2. DOMAIN r.match \subseteq DOMAIN r.rows \cap DOMAIN r.qtys /\ DOMAIN r.qtys \subseteq Nat
  BY DEF IsDesk
<1> QED
  BY <1>1, <1>2

LEMMA UpdateTypes ==
  ASSUME PosTypeOK, NEW h \in Clerks, UpdateInvoice(h)
  PROVE  PosTypeOK' /\ CounterStep
<1> DEFINE r == clerk[h]
           lines == [l \in DOMAIN invoiceLines |-> EditedLine(r, l)]
           edited == [s \in DOMAIN sales |-> EditedSale(r, s)]
           moved == {l \in DOMAIN r.match : r.qtys[l] # r.rows[l].qty}
           move == [l \in moved |->
                      SaleMovement(r.match[l], r.rows[l].product,
                                   r.rows[l].qty - r.qtys[l])]
<1>1. /\ r.step = "write" /\ invoiceLines' = lines \o NewLines(r.order, r.added)
      /\ sales' = edited /\ RecordMovements(Corrections(r))
      /\ invoices' = invoices /\ Answer(h)
  BY DEF UpdateInvoice
<1>2. /\ IsDesk(r) /\ DOMAIN r.rows \subseteq Nat /\ IsFiniteSet(DOMAIN r.rows)
      /\ r.order \in Nat
      /\ \A l \in DOMAIN r.rows : r.rows[l].product \in Products /\ r.rows[l].qty \in Int
  BY <1>1, AtDesk
<1> HIDE DEF r
<1>3. lines \in [DOMAIN invoiceLines -> InvoiceLineRow]
  <2>1. ASSUME NEW l \in DOMAIN invoiceLines
        PROVE  EditedLine(r, l) \in InvoiceLineRow
    <3>1. invoiceLines[l] \in InvoiceLineRow
      BY PosRows
    <3>2. CASE l \in DOMAIN r.rows \ DOMAIN r.qtys
      <4>1. EditedLine(r, l) = [invoiceLines[l] EXCEPT !.order = NoId]
        BY <3>2 DEF EditedLine, Selected
      <4> QED
        BY <3>1, <4>1 DEF InvoiceLineRow, NoId
    <3>3. CASE l \in Selected(r, r.rows)
      <4>1. EditedLine(r, l) = [invoiceLines[l] EXCEPT !.qty = r.qtys[l]]
        BY <3>3 DEF EditedLine, Selected
      <4>2. r.qtys[l] \in Int
        BY <1>2, <3>3, QuantityAsked DEF Selected
      <4> QED
        BY <3>1, <4>1, <4>2 DEF InvoiceLineRow
    <3>4. CASE l \notin DOMAIN r.rows \ DOMAIN r.qtys /\ l \notin Selected(r, r.rows)
      BY <3>1, <3>4 DEF EditedLine
    <3> QED
      BY <3>2, <3>3, <3>4
  <2> QED
    BY <2>1
<1>4. edited \in [DOMAIN sales -> SaleRow]
  <2>1. ASSUME NEW s \in DOMAIN sales
        PROVE  EditedSale(r, s) \in SaleRow
    <3>1. sales[s] \in SaleRow
      BY PosRows
    <3>2. CASE IsMatched(r, s)
      <4> DEFINE l == LineMatched(r, s)
      <4>1. l \in DOMAIN r.qtys /\ l \in Nat
        BY <1>2, <3>2, MatchedSale
      <4>2. EditedSale(r, s)
              = [sales[s] EXCEPT !.qty = r.qtys[l], !.order = r.order, !.line = l]
        BY <3>2 DEF EditedSale
      <4> HIDE DEF l
      <4>3. r.qtys[l] \in Int
        BY <1>2, <4>1, QuantityAsked
      <4> QED
        BY <1>2, <3>1, <4>1, <4>2, <4>3 DEF SaleRow
    <3>3. CASE ~IsMatched(r, s)
      BY <3>1, <3>3 DEF EditedSale
    <3> QED
      BY <3>2, <3>3
  <2> QED
    BY <2>1
<1>5. moved \subseteq DOMAIN r.rows /\ moved \subseteq DOMAIN r.qtys
  BY <1>2 DEF IsDesk
<1>6. IsFiniteSet(moved) /\ moved \subseteq Nat
  BY <1>2, <1>5, FS_Subset
<1>7. move \in [moved -> CounterRow]
  <2>1. ASSUME NEW l \in moved
        PROVE  SaleMovement(r.match[l], r.rows[l].product, r.rows[l].qty - r.qtys[l])
                 \in CounterRow
    <3>1. r.match[l] \in Nat
      BY <1>2 DEF IsDesk
    <3>2. r.qtys[l] \in Int
      BY <1>2, <1>5, QuantityAsked
    <3>3. r.rows[l].product \in Products /\ r.rows[l].qty - r.qtys[l] \in Int
      BY <1>2, <1>5, <3>2, SMTT(40)
    <3> QED
      BY <3>1, <3>3, SaleMovementType
  <2> QED
    BY <2>1
<1>8. Corrections(r) \in Seq(CounterRow)
  <2> DEFINE ids == InIdOrder(moved)
  <2>1. [n \in DOMAIN ids |-> move[ids[n]]] \in Seq(CounterRow)
    <3> HIDE DEF moved, move
    <3> QED
      BY <1>6, <1>7, RowsInOrder
  <2>2. ids \in [1 .. Cardinality(moved) -> moved]
    <3> HIDE DEF moved
    <3> QED
      BY <1>6, IdsInOrder
  <2>3. Corrections(r) = [n \in DOMAIN ids |-> move[ids[n]]]
    <3>1. Corrections(r) =
            [n \in DOMAIN ids |->
               SaleMovement(r.match[ids[n]], r.rows[ids[n]].product,
                            r.rows[ids[n]].qty - r.qtys[ids[n]])]
      BY DEF Corrections, MapSeq
    <3>2. \A n \in DOMAIN ids : ids[n] \in moved
      BY <2>2
    <3> HIDE DEF ids, moved
    <3> QED
      BY <3>1, <3>2
  <2> QED
    BY <2>1, <2>3
<1>9. CounterStep
  BY <1>1, <1>8 DEF CounterStep
<1> HIDE DEF lines, edited
<1>10. NewLines(r.order, r.added) \in Seq(InvoiceLineRow)
  BY <1>2, NewLinesType DEF IsDesk
<1>11. lines \in Seq(InvoiceLineRow) /\ DOMAIN lines = DOMAIN invoiceLines
  BY <1>3, SameLength DEF PosTypeOK
<1>12. /\ invoiceLines' \in Seq(InvoiceLineRow)
       /\ DOMAIN invoiceLines \subseteq DOMAIN invoiceLines'
  BY <1>1, <1>10, <1>11, LongerThan
<1>13. sales' \in Seq(SaleRow)
  BY <1>1, <1>4, SameLength DEF PosTypeOK
<1>14. invoices' \in Seq(InvoiceRow) /\ DOMAIN invoices' = DOMAIN invoices
  BY <1>1 DEF PosTypeOK
<1>15. PosTypeOK'
  BY <1>1, <1>12, <1>13, <1>14, Answered
<1> QED
  BY <1>9, <1>15

(***************************************************************************)
(* The lines a split takes in part.                                        *)
(***************************************************************************)
LEMMA PartsInOrder ==
  ASSUME PosTypeOK, NEW h \in Clerks, NEW r, r = clerk[h]
  PROVE  /\ InPart(r) \in Seq(Nat)
         /\ \A n \in DOMAIN InPart(r) :
              /\ InPart(r)[n] \in Selected(r, r.rows) /\ Rest(r, InPart(r)[n]) # 0
         /\ IsFiniteSet(DOMAIN InPart(r)) /\ DOMAIN InPart(r) \subseteq Nat
<1> DEFINE S == {l \in Selected(r, r.rows) : Rest(r, l) # 0}
<1>1. DOMAIN r.rows \subseteq Nat /\ IsFiniteSet(DOMAIN r.rows)
  BY AtDesk
<1>2. S \subseteq DOMAIN r.rows
  BY DEF Selected
<1>3. S \subseteq Nat /\ IsFiniteSet(S)
  BY <1>1, <1>2, FS_Subset
<1>4. InPart(r) = InIdOrder(S)
  BY DEF InPart
<1>5. \A l \in S : l \in Selected(r, r.rows) /\ Rest(r, l) # 0
  OBVIOUS
<1> HIDE DEF S
<1>6. InPart(r) \in Seq(S) /\ InPart(r) \in [1 .. Cardinality(S) -> S]
  BY <1>3, <1>4, IdsInOrder
<1>7. IsFiniteSet(DOMAIN InPart(r)) /\ DOMAIN InPart(r) \subseteq Nat
  BY <1>6, PositionsFinite
<1>8. InPart(r) \in Seq(Nat)
  BY <1>3, <1>6, SeqMonotonic
<1> QED
  BY <1>5, <1>6, <1>7, <1>8

LEMMA SplitTypes ==
  ASSUME PosTypeOK, NEW h \in Clerks, SplitInvoice(h)
  PROVE  PosTypeOK' /\ NoMovement
<1> DEFINE r == clerk[h]
           new == Len(invoices) + 1
           row == [status |-> r.row.status, notes |-> r.row.notes \cup {r.order}]
           lines == [l \in DOMAIN invoiceLines |-> SplitLine(r, new, l)]
           split == [s \in DOMAIN sales |-> SplitSale(r, new, s)]
           parts == InPart(r)
           moved == [n \in DOMAIN parts |->
                       [order |-> new, product |-> r.rows[parts[n]].product,
                        qty |-> r.qtys[parts[n]]]]
<1>1. /\ r.step = "write" /\ invoices' = Append(invoices, row)
      /\ invoiceLines' = lines \o moved /\ sales' = split \o PartSales(r, new)
      /\ Answer(h) /\ NoMovement
  BY DEF SplitInvoice, MapSeq
<1>2. /\ IsDesk(r) /\ r.order \in Nat
      /\ \A l \in DOMAIN r.rows : r.rows[l].product \in Products /\ r.rows[l].qty \in Int
  BY <1>1, AtDesk
<1>3. new \in Nat /\ Len(invoiceLines) \in Nat
  BY LenProperties DEF PosTypeOK
<1>4. r.row.status \in Statuses /\ r.row.notes \subseteq Nat
  BY <1>2 DEF IsDesk, InvoiceRow
<1>5. /\ parts \in Seq(Nat)
      /\ \A n \in DOMAIN parts : parts[n] \in Selected(r, r.rows)
      /\ IsFiniteSet(DOMAIN parts) /\ DOMAIN parts \subseteq Nat
  BY PartsInOrder
<1>6. \A n \in DOMAIN parts : /\ r.rows[parts[n]].product \in Products
                              /\ r.qtys[parts[n]] \in Int
  BY <1>2, <1>5, QuantityAsked DEF Selected
<1>7. row \in InvoiceRow
  BY <1>2, <1>4 DEF InvoiceRow
<1>8. \A l \in Selected(r, r.rows) : Rest(r, l) \in Int
  BY <1>2, QuantityAsked DEF Selected, Rest
<1> HIDE DEF r, new, parts, row
<1>9. lines \in [DOMAIN invoiceLines -> InvoiceLineRow]
  <2>1. ASSUME NEW l \in DOMAIN invoiceLines
        PROVE  SplitLine(r, new, l) \in InvoiceLineRow
    <3>1. invoiceLines[l] \in InvoiceLineRow
      BY PosRows
    <3>2. CASE l \in Selected(r, r.rows) /\ Rest(r, l) = 0
      <4> DEFINE o == IF invoiceLines[l].order = NoId THEN NoId ELSE new
      <4>1. SplitLine(r, new, l) = [invoiceLines[l] EXCEPT !.order = o]
        BY <3>1, <3>2 DEF SplitLine, InvoiceLineRow
      <4>2. o \in Nat
        BY <1>3 DEF NoId
      <4> HIDE DEF o
      <4> QED
        BY <3>1, <4>1, <4>2 DEF InvoiceLineRow
    <3>3. CASE l \in Selected(r, r.rows) /\ Rest(r, l) # 0
      <4>1. SplitLine(r, new, l) = [invoiceLines[l] EXCEPT !.qty = Rest(r, l)]
        BY <3>3 DEF SplitLine
      <4> QED
        BY <1>8, <3>1, <3>3, <4>1 DEF InvoiceLineRow
    <3>4. CASE l \notin Selected(r, r.rows)
      BY <3>1, <3>4 DEF SplitLine
    <3> QED
      BY <3>2, <3>3, <3>4
  <2> QED
    BY <2>1
<1>10. split \in [DOMAIN sales -> SaleRow]
  <2>1. ASSUME NEW s \in DOMAIN sales
        PROVE  SplitSale(r, new, s) \in SaleRow
    <3>1. sales[s] \in SaleRow
      BY PosRows
    <3>2. CASE IsMatched(r, s)
      <4> DEFINE l == LineMatched(r, s)
      <4>1. l \in Selected(r, r.rows)
        BY <1>2, <3>2, MatchedSale DEF Selected
      <4>2. Rest(r, l) \in Int
        BY <1>8, <4>1
      <4>3. \/ SplitSale(r, new, s) = [sales[s] EXCEPT !.order = new]
            \/ SplitSale(r, new, s) = [sales[s] EXCEPT !.qty = Rest(r, l)]
        BY <3>2 DEF SplitSale
      <4> QED
        BY <1>3, <3>1, <4>2, <4>3 DEF SaleRow
    <3>3. CASE ~IsMatched(r, s)
      BY <3>1, <3>3 DEF SplitSale
    <3> QED
      BY <3>2, <3>3
  <2> QED
    BY <2>1
<1>11. moved \in [DOMAIN parts -> InvoiceLineRow]
  BY <1>3, <1>6 DEF InvoiceLineRow
<1>12. PartSales(r, new) \in Seq(SaleRow)
  <2> DEFINE S == {n \in DOMAIN parts : /\ parts[n] \in DOMAIN r.match
                                        /\ r.match[parts[n]] # NoId}
             sold == InIdOrder(S)
             sale(n) == [order |-> new, line |-> Len(invoiceLines) + n,
                         product |-> r.rows[parts[n]].product,
                         qty |-> r.qtys[parts[n]],
                         notes |-> r.row.notes \cup {r.order}]
  <2>1. IsFiniteSet(S) /\ S \subseteq Nat /\ S \subseteq DOMAIN parts
    BY <1>5, FS_Subset
  <2> HIDE DEF S
  <2>2. sold \in Seq(S) /\ Cardinality(S) \in Nat /\ sold \in [1 .. Cardinality(S) -> S]
    BY <2>1, IdsInOrder
  <2>3. PartSales(r, new) = [n \in DOMAIN sold |-> sale(sold[n])]
    BY DEF PartSales, MapSeq, parts, S
  <2> HIDE DEF sold
  <2>4. \A n \in S : sale(n) \in SaleRow
    <3>1. ASSUME NEW n \in S PROVE sale(n) \in SaleRow
      <4>1. n \in DOMAIN parts /\ n \in Nat
        BY <2>1
      <4>2. r.rows[parts[n]].product \in Products /\ r.qtys[parts[n]] \in Int
        BY <1>6, <4>1
      <4>3. Len(invoiceLines) + n \in Nat
        BY <1>3, <4>1
      <4>4. r.row.notes \cup {r.order} \subseteq Nat
        BY <1>2, <1>4
      <4> QED
        BY <1>3, <4>2, <4>3, <4>4 DEF SaleRow
    <3> QED
      BY <3>1
  <2> HIDE DEF sale
  <2>5. [n \in DOMAIN sold |-> sale(sold[n])] \in [DOMAIN sold -> SaleRow]
    BY <2>2, <2>4
  <2> QED
    BY <2>2, <2>3, <2>5, SameLength
<1>13. moved \in Seq(InvoiceLineRow)
  BY <1>5, <1>11, SameLength
<1> HIDE DEF lines, split, moved
<1>14. lines \in Seq(InvoiceLineRow) /\ DOMAIN lines = DOMAIN invoiceLines
  BY <1>9, SameLength DEF PosTypeOK
<1>15. /\ invoiceLines' \in Seq(InvoiceLineRow)
       /\ DOMAIN invoiceLines \subseteq DOMAIN invoiceLines'
  BY <1>1, <1>13, <1>14, LongerThan
<1>16. split \in Seq(SaleRow)
  BY <1>10, SameLength DEF PosTypeOK
<1>17. sales' \in Seq(SaleRow)
  BY <1>1, <1>12, <1>16, LongerThan
<1>18. invoices' \in Seq(InvoiceRow) /\ DOMAIN invoices \subseteq DOMAIN invoices'
  BY <1>1, <1>7, OneLonger DEF PosTypeOK
<1> QED
  BY <1>1, <1>15, <1>17, <1>18, Answered

LEMMA MergeTypes ==
  ASSUME PosTypeOK, NEW h \in Clerks, MergeInvoice(h)
  PROVE  PosTypeOK' /\ NoMovement
<1> DEFINE r == clerk[h]
           row == [status |-> "merged", notes |-> r.row.notes \cup {r.target}]
<1>1. /\ r.step = "write"
      /\ invoiceLines' = [l \in DOMAIN invoiceLines |->
                            IF invoiceLines[l].order = r.order
                              THEN [invoiceLines[l] EXCEPT !.order = r.target]
                              ELSE invoiceLines[l]]
      /\ sales' = [s \in DOMAIN sales |-> MergedSale(r, s)]
      /\ invoices' = [invoices EXCEPT ![r.order] = row]
      /\ Answer(h) /\ NoMovement
  BY DEF MergeInvoice
<1>2. IsDesk(r) /\ r.order \in DOMAIN invoices
  BY <1>1, AtDesk
<1>3. r.target \in Nat /\ r.row.notes \subseteq Nat
  BY <1>2 DEF IsDesk, InvoiceRow
<1>4. row \in InvoiceRow
  BY <1>3 DEF InvoiceRow, Statuses
<1> HIDE DEF r, row
<1>5. invoiceLines' \in [DOMAIN invoiceLines -> InvoiceLineRow]
  BY <1>1, <1>3, PosRows DEF InvoiceLineRow
<1>6. sales' \in [DOMAIN sales -> SaleRow]
  <2>1. ASSUME NEW s \in DOMAIN sales
        PROVE  MergedSale(r, s) \in SaleRow
    BY <1>3, PosRows DEF MergedSale, SaleRow
  <2> QED
    BY <1>1, <2>1
<1>7. invoices' \in [DOMAIN invoices -> InvoiceRow]
  <2>1. invoices \in [DOMAIN invoices -> InvoiceRow]
    BY PosRows DEF PosTypeOK
  <2> QED
    BY <1>1, <1>2, <1>4, <2>1
<1>8. /\ invoiceLines' \in Seq(InvoiceLineRow)
      /\ DOMAIN invoiceLines' = DOMAIN invoiceLines
  BY <1>5, SameLength DEF PosTypeOK
<1>9. sales' \in Seq(SaleRow)
  BY <1>6, SameLength DEF PosTypeOK
<1>10. invoices' \in Seq(InvoiceRow) /\ DOMAIN invoices' = DOMAIN invoices
  BY <1>7, SameLength DEF PosTypeOK
<1> QED
  BY <1>1, <1>8, <1>9, <1>10, Answered

LEMMA PosTypes ==
  ASSUME PosTypeOK, NEW h \in Clerks, PosArrival(h) \/ PosWork(h)
  PROVE  PosTypeOK' /\ CounterStep
  BY RequestTypes, ReadLinesTypes, CreateInvoiceTypes, SellAtCounterTypes, ApproveTypes,
     StatusTypes, UpdateTypes, SplitTypes, MergeTypes, PosFailTypes
     DEF PosArrival, PosWork, CounterStep

-----------------------------------------------------------------------------
(* The types of the purchases *)

LEMMA BuyerSet ==
  ASSUME PurchaseTypeOK, NEW b \in Buyers, NEW d, IsBuyer(d),
         buyer' = [buyer EXCEPT ![b] = d],
         DOMAIN d.read \subseteq DOMAIN purchaseLines',
         d.step # "idle" => d.order \in DOMAIN purchases',
         purchases' \in Seq(PurchaseRow), DOMAIN purchases \subseteq DOMAIN purchases',
         purchaseLines' \in Seq(OrderLineRow),
         DOMAIN purchaseLines \subseteq DOMAIN purchaseLines'
  PROVE  PurchaseTypeOK'
<1>1. DOMAIN buyer' = Buyers
  BY DEF PurchaseTypeOK
<1>2. ASSUME NEW c \in Buyers
      PROVE  /\ IsBuyer(buyer'[c])
             /\ DOMAIN buyer'[c].read \subseteq DOMAIN purchaseLines'
             /\ buyer'[c].step # "idle" => buyer'[c].order \in DOMAIN purchases'
  <2>1. CASE c = b
    <3>1. buyer'[c] = d
      BY <2>1 DEF PurchaseTypeOK
    <3> QED
      BY <3>1
  <2>2. CASE c # b
    <3>1. buyer'[c] = buyer[c]
      BY <2>2 DEF PurchaseTypeOK
    <3> QED
      BY <3>1 DEF PurchaseTypeOK
  <2> QED
    BY <2>1, <2>2
<1> QED
  BY <1>1, <1>2 DEF PurchaseTypeOK

LEMMA IdleBuyerType ==
  IsBuyer(IdleBuyer) /\ DOMAIN IdleBuyer.read = {} /\ IdleBuyer.step = "idle"
<1>1. << >> \in Seq(BasketLine)
  BY EmptySeq
<1> QED
  BY <1>1 DEF IsBuyer, IdleBuyer, OrderStatuses, NoOrder

LEMMA PurchaseDone ==
  ASSUME PurchaseTypeOK, NEW b \in Buyers, Done(b),
         purchases' \in Seq(PurchaseRow), DOMAIN purchases \subseteq DOMAIN purchases',
         purchaseLines' \in Seq(OrderLineRow),
         DOMAIN purchaseLines \subseteq DOMAIN purchaseLines'
  PROVE  PurchaseTypeOK'
<1> DEFINE d == IdleBuyer
<1>1. IsBuyer(d) /\ DOMAIN d.read = {} /\ d.step = "idle"
  BY IdleBuyerType
<1>2. buyer' = [buyer EXCEPT ![b] = d]
  BY DEF Done
<1> HIDE DEF d
<1> QED
  BY <1>1, <1>2, BuyerSet

LEMMA PurchasesUnchanged ==
  ASSUME PurchaseTypeOK, UNCHANGED purchaseTables
  PROVE  /\ purchases' \in Seq(PurchaseRow) /\ DOMAIN purchases' = DOMAIN purchases
         /\ purchaseLines' \in Seq(OrderLineRow)
         /\ DOMAIN purchaseLines' = DOMAIN purchaseLines
  BY DEF PurchaseTypeOK, purchaseTables

LEMMA AtBuyer ==
  ASSUME PurchaseTypeOK, NEW b \in Buyers
  PROVE  /\ IsBuyer(buyer[b])
         /\ DOMAIN buyer[b].read \subseteq DOMAIN purchaseLines
         /\ DOMAIN buyer[b].read \subseteq Nat /\ IsFiniteSet(DOMAIN buyer[b].read)
         /\ buyer[b].step # "idle" => buyer[b].order \in DOMAIN purchases
         /\ buyer[b].order \in Nat
         /\ \A l \in DOMAIN buyer[b].read :
              buyer[b].read[l] \in OrderLineRow /\ buyer[b].qtys[l] \in Nat
<1>1. IsBuyer(buyer[b]) /\ DOMAIN buyer[b].read \subseteq DOMAIN purchaseLines
  BY DEF PurchaseTypeOK
<1>2. purchaseLines \in Seq(OrderLineRow)
  BY DEF PurchaseTypeOK
<1>3. DOMAIN buyer[b].read \subseteq Nat /\ IsFiniteSet(DOMAIN buyer[b].read)
  BY <1>1, <1>2, PositionsFinite
<1>4. buyer[b].step # "idle" => buyer[b].order \in DOMAIN purchases
  BY DEF PurchaseTypeOK
<1>5. /\ buyer[b].order \in Nat
      /\ \A l \in DOMAIN buyer[b].read :
           buyer[b].read[l] \in OrderLineRow /\ buyer[b].qtys[l] \in Nat
  BY <1>1 DEF IsBuyer
<1> QED
  BY <1>1, <1>3, <1>4, <1>5

LEMMA PurchaseRows ==
  ASSUME PurchaseTypeOK
  PROVE  /\ \A l \in DOMAIN purchaseLines :
              purchaseLines[l] \in OrderLineRow /\ l \in Nat
         /\ \A o \in DOMAIN purchases : purchases[o] \in PurchaseRow /\ o \in Nat
  BY ElementOfSeq, LenProperties DEF PurchaseTypeOK

LEMMA RefreshedType ==
  ASSUME NEW status \in OrderStatuses, NEW lines, NEW o
  PROVE  Refreshed(status, lines, o) \in OrderStatuses
  BY DEF Refreshed, OrderStatuses

LEMMA OrderedIsPositive == \A q \in OrderedQty : q \in Int /\ q \in Nat /\ q > 0
  BY PurchaseConstants

LEMMA NewOrderLinesType ==
  ASSUME NEW o \in Nat, NEW basket \in Seq(BasketLine)
  PROVE  NewOrderLines(o, basket) \in Seq(OrderLineRow)
<1>1. ASSUME NEW n \in DOMAIN basket
      PROVE  [order |-> o, product |-> basket[n].product,
              ordered |-> basket[n].ordered, received |-> 0] \in OrderLineRow
  <2>1. basket[n] \in BasketLine
    BY ElementOfSeq, LenProperties
  <2>2. basket[n].product \in Products /\ basket[n].ordered \in OrderedQty
    BY <2>1 DEF BasketLine
  <2>3. basket[n].ordered \in Int
    BY <2>2, OrderedIsPositive
  <2> QED
    BY <2>2, <2>3 DEF OrderLineRow
<1>2. NewOrderLines(o, basket) \in [DOMAIN basket -> OrderLineRow]
  BY <1>1 DEF NewOrderLines
<1> QED
  BY <1>2, SameLength

LEMMA CreatePurchaseTypes ==
  ASSUME PurchaseTypeOK, NEW b \in Buyers, CreatePurchase(b)
  PROVE  PurchaseTypeOK' /\ NoMovement
<1> DEFINE o == Len(purchases) + 1
<1>1. PICK status \in {"draft", "ordered"}, basket \in Baskets :
        /\ purchaseLines' = purchaseLines \o NewOrderLines(o, basket)
        /\ purchases' = Append(purchases,
             [status |-> Refreshed(status, purchaseLines', o), deleted |-> FALSE])
  BY DEF CreatePurchase
<1>2. buyer' = buyer /\ NoMovement
  BY DEF CreatePurchase
<1>3. o \in Nat
  BY LenProperties DEF PurchaseTypeOK
<1> DEFINE refreshed == Refreshed(status, purchaseLines', o)
           row == [status |-> refreshed, deleted |-> FALSE]
<1>4. status \in OrderStatuses
  BY DEF OrderStatuses
<1>5. refreshed \in OrderStatuses
  BY <1>4, RefreshedType
<1>6. purchases' = Append(purchases, row)
  BY <1>1
<1> HIDE DEF refreshed
<1>7. row \in PurchaseRow
  BY <1>5 DEF PurchaseRow
<1> HIDE DEF row
<1>8. purchases' \in Seq(PurchaseRow) /\ DOMAIN purchases \subseteq DOMAIN purchases'
  BY <1>6, <1>7, OneLonger DEF PurchaseTypeOK
<1>9. NewOrderLines(o, basket) \in Seq(OrderLineRow)
  BY <1>3, NewOrderLinesType, PurchaseConstants
<1>10. /\ purchaseLines' \in Seq(OrderLineRow)
       /\ DOMAIN purchaseLines \subseteq DOMAIN purchaseLines'
  BY <1>1, <1>9, LongerThan DEF PurchaseTypeOK
<1> QED
  BY <1>2, <1>8, <1>10 DEF PurchaseTypeOK

(***************************************************************************)
(* Requests that open a transaction on an order.                           *)
(***************************************************************************)
LEMMA OrderQuantities ==
  ASSUME PurchaseTypeOK, NEW o, NEW Q, Q \subseteq Nat,
         NEW q \in Maps(LineIds(purchaseLines, o), Q)
  PROVE  q \in [DOMAIN q -> Nat] /\ DOMAIN q \subseteq Nat
<1>1. LineIds(purchaseLines, o) \subseteq Nat
  BY PurchaseRows DEF LineIds
<1> QED
  BY <1>1 DEF Maps

LEMMA StartTypes ==
  ASSUME PurchaseTypeOK, NEW b \in Buyers,
         StartUpdate(b) \/ StartReceipt(b) \/ StartDelete(b)
  PROVE  PurchaseTypeOK' /\ NoMovement
<1>1. NoMovement /\ UNCHANGED purchaseTables
  BY DEF StartUpdate, StartReceipt, StartDelete
<1> DEFINE i == IdleBuyer
<1>2. IsBuyer(i) /\ DOMAIN i.read = {}
  BY IdleBuyerType
<1>3. ASSUME NEW d, IsBuyer(d), DOMAIN d.read = {}, d.order \in DOMAIN purchases,
             buyer' = [buyer EXCEPT ![b] = d]
      PROVE  PurchaseTypeOK'
  <2>1. /\ purchases' \in Seq(PurchaseRow) /\ DOMAIN purchases' = DOMAIN purchases
        /\ purchaseLines' \in Seq(OrderLineRow)
        /\ DOMAIN purchaseLines' = DOMAIN purchaseLines
    BY <1>1, PurchasesUnchanged
  <2> QED
    BY <1>3, <2>1, BuyerSet
<1>4. CASE StartUpdate(b)
  <2>1. PICK o \in Stored, status \in NewStatuses, added \in Baskets \cup {<< >>} :
          \E q \in Maps(LineIds(purchaseLines, o), OrderedQty \cup {0}) :
            buyer' = [buyer EXCEPT ![b] =
              [i EXCEPT !.step = "write", !.op = "update", !.order = o,
                        !.status = status, !.qtys = q, !.added = added]]
    BY <1>4 DEF StartUpdate
  <2>2. PICK q \in Maps(LineIds(purchaseLines, o), OrderedQty \cup {0}) :
            buyer' = [buyer EXCEPT ![b] =
              [i EXCEPT !.step = "write", !.op = "update", !.order = o,
                        !.status = status, !.qtys = q, !.added = added]]
    BY <2>1
  <2>3. OrderedQty \cup {0} \subseteq Nat
    BY OrderedIsPositive
  <2>4. q \in [DOMAIN q -> Nat] /\ DOMAIN q \subseteq Nat
    BY <2>3, OrderQuantities
  <2>5. o \in DOMAIN purchases /\ o \in Nat
    BY PurchaseRows DEF Stored
  <2>6. status \in OrderStatuses /\ added \in Seq(BasketLine)
    BY PurchaseConstants, EmptySeq
  <2> DEFINE d == [i EXCEPT !.step = "write", !.op = "update", !.order = o,
                            !.status = status, !.qtys = q, !.added = added]
  <2> HIDE DEF i
  <2>7. /\ d.step = "write" /\ d.op = "update" /\ d.order = o /\ d.status = status
        /\ d.qtys = q /\ d.added = added /\ d.read = i.read /\ DOMAIN d = DOMAIN i
    BY <1>2 DEF IsBuyer
  <2>8. buyer' = [buyer EXCEPT ![b] = d]
    BY <2>2
  <2> HIDE DEF d
  <2>9. IsBuyer(d)
    BY <1>2, <2>4, <2>5, <2>6, <2>7 DEF IsBuyer
  <2> QED
    BY <1>1, <1>2, <1>3, <2>5, <2>7, <2>8, <2>9
<1>5. CASE StartReceipt(b)
  <2>1. PICK o \in Stored :
          \E q \in Maps(LineIds(purchaseLines, o), OrderedQty) :
            buyer' = [buyer EXCEPT ![b] =
              [i EXCEPT !.step = "lines", !.op = "receive", !.order = o, !.qtys = q]]
    BY <1>5 DEF StartReceipt
  <2>2. PICK q \in Maps(LineIds(purchaseLines, o), OrderedQty) :
            buyer' = [buyer EXCEPT ![b] =
              [i EXCEPT !.step = "lines", !.op = "receive", !.order = o, !.qtys = q]]
    BY <2>1
  <2>3. OrderedQty \subseteq Nat
    BY OrderedIsPositive
  <2>4. q \in [DOMAIN q -> Nat] /\ DOMAIN q \subseteq Nat
    BY <2>3, OrderQuantities
  <2>5. o \in DOMAIN purchases /\ o \in Nat
    BY PurchaseRows DEF Stored
  <2> DEFINE d == [i EXCEPT !.step = "lines", !.op = "receive", !.order = o, !.qtys = q]
  <2> HIDE DEF i
  <2>7. /\ d.step = "lines" /\ d.op = "receive" /\ d.order = o /\ d.status = i.status
        /\ d.qtys = q /\ d.added = i.added /\ d.read = i.read /\ DOMAIN d = DOMAIN i
    BY <1>2 DEF IsBuyer
  <2>8. buyer' = [buyer EXCEPT ![b] = d]
    BY <2>2
  <2> HIDE DEF d
  <2>9. IsBuyer(d)
    BY <1>2, <2>4, <2>5, <2>7 DEF IsBuyer
  <2> QED
    BY <1>1, <1>2, <1>3, <2>5, <2>7, <2>8, <2>9
<1>6. CASE StartDelete(b)
  <2>1. PICK o \in Stored :
          buyer' = [buyer EXCEPT ![b] =
            [i EXCEPT !.step = "write", !.op = "delete", !.order = o]]
    BY <1>6 DEF StartDelete
  <2>5. o \in DOMAIN purchases /\ o \in Nat
    BY PurchaseRows DEF Stored
  <2> DEFINE d == [i EXCEPT !.step = "write", !.op = "delete", !.order = o]
  <2> HIDE DEF i
  <2>7. /\ d.step = "write" /\ d.op = "delete" /\ d.order = o /\ d.status = i.status
        /\ d.qtys = i.qtys /\ d.added = i.added /\ d.read = i.read
        /\ DOMAIN d = DOMAIN i
    BY <1>2 DEF IsBuyer
  <2>8. buyer' = [buyer EXCEPT ![b] = d]
    BY <2>1
  <2> HIDE DEF d
  <2>9. IsBuyer(d)
    BY <1>2, <2>5, <2>7 DEF IsBuyer
  <2> QED
    BY <1>1, <1>2, <1>3, <2>5, <2>7, <2>8, <2>9
<1> QED
  BY <1>1, <1>4, <1>5, <1>6

LEMMA PurchaseStatusSet ==
  ASSUME PurchaseTypeOK, NEW o \in DOMAIN purchases, NEW status \in OrderStatuses,
         purchases' = [purchases EXCEPT ![o].status = status]
  PROVE  purchases' \in Seq(PurchaseRow) /\ DOMAIN purchases' = DOMAIN purchases
<1>1. purchases \in [DOMAIN purchases -> PurchaseRow]
  BY PurchaseRows DEF PurchaseTypeOK
<1>2. purchases' \in [DOMAIN purchases -> PurchaseRow]
  BY <1>1 DEF PurchaseRow
<1> QED
  BY <1>2, SameLength DEF PurchaseTypeOK

LEMMA UpdatedLinesType ==
  ASSUME PurchaseTypeOK, NEW b \in Buyers
  PROVE  UpdatedLines(b) \in Seq(OrderLineRow) /\ DOMAIN purchaseLines \subseteq DOMAIN UpdatedLines(b)
<1> DEFINE ls == LineIds(purchaseLines, buyer[b].order)
           line(l) == CASE l \in Dropped(b) -> [purchaseLines[l] EXCEPT !.order = NoOrder]
                        [] l \in ls \ Dropped(b) ->
                             [purchaseLines[l] EXCEPT !.ordered = buyer[b].qtys[l]]
                        [] OTHER -> purchaseLines[l]
           lines == [l \in DOMAIN purchaseLines |-> line(l)]
<1>1. UpdatedLines(b) = lines \o NewOrderLines(buyer[b].order, buyer[b].added)
  BY DEF UpdatedLines
<1>2. IsBuyer(buyer[b])
  BY AtBuyer
<1>3. ASSUME NEW l \in DOMAIN purchaseLines
      PROVE  line(l) \in OrderLineRow
  <2>1. purchaseLines[l] \in OrderLineRow
    BY PurchaseRows
  <2>2. CASE l \in Dropped(b)
    <3>1. line(l) = [purchaseLines[l] EXCEPT !.order = NoOrder]
      BY <2>2
    <3> QED
      BY <2>1, <3>1 DEF OrderLineRow, NoOrder
  <2>3. CASE l \in ls \ Dropped(b)
    <3>1. line(l) = [purchaseLines[l] EXCEPT !.ordered = buyer[b].qtys[l]]
      BY <2>3
    <3>2. l \in DOMAIN buyer[b].qtys
      BY <2>3 DEF Dropped
    <3>3. buyer[b].qtys[l] \in Nat
      BY <1>2, <3>2 DEF IsBuyer
    <3> QED
      BY <2>1, <3>1, <3>3 DEF OrderLineRow
  <2>4. CASE l \notin Dropped(b) /\ l \notin ls \ Dropped(b)
    BY <2>1, <2>4
  <2> QED
    BY <2>2, <2>3, <2>4
<1> HIDE DEF line
<1>4. lines \in [DOMAIN purchaseLines -> OrderLineRow]
  BY <1>3
<1> HIDE DEF lines
<1>5. lines \in Seq(OrderLineRow) /\ DOMAIN lines = DOMAIN purchaseLines
  BY <1>4, SameLength DEF PurchaseTypeOK
<1>6. NewOrderLines(buyer[b].order, buyer[b].added) \in Seq(OrderLineRow)
  BY <1>2, NewOrderLinesType DEF IsBuyer
<1> QED
  BY <1>1, <1>5, <1>6, LongerThan

LEMMA FinishUpdateTypes ==
  ASSUME PurchaseTypeOK, NEW b \in Buyers, FinishUpdate(b)
  PROVE  PurchaseTypeOK' /\ NoMovement
<1> DEFINE o == buyer[b].order
<1>1. Done(b) /\ NoMovement /\ buyer[b].step = "write"
  BY DEF FinishUpdate
<1>2. CASE UNCHANGED purchaseTables
  BY <1>1, <1>2, PurchasesUnchanged, PurchaseDone
<1>3. CASE /\ purchaseLines' = UpdatedLines(b)
           /\ purchases' = [purchases EXCEPT
                ![o].status = Refreshed(buyer[b].status, purchaseLines', o)]
  <2> DEFINE status == Refreshed(buyer[b].status, purchaseLines', o)
  <2>1. o \in DOMAIN purchases /\ buyer[b].status \in OrderStatuses
    BY <1>1, AtBuyer DEF IsBuyer
  <2>2. status \in OrderStatuses
    BY <2>1, RefreshedType
  <2>3. purchases' = [purchases EXCEPT ![o].status = status]
    BY <1>3
  <2> HIDE DEF status, o
  <2>4. purchases' \in Seq(PurchaseRow) /\ DOMAIN purchases' = DOMAIN purchases
    BY <2>1, <2>2, <2>3, PurchaseStatusSet
  <2>5. /\ purchaseLines' \in Seq(OrderLineRow)
        /\ DOMAIN purchaseLines \subseteq DOMAIN purchaseLines'
    BY <1>3, UpdatedLinesType
  <2> QED
    BY <1>1, <2>4, <2>5, PurchaseDone
<1> QED
  BY <1>2, <1>3 DEF FinishUpdate

LEMMA ReadReceiptTypes ==
  ASSUME PurchaseTypeOK, NEW b \in Buyers, ReadReceiptLines(b)
  PROVE  PurchaseTypeOK' /\ NoMovement
<1> DEFINE r == buyer[b]
           found == DOMAIN r.qtys \cap LineIds(purchaseLines, r.order)
           read == [l \in found |-> purchaseLines[l]]
<1>1. /\ NoMovement /\ UNCHANGED purchaseTables /\ r.step = "lines"
      /\ \/ Done(b)
         \/ buyer' = [buyer EXCEPT ![b].step = "write", ![b].read = read]
  BY DEF ReadReceiptLines
<1>2. /\ purchases' \in Seq(PurchaseRow) /\ DOMAIN purchases' = DOMAIN purchases
      /\ purchaseLines' \in Seq(OrderLineRow)
      /\ DOMAIN purchaseLines' = DOMAIN purchaseLines
  BY <1>1, PurchasesUnchanged
<1>3. CASE Done(b)
  BY <1>1, <1>2, <1>3, PurchaseDone
<1>4. CASE buyer' = [buyer EXCEPT ![b].step = "write", ![b].read = read]
  <2> DEFINE d == [r EXCEPT !.step = "write", !.read = read]
  <2>1. buyer' = [buyer EXCEPT ![b] = d]
    BY <1>4 DEF PurchaseTypeOK
  <2>2. IsBuyer(r) /\ r.order \in DOMAIN purchases
    BY <1>1, AtBuyer
  <2>3. found \subseteq DOMAIN purchaseLines /\ found \subseteq DOMAIN r.qtys
    BY DEF LineIds
  <2>4. read \in [found -> OrderLineRow] /\ DOMAIN read = found
    BY <2>3, PurchaseRows
  <2> HIDE DEF r, read, found
  <2>5. /\ d.step = "write" /\ d.op = r.op /\ d.order = r.order /\ d.status = r.status
        /\ d.qtys = r.qtys /\ d.added = r.added /\ d.read = read
        /\ DOMAIN d = DOMAIN r
    BY <2>2 DEF IsBuyer
  <2> HIDE DEF d
  <2>6. IsBuyer(d)
    BY <2>2, <2>3, <2>4, <2>5 DEF IsBuyer
  <2> QED
    BY <1>1, <1>2, <2>1, <2>2, <2>3, <2>4, <2>5, <2>6, BuyerSet
<1> QED
  BY <1>1, <1>3, <1>4

LEMMA ReceivedLinesType ==
  ASSUME PurchaseTypeOK, NEW b \in Buyers
  PROVE  /\ ReceivedLines(b) \in Seq(OrderLineRow)
         /\ DOMAIN ReceivedLines(b) = DOMAIN purchaseLines
<1>1. ASSUME NEW l \in DOMAIN purchaseLines
      PROVE  (IF l \in DOMAIN buyer[b].read /\ purchaseLines[l].order # NoOrder
                THEN [purchaseLines[l] EXCEPT
                        !.received = buyer[b].read[l].received + buyer[b].qtys[l]]
                ELSE purchaseLines[l]) \in OrderLineRow
  <2>1. purchaseLines[l] \in OrderLineRow
    BY PurchaseRows
  <2>2. CASE l \in DOMAIN buyer[b].read
    <3> DEFINE n == buyer[b].read[l].received + buyer[b].qtys[l]
    <3>1. buyer[b].read[l] \in OrderLineRow /\ buyer[b].qtys[l] \in Nat
      BY <2>2, AtBuyer
    <3>2. n \in Int
      BY <3>1 DEF OrderLineRow
    <3> HIDE DEF n
    <3>3. [purchaseLines[l] EXCEPT !.received = n] \in OrderLineRow
      BY <2>1, <3>2 DEF OrderLineRow
    <3> QED
      BY <2>1, <3>3 DEF n
  <2>3. CASE l \notin DOMAIN buyer[b].read
    BY <2>1, <2>3
  <2> QED
    BY <2>2, <2>3
<1>2. ReceivedLines(b) \in [DOMAIN purchaseLines -> OrderLineRow]
  BY <1>1 DEF ReceivedLines
<1> QED
  BY <1>2, SameLength DEF PurchaseTypeOK

LEMMA WriteReceiptTypes ==
  ASSUME PurchaseTypeOK, NEW b \in Buyers, WriteReceipt(b)
  PROVE  PurchaseTypeOK' /\ NoMovement
<1> DEFINE r == buyer[b]
           status == Refreshed(purchases[r.order].status, ReceivedLines(b), r.order)
<1>1. /\ NoMovement /\ UNCHANGED purchaseTables /\ r.step = "write"
      /\ \/ Done(b)
         \/ buyer' = [buyer EXCEPT ![b].step = "commit", ![b].status = status]
  BY DEF WriteReceipt
<1>2. /\ purchases' \in Seq(PurchaseRow) /\ DOMAIN purchases' = DOMAIN purchases
      /\ purchaseLines' \in Seq(OrderLineRow)
      /\ DOMAIN purchaseLines' = DOMAIN purchaseLines
  BY <1>1, PurchasesUnchanged
<1>3. CASE Done(b)
  BY <1>1, <1>2, <1>3, PurchaseDone
<1>4. CASE buyer' = [buyer EXCEPT ![b].step = "commit", ![b].status = status]
  <2> DEFINE d == [r EXCEPT !.step = "commit", !.status = status]
  <2>1. buyer' = [buyer EXCEPT ![b] = d]
    BY <1>4 DEF PurchaseTypeOK
  <2>2. /\ IsBuyer(r) /\ r.order \in DOMAIN purchases
        /\ DOMAIN r.read \subseteq DOMAIN purchaseLines
    BY <1>1, AtBuyer
  <2>3. purchases[r.order].status \in OrderStatuses
    BY <2>2, PurchaseRows DEF PurchaseRow
  <2>4. status \in OrderStatuses
    BY <2>3, RefreshedType
  <2> HIDE DEF r, status
  <2>5. /\ d.step = "commit" /\ d.op = r.op /\ d.order = r.order /\ d.status = status
        /\ d.qtys = r.qtys /\ d.added = r.added /\ d.read = r.read
        /\ DOMAIN d = DOMAIN r
    BY <2>2 DEF IsBuyer
  <2> HIDE DEF d
  <2>6. IsBuyer(d)
    BY <2>2, <2>4, <2>5 DEF IsBuyer
  <2> QED
    BY <1>1, <1>2, <2>1, <2>2, <2>5, <2>6, BuyerSet
<1> QED
  BY <1>1, <1>3, <1>4

LEMMA ArrivalsType ==
  ASSUME PurchaseTypeOK, NEW b \in Buyers
  PROVE  Arrivals(b) \in Seq(ArrivalRow)
<1> DEFINE S == DOMAIN buyer[b].read
           move == [l \in S |->
                      [reference |-> "purchase_order", id |-> buyer[b].order,
                       product |-> buyer[b].read[l].product,
                       delta |-> buyer[b].qtys[l]]]
           ids == InIdOrder(S)
<1>1. /\ S \subseteq Nat /\ IsFiniteSet(S) /\ buyer[b].order \in Nat
      /\ \A l \in S : buyer[b].read[l] \in OrderLineRow /\ buyer[b].qtys[l] \in Nat
  BY AtBuyer
<1>2. \A l \in S : buyer[b].read[l].product \in Products /\ buyer[b].qtys[l] \in Int
  BY <1>1 DEF OrderLineRow
<1>3. move \in [S -> ArrivalRow]
  BY <1>1, <1>2 DEF MovementRow, ArrivalRow
<1>4. ids \in [1 .. Cardinality(S) -> S]
  BY <1>1, IdsInOrder
<1>5. Arrivals(b) = [n \in DOMAIN ids |->
                       [reference |-> "purchase_order", id |-> buyer[b].order,
                        product |-> buyer[b].read[ids[n]].product,
                        delta |-> buyer[b].qtys[ids[n]]]]
  BY DEF Arrivals, MapSeq
<1>6. Arrivals(b) = [n \in DOMAIN ids |-> move[ids[n]]]
  <2>1. \A n \in DOMAIN ids : ids[n] \in S
    BY <1>4
  <2> HIDE DEF ids, S
  <2> QED
    BY <1>5, <2>1
<1> HIDE DEF move, S
<1>7. [n \in DOMAIN ids |-> move[ids[n]]] \in Seq(ArrivalRow)
  BY <1>1, <1>3, RowsInOrder
<1> QED
  BY <1>6, <1>7

LEMMA CommitReceiptTypes ==
  ASSUME PurchaseTypeOK, NEW b \in Buyers, CommitReceipt(b)
  PROVE  PurchaseTypeOK' /\ ArrivalStep
<1>1. /\ buyer[b].step = "commit" /\ Done(b) /\ RecordMovements(Arrivals(b))
      /\ purchaseLines' = ReceivedLines(b)
      /\ purchases' = [purchases EXCEPT ![buyer[b].order].status = buyer[b].status]
  BY DEF CommitReceipt
<1>2. ArrivalStep
  BY <1>1, ArrivalsType DEF ArrivalStep
<1>3. buyer[b].order \in DOMAIN purchases /\ buyer[b].status \in OrderStatuses
  BY <1>1, AtBuyer DEF IsBuyer
<1>4. purchases' \in Seq(PurchaseRow) /\ DOMAIN purchases' = DOMAIN purchases
  BY <1>1, <1>3, PurchaseStatusSet
<1>5. /\ purchaseLines' \in Seq(OrderLineRow)
      /\ DOMAIN purchaseLines' = DOMAIN purchaseLines
  BY <1>1, ReceivedLinesType
<1>6. PurchaseTypeOK'
  BY <1>1, <1>4, <1>5, PurchaseDone
<1> QED
  BY <1>2, <1>6

LEMMA FinishDeleteTypes ==
  ASSUME PurchaseTypeOK, NEW b \in Buyers, FinishDelete(b)
  PROVE  PurchaseTypeOK' /\ NoMovement
<1> DEFINE o == buyer[b].order
<1>1. /\ buyer[b].step = "write" /\ Done(b) /\ NoMovement
      /\ purchaseLines' = [l \in DOMAIN purchaseLines |->
           IF purchaseLines[l].order = o
             THEN [purchaseLines[l] EXCEPT !.order = NoOrder]
             ELSE purchaseLines[l]]
      /\ purchases' = [purchases EXCEPT ![o].deleted = TRUE]
  BY DEF FinishDelete
<1>2. o \in DOMAIN purchases
  BY <1>1, AtBuyer
<1> HIDE DEF o
<1>3. purchaseLines' \in [DOMAIN purchaseLines -> OrderLineRow]
  BY <1>1, PurchaseRows DEF OrderLineRow, NoOrder
<1>4. purchases' \in [DOMAIN purchases -> PurchaseRow]
  <2>1. purchases \in [DOMAIN purchases -> PurchaseRow]
    BY PurchaseRows DEF PurchaseTypeOK
  <2> QED
    BY <1>1, <2>1 DEF PurchaseRow
<1>5. /\ purchases' \in Seq(PurchaseRow) /\ DOMAIN purchases' = DOMAIN purchases
      /\ purchaseLines' \in Seq(OrderLineRow)
      /\ DOMAIN purchaseLines' = DOMAIN purchaseLines
  BY <1>3, <1>4, SameLength DEF PurchaseTypeOK
<1> QED
  BY <1>1, <1>5, PurchaseDone

LEMMA PurchaseFailTypes ==
  ASSUME PurchaseTypeOK, NEW b \in Buyers, PurchaseFail(b)
  PROVE  PurchaseTypeOK' /\ NoMovement
  BY PurchasesUnchanged, PurchaseDone DEF PurchaseFail

LEMMA PurchaseTypes ==
  ASSUME PurchaseTypeOK, NEW b \in Buyers, PurchaseArrival(b) \/ PurchaseWork(b)
  PROVE  PurchaseTypeOK' /\ ArrivalStep
  BY CreatePurchaseTypes, StartTypes, FinishUpdateTypes, ReadReceiptTypes,
     WriteReceiptTypes, CommitReceiptTypes, FinishDeleteTypes, PurchaseFailTypes
     DEF PurchaseArrival, PurchaseWork, ArrivalStep

-----------------------------------------------------------------------------
(* The types of TikTok's orders *)

LEMMA WorkKept ==
  ASSUME NEW w, NEW orders, NEW lines, IsWork(w, orders, lines),
         NEW orders2, NEW lines2, orders \subseteq orders2, lines \subseteq lines2
  PROVE  IsWork(w, orders2, lines2)
<1>1. CASE IsImport(w, orders)
  <2>1. w \in ImportWork(orders)
    BY <1>1 DEF IsImport
  <2>2. w.found \in [LotOrders -> SUBSET orders2] /\ w.left \in SUBSET orders2
    BY <2>1 DEF ImportWork
  <2>3. w \in ImportWork(orders2)
    BY <2>1, <2>2 DEF ImportWork
  <2> QED
    BY <1>1, <2>3 DEF IsImport, IsWork, IsLiveWork
<1>2. CASE w \in CorrectionWork(lines)
  <2>1. w \in CorrectionWork(lines2)
    BY <1>2 DEF CorrectionWork
  <2> QED
    BY <2>1 DEF IsWork, IsLiveWork
<1>3. CASE w \in ApplicationWork(lines)
  <2>1. \A r \in w.read : r \in [id : lines2, linked : BOOLEAN,
                                 product : Products \cup {NoProduct}]
    BY <1>3 DEF ApplicationWork
  <2>2. w \in ApplicationWork(lines2)
    BY <1>3, <2>1 DEF ApplicationWork
  <2> QED
    BY <2>2 DEF IsWork, IsLiveWork
<1>4. CASE IsShopImport(w, orders)
  BY <1>4 DEF IsShopImport, IsWork, IsShopWork
<1>5. CASE w \in ReturnWork(orders)
  <2>1. w \in ReturnWork(orders2)
    BY <1>5 DEF ReturnWork
  <2> QED
    BY <2>1 DEF IsWork, IsShopWork
<1> QED
  BY <1>1, <1>2, <1>3, <1>4, <1>5 DEF IsWork, IsLiveWork, IsShopWork

(***************************************************************************)
(* What is neither a sale order nor a thread, and the sale orders.         *)
(***************************************************************************)
TikTokRest ==
  /\ remote \in [TikTokOrders -> RemoteStatus] /\ returned \subseteq TikTokOrders
  /\ lotItems \in [LotOrders -> Seq(Products)] /\ corrected \subseteq LotOrders
  /\ posting \in Postings
  /\ events \subseteq [order : ShopOrders, status : RemoteStatus \ {"none"}]
  /\ returnsDone \subseteq TikTokOrders /\ astray \subseteq TikTokOrders

SaleTablesOK ==
  /\ tkOrders \in Seq(TikTokRow) /\ tkLines \in Seq(TikTokLine)
  /\ \A l \in DOMAIN tkLines : tkLines[l].order \in DOMAIN tkOrders

SalesGrow ==
  DOMAIN tkOrders \subseteq DOMAIN tkOrders' /\ DOMAIN tkLines \subseteq DOMAIN tkLines'

LEMMA TikTokParts ==
  ASSUME TikTokTypeOK
  PROVE  /\ TikTokRest /\ SaleTablesOK
         /\ \A h \in Agents : IsWork(agent[h], DOMAIN tkOrders, DOMAIN tkLines)
  BY DEF TikTokTypeOK, TikTokRest, SaleTablesOK

LEMMA AgentSet ==
  ASSUME TikTokTypeOK, NEW h \in Agents, NEW w, Becomes(h, w),
         IsWork(w, DOMAIN tkOrders', DOMAIN tkLines'),
         TikTokRest', SaleTablesOK', SalesGrow
  PROVE  TikTokTypeOK'
<1>1. DOMAIN agent = Agents /\ agent' = [agent EXCEPT ![h] = w]
  BY DEF TikTokTypeOK, Becomes
<1>2. ASSUME NEW k \in Agents
      PROVE  IsWork(agent'[k], DOMAIN tkOrders', DOMAIN tkLines')
  <2>1. CASE k = h
    <3>1. agent'[k] = w
      BY <1>1, <2>1
    <3> QED
      BY <3>1
  <2>2. CASE k # h
    <3>1. agent'[k] = agent[k]
      BY <1>1, <2>2
    <3>2. IsWork(agent[k], DOMAIN tkOrders, DOMAIN tkLines)
      BY TikTokParts
    <3> DEFINE v == agent[k]
               O == DOMAIN tkOrders
               L == DOMAIN tkLines
               O2 == DOMAIN tkOrders'
               L2 == DOMAIN tkLines'
    <3>3. IsWork(v, O, L) /\ O \subseteq O2 /\ L \subseteq L2
      BY <3>2 DEF SalesGrow
    <3> HIDE DEF v, O, L, O2, L2
    <3>4. IsWork(v, O2, L2)
      BY <3>3, WorkKept
    <3> QED
      BY <3>1, <3>4 DEF v, O2, L2
  <2> QED
    BY <2>1, <2>2
<1> QED
  BY <1>1, <1>2 DEF TikTokTypeOK, TikTokRest, SaleTablesOK

LEMMA TikTokRows ==
  ASSUME TikTokTypeOK
  PROVE  /\ \A o \in DOMAIN tkOrders : tkOrders[o] \in TikTokRow /\ o \in Nat
         /\ \A l \in DOMAIN tkLines :
              /\ tkLines[l] \in TikTokLine /\ l \in Nat
              /\ tkLines[l].order \in DOMAIN tkOrders
         /\ Len(tkOrders) \in Nat /\ Len(tkLines) \in Nat
         /\ DOMAIN tkOrders = 1 .. Len(tkOrders) /\ DOMAIN tkLines = 1 .. Len(tkLines)
  BY ElementOfSeq, LenProperties DEF TikTokTypeOK

(***************************************************************************)
(* What the requests for stock leave of the lines.                         *)
(***************************************************************************)
LinesKept ==
  /\ tkLines' \in Seq(TikTokLine) /\ DOMAIN tkLines' = DOMAIN tkLines
  /\ \A l \in DOMAIN tkLines : tkLines'[l].order = tkLines[l].order

LEMMA SameLines ==
  ASSUME TikTokTypeOK, UNCHANGED tkLines
  PROVE  LinesKept
  BY DEF TikTokTypeOK, LinesKept

LEMMA FlaggedType ==
  ASSUME TikTokTypeOK, NEW lines, NEW applied \in BOOLEAN, tkLines' = Flagged(lines, applied)
  PROVE  LinesKept
<1>1. ASSUME NEW l \in DOMAIN tkLines
      PROVE  tkLines'[l] \in TikTokLine /\ tkLines'[l].order = tkLines[l].order
  <2>1. tkLines[l] \in TikTokLine
    BY TikTokRows
  <2>2. tkLines'[l] = IF l \in lines THEN [tkLines[l] EXCEPT !.applied = applied]
                      ELSE tkLines[l]
    BY DEF Flagged
  <2> QED
    BY <2>1, <2>2 DEF TikTokLine
<1>2. tkLines' = [l \in DOMAIN tkLines |-> tkLines'[l]]
  BY DEF Flagged
<1>3. tkLines' \in [DOMAIN tkLines -> TikTokLine]
  BY <1>1, <1>2
<1> QED
  BY <1>1, <1>3, SameLength DEF TikTokTypeOK, LinesKept

LEMMA MovesType ==
  ASSUME NEW reference \in {"sale_order_line", "sale_order_cancel",
                            "sale_order_line_swap_in", "sale_order_line_swap_out"},
         NEW id \in Nat, NEW p \in Products, NEW delta \in Int
  PROVE  Moves(reference, id, p, delta) \in LineMovementRow
  BY DEF Moves, MovementRow, LineMovementRow

LEMMA LineProduct ==
  ASSUME TikTokTypeOK, NEW o, NEW l \in ProductLinesOfSale(o)
  PROVE  l \in DOMAIN tkLines /\ l \in Nat /\ tkLines[l].product \in Products
  BY TikTokRows DEF ProductLinesOfSale, LinesOfSale, TikTokLine

(***************************************************************************)
(* Rows for some lines, in the order of their ids.                         *)
(***************************************************************************)
LEMMA LineMovesType ==
  ASSUME TikTokTypeOK, NEW S, S \subseteq DOMAIN tkLines, NEW move \in [S -> LineMovementRow]
  PROVE  [n \in DOMAIN InIdOrder(S) |-> move[InIdOrder(S)[n]]] \in Seq(LineMovementRow)
<1>1. IsFiniteSet(S) /\ S \subseteq Nat
  BY PositionsFinite DEF TikTokTypeOK
<1> QED
  BY <1>1, RowsInOrder

LEMMA TakeStockTypes ==
  ASSUME TikTokTypeOK, NEW o, TakeStock(o)
  PROVE  LineStep /\ LinesKept
<1>1. CASE HoldsStock(o)
  <2> DEFINE S == Undeducted(o)
             move == [l \in S |-> Moves("sale_order_line", l, tkLines[l].product, -1)]
             ids == InIdOrder(S)
             rows == [n \in DOMAIN ids |->
                        Moves("sale_order_line", ids[n], tkLines[ids[n]].product, -1)]
  <2>1. RecordMovements(rows) /\ tkLines' = Flagged(ProductLinesOfSale(o), TRUE)
    BY <1>1 DEF TakeStock, MapSeq
  <2>2. S \subseteq ProductLinesOfSale(o)
    BY DEF Undeducted
  <2>3. S \subseteq DOMAIN tkLines /\ S \subseteq Nat /\ IsFiniteSet(S)
    BY <2>2, LineProduct, PositionsFinite DEF TikTokTypeOK
  <2>4. move \in [S -> LineMovementRow]
    <3>1. \A l \in S : Moves("sale_order_line", l, tkLines[l].product, -1) \in LineMovementRow
      BY <2>2, LineProduct, MovesType
    <3> QED
      BY <3>1
  <2>5. \A n \in DOMAIN ids : ids[n] \in S
    BY <2>3, IdsInOrder
  <2>6. rows = [n \in DOMAIN ids |-> move[ids[n]]]
    BY <2>5
  <2> HIDE DEF S, move
  <2>7. rows \in Seq(LineMovementRow)
    BY <2>3, <2>4, <2>6, LineMovesType
  <2>8. LineStep
    BY <2>1, <2>7 DEF LineStep
  <2>9. LinesKept
    BY <2>1, FlaggedType
  <2> QED
    BY <2>8, <2>9
<1>2. CASE ~HoldsStock(o)
  BY <1>2, SameLines DEF TakeStock, LineStep
<1> QED
  BY <1>1, <1>2

LEMMA GiveStockBackTypes ==
  ASSUME TikTokTypeOK, NEW o \in DOMAIN tkOrders, GiveStockBack(o)
  PROVE  LineStep /\ LinesKept
<1> DEFINE S == GivenBack(o)
           move == [l \in S |-> Moves("sale_order_cancel", o, tkLines[l].product, 1)]
           ids == InIdOrder(S)
           rows == [n \in DOMAIN ids |->
                      Moves("sale_order_cancel", o, tkLines[ids[n]].product, 1)]
<1>1. RecordMovements(rows) /\ tkLines' = Flagged(AppliedOfSale(o), FALSE)
  BY DEF GiveStockBack, MapSeq
<1>2. S \subseteq ProductLinesOfSale(o) /\ o \in Nat
  BY TikTokRows DEF GivenBack, AppliedOfSale
<1>3. S \subseteq DOMAIN tkLines /\ S \subseteq Nat /\ IsFiniteSet(S)
  BY <1>2, LineProduct, PositionsFinite DEF TikTokTypeOK
<1>4. move \in [S -> LineMovementRow]
  <2>1. \A l \in S : Moves("sale_order_cancel", o, tkLines[l].product, 1) \in LineMovementRow
    BY <1>2, LineProduct, MovesType
  <2> QED
    BY <2>1
<1>5. \A n \in DOMAIN ids : ids[n] \in S
  BY <1>3, IdsInOrder
<1>6. rows = [n \in DOMAIN ids |-> move[ids[n]]]
  BY <1>5
<1> HIDE DEF S, move
<1>7. rows \in Seq(LineMovementRow)
  BY <1>3, <1>4, <1>6, LineMovesType
<1>8. LineStep
  BY <1>1, <1>7 DEF LineStep
<1>9. LinesKept
  BY <1>1, FlaggedType
<1> QED
  BY <1>8, <1>9

LEMMA BringInLineTypes ==
  ASSUME TikTokTypeOK, NEW o \in DOMAIN tkOrders, BringInLine(o)
  PROVE  LineStep /\ LinesKept
  BY TakeStockTypes, GiveStockBackTypes DEF BringInLine

(***************************************************************************)
(* What a transaction leaves of the sale orders.                           *)
(***************************************************************************)
LEMMA NothingStored ==
  ASSUME TikTokTypeOK, UNCHANGED saleTables
  PROVE  SaleTablesOK' /\ SalesGrow
  BY DEF TikTokTypeOK, SaleTablesOK, SalesGrow, saleTables

LEMMA LinesStored ==
  ASSUME TikTokTypeOK, LinesKept, UNCHANGED tkOrders
  PROVE  SaleTablesOK' /\ SalesGrow
<1>1. \A l \in DOMAIN tkLines' : tkLines'[l].order \in DOMAIN tkOrders'
  BY TikTokRows DEF LinesKept
<1> QED
  BY <1>1 DEF TikTokTypeOK, SaleTablesOK, SalesGrow, LinesKept

LEMMA OrdersStored ==
  ASSUME TikTokTypeOK, UNCHANGED tkLines,
         tkOrders' \in Seq(TikTokRow), DOMAIN tkOrders \subseteq DOMAIN tkOrders'
  PROVE  SaleTablesOK' /\ SalesGrow
<1>1. \A l \in DOMAIN tkLines' : tkLines'[l].order \in DOMAIN tkOrders'
  BY TikTokRows
<1> QED
  BY <1>1 DEF TikTokTypeOK, SaleTablesOK, SalesGrow

LEMMA OrderRewritten ==
  ASSUME TikTokTypeOK, UNCHANGED tkLines, NEW o \in DOMAIN tkOrders,
         NEW state \in {"draft", "sale", "cancel"},
         NEW payment \in {"unpaid", "paid", "refunded"},
         tkOrders' = Rewritten(o, state, payment)
  PROVE  SaleTablesOK' /\ SalesGrow /\ DOMAIN tkOrders' = DOMAIN tkOrders
<1>1. tkOrders \in [DOMAIN tkOrders -> TikTokRow]
  BY TikTokRows DEF TikTokTypeOK
<1>2. tkOrders' \in [DOMAIN tkOrders -> TikTokRow]
  BY <1>1 DEF Rewritten, TikTokRow
<1>3. tkOrders' \in Seq(TikTokRow) /\ DOMAIN tkOrders' = DOMAIN tkOrders
  BY <1>2, SameLength DEF TikTokTypeOK
<1> QED
  BY <1>3, OrdersStored

LEMMA OrderCreated ==
  ASSUME TikTokTypeOK, UNCHANGED tkLines, NEW row \in TikTokRow,
         tkOrders' = Append(tkOrders, row)
  PROVE  SaleTablesOK' /\ SalesGrow /\ Len(tkOrders) + 1 \in DOMAIN tkOrders'
<1>1. /\ tkOrders' \in Seq(TikTokRow) /\ DOMAIN tkOrders \subseteq DOMAIN tkOrders'
      /\ Len(tkOrders) + 1 \in DOMAIN tkOrders'
  BY OneLonger DEF TikTokTypeOK
<1> QED
  BY <1>1, OrdersStored

LEMMA LineCreated ==
  ASSUME TikTokTypeOK, UNCHANGED tkOrders, NEW row \in TikTokLine,
         row.order \in DOMAIN tkOrders, tkLines' = Append(tkLines, row)
  PROVE  SaleTablesOK' /\ SalesGrow
<1>1. tkLines' \in Seq(TikTokLine) /\ DOMAIN tkLines \subseteq DOMAIN tkLines'
  BY OneLonger DEF TikTokTypeOK
<1>2. ASSUME NEW l \in DOMAIN tkLines' PROVE tkLines'[l].order \in DOMAIN tkOrders'
  <2>1. /\ DOMAIN tkLines' = 1 .. Len(tkLines) + 1
        /\ tkLines'[Len(tkLines) + 1] = row
        /\ \A k \in 1 .. Len(tkLines) : tkLines'[k] = tkLines[k]
    BY AppendProperties, LenProperties DEF TikTokTypeOK
  <2>2. CASE l = Len(tkLines) + 1
    BY <2>1, <2>2
  <2>3. CASE l # Len(tkLines) + 1
    <3>1. l \in 1 .. Len(tkLines)
      BY <2>1, <2>3, TikTokRows
    <3> QED
      BY <2>1, <3>1, TikTokRows
  <2> QED
    BY <2>2, <2>3
<1> QED
  BY <1>1, <1>2 DEF TikTokTypeOK, SaleTablesOK, SalesGrow

-----------------------------------------------------------------------------
(* The threads of the live session *)

LEMMA ThreadOf ==
  ASSUME TikTokTypeOK, NEW h \in Agents
  PROVE  /\ agent[h].op = "import" => IsImport(agent[h], DOMAIN tkOrders)
         /\ agent[h].op = "correct" => agent[h] \in CorrectionWork(DOMAIN tkLines)
         /\ agent[h].op = "session" => agent[h] \in ApplicationWork(DOMAIN tkLines)
         /\ agent[h].op = "shop" => IsShopImport(agent[h], DOMAIN tkOrders)
         /\ agent[h].op = "return" => agent[h] \in ReturnWork(DOMAIN tkOrders)
<1> DEFINE w == agent[h]
           O == DOMAIN tkOrders
           L == DOMAIN tkLines
<1>1. IsWork(w, O, L)
  BY TikTokParts
<1> HIDE DEF w, O, L
<1>2. /\ w = Free => w.op = "none"
      /\ IsImport(w, O) => w.op = "import"
      /\ w \in CorrectionWork(L) => w.op = "correct"
      /\ w \in ApplicationWork(L) => w.op = "session"
      /\ IsShopImport(w, O) => w.op = "shop"
      /\ w \in ReturnWork(O) => w.op = "return"
  BY DEF Free, IsImport, ImportWork, CorrectionWork, ApplicationWork, IsShopImport,
         ShopImportWork, ReturnWork
<1>3. \/ w = Free \/ IsImport(w, O) \/ w \in CorrectionWork(L)
      \/ w \in ApplicationWork(L) \/ IsShopImport(w, O) \/ w \in ReturnWork(O)
  BY <1>1 DEF IsWork, IsLiveWork, IsShopWork
<1> QED
  BY <1>2, <1>3 DEF w, O, L

LEMMA ToRowType ==
  ASSUME NEW orders, NEW lines, NEW w \in ImportWork(orders)
  PROVE  IsWork(ToRow(w), orders, lines)
<1>1. CASE w.rows = << >>
  BY <1>1 DEF ToRow, IsWork
<1>2. CASE w.rows # << >>
  <2> DEFINE old == w.found[Head(w.rows).lot]
             step == IF old = {} THEN "create" ELSE "update"
             v == [w EXCEPT !.step = step, !.left = old]
  <2>1. Head(w.rows) \in ImportRow
    <3>1. w.rows \in Seq(ImportRow)
      BY DEF ImportWork
    <3> QED
      BY <1>2, <3>1, HeadTailProperties
  <2>2. old \subseteq orders
    BY <2>1 DEF ImportWork, ImportRow
  <2>3. ToRow(w) = v
    BY <1>2 DEF ToRow
  <2>4. step \in {"create", "update"}
    OBVIOUS
  <2> HIDE DEF old, step
  <2>5. v \in ImportWork(orders)
    BY <2>2, <2>4 DEF ImportWork
  <2>6. v.rows = w.rows /\ v.step = step
    BY DEF ImportWork
  <2> HIDE DEF v
  <2>7. IsImport(v, orders)
    BY <1>2, <2>4, <2>5, <2>6 DEF IsImport
  <2> QED
    BY <2>3, <2>7 DEF IsWork, IsLiveWork
<1> QED
  BY <1>1, <1>2

LEMMA NextRowType ==
  ASSUME NEW orders, NEW lines, NEW w \in ImportWork(orders), w.rows # << >>
  PROVE  IsWork(NextRow(w), orders, lines)
<1> DEFINE v == [w EXCEPT !.rows = Tail(w.rows)]
<1>1. Tail(w.rows) \in Seq(ImportRow)
  <2>1. w.rows \in Seq(ImportRow)
    BY DEF ImportWork
  <2> QED
    BY <2>1, HeadTailProperties
<1>2. v \in ImportWork(orders)
  BY <1>1 DEF ImportWork
<1>3. NextRow(w) = ToRow(v)
  BY DEF NextRow, ImportWork
<1> HIDE DEF v
<1> QED
  BY <1>2, <1>3, ToRowType

LEMMA Freed ==
  ASSUME TikTokTypeOK, NEW h \in Agents, Becomes(h, Free),
         TikTokRest', SaleTablesOK', SalesGrow
  PROVE  TikTokTypeOK'
<1>1. IsWork(Free, DOMAIN tkOrders', DOMAIN tkLines')
  BY DEF IsWork
<1> QED
  BY <1>1, AgentSet

(***************************************************************************)
(* A thread that only moves on to another step of its import.              *)
(***************************************************************************)
LEMMA ImportStep ==
  ASSUME NEW orders, NEW lines, NEW w \in ImportWork(orders), w.rows # << >>,
         NEW step \in {"list", "create", "update", "sync", "settle", "line", "apply"},
         step \in {"sync", "settle", "line", "apply"} => w.order \in orders,
         step = "line" => w.products # << >>
  PROVE  IsWork([w EXCEPT !.step = step], orders, lines)
<1> DEFINE v == [w EXCEPT !.step = step]
<1>1. v \in ImportWork(orders) /\ v.step = step
  BY DEF ImportWork
<1>2. v.rows = w.rows /\ v.order = w.order /\ v.products = w.products
  BY DEF ImportWork
<1> HIDE DEF v
<1>3. IsImport(v, orders)
  BY <1>1, <1>2 DEF IsImport
<1> QED
  BY <1>3 DEF IsWork, IsLiveWork, v

LEMMA LotsFinite ==
  /\ LotOrders \subseteq Nat /\ ShopOrders \subseteq Nat
  /\ LotOrders \subseteq TikTokOrders /\ ShopOrders \subseteq TikTokOrders
  /\ \A lots \in SUBSET LotOrders : IsFiniteSet(lots) /\ lots \subseteq Nat
<1>1. NumLots \in Nat /\ NumShopOrders \in Nat
  BY TikTokConstants
<1>2. IsFiniteSet(LotOrders)
  BY <1>1, FS_Interval DEF LotOrders
<1>3. LotOrders \subseteq Nat /\ ShopOrders \subseteq Nat
  BY <1>1 DEF LotOrders, ShopOrders
<1> QED
  BY <1>2, <1>3, FS_Subset DEF TikTokOrders

LEMMA ImportRequestTypes ==
  ASSUME TikTokTypeOK, TikTokRest', NEW h \in Agents, ImportRequest(h)
  PROVE  TikTokTypeOK' /\ LineStep
<1>1. NoMovement /\ UNCHANGED saleTables
  BY DEF ImportRequest
<1>2. PICK lots \in {OnSale} \cup {{l} : l \in OnSale} :
        /\ lots # {}
        /\ Becomes(h, [op |-> "import", step |-> "list", rows |-> RowsOf(lots),
                       found |-> [l \in LotOrders |-> {}], order |-> 0,
                       left |-> {}, products |-> << >>])
  BY DEF ImportRequest
<1> DEFINE O == DOMAIN tkOrders
           ids == InIdOrder(lots)
           row == [l \in lots |->
                     [lot |-> l, status |-> remote[l], products |-> lotItems[l]]]
           rows == RowsOf(lots)
           found == [l \in LotOrders |-> {}]
           w == [op |-> "import", step |-> "list", rows |-> rows, found |-> found,
                 order |-> 0, left |-> {}, products |-> << >>]
<1>3. lots \subseteq LotOrders
  BY DEF OnSale
<1>4. IsFiniteSet(lots) /\ lots \subseteq Nat
  BY <1>3, LotsFinite
<1>5. row \in [lots -> ImportRow]
  BY <1>3, LotsFinite, TikTokParts DEF ImportRow, TikTokRest
<1>6. ids \in [1 .. Cardinality(lots) -> lots] /\ Cardinality(lots) \in Nat
  BY <1>4, IdsInOrder
<1>7. Cardinality(lots) # 0
  BY <1>2, <1>4, FS_EmptySet
<1>8. rows = [n \in DOMAIN ids |-> row[ids[n]]]
  <2>1. rows = [n \in DOMAIN ids |->
                  [lot |-> ids[n], status |-> remote[ids[n]],
                   products |-> lotItems[ids[n]]]]
    BY DEF RowsOf, MapSeq
  <2>2. \A n \in DOMAIN ids : ids[n] \in lots
    BY <1>6
  <2> HIDE DEF ids, rows
  <2> QED
    BY <2>1, <2>2
<1>9. rows \in Seq(ImportRow)
  <2> HIDE DEF row, rows
  <2> QED
    BY <1>4, <1>5, <1>8, RowsInOrder
<1>10. rows # << >>
  <2>1. DOMAIN rows = 1 .. Cardinality(lots)
    <3> HIDE DEF rows, row, ids
    <3> QED
      BY <1>6, <1>8
  <2>2. 1 \in DOMAIN rows
    BY <1>6, <1>7, <2>1
  <2> HIDE DEF rows
  <2> QED
    BY <2>2
<1>11. Becomes(h, w)
  BY <1>2
<1>12. << >> \in Seq(Products \cup {NoProduct})
  BY EmptySeq
<1> HIDE DEF rows, O
<1>13. found \in [LotOrders -> SUBSET O]
  OBVIOUS
<1> HIDE DEF found
<1>14. w \in ImportWork(O)
  BY <1>9, <1>12, <1>13 DEF ImportWork
<1>15. w.rows = rows /\ w.step = "list"
  OBVIOUS
<1> HIDE DEF w
<1>16. IsImport(w, O)
  BY <1>10, <1>14, <1>15 DEF IsImport
<1>17. IsWork(w, DOMAIN tkOrders', DOMAIN tkLines')
  BY <1>1, <1>16 DEF IsWork, IsLiveWork, O, saleTables
<1>18. SaleTablesOK' /\ SalesGrow
  BY <1>1, NothingStored
<1> QED
  BY <1>1, <1>11, <1>17, <1>18, AgentSet DEF LineStep

LEMMA CorrectRequestTypes ==
  ASSUME TikTokTypeOK, TikTokRest', NEW h \in Agents, CorrectRequest(h)
  PROVE  TikTokTypeOK' /\ LineStep
<1>1. NoMovement /\ UNCHANGED saleTables
  BY DEF CorrectRequest
<1>2. PICK l \in LotOrders, p \in Products :
        Becomes(h, [op |-> "correct", step |-> "read", lot |-> l, product |-> p,
                    line |-> 0, old |-> NoProduct, applied |-> FALSE, due |-> FALSE])
  BY DEF CorrectRequest
<1> DEFINE L == DOMAIN tkLines'
           w == [op |-> "correct", step |-> "read", lot |-> l, product |-> p,
                 line |-> 0, old |-> NoProduct, applied |-> FALSE, due |-> FALSE]
<1> HIDE DEF L
<1>3. w \in CorrectionWork(L)
  BY DEF CorrectionWork
<1>4. Becomes(h, w)
  BY <1>2
<1> HIDE DEF w
<1>5. IsWork(w, DOMAIN tkOrders', L)
  BY <1>3 DEF IsWork, IsLiveWork
<1>6. SaleTablesOK' /\ SalesGrow
  BY <1>1, NothingStored
<1> QED
  BY <1>1, <1>4, <1>5, <1>6, AgentSet DEF LineStep, L

LEMMA FirstProduct ==
  ASSUME TikTokTypeOK, NEW l \in LotOrders
  PROVE  ProductOnLot(l) \in Products \cup {NoProduct}
<1>1. lotItems[l] \in Seq(Products)
  BY TikTokParts DEF TikTokRest
<1> QED
  BY <1>1, HeadTailProperties DEF ProductOnLot

LEMMA SessionRequestTypes ==
  ASSUME TikTokTypeOK, TikTokRest', NEW h \in Agents, SessionRequest(h)
  PROVE  TikTokTypeOK' /\ LineStep
<1>1. NoMovement /\ UNCHANGED saleTables
  BY DEF SessionRequest
<1> DEFINE due == {k \in DOMAIN tkLines :
                     /\ IsLive(tkLines[k].order)
                     /\ tkOrders[tkLines[k].order].state # "cancel"
                     /\ tkOrders[tkLines[k].order].payment = "paid"}
           row(l) == [id |-> l, linked |-> tkLines[l].product = NoProduct,
                      product |-> IF tkLines[l].product # NoProduct
                                    THEN tkLines[l].product
                                    ELSE ProductOnLot(tkOrders[tkLines[l].order].ref)]
           read == {row(l) : l \in due}
           w == [op |-> "session", step |-> "write", read |-> read]
           L == DOMAIN tkLines'
<1>2. Becomes(h, w)
  BY DEF SessionRequest
<1>3. ASSUME NEW l \in due
      PROVE  row(l) \in [id : L, linked : BOOLEAN, product : Products \cup {NoProduct}]
  <2>1. tkLines[l] \in TikTokLine /\ l \in L
    BY <1>1, TikTokRows DEF saleTables
  <2>2. tkOrders[tkLines[l].order].ref \in LotOrders
    BY DEF IsLive
  <2>3. ProductOnLot(tkOrders[tkLines[l].order].ref) \in Products \cup {NoProduct}
    BY <2>2, FirstProduct
  <2>4. tkLines[l].product \in Products \cup {NoProduct}
    BY <2>1 DEF TikTokLine
  <2> HIDE DEF L
  <2> QED
    BY <2>1, <2>3, <2>4
<1> HIDE DEF row, due, L
<1>4. read \subseteq [id : L, linked : BOOLEAN, product : Products \cup {NoProduct}]
  BY <1>3
<1> HIDE DEF read
<1>5. w \in ApplicationWork(L)
  BY <1>4 DEF ApplicationWork
<1> HIDE DEF w
<1>6. IsWork(w, DOMAIN tkOrders', L)
  BY <1>5 DEF IsWork, IsLiveWork
<1>7. SaleTablesOK' /\ SalesGrow
  BY <1>1, NothingStored
<1> QED
  BY <1>1, <1>2, <1>6, <1>7, AgentSet DEF LineStep, L

LEMMA AtImport ==
  ASSUME TikTokTypeOK, NEW h \in Agents, NEW step, At(h, "import", step)
  PROVE  /\ IsImport(agent[h], DOMAIN tkOrders)
         /\ agent[h] \in ImportWork(DOMAIN tkOrders) /\ agent[h].rows # << >>
         /\ agent[h].step = step
         /\ Head(agent[h].rows) \in ImportRow
<1>1. IsImport(agent[h], DOMAIN tkOrders) /\ agent[h].step = step
  BY ThreadOf DEF At
<1>2. agent[h] \in ImportWork(DOMAIN tkOrders) /\ agent[h].rows # << >>
  BY <1>1 DEF IsImport
<1>3. agent[h].rows \in Seq(ImportRow)
  BY <1>2 DEF ImportWork
<1> QED
  BY <1>1, <1>2, <1>3, HeadTailProperties

(***************************************************************************)
(* Steps of an import that change its thread, and sale orders at most.     *)
(***************************************************************************)
LEMMA ImportGoesOn ==
  ASSUME TikTokTypeOK, TikTokRest', NEW h \in Agents, NEW w, Becomes(h, w),
         IsWork(w, DOMAIN tkOrders, DOMAIN tkLines), SaleTablesOK', SalesGrow
  PROVE  TikTokTypeOK'
<1> DEFINE O == DOMAIN tkOrders
           L == DOMAIN tkLines
           O2 == DOMAIN tkOrders'
           L2 == DOMAIN tkLines'
<1>1. O \subseteq O2 /\ L \subseteq L2 /\ IsWork(w, O, L)
  BY DEF SalesGrow
<1> HIDE DEF O, L, O2, L2
<1>2. IsWork(w, O2, L2)
  BY <1>1, WorkKept
<1> QED
  BY <1>2, AgentSet DEF O2, L2

LEMMA ListSalesTypes ==
  ASSUME TikTokTypeOK, TikTokRest', NEW h \in Agents, ListSales(h)
  PROVE  TikTokTypeOK' /\ LineStep
<1>1. NoMovement /\ UNCHANGED saleTables /\ At(h, "import", "list")
  BY DEF ListSales
<1> DEFINE O == DOMAIN tkOrders
           w == agent[h]
           v == [w EXCEPT !.found = FoundSales]
<1>2. w \in ImportWork(O)
  BY <1>1, AtImport
<1>3. FoundSales \in [LotOrders -> SUBSET O]
  BY DEF FoundSales, SalesOf
<1>4. Becomes(h, ToRow(v))
  BY DEF ListSales
<1> HIDE DEF w, O
<1>5. v \in ImportWork(O)
  BY <1>2, <1>3 DEF ImportWork
<1> HIDE DEF v
<1>6. IsWork(ToRow(v), O, DOMAIN tkLines)
  BY <1>5, ToRowType
<1> QED
  BY <1>1, <1>4, <1>6, NothingStored, ImportGoesOn DEF LineStep, O

LEMMA UpdateLiveSaleTypes ==
  ASSUME TikTokTypeOK, TikTokRest', NEW h \in Agents, UpdateLiveSale(h)
  PROVE  TikTokTypeOK' /\ LineStep
<1> DEFINE w == agent[h]
           O == DOMAIN tkOrders
<1>1. NoMovement /\ UNCHANGED tkLines /\ At(h, "import", "update")
  BY DEF UpdateLiveSale
<1>2. PICK o \in w.left :
        /\ tkOrders' = IF RowStatus(h) = "cancelled"
                         THEN Rewritten(o, "cancel", "unpaid")
                         ELSE Rewritten(o, "sale", "paid")
        /\ Becomes(h, [w EXCEPT !.step = "sync", !.order = o, !.left = @ \ {o}])
  BY DEF UpdateLiveSale
<1>3. w \in ImportWork(O) /\ w.rows # << >>
  BY <1>1, AtImport
<1>4. o \in O /\ o \in Nat
  BY <1>3, TikTokRows DEF ImportWork
<1>5. SaleTablesOK' /\ SalesGrow
  BY <1>1, <1>2, <1>4, OrderRewritten
<1> DEFINE v == [w EXCEPT !.step = "sync", !.order = o, !.left = w.left \ {o}]
<1>6. Becomes(h, v)
  BY <1>2
<1> HIDE DEF w, O
<1>7. v \in ImportWork(O)
  BY <1>3, <1>4 DEF ImportWork
<1>8. v.rows = w.rows /\ v.step = "sync" /\ v.order = o
  BY <1>3 DEF ImportWork
<1> HIDE DEF v
<1>9. IsWork(v, O, DOMAIN tkLines)
  BY <1>3, <1>4, <1>7, <1>8 DEF IsImport, IsWork, IsLiveWork
<1> QED
  BY <1>1, <1>5, <1>6, <1>9, ImportGoesOn DEF LineStep, O

LEMMA SyncLiveSaleTypes ==
  ASSUME TikTokTypeOK, TikTokRest', NEW h \in Agents, SyncLiveSale(h)
  PROVE  TikTokTypeOK' /\ LineStep
<1> DEFINE w == agent[h]
           O == DOMAIN tkOrders
<1>1. /\ UNCHANGED tkOrders /\ At(h, "import", "sync") /\ BringInLine(w.order)
      /\ Becomes(h, [w EXCEPT !.step = "settle"])
  BY DEF SyncLiveSale
<1>2. w \in ImportWork(O) /\ w.rows # << >> /\ IsImport(w, O) /\ w.step = "sync"
  BY <1>1, AtImport
<1>3. w.order \in O
  BY <1>2 DEF IsImport
<1>4. LineStep /\ LinesKept
  BY <1>1, <1>3, BringInLineTypes
<1>5. SaleTablesOK' /\ SalesGrow
  BY <1>1, <1>4, LinesStored
<1>6. IsWork([w EXCEPT !.step = "settle"], O, DOMAIN tkLines)
  <2> HIDE DEF w, O
  <2> QED
    BY <1>2, <1>3, ImportStep
<1> QED
  BY <1>1, <1>4, <1>5, <1>6, ImportGoesOn

LEMMA SettleLiveSaleTypes ==
  ASSUME TikTokTypeOK, TikTokRest', NEW h \in Agents, SettleLiveSale(h)
  PROVE  TikTokTypeOK' /\ LineStep
<1> DEFINE w == agent[h]
           O == DOMAIN tkOrders
           v == IF w.left = {} THEN NextRow(w) ELSE [w EXCEPT !.step = "update"]
<1>1. /\ UNCHANGED tkOrders /\ At(h, "import", "settle")
      /\ GiveStockBack(w.order) \/ TakeStock(w.order)
      /\ Becomes(h, v)
  BY DEF SettleLiveSale
<1>2. w \in ImportWork(O) /\ w.rows # << >> /\ IsImport(w, O) /\ w.step = "settle"
  BY <1>1, AtImport
<1>3. w.order \in O
  BY <1>2 DEF IsImport
<1>4. LineStep /\ LinesKept
  BY <1>1, <1>3, GiveStockBackTypes, TakeStockTypes
<1>5. SaleTablesOK' /\ SalesGrow
  BY <1>1, <1>4, LinesStored
<1>6. IsWork(v, O, DOMAIN tkLines)
  <2>1. IsWork([w EXCEPT !.step = "update"], O, DOMAIN tkLines)
    <3> HIDE DEF w, O
    <3> QED
      BY <1>2, ImportStep
  <2>2. IsWork(NextRow(w), O, DOMAIN tkLines)
    <3> HIDE DEF w, O
    <3> QED
      BY <1>2, NextRowType
  <2> QED
    BY <2>1, <2>2
<1> HIDE DEF v
<1> QED
  BY <1>1, <1>4, <1>5, <1>6, ImportGoesOn

LEMMA ApplyLiveSaleTypes ==
  ASSUME TikTokTypeOK, TikTokRest', NEW h \in Agents, ApplyLiveSale(h)
  PROVE  TikTokTypeOK' /\ LineStep
<1> DEFINE w == agent[h]
           O == DOMAIN tkOrders
<1>1. /\ UNCHANGED tkOrders /\ At(h, "import", "apply") /\ TakeStock(w.order)
      /\ Becomes(h, NextRow(w))
  BY DEF ApplyLiveSale
<1>2. w \in ImportWork(O) /\ w.rows # << >>
  BY <1>1, AtImport
<1>3. LineStep /\ LinesKept
  BY <1>1, TakeStockTypes
<1>4. SaleTablesOK' /\ SalesGrow
  BY <1>1, <1>3, LinesStored
<1>5. IsWork(NextRow(w), O, DOMAIN tkLines)
  <2> HIDE DEF w, O
  <2> QED
    BY <1>2, NextRowType
<1> QED
  BY <1>1, <1>3, <1>4, <1>5, ImportGoesOn

LEMMA CreateLiveSaleTypes ==
  ASSUME TikTokTypeOK, TikTokRest', NEW h \in Agents, CreateLiveSale(h)
  PROVE  TikTokTypeOK' /\ LineStep
<1> DEFINE w == agent[h]
           row == Head(w.rows)
           sale == NewLiveSale(row)
           products == IF row.products = << >> THEN <<NoProduct>> ELSE row.products
           o == Len(tkOrders) + 1
           v == [w EXCEPT !.step = "line", !.order = o, !.products = products]
           O2 == DOMAIN tkOrders'
<1>1. /\ UNCHANGED tkLines /\ NoMovement /\ At(h, "import", "create")
      /\ tkOrders' = Append(tkOrders, sale) /\ Becomes(h, v)
  BY DEF CreateLiveSale
<1>2. w \in ImportWork(DOMAIN tkOrders) /\ w.rows # << >> /\ row \in ImportRow
  BY <1>1, AtImport
<1>3. sale \in TikTokRow
  <2> HIDE DEF row
  <2> QED
    BY <1>2, LotsFinite DEF NewLiveSale, TikTokRow, ImportRow
<1>4. products \in Seq(Products \cup {NoProduct}) /\ products # << >>
  <2>1. row.products \in Seq(Products)
    BY <1>2 DEF ImportRow
  <2>2. row.products \in Seq(Products \cup {NoProduct})
    BY <2>1, SeqMonotonic
  <2>3. <<NoProduct>> \in Seq(Products \cup {NoProduct}) /\ <<NoProduct>> # << >>
    OBVIOUS
  <2> QED
    BY <2>2, <2>3
<1> HIDE DEF sale
<1>5. SaleTablesOK' /\ SalesGrow /\ o \in O2
  BY <1>1, <1>3, OrderCreated
<1>6. w \in ImportWork(O2)
  <2> DEFINE O == DOMAIN tkOrders
  <2>1. O \subseteq O2
    BY <1>5 DEF SalesGrow
  <2>2. w.found \in [LotOrders -> SUBSET O] /\ w.left \subseteq O
    BY <1>2 DEF ImportWork
  <2> HIDE DEF w, O, O2
  <2>3. w.found \in [LotOrders -> SUBSET O2] /\ w.left \subseteq O2
    BY <2>1, <2>2
  <2> QED
    BY <1>2, <2>3 DEF ImportWork, O
<1>7. o \in Nat
  BY TikTokRows
<1> HIDE DEF products, o, w, O2
<1>8. v \in ImportWork(O2)
  BY <1>4, <1>6, <1>7 DEF ImportWork
<1>9. v.rows = w.rows /\ v.step = "line" /\ v.order = o /\ v.products = products
  BY <1>6 DEF ImportWork
<1> HIDE DEF v
<1>10. IsImport(v, O2)
  BY <1>2, <1>4, <1>5, <1>8, <1>9 DEF IsImport
<1>11. IsWork(v, DOMAIN tkOrders', DOMAIN tkLines')
  BY <1>10 DEF IsWork, IsLiveWork, O2
<1> QED
  BY <1>1, <1>5, <1>11, AgentSet DEF LineStep

LEMMA AddLiveLineTypes ==
  ASSUME TikTokTypeOK, TikTokRest', NEW h \in Agents, AddLiveLine(h)
  PROVE  TikTokTypeOK' /\ LineStep
<1> DEFINE w == agent[h]
           O == DOMAIN tkOrders
           rest == [w EXCEPT !.products = Tail(w.products)]
           line == [order |-> w.order, product |-> Head(w.products), applied |-> FALSE]
           v == IF rest.products # << >> THEN rest
                ELSE IF RowStatus(h) = "cancelled" THEN NextRow(rest)
                     ELSE [rest EXCEPT !.step = "apply"]
<1>1. /\ UNCHANGED tkOrders /\ NoMovement /\ At(h, "import", "line")
      /\ tkLines' = Append(tkLines, line) /\ Becomes(h, v)
  BY DEF AddLiveLine
<1>2. w \in ImportWork(O) /\ w.rows # << >> /\ IsImport(w, O) /\ w.step = "line"
  BY <1>1, AtImport
<1>3. w.order \in O /\ w.products # << >> /\ w.order \in Nat
  BY <1>2 DEF IsImport, ImportWork
<1>4. /\ Head(w.products) \in Products \cup {NoProduct}
      /\ Tail(w.products) \in Seq(Products \cup {NoProduct})
  <2>1. w.products \in Seq(Products \cup {NoProduct})
    BY <1>2 DEF ImportWork
  <2> QED
    BY <1>3, <2>1, HeadTailProperties
<1>5. line \in TikTokLine /\ line.order = w.order
  BY <1>3, <1>4 DEF TikTokLine
<1> HIDE DEF line
<1>6. SaleTablesOK' /\ SalesGrow
  BY <1>1, <1>3, <1>5, LineCreated
<1> DEFINE tail == Tail(w.products)
<1> HIDE DEF tail
<1>7. rest = [w EXCEPT !.products = tail] /\ tail \in Seq(Products \cup {NoProduct})
  BY <1>4 DEF tail
<1>8. rest \in ImportWork(O) /\ rest.rows = w.rows /\ rest.order = w.order /\ rest.step = "line"
  <2> DEFINE u == w
  <2>1. u \in ImportWork(O) /\ rest = [u EXCEPT !.products = tail] /\ u.step = "line"
    BY <1>2, <1>7
  <2> HIDE DEF u, rest
  <2>2. rest \in ImportWork(O) /\ rest.rows = u.rows /\ rest.order = u.order
        /\ rest.step = "line"
    BY <1>7, <2>1 DEF ImportWork
  <2> QED
    BY <2>2 DEF u
<1> HIDE DEF rest
<1>9. IsWork(v, O, DOMAIN tkLines)
  <2>1. CASE rest.products # << >>
    BY <1>2, <1>3, <1>8, <2>1 DEF IsWork, IsLiveWork, IsImport
  <2>2. CASE rest.products = << >>
    <3> HIDE DEF w, O
    <3>1. IsWork(NextRow(rest), O, DOMAIN tkLines)
      BY <1>2, <1>8, NextRowType
    <3>2. IsWork([rest EXCEPT !.step = "apply"], O, DOMAIN tkLines)
      BY <1>2, <1>3, <1>8, ImportStep
    <3> QED
      BY <2>2, <3>1, <3>2
  <2> QED
    BY <2>1, <2>2
<1> HIDE DEF v
<1> QED
  BY <1>1, <1>6, <1>9, ImportGoesOn DEF LineStep

LEMMA AtCorrection ==
  ASSUME TikTokTypeOK, NEW h \in Agents, NEW step, At(h, "correct", step)
  PROVE  agent[h] \in CorrectionWork(DOMAIN tkLines) /\ agent[h].step = step
  BY ThreadOf DEF At

LEMMA FirstLine ==
  ASSUME TikTokTypeOK, NEW S, S \subseteq DOMAIN tkLines, S # {}
  PROVE  (CHOOSE k \in S : \A j \in S : k <= j) \in S
<1>1. S \subseteq Nat
  BY PositionsFinite DEF TikTokTypeOK
<1>2. \E k \in S : \A j \in S : k <= j
  BY <1>1, LeastElement
<1> QED
  BY <1>2

LEMMA ReadLotLineTypes ==
  ASSUME TikTokTypeOK, TikTokRest', NEW h \in Agents, ReadLotLine(h)
  PROVE  TikTokTypeOK' /\ LineStep
<1> DEFINE w == agent[h]
           L == DOMAIN tkLines
           lines == SoldLines(w.lot)
           first == CHOOSE k \in lines : \A j \in lines : k <= j
           lot == ProductOnLot(w.lot)
           old == IF tkLines[first].product # NoProduct THEN tkLines[first].product ELSE lot
           applied == tkLines[first].applied
           due == HoldsStock(tkLines[first].order)
           none == [w EXCEPT !.step = "write", !.old = lot]
           some == [w EXCEPT !.step = "write", !.line = first, !.old = old,
                             !.applied = applied, !.due = due]
           v == IF lines = {} THEN none ELSE some
<1>1. /\ NoMovement /\ UNCHANGED saleTables /\ At(h, "correct", "read")
      /\ Becomes(h, v)
  BY DEF ReadLotLine
<1>2. w \in CorrectionWork(L)
  BY <1>1, AtCorrection
<1>3. lot \in Products \cup {NoProduct}
  <2>1. w.lot \in LotOrders
    BY <1>2 DEF CorrectionWork
  <2> QED
    BY <2>1, FirstProduct
<1>4. ASSUME lines # {} PROVE first \in L /\ tkLines[first] \in TikTokLine
  <2>1. lines \subseteq L
    BY DEF SoldLines
  <2>2. first \in L
    BY <1>4, <2>1, FirstLine
  <2> QED
    BY <2>2, TikTokRows
<1>5. ASSUME lines # {}
      PROVE  old \in Products \cup {NoProduct} /\ applied \in BOOLEAN
  BY <1>3, <1>4, <1>5 DEF TikTokLine
<1>6. due \in BOOLEAN
  BY DEF HoldsStock
<1> HIDE DEF w, L, lines, first, lot, old, applied, due
<1>7. none \in CorrectionWork(L)
  BY <1>2, <1>3 DEF CorrectionWork
<1>8. lines # {} => some \in CorrectionWork(L)
  BY <1>2, <1>4, <1>5, <1>6 DEF CorrectionWork
<1> HIDE DEF none, some
<1>9. IsWork(v, DOMAIN tkOrders, L)
  BY <1>7, <1>8 DEF IsWork, IsLiveWork
<1> HIDE DEF v
<1> QED
  BY <1>1, <1>9, NothingStored, ImportGoesOn, SMTT(40) DEF LineStep, L

LEMMA CorrectLineRest ==
  ASSUME TikTokTypeOK, NEW h \in Agents, CorrectLine(h),
         UNCHANGED <<remote, returned, shopVars>>
  PROVE  TikTokRest'
<1> DEFINE w == agent[h]
           items == lotItems[w.lot]
           new == IF items = << >> THEN <<w.product>> ELSE <<w.product>> \o Tail(items)
<1>1. /\ At(h, "correct", "write")
      /\ lotItems' = [lotItems EXCEPT ![w.lot] = new]
      /\ corrected' \in {corrected, corrected \cup {w.lot}}
  BY DEF CorrectLine
<1>2. w.lot \in LotOrders /\ w.product \in Products
  BY <1>1, AtCorrection DEF CorrectionWork
<1>3. items \in Seq(Products)
  BY <1>2, TikTokParts DEF TikTokRest
<1> HIDE DEF items
<1>4. new \in Seq(Products)
  <2>1. <<w.product>> \in Seq(Products)
    BY <1>2
  <2>2. items # << >> => Tail(items) \in Seq(Products)
    BY <1>3, HeadTailProperties
  <2> QED
    BY <2>1, <2>2, ConcatProperties
<1> HIDE DEF new, w
<1>5. lotItems' \in [LotOrders -> Seq(Products)] /\ corrected' \subseteq LotOrders
  BY <1>1, <1>2, <1>4, TikTokParts DEF TikTokRest
<1> QED
  BY <1>5, TikTokParts DEF TikTokRest, shopVars

LEMMA CorrectLineTypes ==
  ASSUME TikTokTypeOK, TikTokRest', NEW h \in Agents, CorrectLine(h)
  PROVE  TikTokTypeOK' /\ LineStep
<1> DEFINE w == agent[h]
           in == SwapIn(w)
           out == SwapOut(w)
           taken == FirstDeduction(w)
<1>1. At(h, "correct", "write") /\ Becomes(h, Free) /\ UNCHANGED tkOrders
  BY DEF CorrectLine
<1>2. w \in CorrectionWork(DOMAIN tkLines)
  BY <1>1, AtCorrection
<1>3. LineStep /\ LinesKept
  <2>1. CASE w.line = 0
    <3>1. NoMovement /\ UNCHANGED tkLines
      BY <2>1 DEF CorrectLine
    <3> QED
      BY <3>1, SameLines DEF LineStep
  <2>2. CASE w.line # 0
    <3> DEFINE l == w.line
               old == tkLines[l]
               new == Corrected(old, w)
    <3>1. /\ RecordMovements(in \o out \o taken)
          /\ tkLines' = [tkLines EXCEPT ![l] = new]
      BY <2>2 DEF CorrectLine
    <3>2. /\ l \in DOMAIN tkLines /\ w.product \in Products
          /\ w.old \in Products \cup {NoProduct} /\ w.due \in BOOLEAN /\ w.applied \in BOOLEAN
      BY <1>2, <2>2 DEF CorrectionWork
    <3>3. old \in TikTokLine /\ l \in Nat
      BY <3>2, TikTokRows
    <3>4. in \in Seq(LineMovementRow)
      BY <3>2, <3>3, MovesType, EmptySeq DEF SwapIn
    <3>5. out \in Seq(LineMovementRow)
      BY <3>2, <3>3, MovesType, EmptySeq DEF SwapOut
    <3>6. taken \in Seq(LineMovementRow)
      BY <3>2, <3>3, MovesType, EmptySeq DEF FirstDeduction
    <3> HIDE DEF in, out, taken
    <3>7. in \o out \o taken \in Seq(LineMovementRow)
      BY <3>4, <3>5, <3>6, ConcatProperties
    <3>8. new \in TikTokLine /\ new.order = old.order
      <4> HIDE DEF old
      <4> QED
        BY <3>2, <3>3 DEF TikTokLine, Corrected
    <3> HIDE DEF new
    <3>9. tkLines \in [DOMAIN tkLines -> TikTokLine]
      BY TikTokRows DEF TikTokTypeOK
    <3>10. tkLines' \in [DOMAIN tkLines -> TikTokLine]
      BY <3>1, <3>8, <3>9
    <3>11. \A k \in DOMAIN tkLines : tkLines'[k].order = tkLines[k].order
      BY <3>1, <3>8, <3>9
    <3> HIDE DEF l
    <3>12. LinesKept
      BY <3>10, <3>11, SameLength DEF TikTokTypeOK, LinesKept
    <3> QED
      BY <3>1, <3>7, <3>12 DEF LineStep
  <2> QED
    BY <2>1, <2>2
<1>4. SaleTablesOK' /\ SalesGrow
  BY <1>1, <1>3, LinesStored
<1>5. IsWork(Free, DOMAIN tkOrders, DOMAIN tkLines)
  BY DEF IsWork
<1> QED
  BY <1>1, <1>3, <1>4, <1>5, ImportGoesOn

LEMMA ReadOfLine ==
  ASSUME NEW rows, NEW l \in {r.id : r \in rows}
  PROVE  ReadOf(rows, l) \in rows /\ ReadOf(rows, l).id = l
  BY SMTT(40) DEF ReadOf

LEMMA ApplySessionTypes ==
  ASSUME TikTokTypeOK, TikTokRest', NEW h \in Agents, ApplySession(h)
  PROVE  TikTokTypeOK' /\ LineStep
<1> DEFINE w == agent[h]
           L == DOMAIN tkLines
           rows == {r \in w.read : r.product # NoProduct}
           lines == {r.id : r \in rows}
           due == {l \in lines :
                     ~HasMovement("sale_order_line", l, ReadOf(rows, l).product)}
           ids == InIdOrder(due)
           move == [l \in due |->
                      Moves("sale_order_line", l, ReadOf(rows, l).product, -1)]
           taken == [n \in DOMAIN ids |->
                       Moves("sale_order_line", ids[n], ReadOf(rows, ids[n]).product, -1)]
<1>1. /\ At(h, "session", "write") /\ Becomes(h, Free) /\ UNCHANGED tkOrders
      /\ RecordMovements(taken)
      /\ tkLines' = [l \in DOMAIN tkLines |->
             IF l \notin lines THEN tkLines[l]
             ELSE [tkLines[l] EXCEPT !.applied = TRUE,
                     !.product = IF ReadOf(rows, l).linked
                                   THEN ReadOf(rows, l).product ELSE @]]
  BY ZenonT(60) DEF ApplySession, MapSeq
<1>2. w \in ApplicationWork(L)
  BY <1>1, ThreadOf DEF At
<1>3. ASSUME NEW r \in rows PROVE r.id \in L /\ r.product \in Products
  BY <1>2 DEF ApplicationWork
<1>4. ASSUME NEW l \in lines PROVE l \in L /\ ReadOf(rows, l).product \in Products
  <2>1. ReadOf(rows, l) \in rows /\ ReadOf(rows, l).id = l
    <3> HIDE DEF rows
    <3> QED
      BY ReadOfLine
  <2> HIDE DEF rows
  <2> QED
    BY <1>3, <2>1
<1>5. due \subseteq L /\ due \subseteq Nat /\ IsFiniteSet(due)
  <2>1. due \subseteq L
    BY <1>4
  <2> QED
    BY <2>1, PositionsFinite DEF TikTokTypeOK
<1>6. move \in [due -> LineMovementRow]
  <2>1. \A l \in due : Moves("sale_order_line", l, ReadOf(rows, l).product, -1) \in LineMovementRow
    <3> HIDE DEF rows, L
    <3> QED
      BY <1>4, <1>5, MovesType
  <2> QED
    BY <2>1
<1>7. taken = [n \in DOMAIN ids |-> move[ids[n]]]
  <2>1. \A n \in DOMAIN ids : ids[n] \in due
    <3> HIDE DEF due
    <3> QED
      BY <1>5, IdsInOrder
  <2> QED
    BY <2>1
<1>8. taken \in Seq(LineMovementRow)
  <2> HIDE DEF due, move, taken
  <2> QED
    BY <1>5, <1>6, <1>7, LineMovesType
<1>9. ASSUME NEW l \in L
      PROVE  tkLines'[l] \in TikTokLine /\ tkLines'[l].order = tkLines[l].order
  <2>1. tkLines[l] \in TikTokLine
    BY TikTokRows, SMTT(40)
  <2>2. CASE l \notin lines
    BY <1>1, <2>1, <2>2
  <2>3. CASE l \in lines
    <3> DEFINE old == tkLines[l]
               read == ReadOf(rows, l)
    <3>1. tkLines'[l] = [old EXCEPT !.applied = TRUE,
                           !.product = IF read.linked THEN read.product ELSE old.product]
      BY <1>1, <2>3
    <3>2. read.product \in Products
      BY <1>4, <2>3
    <3> HIDE DEF read, old
    <3>3. old \in TikTokLine
      BY <2>1 DEF old
    <3>4. tkLines'[l] \in TikTokLine /\ tkLines'[l].order = old.order
      BY <3>1, <3>2, <3>3 DEF TikTokLine
    <3> QED
      BY <3>4, SMTT(40) DEF old
  <2> QED
    BY <2>2, <2>3
<1>10. LinesKept
  <2>1. tkLines' = [l \in L |-> tkLines'[l]]
    <3> HIDE DEF rows, lines
    <3> QED
      BY <1>1
  <2>2. tkLines' \in [L -> TikTokLine]
    BY <1>9, <2>1, SMTT(40)
  <2> QED
    BY <1>9, <2>2, SameLength DEF TikTokTypeOK, LinesKept
<1>11. SaleTablesOK' /\ SalesGrow
  BY <1>1, <1>10, LinesStored, ZenonT(60)
<1>12. IsWork(Free, DOMAIN tkOrders, DOMAIN tkLines)
  BY DEF IsWork
<1>13. LineStep
  BY <1>1, <1>8 DEF LineStep
<1> QED
  BY <1>1, <1>11, <1>12, <1>13, ImportGoesOn, ZenonT(60)

LEMMA LiveFailsTypes ==
  ASSUME TikTokTypeOK, TikTokRest', NEW h \in Agents, LiveFails(h)
  PROVE  TikTokTypeOK' /\ LineStep
<1> DEFINE w == agent[h]
           O == DOMAIN tkOrders
<1>1. NoMovement /\ UNCHANGED saleTables
  BY DEF LiveFails
<1>2. CASE Becomes(h, Free)
  BY <1>1, <1>2, NothingStored, ImportGoesOn DEF LineStep, IsWork
<1>3. CASE w.op = "import" /\ Becomes(h, NextRow(w))
  <2>1. w \in ImportWork(O) /\ w.rows # << >>
    BY <1>3, ThreadOf DEF IsImport
  <2>2. IsWork(NextRow(w), O, DOMAIN tkLines)
    <3> HIDE DEF w, O
    <3> QED
      BY <2>1, NextRowType
  <2> QED
    BY <1>1, <1>3, <2>2, NothingStored, ImportGoesOn DEF LineStep
<1> QED
  BY <1>2, <1>3 DEF LiveFails

-----------------------------------------------------------------------------
(* The threads of the shop *)

(***************************************************************************)
(* The newest of some orders, as the one with the fewest orders after it.  *)
(***************************************************************************)
LEMMA NewestOrder ==
  ASSUME TikTokTypeOK, NEW S, S \subseteq DOMAIN tkOrders, S # {}
  PROVE  LET newest == CHOOSE o \in S : \A p \in S : p <= o
         IN newest \in S /\ \A p \in S : p <= newest
<1> DEFINE len == Len(tkOrders)
           after == {len - o : o \in S}
<1>1. len \in Nat /\ \A o \in S : o \in 1 .. len
  BY TikTokRows
<1> HIDE DEF len
<1>2. after \subseteq Nat /\ after # {}
  BY <1>1
<1>3. PICK least \in after : \A n \in after : least <= n
  BY <1>2, LeastElement
<1>4. PICK o \in S : least = len - o
  BY <1>3
<1>5. ASSUME NEW p \in S PROVE p <= o
  <2>1. len - o <= len - p
    BY <1>3, <1>4
  <2> QED
    BY <1>1, <2>1
<1> QED
  BY <1>5

LEMMA ShopThreadSet ==
  ASSUME TikTokTypeOK, TikTokRest', NEW h \in Agents, NEW w, Becomes(h, w),
         w = Free \/ IsShopWork(w, DOMAIN tkOrders), SaleTablesOK', SalesGrow
  PROVE  TikTokTypeOK'
<1>1. IsWork(w, DOMAIN tkOrders, DOMAIN tkLines)
  BY DEF IsWork
<1> QED
  BY <1>1, ImportGoesOn

LEMMA ImportOfOrder ==
  ASSUME NEW t \in ShopOrders, NEW status \in RemoteStatus \ {"none"}, NEW items \in BOOLEAN,
         NEW orders
  PROVE  IsShopWork(ImportOf(t, status, items), orders)
<1>1. Contents[t] \in Seq(Products)
  BY TikTokConstants, LotsFinite
<1> DEFINE w == ImportOf(t, status, items)
<1>2. w \in ShopImportWork /\ w.step = "find"
  BY <1>1 DEF ImportOf, ShopImportWork
<1> HIDE DEF w
<1>3. IsShopImport(w, orders)
  BY <1>2 DEF IsShopImport
<1> QED
  BY <1>3 DEF IsShopWork, w

LEMMA SyncRequestTypes ==
  ASSUME TikTokTypeOK, TikTokRest', NEW h \in Agents, SyncRequest(h)
  PROVE  TikTokTypeOK' /\ LineStep
<1>1. NoMovement /\ UNCHANGED saleTables
  BY DEF SyncRequest
<1>2. PICK t \in ShopOrders :
        remote[t] # "none" /\ Becomes(h, ImportOf(t, remote[t], TRUE))
  BY DEF SyncRequest
<1>3. remote[t] \in RemoteStatus \ {"none"}
  BY <1>2, LotsFinite, TikTokParts DEF TikTokRest
<1>4. IsShopWork(ImportOf(t, remote[t], TRUE), DOMAIN tkOrders)
  BY <1>3, ImportOfOrder
<1> QED
  BY <1>1, <1>2, <1>4, NothingStored, ShopThreadSet DEF LineStep

LEMMA WebhookRequestTypes ==
  ASSUME TikTokTypeOK, TikTokRest', NEW h \in Agents, WebhookRequest(h)
  PROVE  TikTokTypeOK' /\ LineStep
<1>1. NoMovement /\ UNCHANGED saleTables
  BY DEF WebhookRequest
<1>2. PICK e \in events : Becomes(h, ImportOf(e.order, e.status, posting.items))
  BY DEF WebhookRequest
<1>3. e.order \in ShopOrders /\ e.status \in RemoteStatus \ {"none"}
  BY TikTokParts DEF TikTokRest
<1>4. posting.items \in BOOLEAN
  BY TikTokParts, PostingsType DEF TikTokRest
<1>5. IsShopWork(ImportOf(e.order, e.status, posting.items), DOMAIN tkOrders)
  BY <1>3, <1>4, ImportOfOrder
<1> QED
  BY <1>1, <1>2, <1>5, NothingStored, ShopThreadSet DEF LineStep

LEMMA AtShop ==
  ASSUME TikTokTypeOK, NEW h \in Agents, NEW step, At(h, "shop", step)
  PROVE  /\ IsShopImport(agent[h], DOMAIN tkOrders)
         /\ agent[h] \in ShopImportWork /\ agent[h].step = step
  BY ThreadOf DEF At, IsShopImport

LEMMA ShopStep ==
  ASSUME NEW w \in ShopImportWork, NEW orders,
         NEW step \in {"find", "update", "sync", "create", "line", "apply"},
         step \in {"update", "sync", "line", "apply"} => w.order \in orders,
         step \in {"create", "line"} => w.products # << >>
  PROVE  IsShopWork([w EXCEPT !.step = step], orders)
<1> DEFINE v == [w EXCEPT !.step = step]
<1>1. v \in ShopImportWork
  BY DEF ShopImportWork
<1>2. v.step = step /\ v.order = w.order /\ v.products = w.products
  BY DEF ShopImportWork
<1> HIDE DEF v
<1>3. IsShopImport(v, orders)
  BY <1>1, <1>2 DEF IsShopImport
<1> QED
  BY <1>3 DEF IsShopWork, v

LEMMA FindSaleTypes ==
  ASSUME TikTokTypeOK, TikTokRest', NEW h \in Agents, FindSale(h)
  PROVE  TikTokTypeOK' /\ LineStep
<1> DEFINE w == agent[h]
           O == DOMAIN tkOrders
           S == SalesOf(w.ref)
           newest == CHOOSE o \in S : \A p \in S : p <= o
           payment == tkOrders[newest].payment
           found == [w EXCEPT !.step = "update", !.order = newest, !.payment = payment]
           create == [w EXCEPT !.step = "create"]
           v == IF S # {} THEN found
                ELSE IF w.items /\ w.products # << >> THEN create ELSE Free
<1>1. /\ NoMovement /\ UNCHANGED saleTables /\ At(h, "shop", "find")
      /\ Becomes(h, v)
  BY DEF FindSale
<1>2. w \in ShopImportWork
  BY <1>1, AtShop
<1>3. ASSUME S # {}
      PROVE  newest \in O /\ newest \in Nat /\ payment \in {"unpaid", "paid", "refunded"}
  <2>1. S \subseteq O
    BY DEF SalesOf
  <2>2. newest \in O
    BY <1>3, <2>1, NewestOrder
  <2> HIDE DEF newest
  <2> QED
    BY <2>2, TikTokRows DEF TikTokRow
<1> HIDE DEF w, O, S, newest, payment
<1>4. ASSUME S # {} PROVE IsShopWork(found, O)
  <2>1. found \in ShopImportWork
    BY <1>2, <1>3, <1>4 DEF ShopImportWork
  <2>2. found.step = "update" /\ found.order = newest
    BY <1>2 DEF ShopImportWork
  <2> HIDE DEF found
  <2>3. IsShopImport(found, O)
    BY <1>3, <1>4, <2>1, <2>2 DEF IsShopImport
  <2> QED
    BY <2>3 DEF IsShopWork
<1>5. w.products # << >> => IsShopWork(create, O)
  BY <1>2, ShopStep
<1> HIDE DEF found, create
<1>6. v = Free \/ IsShopWork(v, O)
  BY <1>4, <1>5
<1> HIDE DEF v
<1> QED
  BY <1>1, <1>6, NothingStored, ShopThreadSet DEF LineStep, O

LEMMA UpdateShopSaleTypes ==
  ASSUME TikTokTypeOK, TikTokRest', NEW h \in Agents, UpdateShopSale(h)
  PROVE  TikTokTypeOK' /\ LineStep
<1> DEFINE w == agent[h]
           O == DOMAIN tkOrders
           state == StateFor(w.status)
           payment == PaymentFor(w.status, w.payment)
<1>1. /\ NoMovement /\ UNCHANGED tkLines /\ At(h, "shop", "update")
      /\ tkOrders' = Rewritten(w.order, state, payment)
      /\ Becomes(h, [w EXCEPT !.step = "sync"])
  BY DEF UpdateShopSale
<1>2. w \in ShopImportWork /\ w.order \in O
  BY <1>1, AtShop DEF IsShopImport
<1>3. /\ state \in {"draft", "sale", "cancel"}
      /\ payment \in {"unpaid", "paid", "refunded"}
  BY <1>2 DEF ShopImportWork, StateFor, PaymentFor
<1> HIDE DEF state, payment
<1>4. SaleTablesOK' /\ SalesGrow
  BY <1>1, <1>2, <1>3, OrderRewritten
<1> HIDE DEF w, O
<1>5. IsShopWork([w EXCEPT !.step = "sync"], O)
  BY <1>2, ShopStep
<1> QED
  BY <1>1, <1>4, <1>5, ShopThreadSet DEF LineStep, O

LEMMA SyncShopSaleTypes ==
  ASSUME TikTokTypeOK, TikTokRest', NEW h \in Agents, SyncShopSale(h)
  PROVE  TikTokTypeOK' /\ LineStep
<1>1. /\ UNCHANGED tkOrders /\ At(h, "shop", "sync")
      /\ BringInLine(agent[h].order) /\ Becomes(h, Free)
  BY DEF SyncShopSale
<1>2. agent[h].order \in DOMAIN tkOrders
  BY <1>1, AtShop DEF IsShopImport
<1>3. LineStep /\ LinesKept
  BY <1>1, <1>2, BringInLineTypes
<1>4. SaleTablesOK' /\ SalesGrow
  BY <1>1, <1>3, LinesStored
<1> QED
  BY <1>1, <1>3, <1>4, Freed

LEMMA CreateShopSaleTypes ==
  ASSUME TikTokTypeOK, TikTokRest', NEW h \in Agents, CreateShopSale(h)
  PROVE  TikTokTypeOK' /\ LineStep
<1> DEFINE w == agent[h]
           O2 == DOMAIN tkOrders'
           o == Len(tkOrders) + 1
           sale == [ref |-> w.ref, state |-> StateFor(w.status),
                    payment |-> PaymentFor(w.status, "unpaid")]
           v == [w EXCEPT !.step = "line", !.order = o]
<1>1. /\ NoMovement /\ UNCHANGED tkLines /\ At(h, "shop", "create")
      /\ tkOrders' = Append(tkOrders, sale) /\ Becomes(h, v)
  BY DEF CreateShopSale
<1>2. w \in ShopImportWork
  BY <1>1, AtShop
<1>3. sale \in TikTokRow
  BY <1>2, LotsFinite DEF ShopImportWork, StateFor, PaymentFor, TikTokRow
<1> HIDE DEF sale
<1>4. SaleTablesOK' /\ SalesGrow /\ o \in O2
  BY <1>1, <1>3, OrderCreated
<1>5. o \in Nat
  BY TikTokRows
<1>6. w.products # << >> /\ v \in ShopImportWork /\ v.step = "line" /\ v.order = o
      /\ v.products = w.products
  <2>1. w.products # << >>
    BY <1>1, AtShop DEF IsShopImport
  <2> HIDE DEF w, o
  <2> QED
    BY <1>2, <1>5, <2>1 DEF ShopImportWork
<1> HIDE DEF w, o, O2, v
<1>7. IsShopImport(v, O2)
  BY <1>4, <1>6 DEF IsShopImport
<1>8. IsWork(v, DOMAIN tkOrders', DOMAIN tkLines')
  BY <1>7 DEF IsWork, IsShopWork, O2
<1> QED
  BY <1>1, <1>4, <1>8, AgentSet DEF LineStep

LEMMA AddShopLineTypes ==
  ASSUME TikTokTypeOK, TikTokRest', NEW h \in Agents, AddShopLine(h)
  PROVE  TikTokTypeOK' /\ LineStep
<1> DEFINE w == agent[h]
           O == DOMAIN tkOrders
           tail == Tail(w.products)
           rest == [w EXCEPT !.products = tail]
           line == [order |-> w.order, product |-> Head(w.products), applied |-> FALSE]
           v == IF rest.products # << >> THEN rest
                ELSE IF w.status = "confirmed" THEN [rest EXCEPT !.step = "apply"] ELSE Free
<1>1. /\ UNCHANGED tkOrders /\ NoMovement /\ At(h, "shop", "line")
      /\ tkLines' = Append(tkLines, line) /\ Becomes(h, v)
  BY DEF AddShopLine
<1>2. w \in ShopImportWork /\ IsShopImport(w, O) /\ w.step = "line"
  BY <1>1, AtShop
<1>3. w.order \in O /\ w.products # << >> /\ w.order \in Nat /\ w.products \in Seq(Products)
  BY <1>2 DEF IsShopImport, ShopImportWork
<1>4. Head(w.products) \in Products /\ tail \in Seq(Products)
  BY <1>3, HeadTailProperties
<1>5. line \in TikTokLine /\ line.order = w.order
  BY <1>3, <1>4 DEF TikTokLine
<1> HIDE DEF line
<1>6. SaleTablesOK' /\ SalesGrow
  BY <1>1, <1>3, <1>5, LineCreated
<1> HIDE DEF w, O, tail
<1>7. rest \in ShopImportWork /\ rest.order = w.order /\ rest.step = "line"
  BY <1>2, <1>4 DEF ShopImportWork
<1> HIDE DEF rest
<1>8. rest.products # << >> => IsShopWork(rest, O)
  BY <1>3, <1>7 DEF IsShopWork, IsShopImport
<1>9. IsShopWork([rest EXCEPT !.step = "apply"], O)
  BY <1>3, <1>7, ShopStep
<1>10. v = Free \/ IsShopWork(v, O)
  BY <1>8, <1>9
<1> HIDE DEF v
<1> QED
  BY <1>1, <1>6, <1>10, ShopThreadSet DEF LineStep, O

LEMMA ApplyShopSaleTypes ==
  ASSUME TikTokTypeOK, TikTokRest', NEW h \in Agents, ApplyShopSale(h)
  PROVE  TikTokTypeOK' /\ LineStep
<1>1. /\ UNCHANGED tkOrders /\ TakeStock(agent[h].order) /\ Becomes(h, Free)
  BY DEF ApplyShopSale
<1>2. LineStep /\ LinesKept
  BY <1>1, TakeStockTypes
<1>3. SaleTablesOK' /\ SalesGrow
  BY <1>1, <1>2, LinesStored
<1> QED
  BY <1>1, <1>2, <1>3, Freed

LEMMA AtReturn ==
  ASSUME TikTokTypeOK, NEW h \in Agents, NEW step, At(h, "return", step)
  PROVE  agent[h] \in ReturnWork(DOMAIN tkOrders) /\ agent[h].step = step
  BY ThreadOf DEF At

LEMMA ReturnStep ==
  ASSUME NEW orders, NEW w \in ReturnWork(orders),
         NEW step \in {"store", "manual", "update", "sync", "mark"}
  PROVE  IsShopWork([w EXCEPT !.step = step], orders)
<1>1. [w EXCEPT !.step = step] \in ReturnWork(orders)
  BY DEF ReturnWork
<1> QED
  BY <1>1 DEF IsShopWork

LEMMA ReturnRequestTypes ==
  ASSUME TikTokTypeOK, TikTokRest', NEW h \in Agents, ReturnRequest(h)
  PROVE  TikTokTypeOK' /\ LineStep
<1>1. NoMovement /\ UNCHANGED saleTables
  BY DEF ReturnRequest
<1>2. PICK t \in returned :
        /\ SalesOf(t) # {}
        /\ Becomes(h, [op |-> "return", step |-> "store", ref |-> t,
             order |-> CHOOSE o \in SalesOf(t) : \A p \in SalesOf(t) : p <= o])
  BY DEF ReturnRequest
<1> DEFINE S == SalesOf(t)
           newest == CHOOSE o \in S : \A p \in S : p <= o
           w == [op |-> "return", step |-> "store", ref |-> t, order |-> newest]
           O == DOMAIN tkOrders
<1>3. S \subseteq O /\ S # {}
  BY <1>2 DEF SalesOf
<1>4. newest \in S
  <2> HIDE DEF S
  <2> QED
    BY <1>3, NewestOrder
<1>5. t \in TikTokOrders
  BY TikTokParts DEF TikTokRest
<1>6. Becomes(h, w)
  BY <1>2
<1> HIDE DEF S, newest, O
<1>7. w \in ReturnWork(O)
  BY <1>3, <1>4, <1>5 DEF ReturnWork
<1> HIDE DEF w
<1>8. IsShopWork(w, O)
  BY <1>7 DEF IsShopWork
<1> QED
  BY <1>1, <1>6, <1>8, NothingStored, ShopThreadSet DEF LineStep, O

LEMMA StoreReturnTypes ==
  ASSUME TikTokTypeOK, TikTokRest', NEW h \in Agents, StoreReturn(h)
  PROVE  TikTokTypeOK' /\ LineStep
<1> DEFINE w == agent[h]
           O == DOMAIN tkOrders
<1>1. NoMovement /\ UNCHANGED saleTables /\ At(h, "return", "store")
  BY DEF StoreReturn
<1>2. PICK v \in {[w EXCEPT !.step = "update"], [w EXCEPT !.step = "manual"], Free} :
        Becomes(h, v)
  BY DEF StoreReturn
<1>3. w \in ReturnWork(O)
  BY <1>1, AtReturn
<1> HIDE DEF w, O
<1>4. v = Free \/ IsShopWork(v, O)
  BY <1>2, <1>3, ReturnStep
<1> QED
  BY <1>1, <1>2, <1>4, NothingStored, ShopThreadSet DEF LineStep, O

LEMMA CancelReturnedTypes ==
  ASSUME TikTokTypeOK, TikTokRest', NEW h \in Agents, CancelReturned(h)
  PROVE  TikTokTypeOK' /\ LineStep
<1> DEFINE w == agent[h]
           O == DOMAIN tkOrders
<1>1. /\ NoMovement /\ UNCHANGED tkLines /\ At(h, "return", "update")
      /\ tkOrders' = Rewritten(w.order, "cancel", "refunded")
      /\ Becomes(h, [w EXCEPT !.step = "sync"])
  BY DEF CancelReturned
<1>2. w \in ReturnWork(O) /\ w.order \in O
  BY <1>1, AtReturn DEF ReturnWork
<1>3. SaleTablesOK' /\ SalesGrow
  BY <1>1, <1>2, OrderRewritten
<1> HIDE DEF w, O
<1>4. IsShopWork([w EXCEPT !.step = "sync"], O)
  BY <1>2, ReturnStep
<1> QED
  BY <1>1, <1>3, <1>4, ShopThreadSet DEF LineStep, O

LEMMA SyncReturnedTypes ==
  ASSUME TikTokTypeOK, TikTokRest', NEW h \in Agents, SyncReturned(h)
  PROVE  TikTokTypeOK' /\ LineStep
<1> DEFINE w == agent[h]
           O == DOMAIN tkOrders
<1>1. /\ UNCHANGED tkOrders /\ At(h, "return", "sync") /\ BringInLine(w.order)
      /\ Becomes(h, [w EXCEPT !.step = "mark"])
  BY DEF SyncReturned
<1>2. w \in ReturnWork(O) /\ w.order \in O
  BY <1>1, AtReturn DEF ReturnWork
<1>3. LineStep /\ LinesKept
  BY <1>1, <1>2, BringInLineTypes
<1>4. SaleTablesOK' /\ SalesGrow
  BY <1>1, <1>3, LinesStored
<1> HIDE DEF w, O
<1>5. IsShopWork([w EXCEPT !.step = "mark"], O)
  BY <1>2, ReturnStep
<1> QED
  BY <1>1, <1>3, <1>4, <1>5, ShopThreadSet DEF O

LEMMA ReturnEnds ==
  ASSUME TikTokTypeOK, TikTokRest', NEW h \in Agents,
         ToBeReviewed(h) \/ MarkProcessed(h) \/ ShopFails(h)
  PROVE  TikTokTypeOK' /\ LineStep
<1>1. NoMovement /\ UNCHANGED saleTables /\ Becomes(h, Free)
  BY DEF ToBeReviewed, MarkProcessed, ShopFails
<1> QED
  BY <1>1, NothingStored, Freed DEF LineStep

-----------------------------------------------------------------------------
(* The types of the whole *)

LEMMA TikTokActsTypes ==
  ASSUME TikTokTypeOK, NEW t \in TikTokOrders, Changes(t) \/ Returns(t)
  PROVE  TikTokTypeOK' /\ LineStep
<1>1. /\ UNCHANGED <<tkOrders, tkLines, agent, lotItems, corrected, posting,
                     returnsDone, astray>>
      /\ NoMovement
  BY DEF Changes, Returns, saleTables, liveVars, shopVars
<1>2. /\ remote' \in [TikTokOrders -> RemoteStatus] /\ returned' \subseteq TikTokOrders
      /\ events' \subseteq [order : ShopOrders, status : RemoteStatus \ {"none"}]
  <2>1. CASE Changes(t)
    <3>1. PICK status \in FollowingStatus(remote[t]) :
            /\ remote' = [remote EXCEPT ![t] = status]
            /\ events' = IF t \in ShopOrders
                           THEN events \cup {[order |-> t, status |-> status]}
                           ELSE events
      BY <2>1 DEF Changes
    <3>2. status \in RemoteStatus \ {"none"}
      BY DEF FollowingStatus, RemoteStatus
    <3>3. UNCHANGED returned
      BY <2>1 DEF Changes
    <3> QED
      BY <3>1, <3>2, <3>3, TikTokParts DEF TikTokRest
  <2>2. CASE Returns(t)
    BY <2>2, TikTokParts DEF TikTokRest, Returns, shopVars
  <2> QED
    BY <2>1, <2>2
<1>3. TikTokRest' /\ SaleTablesOK'
  BY <1>1, <1>2, TikTokParts DEF TikTokRest, SaleTablesOK
<1>4. /\ DOMAIN agent' = Agents
      /\ \A h \in Agents : IsWork(agent'[h], DOMAIN tkOrders', DOMAIN tkLines')
  BY <1>1, TikTokParts DEF TikTokTypeOK
<1> QED
  BY <1>1, <1>3, <1>4 DEF TikTokTypeOK, TikTokRest, SaleTablesOK, LineStep

LEMMA SameRest ==
  ASSUME TikTokTypeOK,
         UNCHANGED <<remote, returned, lotItems, corrected, posting, events,
                     returnsDone, astray>>
  PROVE  TikTokRest'
  BY TikTokParts DEF TikTokRest

LEMMA LiveTypes ==
  ASSUME TikTokTypeOK, NEW h \in Agents,
         LiveArrives(h) \/ LiveGoesOn(h), UNCHANGED <<remote, returned, shopVars>>
  PROVE  TikTokTypeOK' /\ LineStep
<1>1. CASE CorrectLine(h)
  BY <1>1, CorrectLineRest, CorrectLineTypes
<1>2. CASE ~CorrectLine(h)
  <2>1. UNCHANGED liveVars
    BY <1>2 DEF LiveArrives, LiveGoesOn, ImportRequest, CorrectRequest, SessionRequest,
       ListSales, UpdateLiveSale, SyncLiveSale, SettleLiveSale, CreateLiveSale,
       AddLiveLine, ApplyLiveSale, ReadLotLine, ApplySession, LiveFails
  <2>2. TikTokRest'
    BY <2>1, SameRest DEF liveVars, shopVars
  <2> QED
    BY <1>2, <2>2, ImportRequestTypes, CorrectRequestTypes, SessionRequestTypes,
       ListSalesTypes, UpdateLiveSaleTypes, SyncLiveSaleTypes, SettleLiveSaleTypes,
       CreateLiveSaleTypes, AddLiveLineTypes, ApplyLiveSaleTypes, ReadLotLineTypes,
       ApplySessionTypes, LiveFailsTypes DEF LiveArrives, LiveGoesOn
<1> QED
  BY <1>1, <1>2

LEMMA ShopRest ==
  ASSUME TikTokTypeOK, NEW h \in Agents, ShopArrives(h) \/ ShopGoesOn(h),
         UNCHANGED <<remote, returned, liveVars>>
  PROVE  TikTokRest'
<1>1. CASE WebhookRequest(h)
  <2>1. PICK e \in events : astray' \in {astray, astray \cup {e.order}}
    BY <1>1 DEF WebhookRequest
  <2>2. e.order \in TikTokOrders
    BY TikTokParts, LotsFinite DEF TikTokRest
  <2>3. UNCHANGED <<posting, events, returnsDone>>
    BY <1>1 DEF WebhookRequest
  <2> QED
    BY <2>1, <2>2, <2>3, TikTokParts DEF TikTokRest, liveVars
<1>2. CASE ToBeReviewed(h)
  BY <1>2, TikTokParts DEF TikTokRest, liveVars, ToBeReviewed
<1>3. CASE MarkProcessed(h)
  <2>1. agent[h].ref \in TikTokOrders
    BY <1>3, AtReturn DEF MarkProcessed, ReturnWork
  <2> QED
    BY <1>3, <2>1, TikTokParts DEF TikTokRest, liveVars, MarkProcessed
<1>4. CASE ShopFails(h)
  <2>1. agent[h].ref \in TikTokOrders
    BY <1>4, ThreadOf, LotsFinite DEF ShopFails, ReturnWork, IsShopImport, ShopImportWork
  <2> QED
    BY <1>4, <2>1, TikTokParts DEF TikTokRest, liveVars, ShopFails
<1>5. CASE ~(WebhookRequest(h) \/ ToBeReviewed(h) \/ MarkProcessed(h) \/ ShopFails(h))
  <2>1. UNCHANGED shopVars
    BY <1>5 DEF ShopArrives, ShopGoesOn, SyncRequest, ReturnRequest, FindSale,
       UpdateShopSale, SyncShopSale, CreateShopSale, AddShopLine, ApplyShopSale,
       StoreReturn, CancelReturned, SyncReturned
  <2> QED
    BY <2>1, SameRest DEF liveVars, shopVars
<1> QED
  BY <1>1, <1>2, <1>3, <1>4, <1>5

LEMMA ShopTypes ==
  ASSUME TikTokTypeOK, NEW h \in Agents, ShopArrives(h) \/ ShopGoesOn(h),
         UNCHANGED <<remote, returned, liveVars>>
  PROVE  TikTokTypeOK' /\ LineStep
<1>1. TikTokRest'
  BY ShopRest
<1> QED
  BY <1>1, SyncRequestTypes, WebhookRequestTypes, ReturnRequestTypes, FindSaleTypes,
     UpdateShopSaleTypes, SyncShopSaleTypes, CreateShopSaleTypes, AddShopLineTypes,
     ApplyShopSaleTypes, StoreReturnTypes, CancelReturnedTypes, SyncReturnedTypes,
     ReturnEnds DEF ShopArrives, ShopGoesOn

LEMMA TikTokTypes ==
  ASSUME TikTokTypeOK, NEW h \in Agents, LiveArrival(h) \/ ShopArrival(h) \/ AgentWork(h)
  PROVE  TikTokTypeOK' /\ LineStep
  BY LiveTypes, ShopTypes DEF LiveArrival, ShopArrival, AgentWork

LEMMA WarehouseInitTypes ==
  ASSUME WarehouseInit PROVE WarehouseTypeOK
<1>1. StockType
  BY OpeningType, EmptySeq DEF WarehouseInit, StockInit, StockType
<1>2. PosTypeOK
  BY IdleDesk, EmptySeq DEF WarehouseInit, PosInit, PosTypeOK
<1>3. PurchaseTypeOK
  BY IdleBuyerType, EmptySeq DEF WarehouseInit, PurchaseInit, PurchaseTypeOK
<1>4. TikTokTypeOK
  <2>1. \A h \in Agents : agent[h] = Free
    BY DEF WarehouseInit, TikTokInit
  <2>2. \A h \in Agents : IsWork(agent[h], DOMAIN tkOrders, DOMAIN tkLines)
    BY <2>1 DEF IsWork
  <2>3. TikTokRest
    BY TikTokConstants, LotsFinite DEF TikTokRest, WarehouseInit, TikTokInit, LiveInit,
       ShopInit, RemoteStatus
  <2>4. SaleTablesOK /\ DOMAIN agent = Agents
    BY EmptySeq DEF SaleTablesOK, WarehouseInit, TikTokInit
  <2> QED
    BY <2>2, <2>3, <2>4 DEF TikTokTypeOK, TikTokRest, SaleTablesOK
<1>5. workload \in Workload /\ crossed = {}
  BY WorkloadsType DEF WarehouseInit
<1> QED
  BY <1>1, <1>2, <1>3, <1>4, <1>5 DEF WarehouseTypeOK

(***************************************************************************)
(* Parts the steps of the other sides leave alone.                         *)
(***************************************************************************)
LEMMA PosAlone ==
  ASSUME PosTypeOK, UNCHANGED posVars PROVE PosTypeOK'
  BY DEF PosTypeOK, posVars

LEMMA PurchasesAlone ==
  ASSUME PurchaseTypeOK, UNCHANGED purchaseVars PROVE PurchaseTypeOK'
  BY DEF PurchaseTypeOK, purchaseVars

LEMMA TikTokAlone ==
  ASSUME TikTokTypeOK, UNCHANGED tiktokVars PROVE TikTokTypeOK'
<1>1. TikTokRest' /\ SaleTablesOK'
  BY TikTokParts DEF TikTokRest, SaleTablesOK, tiktokVars, saleTables, liveVars, shopVars
<1>2. /\ DOMAIN agent' = Agents
      /\ \A h \in Agents : IsWork(agent'[h], DOMAIN tkOrders', DOMAIN tkLines')
  BY TikTokParts DEF TikTokTypeOK, tiktokVars, saleTables
<1> QED
  BY <1>1, <1>2 DEF TikTokTypeOK, TikTokRest, SaleTablesOK

(***************************************************************************)
(* A request less is left.                                                 *)
(***************************************************************************)
LEMMA WorkloadLeft ==
  ASSUME workload \in Workload, SellStep \/ BuyStep \/ TikTokStep
  PROVE  workload' \in Workload
<1>1. \/ UNCHANGED workload
      \/ /\ workload.sales > 0
         /\ workload' = [workload EXCEPT !.sales = workload.sales - 1]
      \/ /\ workload.purchases > 0
         /\ workload' = [workload EXCEPT !.purchases = workload.purchases - 1]
      \/ /\ workload.imports > 0
         /\ workload' = [workload EXCEPT !.imports = workload.imports - 1]
  BY DEF SellStep, BuyStep, TikTokStep
<1> QED
  BY <1>1 DEF Workload

(***************************************************************************)
(* Each step keeps the types, and moves stock at most by recording rows.   *)
(***************************************************************************)
LEMMA WarehouseStepTypes ==
  ASSUME WarehouseTypeOK, WarehouseNext
  PROVE  /\ WarehouseTypeOK' /\ StockStep
         /\ \/ SellStep /\ CounterStep
            \/ BuyStep /\ ArrivalStep
            \/ TikTokStep /\ LineStep
<1>1. /\ workload.clerks \subseteq Clerks /\ workload.buyers \subseteq Buyers
      /\ workload.agents \subseteq Agents /\ workload.orders \subseteq TikTokOrders
  BY DEF WarehouseTypeOK, Workload
<1>2. crossed' \subseteq {"sales", "purchases", "tiktok"}
  <2>1. crossed' = crossed \cup Overlaps'
    BY DEF WarehouseNext
  <2>2. Overlaps' \subseteq {"sales", "purchases", "tiktok"}
    BY DEF Overlaps
  <2> QED
    BY <2>1, <2>2 DEF WarehouseTypeOK
<1>3. workload' \in Workload
  BY WorkloadLeft DEF WarehouseNext, WarehouseTypeOK
<1>4. /\ PosTypeOK' /\ PurchaseTypeOK' /\ TikTokTypeOK'
      /\ \/ SellStep /\ CounterStep
         \/ BuyStep /\ ArrivalStep
         \/ TikTokStep /\ LineStep
  <2>1. CASE SellStep
    <3>1. PICK h \in workload.clerks : PosArrival(h) \/ PosWork(h)
      BY <2>1 DEF SellStep
    <3>2. PosTypeOK' /\ CounterStep
      BY <1>1, <3>1, PosTypes DEF WarehouseTypeOK
    <3> QED
      BY <2>1, <3>2, PurchasesAlone, TikTokAlone DEF SellStep, WarehouseTypeOK
  <2>2. CASE BuyStep
    <3>1. PICK b \in workload.buyers : PurchaseArrival(b) \/ PurchaseWork(b)
      BY <2>2 DEF BuyStep
    <3>2. PurchaseTypeOK' /\ ArrivalStep
      BY <1>1, <3>1, PurchaseTypes DEF WarehouseTypeOK
    <3> QED
      BY <2>2, <3>2, PosAlone, TikTokAlone DEF BuyStep, WarehouseTypeOK
  <2>3. CASE TikTokStep
    <3>1. \/ \E t \in TikTokOrders : Changes(t) \/ Returns(t)
          \/ \E h \in Agents : LiveArrival(h) \/ ShopArrival(h) \/ AgentWork(h)
      BY <1>1, <2>3 DEF TikTokStep, TikTokActs
    <3>2. TikTokTypeOK' /\ LineStep
      BY <3>1, TikTokActsTypes, TikTokTypes DEF WarehouseTypeOK
    <3> QED
      BY <2>3, <3>2, PosAlone, PurchasesAlone DEF TikTokStep, WarehouseTypeOK
  <2> QED
    BY <2>1, <2>2, <2>3 DEF WarehouseNext
<1>5. StockStep
  BY <1>4, SidesMoveStock
<1>6. StockType'
  BY <1>5, StockStepIsLedgerStep DEF WarehouseTypeOK
<1> QED
  BY <1>2, <1>3, <1>4, <1>5, <1>6 DEF WarehouseTypeOK

LEMMA WarehouseStutters ==
  ASSUME WarehouseTypeOK, UNCHANGED warehouseVars
  PROVE  WarehouseTypeOK' /\ StockStep
<1>1. PosTypeOK' /\ PurchaseTypeOK' /\ TikTokTypeOK'
  BY PosAlone, PurchasesAlone, TikTokAlone DEF WarehouseTypeOK, warehouseVars
<1> QED
  BY <1>1 DEF WarehouseTypeOK, warehouseVars, StockType, StockStep, NoMovement

(***************************************************************************)
(* The types hold of counter sales, purchases and TikTok's orders through  *)
(* every interleaving of their requests: what a thread has read is about   *)
(* rows that exist, whatever the others write between its transactions.    *)
(***************************************************************************)
THEOREM WarehouseTypes == WarehouseSpec => []WarehouseTypeOK
<1>1. WarehouseInit => WarehouseTypeOK
  BY WarehouseInitTypes
<1>2. WarehouseTypeOK /\ [WarehouseNext]_warehouseVars => WarehouseTypeOK'
  BY WarehouseStepTypes, WarehouseStutters
<1> QED
  BY <1>1, <1>2, PTL DEF WarehouseSpec

(***************************************************************************)
(* approve_, edit, split and merge of invoices, receipts, and the imports, *)
(* returns and corrections of TikTok's orders implement the ledger: no     *)
(* step of any of them changes a quantity on hand but by the sum of the    *)
(* movement rows it appends, and none rewrites a row.                      *)
(***************************************************************************)
THEOREM WarehouseKeepsLedger == WarehouseSpec => StockMovesWithLedger
<1>1. WarehouseInit => Ledger!LedgerInit
  BY DEF WarehouseInit, StockInit, Ledger!LedgerInit
<1>2. WarehouseTypeOK /\ [WarehouseNext]_warehouseVars
        => [Ledger!Record]_(Ledger!ledgerVars)
  <2>1. ASSUME WarehouseTypeOK, [WarehouseNext]_warehouseVars PROVE StockStep
    BY <2>1, WarehouseStepTypes, WarehouseStutters
  <2> QED
    BY <2>1, StockStepIsLedgerStep DEF WarehouseTypeOK
<1> QED
  BY <1>1, <1>2, WarehouseTypes, PTL DEF WarehouseSpec, StockMovesWithLedger,
     Ledger!LedgerSpec

-----------------------------------------------------------------------------
(* Which TikTok order a thread's work is about *)

(***************************************************************************)
(* The rows of an import are of different lots, and what it found for a    *)
(* lot has the lot's reference.                                            *)
(***************************************************************************)
FoundForLots(w, orders) ==
  /\ \A m, n \in DOMAIN w.rows : w.rows[m].lot = w.rows[n].lot => m = n
  /\ \A l \in LotOrders : \A o \in w.found[l] : orders[o].ref = l

(***************************************************************************)
(* Each thread is at the sale order of the TikTok order it was asked for.  *)
(***************************************************************************)
About(w, orders, lines) ==
  /\ w.op = "import" =>
       /\ FoundForLots(w, orders)
       /\ \A o \in w.left : orders[o].ref = Head(w.rows).lot
       /\ w.step \in {"sync", "settle", "line", "apply"} =>
            orders[w.order].ref = Head(w.rows).lot
  /\ w.op = "correct" =>
       \/ w.line = 0
       \/ orders[lines[w.line].order].ref = w.lot
  /\ w.op = "session" =>
       \A r \in w.read : orders[lines[r.id].order].ref \in LotOrders
  /\ w.op = "shop" =>
       \/ w.step \in {"find", "create"}
       \/ orders[w.order].ref = w.ref
  /\ w.op = "return" => orders[w.order].ref = w.ref

ShopLinesNamed ==
  \A l \in DOMAIN tkLines :
    tkOrders[tkLines[l].order].ref \in ShopOrders => tkLines[l].product # NoProduct

WorkBelongs ==
  /\ \A h \in Agents : About(agent[h], tkOrders, tkLines)
  /\ ShopLinesNamed

LEMMA LotsAndShopDiffer == LotOrders \cap ShopOrders = {}
  BY TikTokConstants DEF LotOrders, ShopOrders

(***************************************************************************)
(* A sale order keeps its reference and a line its order.                  *)
(***************************************************************************)
RefsKept ==
  /\ \A o \in DOMAIN tkOrders : o \in DOMAIN tkOrders' /\ tkOrders'[o].ref = tkOrders[o].ref
  /\ \A l \in DOMAIN tkLines : l \in DOMAIN tkLines' /\ tkLines'[l].order = tkLines[l].order

LEMMA AboutKept ==
  ASSUME NEW orders, NEW lines, NEW orders2, NEW lines2, NEW w,
         IsWork(w, DOMAIN orders, DOMAIN lines), About(w, orders, lines),
         \A l \in DOMAIN lines : lines[l].order \in DOMAIN orders,
         \A o \in DOMAIN orders : orders2[o].ref = orders[o].ref,
         \A l \in DOMAIN lines : lines2[l].order = lines[l].order
  PROVE  About(w, orders2, lines2)
<1> DEFINE O == DOMAIN orders
           L == DOMAIN lines
<1>1. CASE w = Free
  BY <1>1 DEF Free, About
<1>2. CASE IsImport(w, O)
  <2>1. /\ w.op = "import" /\ w.found \in [LotOrders -> SUBSET O] /\ w.left \subseteq O
        /\ w.step \in {"sync", "settle", "line", "apply"} => w.order \in O
    BY <1>2 DEF IsImport, ImportWork
  <2> QED
    BY <2>1 DEF About, FoundForLots
<1>3. CASE w \in CorrectionWork(L)
  BY <1>3 DEF CorrectionWork, About
<1>4. CASE w \in ApplicationWork(L)
  <2>1. w.op = "session" /\ \A r \in w.read : r.id \in L
    BY <1>4 DEF ApplicationWork
  <2> QED
    BY <2>1 DEF About
<1>5. CASE IsShopImport(w, O)
  BY <1>5 DEF IsShopImport, ShopImportWork, About
<1>6. CASE w \in ReturnWork(O)
  BY <1>6 DEF ReturnWork, About
<1> QED
  BY <1>1, <1>2, <1>3, <1>4, <1>5, <1>6 DEF IsWork, IsLiveWork, IsShopWork

LEMMA StaysAbout ==
  ASSUME TikTokTypeOK, WorkBelongs, RefsKept, NEW h \in Agents
  PROVE  About(agent[h], tkOrders', tkLines')
<1> DEFINE w == agent[h]
           orders == tkOrders
           lines == tkLines
           orders2 == tkOrders'
           lines2 == tkLines'
<1>1. IsWork(w, DOMAIN orders, DOMAIN lines) /\ About(w, orders, lines)
  BY TikTokParts DEF WorkBelongs
<1>2. \A l \in DOMAIN lines : lines[l].order \in DOMAIN orders
  BY TikTokRows
<1>3. /\ \A o \in DOMAIN orders : orders2[o].ref = orders[o].ref
      /\ \A l \in DOMAIN lines : lines2[l].order = lines[l].order
  BY DEF RefsKept
<1> HIDE DEF w, orders, lines, orders2, lines2
<1>4. About(w, orders2, lines2)
  BY <1>1, <1>2, <1>3, AboutKept
<1> QED
  BY <1>4 DEF w, orders2, lines2

(***************************************************************************)
(* A step of one thread that keeps this: it goes on about its own order,   *)
(* and gives no line of the shop's orders away.                            *)
(***************************************************************************)
BelongStep(h) ==
  /\ RefsKept /\ ShopLinesNamed'
  /\ About(agent'[h], tkOrders', tkLines')
  /\ \A g \in Agents \ {h} : agent'[g] = agent[g]

LEMMA BelongStepKeeps ==
  ASSUME TikTokTypeOK, WorkBelongs, NEW h \in Agents, BelongStep(h)
  PROVE  WorkBelongs'
<1>1. \A g \in Agents : About(agent'[g], tkOrders', tkLines')
  BY StaysAbout DEF BelongStep
<1> QED
  BY <1>1 DEF WorkBelongs, BelongStep

LEMMA ThreadSet ==
  ASSUME TikTokTypeOK, NEW h \in Agents, NEW w, Becomes(h, w)
  PROVE  /\ agent'[h] = w /\ \A g \in Agents \ {h} : agent'[g] = agent[g]
  BY DEF TikTokTypeOK, Becomes

(***************************************************************************)
(* The tables after a transaction.                                         *)
(***************************************************************************)
LinesSame ==
  /\ DOMAIN tkLines' = DOMAIN tkLines
  /\ \A l \in DOMAIN tkLines :
       /\ tkLines'[l].order = tkLines[l].order
       /\ tkLines'[l].product = tkLines[l].product

LEMMA FlaggedSame ==
  ASSUME TikTokTypeOK, NEW lines, NEW applied \in BOOLEAN, tkLines' = Flagged(lines, applied)
  PROVE  LinesSame
<1>1. ASSUME NEW l \in DOMAIN tkLines
      PROVE  tkLines'[l].order = tkLines[l].order /\ tkLines'[l].product = tkLines[l].product
  <2>1. tkLines[l] \in TikTokLine
    BY TikTokRows
  <2>2. tkLines'[l] = IF l \in lines THEN [tkLines[l] EXCEPT !.applied = applied]
                      ELSE tkLines[l]
    BY DEF Flagged
  <2> QED
    BY <2>1, <2>2 DEF TikTokLine
<1>2. DOMAIN tkLines' = DOMAIN tkLines
  BY DEF Flagged
<1> QED
  BY <1>1, <1>2 DEF LinesSame

LEMMA StockKeepsLines ==
  ASSUME TikTokTypeOK, NEW o, TakeStock(o) \/ GiveStockBack(o) \/ BringInLine(o)
  PROVE  LinesSame
<1>1. CASE UNCHANGED tkLines
  BY <1>1 DEF LinesSame
<1>3. \/ UNCHANGED tkLines \/ tkLines' = Flagged(ProductLinesOfSale(o), TRUE)
      \/ tkLines' = Flagged(AppliedOfSale(o), FALSE)
  BY DEF TakeStock, GiveStockBack, BringInLine
<1> QED
  BY <1>1, <1>3, FlaggedSame

LEMMA SameSales ==
  ASSUME TikTokTypeOK, WorkBelongs, LinesSame,
         DOMAIN tkOrders' = DOMAIN tkOrders,
         \A o \in DOMAIN tkOrders : tkOrders'[o].ref = tkOrders[o].ref
  PROVE  RefsKept /\ ShopLinesNamed'
<1>1. RefsKept
  BY DEF RefsKept, LinesSame
<1>2. ShopLinesNamed'
  BY TikTokRows DEF WorkBelongs, ShopLinesNamed, LinesSame
<1> QED
  BY <1>1, <1>2

LEMMA SalesUnchanged ==
  ASSUME TikTokTypeOK, WorkBelongs, UNCHANGED saleTables
  PROVE  RefsKept /\ ShopLinesNamed'
  BY SameSales DEF saleTables, LinesSame

LEMMA RewrittenRefs ==
  ASSUME TikTokTypeOK, WorkBelongs, UNCHANGED tkLines, NEW p \in DOMAIN tkOrders,
         NEW state, NEW payment, tkOrders' = Rewritten(p, state, payment)
  PROVE  RefsKept /\ ShopLinesNamed'
<1>1. ASSUME NEW o \in DOMAIN tkOrders PROVE tkOrders'[o].ref = tkOrders[o].ref
  <2>1. tkOrders[o] \in TikTokRow
    BY TikTokRows
  <2> QED
    BY <2>1 DEF Rewritten, TikTokRow
<1>2. DOMAIN tkOrders' = DOMAIN tkOrders
  BY DEF Rewritten
<1> QED
  BY <1>1, <1>2, SameSales DEF LinesSame

LEMMA AppendedRow ==
  ASSUME NEW S, NEW s \in Seq(S), NEW row
  PROVE  /\ DOMAIN Append(s, row) = DOMAIN s \cup {Len(s) + 1}
         /\ Len(s) + 1 \notin DOMAIN s
         /\ Append(s, row)[Len(s) + 1] = row
         /\ \A n \in DOMAIN s : Append(s, row)[n] = s[n]
<1> DEFINE T == S \cup {row}
<1>1. s \in Seq(T) /\ row \in T
  BY SeqMonotonic
<1>2. /\ DOMAIN s = 1 .. Len(s) /\ Len(s) \in Nat
      /\ Append(s, row) \in Seq(T) /\ Len(Append(s, row)) = Len(s) + 1
      /\ Append(s, row)[Len(s) + 1] = row
      /\ \A n \in 1 .. Len(s) : Append(s, row)[n] = s[n]
  <2> HIDE DEF T
  <2> QED
    BY <1>1, AppendProperties, LenProperties
<1>3. DOMAIN Append(s, row) = 1 .. Len(s) + 1
  <2> HIDE DEF T
  <2> QED
    BY <1>2, LenProperties
<1> QED
  BY <1>2, <1>3

LEMMA CreatedRefs ==
  ASSUME TikTokTypeOK, WorkBelongs, UNCHANGED tkLines, NEW row,
         tkOrders' = Append(tkOrders, row)
  PROVE  /\ RefsKept /\ ShopLinesNamed'
         /\ tkOrders'[Len(tkOrders) + 1] = row
         /\ Len(tkOrders) + 1 \notin DOMAIN tkOrders
         /\ DOMAIN tkOrders' = DOMAIN tkOrders \cup {Len(tkOrders) + 1}
<1>1. /\ DOMAIN tkOrders' = DOMAIN tkOrders \cup {Len(tkOrders) + 1}
      /\ Len(tkOrders) + 1 \notin DOMAIN tkOrders
      /\ tkOrders'[Len(tkOrders) + 1] = row
      /\ \A n \in DOMAIN tkOrders : tkOrders'[n] = tkOrders[n]
  BY AppendedRow DEF TikTokTypeOK
<1>2. RefsKept
  BY <1>1 DEF RefsKept
<1>3. ShopLinesNamed'
  BY <1>1, TikTokRows DEF WorkBelongs, ShopLinesNamed
<1> QED
  BY <1>1, <1>2, <1>3

LEMMA AddedLineRefs ==
  ASSUME TikTokTypeOK, WorkBelongs, UNCHANGED tkOrders, NEW row,
         tkLines' = Append(tkLines, row),
         tkOrders[row.order].ref \in ShopOrders => row.product # NoProduct
  PROVE  RefsKept /\ ShopLinesNamed'
<1>1. /\ DOMAIN tkLines' = DOMAIN tkLines \cup {Len(tkLines) + 1}
      /\ tkLines'[Len(tkLines) + 1] = row
      /\ \A n \in DOMAIN tkLines : tkLines'[n] = tkLines[n]
  BY AppendedRow DEF TikTokTypeOK
<1>2. RefsKept
  BY <1>1 DEF RefsKept
<1>3. ShopLinesNamed'
  BY <1>1 DEF WorkBelongs, ShopLinesNamed
<1> QED
  BY <1>1, <1>2, <1>3

-----------------------------------------------------------------------------
(* How a thread goes on *)

LEMMA AboutFree == ASSUME NEW orders, NEW lines PROVE About(Free, orders, lines)
  BY DEF About, Free

LEMMA AboutStep ==
  ASSUME NEW orders, NEW lines, NEW S, NEW w \in ImportWork(S), About(w, orders, lines),
         NEW step,
         step \in {"sync", "settle", "line", "apply"} =>
           orders[w.order].ref = Head(w.rows).lot
  PROVE  About([w EXCEPT !.step = step], orders, lines)
<1> DEFINE v == [w EXCEPT !.step = step]
<1>1. /\ v.op = "import" /\ w.op = "import" /\ v.rows = w.rows /\ v.found = w.found
      /\ v.left = w.left /\ v.order = w.order /\ v.step = step
  BY DEF ImportWork
<1> HIDE DEF v
<1>2. About(v, orders, lines)
  BY <1>1 DEF About, FoundForLots
<1> QED
  BY <1>2 DEF v

LEMMA AboutToRow ==
  ASSUME NEW orders, NEW lines, NEW S, NEW w \in ImportWork(S), FoundForLots(w, orders)
  PROVE  About(ToRow(w), orders, lines)
<1>1. CASE w.rows = << >>
  BY <1>1, AboutFree DEF ToRow
<1>2. CASE w.rows # << >>
  <2> DEFINE old == w.found[Head(w.rows).lot]
             step == IF old = {} THEN "create" ELSE "update"
             v == [w EXCEPT !.step = step, !.left = old]
  <2>1. Head(w.rows).lot \in LotOrders
    <3>1. w.rows \in Seq(ImportRow)
      BY DEF ImportWork
    <3>2. Head(w.rows) \in ImportRow
      BY <1>2, <3>1, HeadTailProperties
    <3> QED
      BY <3>2 DEF ImportRow
  <2>2. ToRow(w) = v
    BY <1>2 DEF ToRow
  <2>3. \A o \in old : orders[o].ref = Head(w.rows).lot
    BY <2>1 DEF FoundForLots
  <2>4. step \in {"create", "update"}
    OBVIOUS
  <2> HIDE DEF old, step
  <2>5. /\ v.op = "import" /\ v.rows = w.rows /\ v.found = w.found /\ v.left = old
        /\ v.step = step
    BY DEF ImportWork
  <2> HIDE DEF v
  <2>6. FoundForLots(v, orders)
    BY <2>5 DEF FoundForLots
  <2>7. About(v, orders, lines)
    BY <2>3, <2>4, <2>5, <2>6 DEF About
  <2> QED
    BY <2>2, <2>7
<1> QED
  BY <1>1, <1>2

LEMMA RowsAfter ==
  ASSUME NEW S, NEW w \in ImportWork(S), w.rows # << >>
  PROVE  LET v == [w EXCEPT !.rows = Tail(w.rows)]
         IN /\ v \in ImportWork(S) /\ v.found = w.found
            /\ v.op = "import" /\ v.step = w.step
            /\ \A n \in DOMAIN v.rows :
                 n + 1 \in DOMAIN w.rows /\ v.rows[n] = w.rows[n + 1] /\ n \in Nat /\ n > 0
<1> DEFINE rows == w.rows
           tail == Tail(rows)
           v == [w EXCEPT !.rows = tail]
<1>1. rows \in Seq(ImportRow) /\ rows # << >>
  BY DEF ImportWork
<1> HIDE DEF rows
<1>2. tail \in Seq(ImportRow) /\ Len(tail) = Len(rows) - 1 /\ Len(rows) \in Nat
  BY <1>1, HeadTailProperties, LenProperties
<1>3. DOMAIN tail = 1 .. Len(tail) /\ DOMAIN rows = 1 .. Len(rows)
  BY <1>1, <1>2, LenProperties
<1>4. \A n \in DOMAIN tail : tail[n] = rows[n + 1] /\ n + 1 \in DOMAIN rows /\ n \in Nat /\ n > 0
  BY <1>1, <1>2, <1>3, HeadTailProperties
<1> HIDE DEF tail
<1>5. /\ v \in ImportWork(S) /\ v.found = w.found /\ v.rows = tail
      /\ v.op = "import" /\ v.step = w.step
  BY <1>2 DEF ImportWork
<1> HIDE DEF v
<1>6. \A n \in DOMAIN v.rows : n + 1 \in DOMAIN rows /\ v.rows[n] = rows[n + 1]
                               /\ n \in Nat /\ n > 0
  BY <1>4, <1>5
<1> QED
  BY <1>5, <1>6 DEF v, tail, rows

LEMMA AboutNextRow ==
  ASSUME NEW orders, NEW lines, NEW S, NEW w \in ImportWork(S), w.rows # << >>,
         About(w, orders, lines)
  PROVE  About(NextRow(w), orders, lines)
<1> DEFINE v == [w EXCEPT !.rows = Tail(w.rows)]
<1>1. /\ v \in ImportWork(S) /\ v.found = w.found
      /\ \A n \in DOMAIN v.rows : n + 1 \in DOMAIN w.rows /\ v.rows[n] = w.rows[n + 1]
                                  /\ n \in Nat
  BY RowsAfter
<1>2. FoundForLots(w, orders)
  BY DEF About, ImportWork
<1>3. NextRow(w) = ToRow(v)
  BY DEF NextRow
<1> HIDE DEF v
<1>4. FoundForLots(v, orders)
  <2>1. ASSUME NEW m \in DOMAIN v.rows, NEW n \in DOMAIN v.rows, v.rows[m].lot = v.rows[n].lot
        PROVE  m = n
    <3>1. m + 1 = n + 1 /\ m \in Nat /\ n \in Nat
      BY <1>1, <1>2, <2>1 DEF FoundForLots
    <3> QED
      BY <3>1
  <2> QED
    BY <1>1, <1>2, <2>1 DEF FoundForLots
<1>5. About(ToRow(v), orders, lines)
  BY <1>1, <1>4, AboutToRow
<1> QED
  BY <1>3, <1>5

LEMMA AboutShopStep ==
  ASSUME NEW orders, NEW lines, NEW w \in ShopImportWork, About(w, orders, lines),
         NEW step, step \in {"find", "create"} \/ orders[w.order].ref = w.ref
  PROVE  About([w EXCEPT !.step = step], orders, lines)
<1> DEFINE v == [w EXCEPT !.step = step]
<1>1. v.op = "shop" /\ v.ref = w.ref /\ v.order = w.order /\ v.step = step
  BY DEF ShopImportWork
<1> HIDE DEF v
<1>2. About(v, orders, lines)
  BY <1>1 DEF About
<1> QED
  BY <1>2 DEF v

LEMMA AboutReturnStep ==
  ASSUME NEW orders, NEW lines, NEW S, NEW w \in ReturnWork(S), About(w, orders, lines),
         NEW step
  PROVE  About([w EXCEPT !.step = step], orders, lines)
<1> DEFINE v == [w EXCEPT !.step = step]
<1>1. v.op = "return" /\ w.op = "return" /\ v.ref = w.ref /\ v.order = w.order
  BY DEF ReturnWork
<1> HIDE DEF v
<1>2. About(v, orders, lines)
  BY <1>1 DEF About
<1> QED
  BY <1>2 DEF v

-----------------------------------------------------------------------------
(* The steps of the live session *)

LEMMA DistinctRows ==
  ASSUME NEW lots, lots \subseteq LotOrders
  PROVE  \A m, n \in DOMAIN RowsOf(lots) :
           RowsOf(lots)[m].lot = RowsOf(lots)[n].lot => m = n
<1> DEFINE ids == InIdOrder(lots)
           rows == RowsOf(lots)
<1>1. /\ ids \in [1 .. Cardinality(lots) -> lots] /\ Ascending(ids)
      /\ Cardinality(lots) \in Nat /\ lots \subseteq Nat
  BY IdsInOrder, LotsFinite
<1>2. rows = [n \in DOMAIN ids |-> [lot |-> ids[n], status |-> remote[ids[n]],
                                    products |-> lotItems[ids[n]]]]
  BY DEF RowsOf, MapSeq
<1> HIDE DEF ids, rows
<1>3. DOMAIN rows = 1 .. Cardinality(lots) /\ \A n \in DOMAIN rows : rows[n].lot = ids[n]
  BY <1>1, <1>2
<1>4. ASSUME NEW m \in DOMAIN rows, NEW n \in DOMAIN rows, rows[m].lot = rows[n].lot
      PROVE  m = n
  <2>1. ids[m] = ids[n] /\ ids[m] \in Nat /\ m \in Nat /\ n \in Nat
    <3>1. m \in 1 .. Cardinality(lots) /\ n \in 1 .. Cardinality(lots)
      BY <1>3
    <3>2. ids[m] \in lots
      BY <1>1, <3>1
    <3>3. rows[m].lot = ids[m] /\ rows[n].lot = ids[n]
      BY <1>3
    <3>4. m \in Nat /\ n \in Nat
      BY <1>1, <3>1
    <3>5. ids[m] = ids[n]
      BY <1>4, <3>3
    <3>6. ids[m] \in Nat
      BY <1>1, <3>2
    <3> QED
      BY <3>4, <3>5, <3>6
  <2>2. ~(m < n) /\ ~(n < m)
    BY <1>1, <1>3, <2>1 DEF Ascending
  <2> QED
    BY <2>1, <2>2
<1> QED
  BY <1>4 DEF rows

LEMMA BelongStepIf ==
  ASSUME TikTokTypeOK, WorkBelongs, NEW h \in Agents, NEW w, Becomes(h, w),
         RefsKept, ShopLinesNamed', About(w, tkOrders', tkLines')
  PROVE  BelongStep(h)
<1>1. agent'[h] = w /\ \A g \in Agents \ {h} : agent'[g] = agent[g]
  BY ThreadSet
<1>2. About(agent'[h], tkOrders', tkLines')
  BY <1>1
<1> QED
  BY <1>1, <1>2 DEF BelongStep

LEMMA BelongFreed ==
  ASSUME TikTokTypeOK, WorkBelongs, NEW h \in Agents, Becomes(h, Free),
         RefsKept, ShopLinesNamed'
  PROVE  BelongStep(h)
  BY AboutFree, BelongStepIf

LEMMA LiveRequestsBelong ==
  ASSUME TikTokTypeOK, WorkBelongs, NEW h \in Agents, LiveArrives(h)
  PROVE  BelongStep(h)
<1>1. UNCHANGED saleTables
  BY DEF LiveArrives, ImportRequest, CorrectRequest, SessionRequest
<1>2. RefsKept /\ ShopLinesNamed'
  BY <1>1, SalesUnchanged
<1>3. CASE ImportRequest(h)
  <2>1. PICK lots \in {OnSale} \cup {{l} : l \in OnSale} :
          Becomes(h, [op |-> "import", step |-> "list", rows |-> RowsOf(lots),
                      found |-> [l \in LotOrders |-> {}], order |-> 0,
                      left |-> {}, products |-> << >>])
    BY <1>3 DEF ImportRequest
  <2> DEFINE rows == RowsOf(lots)
             w == [op |-> "import", step |-> "list", rows |-> rows,
                   found |-> [l \in LotOrders |-> {}], order |-> 0,
                   left |-> {}, products |-> << >>]
  <2>2. lots \subseteq LotOrders
    BY DEF OnSale
  <2>3. \A m, n \in DOMAIN rows : rows[m].lot = rows[n].lot => m = n
    BY <2>2, DistinctRows
  <2> HIDE DEF rows
  <2>4. /\ w.op = "import" /\ w.step = "list" /\ w.rows = rows /\ w.left = {}
        /\ \A l \in LotOrders : w.found[l] = {}
    OBVIOUS
  <2>5. Becomes(h, w)
    BY <2>1 DEF rows
  <2> HIDE DEF w
  <2>6. About(w, tkOrders', tkLines')
    BY <2>3, <2>4 DEF About, FoundForLots
  <2> QED
    BY <1>2, <2>5, <2>6, BelongStepIf
<1>4. CASE CorrectRequest(h)
  <2>1. PICK l \in LotOrders, p \in Products :
          Becomes(h, [op |-> "correct", step |-> "read", lot |-> l, product |-> p,
                      line |-> 0, old |-> NoProduct, applied |-> FALSE, due |-> FALSE])
    BY <1>4 DEF CorrectRequest
  <2> DEFINE w == [op |-> "correct", step |-> "read", lot |-> l, product |-> p,
                   line |-> 0, old |-> NoProduct, applied |-> FALSE, due |-> FALSE]
  <2>2. About(w, tkOrders', tkLines')
    BY DEF About
  <2> QED
    BY <1>2, <2>1, <2>2, BelongStepIf
<1>5. CASE SessionRequest(h)
  <2> DEFINE due == {k \in DOMAIN tkLines :
                       /\ IsLive(tkLines[k].order)
                       /\ tkOrders[tkLines[k].order].state # "cancel"
                       /\ tkOrders[tkLines[k].order].payment = "paid"}
             row(l) == [id |-> l, linked |-> tkLines[l].product = NoProduct,
                        product |-> IF tkLines[l].product # NoProduct
                                      THEN tkLines[l].product
                                      ELSE ProductOnLot(tkOrders[tkLines[l].order].ref)]
             read == {row(l) : l \in due}
             w == [op |-> "session", step |-> "write", read |-> read]
  <2>1. Becomes(h, w)
    BY <1>5 DEF SessionRequest
  <2>2. \A r \in read : r.id \in due
    OBVIOUS
  <2>3. \A l \in due : tkOrders'[tkLines'[l].order].ref \in LotOrders
    BY <1>1 DEF IsLive, saleTables
  <2> HIDE DEF row, due, read
  <2>4. About(w, tkOrders', tkLines')
    BY <2>2, <2>3 DEF About
  <2> QED
    BY <1>2, <2>1, <2>4, BelongStepIf
<1> QED
  BY <1>3, <1>4, <1>5 DEF LiveArrives

LEMMA ImportBelongs ==
  ASSUME TikTokTypeOK, WorkBelongs, NEW h \in Agents, agent[h].op = "import"
  PROVE  /\ agent[h] \in ImportWork(DOMAIN tkOrders) /\ agent[h].rows # << >>
         /\ Head(agent[h].rows) \in ImportRow
         /\ FoundForLots(agent[h], tkOrders)
         /\ \A o \in agent[h].left :
              o \in DOMAIN tkOrders /\ tkOrders[o].ref = Head(agent[h].rows).lot
         /\ agent[h].step \in {"sync", "settle", "line", "apply"} =>
              /\ agent[h].order \in DOMAIN tkOrders
              /\ tkOrders[agent[h].order].ref = Head(agent[h].rows).lot
<1>1. IsImport(agent[h], DOMAIN tkOrders)
  BY ThreadOf
<1>2. agent[h] \in ImportWork(DOMAIN tkOrders) /\ agent[h].rows # << >>
  BY <1>1 DEF IsImport
<1>3. agent[h].rows \in Seq(ImportRow) /\ agent[h].left \subseteq DOMAIN tkOrders
  BY <1>2 DEF ImportWork
<1>4. Head(agent[h].rows) \in ImportRow
  BY <1>2, <1>3, HeadTailProperties
<1> QED
  BY <1>1, <1>2, <1>3, <1>4 DEF IsImport, WorkBelongs, About

(***************************************************************************)
(* An import goes on with its order at another step, or with the next row. *)
(***************************************************************************)
LEMMA ImportStepBelongs ==
  ASSUME TikTokTypeOK, WorkBelongs, RefsKept, ShopLinesNamed', NEW h \in Agents,
         agent[h].op = "import",
         \/ \E step \in {"create", "update", "settle", "line", "apply"} :
              /\ step \in {"settle", "line", "apply"} =>
                   agent[h].step \in {"sync", "settle", "line", "apply"}
              /\ Becomes(h, [agent[h] EXCEPT !.step = step])
         \/ Becomes(h, NextRow(agent[h]))
  PROVE  BelongStep(h)
<1> DEFINE w == agent[h]
           orders == tkOrders'
           lines == tkLines'
           O == DOMAIN tkOrders
<1>1. w \in ImportWork(O) /\ w.rows # << >> /\ w.op = "import"
  BY ImportBelongs
<1>2. About(w, orders, lines)
  BY StaysAbout
<1>3. CASE Becomes(h, NextRow(w))
  <2>1. About(NextRow(w), orders, lines)
    <3> HIDE DEF w, orders, lines, O
    <3> QED
      BY <1>1, <1>2, AboutNextRow
  <2> QED
    BY <1>3, <2>1, BelongStepIf
<1>4. CASE ~Becomes(h, NextRow(w))
  <2>1. PICK step \in {"create", "update", "settle", "line", "apply"} :
          /\ step \in {"settle", "line", "apply"} =>
               w.step \in {"sync", "settle", "line", "apply"}
          /\ Becomes(h, [w EXCEPT !.step = step])
    BY <1>4
  <2>2. About([w EXCEPT !.step = step], orders, lines)
    <3> HIDE DEF w, orders, lines, O
    <3>1. step \in {"sync", "settle", "line", "apply"} =>
            orders[w.order].ref = Head(w.rows).lot
      BY <1>1, <1>2, <2>1 DEF About
    <3> QED
      BY <1>1, <1>2, <3>1, AboutStep
  <2> QED
    BY <2>1, <2>2, BelongStepIf
<1> QED
  BY <1>3, <1>4

LEMMA ListSalesBelongs ==
  ASSUME TikTokTypeOK, WorkBelongs, NEW h \in Agents, ListSales(h)
  PROVE  BelongStep(h)
<1> DEFINE w == agent[h]
           v == [w EXCEPT !.found = FoundSales]
           O == DOMAIN tkOrders
           orders == tkOrders
           lines == tkLines
<1>1. UNCHANGED saleTables /\ w.op = "import" /\ Becomes(h, ToRow(v))
  BY DEF ListSales, At
<1>2. w \in ImportWork(O) /\ FoundForLots(w, orders)
  BY <1>1, ImportBelongs
<1>3. /\ FoundSales \in [LotOrders -> SUBSET O]
      /\ \A l \in LotOrders : \A o \in FoundSales[l] : orders[o].ref = l
  BY DEF FoundSales, SalesOf
<1> HIDE DEF w, O, orders
<1>4. v \in ImportWork(O) /\ v.found = FoundSales /\ v.rows = w.rows
  BY <1>2, <1>3 DEF ImportWork
<1> HIDE DEF v
<1>5. FoundForLots(v, orders)
  BY <1>2, <1>3, <1>4 DEF FoundForLots
<1> HIDE DEF lines
<1>6. About(ToRow(v), orders, lines)
  BY <1>4, <1>5, AboutToRow
<1>7. About(ToRow(v), tkOrders', tkLines')
  BY <1>1, <1>6 DEF orders, lines, saleTables
<1> QED
  BY <1>1, <1>7, SalesUnchanged, BelongStepIf

LEMMA UpdateLiveSaleBelongs ==
  ASSUME TikTokTypeOK, WorkBelongs, NEW h \in Agents, UpdateLiveSale(h)
  PROVE  BelongStep(h)
<1> DEFINE w == agent[h]
<1>1. UNCHANGED tkLines /\ w.op = "import"
  BY DEF UpdateLiveSale, At
<1>2. PICK o \in w.left :
        /\ tkOrders' = IF RowStatus(h) = "cancelled"
                         THEN Rewritten(o, "cancel", "unpaid")
                         ELSE Rewritten(o, "sale", "paid")
        /\ Becomes(h, [w EXCEPT !.step = "sync", !.order = o, !.left = @ \ {o}])
  BY DEF UpdateLiveSale
<1> DEFINE v == [w EXCEPT !.step = "sync", !.order = o, !.left = w.left \ {o}]
           orders == tkOrders'
           lines == tkLines'
<1>3. w \in ImportWork(DOMAIN tkOrders) /\ o \in DOMAIN tkOrders
  BY <1>1, ImportBelongs
<1>4. RefsKept /\ ShopLinesNamed'
  BY <1>1, <1>2, <1>3, RewrittenRefs
<1>5. About(w, orders, lines)
  BY <1>4, StaysAbout
<1>6. Becomes(h, v)
  BY <1>2
<1> HIDE DEF w, orders, lines
<1>7. /\ v.op = "import" /\ w.op = "import" /\ v.rows = w.rows /\ v.found = w.found
      /\ v.left = w.left \ {o} /\ v.order = o
  BY <1>3 DEF ImportWork
<1> HIDE DEF v
<1>8. About(v, orders, lines)
  BY <1>5, <1>7 DEF About, FoundForLots
<1> QED
  BY <1>4, <1>6, <1>8, BelongStepIf DEF orders, lines

LEMMA StockStepsBelong ==
  ASSUME TikTokTypeOK, WorkBelongs, NEW h \in Agents,
         SyncLiveSale(h) \/ SettleLiveSale(h) \/ ApplyLiveSale(h)
  PROVE  BelongStep(h)
<1>1. UNCHANGED tkOrders /\ agent[h].op = "import"
  BY DEF SyncLiveSale, SettleLiveSale, ApplyLiveSale, At
<1>2. LinesSame
  BY StockKeepsLines DEF SyncLiveSale, SettleLiveSale, ApplyLiveSale
<1>3. RefsKept /\ ShopLinesNamed'
  BY <1>1, <1>2, SameSales
<1>4. \/ Becomes(h, NextRow(agent[h]))
      \/ Becomes(h, [agent[h] EXCEPT !.step = "settle"]) /\ agent[h].step = "sync"
      \/ Becomes(h, [agent[h] EXCEPT !.step = "update"])
  BY DEF SyncLiveSale, SettleLiveSale, ApplyLiveSale, At
<1> QED
  BY <1>1, <1>3, <1>4, ImportStepBelongs

LEMMA CreateLiveSaleBelongs ==
  ASSUME TikTokTypeOK, WorkBelongs, NEW h \in Agents, CreateLiveSale(h)
  PROVE  BelongStep(h)
<1> DEFINE w == agent[h]
           row == Head(w.rows)
           sale == NewLiveSale(row)
           products == IF row.products = << >> THEN <<NoProduct>> ELSE row.products
           o == Len(tkOrders) + 1
           v == [w EXCEPT !.step = "line", !.order = o, !.products = products]
           orders == tkOrders'
           lines == tkLines'
<1>1. /\ UNCHANGED tkLines /\ w.op = "import"
      /\ tkOrders' = Append(tkOrders, sale) /\ Becomes(h, v)
  BY DEF CreateLiveSale, At
<1>2. RefsKept /\ ShopLinesNamed' /\ orders[o] = sale
  BY <1>1, CreatedRefs
<1>3. sale.ref = Head(w.rows).lot
  BY DEF NewLiveSale
<1>4. About(w, orders, lines) /\ w \in ImportWork(DOMAIN tkOrders)
  BY <1>1, <1>2, StaysAbout, ImportBelongs
<1> HIDE DEF w, sale, products, o, orders, lines
<1>5. /\ v.op = "import" /\ w.op = "import" /\ v.rows = w.rows /\ v.found = w.found
      /\ v.left = w.left /\ v.order = o
  BY <1>4 DEF ImportWork
<1> HIDE DEF v
<1>6. About(v, orders, lines)
  BY <1>2, <1>3, <1>4, <1>5 DEF About, FoundForLots
<1> QED
  BY <1>1, <1>2, <1>6, BelongStepIf DEF orders, lines

LEMMA AddLiveLineBelongs ==
  ASSUME TikTokTypeOK, WorkBelongs, NEW h \in Agents, AddLiveLine(h)
  PROVE  BelongStep(h)
<1> DEFINE w == agent[h]
           tail == Tail(w.products)
           rest == [w EXCEPT !.products = tail]
           row == [order |-> w.order, product |-> Head(w.products), applied |-> FALSE]
           v == IF rest.products # << >> THEN rest
                ELSE IF RowStatus(h) = "cancelled" THEN NextRow(rest)
                     ELSE [rest EXCEPT !.step = "apply"]
           orders == tkOrders'
           lines == tkLines'
           O == DOMAIN tkOrders
<1>1. /\ UNCHANGED tkOrders /\ w.op = "import" /\ w.step = "line"
      /\ tkLines' = Append(tkLines, row) /\ Becomes(h, v)
  BY DEF AddLiveLine, At
<1>2. /\ w \in ImportWork(O) /\ w.rows # << >>
      /\ tkOrders[w.order].ref \in LotOrders
  BY <1>1, ImportBelongs DEF ImportRow
<1>3. RefsKept /\ ShopLinesNamed'
  BY <1>1, <1>2, AddedLineRefs, LotsAndShopDiffer
<1>4. About(w, orders, lines) /\ w.products \in Seq(Products \cup {NoProduct})
      /\ w.products # << >>
  BY <1>1, <1>2, <1>3, StaysAbout, AtImport DEF ImportWork, IsImport, At
<1>5. tail \in Seq(Products \cup {NoProduct})
  BY <1>4, HeadTailProperties
<1> HIDE DEF w, tail, orders, lines, O
<1>6. /\ rest \in ImportWork(O) /\ rest.rows = w.rows /\ rest.order = w.order
      /\ rest.op = "import" /\ rest.step = "line" /\ rest.found = w.found
      /\ rest.left = w.left
  BY <1>1, <1>2, <1>5 DEF ImportWork
<1> HIDE DEF rest
<1>7. About(rest, orders, lines)
  BY <1>1, <1>4, <1>6 DEF About, FoundForLots
<1>8. About(NextRow(rest), orders, lines)
  BY <1>2, <1>6, <1>7, AboutNextRow
<1>9. About([rest EXCEPT !.step = "apply"], orders, lines)
  BY <1>6, <1>7, AboutStep, SMTT(40) DEF About
<1>10. About(v, orders, lines)
  BY <1>7, <1>8, <1>9
<1> HIDE DEF v
<1> QED
  BY <1>1, <1>3, <1>10, BelongStepIf DEF orders, lines

LEMMA ReadLotLineBelongs ==
  ASSUME TikTokTypeOK, WorkBelongs, NEW h \in Agents, ReadLotLine(h)
  PROVE  BelongStep(h)
<1> DEFINE w == agent[h]
           all == SoldLines(w.lot)
           first == CHOOSE k \in all : \A j \in all : k <= j
           lot == ProductOnLot(w.lot)
           old == IF tkLines[first].product # NoProduct THEN tkLines[first].product ELSE lot
           applied == tkLines[first].applied
           due == HoldsStock(tkLines[first].order)
           none == [w EXCEPT !.step = "write", !.old = lot]
           some == [w EXCEPT !.step = "write", !.line = first, !.old = old,
                             !.applied = applied, !.due = due]
           v == IF all = {} THEN none ELSE some
           orders == tkOrders
           lines == tkLines
<1>1. UNCHANGED saleTables /\ At(h, "correct", "read") /\ Becomes(h, v)
  BY DEF ReadLotLine
<1>2. w \in CorrectionWork(DOMAIN tkLines)
  BY <1>1, AtCorrection
<1>3. About(w, orders, lines)
  BY DEF WorkBelongs
<1>4. ASSUME all # {} PROVE orders[lines[first].order].ref = w.lot
  <2>1. all \subseteq DOMAIN tkLines
    BY DEF SoldLines
  <2>2. first \in all
    BY <1>4, <2>1, FirstLine
  <2> HIDE DEF first
  <2> QED
    BY <2>2 DEF SoldLines
<1> HIDE DEF w, all, first, lot, old, applied, due, orders, lines
<1>5. none.op = "correct" /\ none.line = w.line /\ none.lot = w.lot /\ w.op = "correct"
  BY <1>2 DEF CorrectionWork
<1>6. some.op = "correct" /\ some.line = first /\ some.lot = w.lot
  BY <1>2 DEF CorrectionWork
<1> HIDE DEF none, some
<1>7. About(v, orders, lines)
  BY <1>3, <1>4, <1>5, <1>6 DEF About
<1> HIDE DEF v
<1>8. About(v, tkOrders', tkLines')
  BY <1>1, <1>7 DEF orders, lines, saleTables
<1> QED
  BY <1>1, <1>8, SalesUnchanged, BelongStepIf

LEMMA CorrectLineBelongs ==
  ASSUME TikTokTypeOK, WorkBelongs, NEW h \in Agents, CorrectLine(h)
  PROVE  BelongStep(h)
<1> DEFINE w == agent[h]
           l == w.line
           old == tkLines[l]
           new == Corrected(old, w)
<1>1. At(h, "correct", "write") /\ Becomes(h, Free) /\ UNCHANGED tkOrders
  BY DEF CorrectLine
<1>2. CASE l = 0
  <2>1. UNCHANGED saleTables
    BY <1>1, <1>2 DEF CorrectLine, saleTables
  <2> QED
    BY <1>1, <2>1, SalesUnchanged, BelongFreed
<1>3. CASE l # 0
  <2>1. tkLines' = [tkLines EXCEPT ![l] = new]
    BY <1>3 DEF CorrectLine
  <2>2. w \in CorrectionWork(DOMAIN tkLines)
    BY <1>1, AtCorrection
  <2>3. l \in DOMAIN tkLines /\ w.product \in Products
    BY <1>3, <2>2 DEF CorrectionWork
  <2>4. old \in TikTokLine
    BY <2>3, TikTokRows
  <2>5. new.order = old.order /\ new.product \in {old.product, w.product}
    <3> HIDE DEF old
    <3> QED
      BY <2>4 DEF Corrected, TikTokLine
  <2>6. w.product # NoProduct
    BY <2>3, TikTokConstants
  <2>7. tkOrders[old.order].ref \in LotOrders
    BY <1>1, <1>3, <2>2 DEF WorkBelongs, About, At, CorrectionWork
  <2> HIDE DEF new, l
  <2>8. /\ DOMAIN tkLines' = DOMAIN tkLines
        /\ \A k \in DOMAIN tkLines : k # l => tkLines'[k] = tkLines[k]
        /\ tkLines'[l] = new
    BY <2>1, <2>3
  <2>9. RefsKept
    BY <1>1, <2>5, <2>8 DEF RefsKept
  <2>10. ShopLinesNamed'
    BY <1>1, <2>5, <2>6, <2>8 DEF ShopLinesNamed, WorkBelongs
  <2> QED
    BY <1>1, <2>9, <2>10, BelongFreed
<1> QED
  BY <1>2, <1>3

LEMMA ApplySessionBelongs ==
  ASSUME TikTokTypeOK, WorkBelongs, NEW h \in Agents, ApplySession(h)
  PROVE  BelongStep(h)
<1> DEFINE rows == {r \in agent[h].read : r.product # NoProduct}
           lines == {r.id : r \in rows}
<1>1. /\ Becomes(h, Free) /\ UNCHANGED tkOrders
      /\ tkLines' = [l \in DOMAIN tkLines |->
             IF l \notin lines THEN tkLines[l]
             ELSE [tkLines[l] EXCEPT !.applied = TRUE,
                     !.product = IF ReadOf(rows, l).linked
                                   THEN ReadOf(rows, l).product ELSE @]]
  BY DEF ApplySession
<1>2. ASSUME NEW l \in DOMAIN tkLines
      PROVE  /\ tkLines'[l].order = tkLines[l].order
             /\ tkLines[l].product # NoProduct => tkLines'[l].product # NoProduct
  <2>1. tkLines[l] \in TikTokLine
    BY TikTokRows
  <2>2. CASE l \notin lines
    BY <1>1, <2>2
  <2>3. CASE l \in lines
    <3> DEFINE old == tkLines[l]
               read == ReadOf(rows, l)
    <3>1. tkLines'[l] = [old EXCEPT !.applied = TRUE,
                           !.product = IF read.linked THEN read.product ELSE old.product]
      BY <1>1, <2>3
    <3>2. read \in rows
      <4> HIDE DEF rows
      <4> QED
        BY <2>3, ReadOfLine
    <3>3. read.product # NoProduct
      BY <3>2
    <3> HIDE DEF read, old
    <3>4. old \in TikTokLine
      BY <2>1 DEF old
    <3>5. tkLines'[l].order = old.order /\ tkLines'[l].product \in {old.product, read.product}
      BY <3>1, <3>4 DEF TikTokLine
    <3> QED
      BY <3>3, <3>5, SMTT(40) DEF old
  <2> QED
    BY <2>2, <2>3
<1>3. DOMAIN tkLines' = DOMAIN tkLines
  <2> HIDE DEF rows, lines
  <2> QED
    BY <1>1
<1> HIDE DEF rows, lines
<1>4. RefsKept
  BY <1>1, <1>2, <1>3 DEF RefsKept
<1>5. ShopLinesNamed'
  BY <1>1, <1>2, <1>3 DEF ShopLinesNamed, WorkBelongs
<1> QED
  BY <1>1, <1>4, <1>5, BelongFreed

LEMMA LiveFailsBelongs ==
  ASSUME TikTokTypeOK, WorkBelongs, NEW h \in Agents, LiveFails(h)
  PROVE  BelongStep(h)
<1>1. UNCHANGED saleTables
  BY DEF LiveFails
<1>2. RefsKept /\ ShopLinesNamed'
  BY <1>1, SalesUnchanged
<1>3. \/ Becomes(h, Free)
      \/ agent[h].op = "import" /\ Becomes(h, NextRow(agent[h]))
  BY DEF LiveFails
<1> QED
  BY <1>2, <1>3, BelongFreed, ImportStepBelongs

LEMMA LiveWorkBelongs ==
  ASSUME TikTokTypeOK, WorkBelongs, NEW h \in Agents, LiveGoesOn(h)
  PROVE  BelongStep(h)
  BY ListSalesBelongs, UpdateLiveSaleBelongs, StockStepsBelong, CreateLiveSaleBelongs,
     AddLiveLineBelongs, ReadLotLineBelongs, CorrectLineBelongs, ApplySessionBelongs,
     LiveFailsBelongs DEF LiveGoesOn

-----------------------------------------------------------------------------
(* The steps of the shop *)

LEMMA ImportOfAbout ==
  ASSUME NEW t, NEW status, NEW items, NEW orders, NEW lines
  PROVE  About(ImportOf(t, status, items), orders, lines)
  BY DEF About, ImportOf

LEMMA ShopRequestsBelong ==
  ASSUME TikTokTypeOK, WorkBelongs, NEW h \in Agents, ShopArrives(h)
  PROVE  BelongStep(h)
<1>1. UNCHANGED saleTables
  BY DEF ShopArrives, SyncRequest, WebhookRequest, ReturnRequest
<1>2. RefsKept /\ ShopLinesNamed'
  BY <1>1, SalesUnchanged
<1>3. CASE SyncRequest(h) \/ WebhookRequest(h)
  <2>1. \E t, status, items : Becomes(h, ImportOf(t, status, items))
    BY <1>3 DEF SyncRequest, WebhookRequest
  <2> QED
    BY <1>2, <2>1, ImportOfAbout, BelongStepIf
<1>4. CASE ReturnRequest(h)
  <2>1. PICK t \in returned :
          /\ SalesOf(t) # {}
          /\ Becomes(h, [op |-> "return", step |-> "store", ref |-> t,
               order |-> CHOOSE o \in SalesOf(t) : \A p \in SalesOf(t) : p <= o])
    BY <1>4 DEF ReturnRequest
  <2> DEFINE S == SalesOf(t)
             newest == CHOOSE o \in S : \A p \in S : p <= o
             w == [op |-> "return", step |-> "store", ref |-> t, order |-> newest]
  <2>2. S \subseteq DOMAIN tkOrders /\ S # {}
    BY <2>1 DEF SalesOf
  <2>3. newest \in S
    <3> HIDE DEF S
    <3> QED
      BY <2>2, NewestOrder
  <2>4. Becomes(h, w)
    BY <2>1
  <2> HIDE DEF newest
  <2>5. tkOrders'[newest].ref = t
    BY <1>1, <2>3 DEF SalesOf, saleTables
  <2>6. About(w, tkOrders', tkLines')
    BY <2>5 DEF About
  <2> QED
    BY <1>2, <2>4, <2>6, BelongStepIf
<1> QED
  BY <1>3, <1>4 DEF ShopArrives

LEMMA FindSaleBelongs ==
  ASSUME TikTokTypeOK, WorkBelongs, NEW h \in Agents, FindSale(h)
  PROVE  BelongStep(h)
<1> DEFINE w == agent[h]
           S == SalesOf(w.ref)
           newest == CHOOSE o \in S : \A p \in S : p <= o
           payment == tkOrders[newest].payment
           found == [w EXCEPT !.step = "update", !.order = newest, !.payment = payment]
           create == [w EXCEPT !.step = "create"]
           v == IF S # {} THEN found
                ELSE IF w.items /\ w.products # << >> THEN create ELSE Free
           orders == tkOrders'
           lines == tkLines'
<1>1. UNCHANGED saleTables /\ At(h, "shop", "find") /\ Becomes(h, v)
  BY DEF FindSale
<1>2. w \in ShopImportWork
  BY <1>1, AtShop
<1>3. RefsKept /\ ShopLinesNamed'
  BY <1>1, SalesUnchanged
<1>4. About(w, orders, lines)
  BY <1>3, StaysAbout
<1>5. ASSUME S # {} PROVE orders[newest].ref = w.ref
  <2>1. S \subseteq DOMAIN tkOrders
    BY DEF SalesOf
  <2>2. newest \in S
    BY <1>5, <2>1, NewestOrder
  <2> HIDE DEF newest
  <2> QED
    BY <1>1, <2>2 DEF SalesOf, saleTables
<1> HIDE DEF w, S, newest, payment, orders, lines
<1>6. found.op = "shop" /\ found.ref = w.ref /\ found.order = newest
  BY <1>2 DEF ShopImportWork
<1>7. S # {} => About(found, orders, lines)
  <2> HIDE DEF found
  <2> QED
    BY <1>5, <1>6 DEF About
<1>8. About(create, orders, lines)
  BY <1>2, <1>4, AboutShopStep
<1>9. About(v, orders, lines)
  BY <1>7, <1>8, AboutFree
<1> HIDE DEF v
<1> QED
  BY <1>1, <1>3, <1>9, BelongStepIf DEF orders, lines

LEMMA UpdateShopSaleBelongs ==
  ASSUME TikTokTypeOK, WorkBelongs, NEW h \in Agents, UpdateShopSale(h)
  PROVE  BelongStep(h)
<1> DEFINE w == agent[h]
           orders == tkOrders'
           lines == tkLines'
<1>1. /\ UNCHANGED tkLines /\ At(h, "shop", "update")
      /\ tkOrders' = Rewritten(w.order, StateFor(w.status), PaymentFor(w.status, w.payment))
      /\ Becomes(h, [w EXCEPT !.step = "sync"])
  BY DEF UpdateShopSale
<1>2. w \in ShopImportWork /\ w.order \in DOMAIN tkOrders /\ w.step = "update"
  BY <1>1, AtShop DEF IsShopImport
<1>3. RefsKept /\ ShopLinesNamed'
  BY <1>1, <1>2, RewrittenRefs
<1>4. About(w, orders, lines)
  BY <1>3, StaysAbout
<1> HIDE DEF w, orders, lines
<1>5. orders[w.order].ref = w.ref
  BY <1>2, <1>4 DEF About, ShopImportWork
<1>6. About([w EXCEPT !.step = "sync"], orders, lines)
  BY <1>2, <1>4, <1>5, AboutShopStep
<1> QED
  BY <1>1, <1>3, <1>6, BelongStepIf DEF orders, lines

LEMMA ShopStockBelongs ==
  ASSUME TikTokTypeOK, WorkBelongs, NEW h \in Agents, SyncShopSale(h) \/ ApplyShopSale(h)
  PROVE  BelongStep(h)
<1>1. UNCHANGED tkOrders /\ Becomes(h, Free)
  BY DEF SyncShopSale, ApplyShopSale
<1>2. LinesSame
  BY StockKeepsLines DEF SyncShopSale, ApplyShopSale
<1> QED
  BY <1>1, <1>2, SameSales, BelongFreed

LEMMA CreateShopSaleBelongs ==
  ASSUME TikTokTypeOK, WorkBelongs, NEW h \in Agents, CreateShopSale(h)
  PROVE  BelongStep(h)
<1> DEFINE w == agent[h]
           o == Len(tkOrders) + 1
           sale == [ref |-> w.ref, state |-> StateFor(w.status),
                    payment |-> PaymentFor(w.status, "unpaid")]
           v == [w EXCEPT !.step = "line", !.order = o]
           orders == tkOrders'
           lines == tkLines'
<1>1. /\ UNCHANGED tkLines /\ At(h, "shop", "create")
      /\ tkOrders' = Append(tkOrders, sale) /\ Becomes(h, v)
  BY DEF CreateShopSale
<1>2. w \in ShopImportWork
  BY <1>1, AtShop
<1>3. RefsKept /\ ShopLinesNamed' /\ orders[o] = sale /\ sale.ref = w.ref
  BY <1>1, CreatedRefs
<1> HIDE DEF w, o, sale, orders, lines
<1>4. v.op = "shop" /\ v.ref = w.ref /\ v.order = o
  BY <1>2 DEF ShopImportWork
<1> HIDE DEF v
<1>5. About(v, orders, lines)
  BY <1>3, <1>4 DEF About
<1> QED
  BY <1>1, <1>3, <1>5, BelongStepIf DEF orders, lines

LEMMA AddShopLineBelongs ==
  ASSUME TikTokTypeOK, WorkBelongs, NEW h \in Agents, AddShopLine(h)
  PROVE  BelongStep(h)
<1> DEFINE w == agent[h]
           tail == Tail(w.products)
           rest == [w EXCEPT !.products = tail]
           row == [order |-> w.order, product |-> Head(w.products), applied |-> FALSE]
           v == IF rest.products # << >> THEN rest
                ELSE IF w.status = "confirmed" THEN [rest EXCEPT !.step = "apply"] ELSE Free
           orders == tkOrders'
           lines == tkLines'
<1>1. /\ UNCHANGED tkOrders /\ At(h, "shop", "line")
      /\ tkLines' = Append(tkLines, row) /\ Becomes(h, v)
  BY DEF AddShopLine
<1>2. w \in ShopImportWork /\ w.products # << >> /\ w.step = "line"
  BY <1>1, AtShop DEF IsShopImport
<1>3. Head(w.products) \in Products /\ tail \in Seq(Products)
  BY <1>2, HeadTailProperties DEF ShopImportWork
<1>4. Head(w.products) # NoProduct
  BY <1>3, TikTokConstants
<1>5. RefsKept /\ ShopLinesNamed'
  BY <1>1, <1>4, AddedLineRefs
<1>6. About(w, orders, lines)
  BY <1>5, StaysAbout
<1> HIDE DEF w, tail, orders, lines
<1>7. /\ rest \in ShopImportWork /\ rest.op = "shop" /\ rest.ref = w.ref
      /\ rest.order = w.order /\ rest.step = "line" /\ w.op = "shop"
  BY <1>2, <1>3 DEF ShopImportWork
<1> HIDE DEF rest
<1>8. orders[w.order].ref = w.ref
  BY <1>2, <1>6, <1>7 DEF About
<1>9. About(rest, orders, lines)
  BY <1>7, <1>8 DEF About
<1>10. About([rest EXCEPT !.step = "apply"], orders, lines)
  BY <1>7, <1>8, <1>9, AboutShopStep
<1>11. About(v, orders, lines)
  BY <1>9, <1>10, AboutFree
<1> HIDE DEF v
<1> QED
  BY <1>1, <1>5, <1>11, BelongStepIf DEF orders, lines

LEMMA ReturnsBelong ==
  ASSUME TikTokTypeOK, WorkBelongs, NEW h \in Agents,
         StoreReturn(h) \/ CancelReturned(h) \/ SyncReturned(h)
  PROVE  BelongStep(h)
<1> DEFINE w == agent[h]
           O == DOMAIN tkOrders
           orders == tkOrders'
           lines == tkLines'
<1>1. w \in ReturnWork(O) /\ w.order \in O
  BY AtReturn DEF StoreReturn, CancelReturned, SyncReturned, ReturnWork
<1>2. RefsKept /\ ShopLinesNamed'
  <2>1. CASE StoreReturn(h)
    BY <2>1, SalesUnchanged DEF StoreReturn
  <2>2. CASE CancelReturned(h)
    BY <1>1, <2>2, RewrittenRefs DEF CancelReturned
  <2>3. CASE SyncReturned(h)
    BY <2>3, StockKeepsLines, SameSales DEF SyncReturned
  <2> QED
    BY <2>1, <2>2, <2>3
<1>3. About(w, orders, lines)
  BY <1>2, StaysAbout
<1>4. \/ Becomes(h, Free)
      \/ \E step \in {"update", "manual", "sync", "mark"} :
           Becomes(h, [w EXCEPT !.step = step])
  BY DEF StoreReturn, CancelReturned, SyncReturned
<1>5. \A step : About([w EXCEPT !.step = step], orders, lines)
  <2> HIDE DEF w, O, orders, lines
  <2> QED
    BY <1>1, <1>3, AboutReturnStep
<1> QED
  BY <1>2, <1>4, <1>5, BelongFreed, BelongStepIf

LEMMA ShopWorkBelongs ==
  ASSUME TikTokTypeOK, WorkBelongs, NEW h \in Agents, ShopGoesOn(h)
  PROVE  BelongStep(h)
<1>1. CASE ToBeReviewed(h) \/ MarkProcessed(h) \/ ShopFails(h)
  <2>1. UNCHANGED saleTables /\ Becomes(h, Free)
    BY <1>1 DEF ToBeReviewed, MarkProcessed, ShopFails
  <2> QED
    BY <2>1, SalesUnchanged, BelongFreed
<1> QED
  BY <1>1, FindSaleBelongs, UpdateShopSaleBelongs, ShopStockBelongs, CreateShopSaleBelongs,
     AddShopLineBelongs, ReturnsBelong DEF ShopGoesOn

LEMMA AgentsBelong ==
  ASSUME TikTokTypeOK, WorkBelongs, NEW h \in Agents,
         LiveArrival(h) \/ ShopArrival(h) \/ AgentWork(h)
  PROVE  BelongStep(h)
  BY LiveRequestsBelong, LiveWorkBelongs, ShopRequestsBelong, ShopWorkBelongs
     DEF LiveArrival, ShopArrival, AgentWork

(***************************************************************************)
(* A step of the whole leaves TikTok's sale orders and threads alone, or   *)
(* is one of a thread.                                                     *)
(***************************************************************************)
LEMMA WhoMoves ==
  ASSUME WarehouseTypeOK, [WarehouseNext]_warehouseVars
  PROVE  \/ UNCHANGED <<saleTables, agent>>
         \/ \E h \in Agents : LiveArrival(h) \/ ShopArrival(h) \/ AgentWork(h)
<1>1. CASE UNCHANGED warehouseVars
  BY <1>1 DEF warehouseVars, tiktokVars
<1>2. CASE SellStep \/ BuyStep
  BY <1>2 DEF SellStep, BuyStep, tiktokVars
<1>3. CASE TikTokStep
  <2>1. \/ \E t \in workload.orders : Changes(t) \/ Returns(t)
        \/ \E h \in workload.agents : LiveArrival(h) \/ ShopArrival(h) \/ AgentWork(h)
    BY <1>3 DEF TikTokStep, TikTokActs
  <2>2. workload.agents \subseteq Agents
    BY DEF WarehouseTypeOK, Workload
  <2> QED
    BY <2>1, <2>2 DEF Changes, Returns
<1> QED
  BY <1>1, <1>2, <1>3 DEF WarehouseNext

LEMMA WorkBelongsStep ==
  ASSUME WarehouseTypeOK, WorkBelongs, [WarehouseNext]_warehouseVars
  PROVE  WorkBelongs'
<1>1. TikTokTypeOK
  BY DEF WarehouseTypeOK
<1>2. CASE UNCHANGED <<saleTables, agent>>
  BY <1>2 DEF WorkBelongs, ShopLinesNamed, saleTables
<1>3. CASE \E h \in Agents : LiveArrival(h) \/ ShopArrival(h) \/ AgentWork(h)
  BY <1>1, <1>3, AgentsBelong, BelongStepKeeps
<1> QED
  BY <1>2, <1>3, WhoMoves

LEMMA WorkAlwaysBelongs == WarehouseSpec => []WorkBelongs
<1>1. WarehouseInit => WorkBelongs
  <2> SUFFICES ASSUME WarehouseInit PROVE WorkBelongs
    OBVIOUS
  <2>1. \A h \in Agents : agent[h] = Free
    BY DEF WarehouseInit, TikTokInit
  <2>2. \A h \in Agents : About(agent[h], tkOrders, tkLines)
    BY <2>1, AboutFree
  <2>3. ShopLinesNamed
    BY DEF WarehouseInit, TikTokInit, ShopLinesNamed
  <2> QED
    BY <2>2, <2>3 DEF WorkBelongs
<1>2. WarehouseTypeOK /\ WorkBelongs /\ [WarehouseNext]_warehouseVars => WorkBelongs'
  BY WorkBelongsStep
<1> QED
  BY <1>1, <1>2, WarehouseTypes, PTL DEF WarehouseSpec

-----------------------------------------------------------------------------
(* One sale order for each TikTok order *)

Uncrossed == "tiktok" \notin crossed

(***************************************************************************)
(* The TikTok orders that have a sale order.                               *)
(***************************************************************************)
Taken == {tkOrders[o].ref : o \in DOMAIN tkOrders}

RefsUnique ==
  \A o, p \in DOMAIN tkOrders : tkOrders[o].ref = tkOrders[p].ref => o = p

(***************************************************************************)
(* What an import found missing when it listed the sale orders is still    *)
(* missing, up to the row it is at; what it or the shop's import is about  *)
(* to create is missing.                                                   *)
(***************************************************************************)
LookedUp(w, taken) ==
  /\ w.op = "import" =>
       /\ w.step # "list" =>
            \A n \in DOMAIN w.rows \ {1} :
              w.found[w.rows[n].lot] = {} => w.rows[n].lot \notin taken
       /\ w.step = "create" => Head(w.rows).lot \notin taken
  /\ w.op = "shop" /\ w.step = "create" => w.ref \notin taken

SalesLookedUp ==
  Uncrossed =>
    /\ ~TikTokCrossed /\ RefsUnique
    /\ \A h \in Agents : LookedUp(agent[h], Taken)

LEMMA LookedUpFree == ASSUME NEW taken PROVE LookedUp(Free, taken)
  BY DEF LookedUp, Free

LEMMA LookedUpKept ==
  ASSUME NEW w, NEW orders, NEW lines, IsWork(w, orders, lines),
         NEW taken, NEW taken2, LookedUp(w, taken),
         (taken2 \ taken) \cap Concerns(w) = {}
  PROVE  LookedUp(w, taken2)
<1>1. CASE w = Free
  BY <1>1, LookedUpFree
<1>2. CASE IsImport(w, orders)
  <2>1. w.op = "import" /\ w.rows \in Seq(ImportRow) /\ w.rows # << >>
    BY <1>2 DEF IsImport, ImportWork
  <2>2. 1 \in DOMAIN w.rows /\ Head(w.rows) = w.rows[1]
    BY <2>1, HeadTailProperties, LenProperties
  <2>3. \A n \in DOMAIN w.rows : w.rows[n].lot \in Concerns(w)
    BY <2>1 DEF Concerns
  <2> QED
    BY <2>1, <2>2, <2>3 DEF LookedUp
<1>3. CASE w \in CorrectionWork(lines)
  BY <1>3 DEF CorrectionWork, LookedUp
<1>4. CASE w \in ApplicationWork(lines)
  BY <1>4 DEF ApplicationWork, LookedUp
<1>5. CASE IsShopImport(w, orders)
  <2>1. w.op = "shop"
    BY <1>5 DEF IsShopImport, ShopImportWork
  <2>2. w.ref \in Concerns(w)
    BY <2>1 DEF Concerns
  <2> QED
    BY <2>1, <2>2 DEF LookedUp
<1>6. CASE w \in ReturnWork(orders)
  BY <1>6 DEF ReturnWork, LookedUp
<1> QED
  BY <1>1, <1>2, <1>3, <1>4, <1>5, <1>6 DEF IsWork, IsLiveWork, IsShopWork

(***************************************************************************)
(* A step of one thread that keeps this: a sale order it creates is of an  *)
(* order only this thread is concerned with, and of one that has none.     *)
(***************************************************************************)
LookedUpStep(h) ==
  /\ RefsUnique' /\ LookedUp(agent'[h], Taken')
  /\ Taken' \ Taken \subseteq Concerns(agent[h])

LEMMA LookedUpStepKeeps ==
  ASSUME TikTokTypeOK, SalesLookedUp, crossed' = crossed \cup Overlaps',
         NEW h \in Agents, \A g \in Agents \ {h} : agent'[g] = agent[g],
         Uncrossed => LookedUpStep(h)
  PROVE  SalesLookedUp'
<1> SUFFICES ASSUME Uncrossed' PROVE (~TikTokCrossed /\ RefsUnique)'
                                     /\ \A g \in Agents : LookedUp(agent'[g], Taken')
  BY DEF SalesLookedUp
<1>1. Uncrossed
  BY DEF Uncrossed
<1>2. ~TikTokCrossed'
  BY DEF Uncrossed, Overlaps
<1>3. LookedUpStep(h)
  BY <1>1
<1>4. ASSUME NEW g \in Agents PROVE LookedUp(agent'[g], Taken')
  <2>1. CASE g = h
    BY <1>3, <2>1 DEF LookedUpStep
  <2>2. CASE g # h
    <3> DEFINE w == agent[g]
               taken == Taken
               taken2 == Taken'
               O == DOMAIN tkOrders
               L == DOMAIN tkLines
    <3>1. Concerns(agent[h]) \cap Concerns(w) = {}
      BY <1>1, <2>2 DEF SalesLookedUp, TikTokCrossed
    <3>2. IsWork(w, O, L) /\ LookedUp(w, taken)
      BY <1>1, TikTokParts DEF SalesLookedUp
    <3>3. (taken2 \ taken) \cap Concerns(w) = {}
      BY <1>3, <3>1 DEF LookedUpStep
    <3> HIDE DEF w, taken, taken2, O, L
    <3>4. LookedUp(w, taken2)
      BY <3>2, <3>3, LookedUpKept
    <3> QED
      BY <2>2, <3>4 DEF w, taken2
  <2> QED
    BY <2>1, <2>2
<1> QED
  BY <1>2, <1>3, <1>4 DEF LookedUpStep

LEMMA SameTaken ==
  ASSUME RefsKept, DOMAIN tkOrders' = DOMAIN tkOrders
  PROVE  Taken' = Taken /\ (RefsUnique => RefsUnique')
<1>1. Taken' = Taken
  BY DEF Taken, RefsKept
<1> QED
  BY <1>1 DEF RefsUnique, RefsKept

LEMMA OneMoreTaken ==
  ASSUME TikTokTypeOK, RefsUnique, NEW row, tkOrders' = Append(tkOrders, row),
         row.ref \notin Taken
  PROVE  Taken' = Taken \cup {row.ref} /\ RefsUnique'
<1>1. /\ DOMAIN tkOrders' = DOMAIN tkOrders \cup {Len(tkOrders) + 1}
      /\ Len(tkOrders) + 1 \notin DOMAIN tkOrders
      /\ tkOrders'[Len(tkOrders) + 1] = row
      /\ \A n \in DOMAIN tkOrders : tkOrders'[n] = tkOrders[n]
  BY AppendedRow DEF TikTokTypeOK
<1>2. Taken' = Taken \cup {row.ref}
  BY <1>1 DEF Taken
<1> QED
  BY <1>1, <1>2 DEF RefsUnique, Taken

LEMMA NoneOf == ASSUME NEW t PROVE SalesOf(t) = {} <=> t \notin Taken
  BY DEF SalesOf, Taken

LEMMA LookedUpStepOf ==
  ASSUME NEW S, NEW w \in ImportWork(S), NEW taken, LookedUp(w, taken), w.step # "list",
         NEW step, step # "create"
  PROVE  LookedUp([w EXCEPT !.step = step], taken)
<1> DEFINE v == [w EXCEPT !.step = step]
<1>1. v.op = "import" /\ w.op = "import" /\ v.rows = w.rows /\ v.found = w.found
      /\ v.step = step
  BY DEF ImportWork
<1> HIDE DEF v
<1>2. LookedUp(v, taken)
  BY <1>1 DEF LookedUp
<1> QED
  BY <1>2 DEF v

LEMMA LookedUpToRow ==
  ASSUME NEW S, NEW w \in ImportWork(S), NEW taken,
         \A n \in DOMAIN w.rows :
           w.found[w.rows[n].lot] = {} => w.rows[n].lot \notin taken
  PROVE  LookedUp(ToRow(w), taken)
<1>1. CASE w.rows = << >>
  BY <1>1, LookedUpFree DEF ToRow
<1>2. CASE w.rows # << >>
  <2> DEFINE old == w.found[Head(w.rows).lot]
             step == IF old = {} THEN "create" ELSE "update"
             v == [w EXCEPT !.step = step, !.left = old]
  <2>1. w.rows \in Seq(ImportRow)
    BY DEF ImportWork
  <2>2. 1 \in DOMAIN w.rows /\ Head(w.rows) = w.rows[1]
    BY <1>2, <2>1, HeadTailProperties, LenProperties
  <2>3. ToRow(w) = v
    BY <1>2 DEF ToRow
  <2>4. step = "create" => Head(w.rows).lot \notin taken
    BY <2>2
  <2> HIDE DEF old, step
  <2>5. /\ v.op = "import" /\ v.rows = w.rows /\ v.found = w.found /\ v.step = step
    BY DEF ImportWork
  <2> HIDE DEF v
  <2>6. LookedUp(v, taken)
    BY <2>4, <2>5 DEF LookedUp
  <2> QED
    BY <2>3, <2>6
<1> QED
  BY <1>1, <1>2

LEMMA LookedUpNextRow ==
  ASSUME NEW S, NEW w \in ImportWork(S), w.rows # << >>, NEW taken,
         LookedUp(w, taken), w.step # "list"
  PROVE  LookedUp(NextRow(w), taken)
<1> DEFINE v == [w EXCEPT !.rows = Tail(w.rows)]
<1>1. /\ v \in ImportWork(S) /\ v.found = w.found
      /\ \A n \in DOMAIN v.rows : /\ n + 1 \in DOMAIN w.rows /\ v.rows[n] = w.rows[n + 1]
                                  /\ n \in Nat /\ n > 0
  BY RowsAfter
<1>2. NextRow(w) = ToRow(v) /\ w.op = "import"
  BY DEF NextRow, ImportWork
<1> HIDE DEF v
<1>3. ASSUME NEW n \in DOMAIN v.rows, v.found[v.rows[n].lot] = {}
      PROVE  v.rows[n].lot \notin taken
  <2>1. n + 1 \in DOMAIN w.rows /\ v.rows[n] = w.rows[n + 1] /\ n + 1 # 1
    BY <1>1
  <2> QED
    BY <1>1, <1>2, <1>3, <2>1 DEF LookedUp
<1>4. LookedUp(ToRow(v), taken)
  BY <1>1, <1>3, LookedUpToRow
<1> QED
  BY <1>2, <1>4

(***************************************************************************)
(* The steps that create no sale order.                                    *)
(***************************************************************************)
LEMMA LookedUpIf ==
  ASSUME TikTokTypeOK, RefsUnique, NEW h \in Agents, RefsKept,
         DOMAIN tkOrders' = DOMAIN tkOrders, NEW w, Becomes(h, w), LookedUp(w, Taken)
  PROVE  LookedUpStep(h)
<1>1. agent'[h] = w
  BY ThreadSet
<1>2. Taken' = Taken /\ RefsUnique'
  BY SameTaken
<1>3. LookedUp(agent'[h], Taken')
  BY <1>1, <1>2
<1> QED
  BY <1>2, <1>3 DEF LookedUpStep

LEMMA LookedUpFreed ==
  ASSUME TikTokTypeOK, RefsUnique, NEW h \in Agents, RefsKept,
         DOMAIN tkOrders' = DOMAIN tkOrders, Becomes(h, Free)
  PROVE  LookedUpStep(h)
  BY LookedUpFree, LookedUpIf

LEMMA LookedUpOther ==
  ASSUME NEW w, NEW taken, w.op \notin {"import", "shop"}
  PROVE  LookedUp(w, taken)
  BY DEF LookedUp

LEMMA LiveRequestsLookUp ==
  ASSUME TikTokTypeOK, RefsUnique, RefsKept, NEW h \in Agents, LiveArrives(h)
  PROVE  LookedUpStep(h)
<1>1. DOMAIN tkOrders' = DOMAIN tkOrders
  BY DEF LiveArrives, ImportRequest, CorrectRequest, SessionRequest, saleTables
<1>2. CASE ImportRequest(h)
  <2>1. PICK lots \in {OnSale} \cup {{l} : l \in OnSale} :
          Becomes(h, [op |-> "import", step |-> "list", rows |-> RowsOf(lots),
                      found |-> [l \in LotOrders |-> {}], order |-> 0,
                      left |-> {}, products |-> << >>])
    BY <1>2 DEF ImportRequest
  <2>2. ASSUME NEW rows, NEW found, NEW products
        PROVE  LookedUp([op |-> "import", step |-> "list", rows |-> rows, found |-> found,
                         order |-> 0, left |-> {}, products |-> products], Taken)
    BY DEF LookedUp
  <2> QED
    BY <1>1, <2>1, <2>2, LookedUpIf
<1>3. CASE CorrectRequest(h)
  <2>1. PICK l \in LotOrders, p \in Products :
          Becomes(h, [op |-> "correct", step |-> "read", lot |-> l, product |-> p,
                      line |-> 0, old |-> NoProduct, applied |-> FALSE, due |-> FALSE])
    BY <1>3 DEF CorrectRequest
  <2> QED
    BY <1>1, <2>1, LookedUpOther, LookedUpIf
<1>4. CASE SessionRequest(h)
  <2>1. \E read : Becomes(h, [op |-> "session", step |-> "write", read |-> read])
    BY <1>4 DEF SessionRequest
  <2> QED
    BY <1>1, <2>1, LookedUpOther, LookedUpIf
<1> QED
  BY <1>2, <1>3, <1>4 DEF LiveArrives

LEMMA ListSalesLooksUp ==
  ASSUME TikTokTypeOK, RefsUnique, RefsKept, WorkBelongs, NEW h \in Agents, ListSales(h)
  PROVE  LookedUpStep(h)
<1> DEFINE w == agent[h]
           v == [w EXCEPT !.found = FoundSales]
           O == DOMAIN tkOrders
<1>1. UNCHANGED saleTables /\ w.op = "import" /\ Becomes(h, ToRow(v))
  BY DEF ListSales, At
<1>2. w \in ImportWork(O)
  BY <1>1, ImportBelongs
<1>3. /\ FoundSales \in [LotOrders -> SUBSET O]
      /\ \A l \in LotOrders : FoundSales[l] = {} => l \notin Taken
  BY NoneOf DEF FoundSales, SalesOf
<1> HIDE DEF w, O
<1>4. v \in ImportWork(O) /\ v.found = FoundSales
  BY <1>2, <1>3 DEF ImportWork
<1> HIDE DEF v
<1>5. \A n \in DOMAIN v.rows : v.rows[n].lot \in LotOrders
  <2>1. v.rows \in Seq(ImportRow)
    BY <1>4 DEF ImportWork
  <2>2. \A n \in DOMAIN v.rows : v.rows[n] \in ImportRow
    BY <2>1, ElementOfSeq, LenProperties
  <2> QED
    BY <2>2 DEF ImportRow
<1>6. LookedUp(ToRow(v), Taken)
  BY <1>3, <1>4, <1>5, LookedUpToRow
<1> QED
  BY <1>1, <1>6, LookedUpIf DEF saleTables

(***************************************************************************)
(* An import past its list, and what becomes of it.                        *)
(***************************************************************************)
LEMMA PastList ==
  ASSUME TikTokTypeOK, WorkBelongs, NEW h \in Agents,
         UpdateLiveSale(h) \/ SyncLiveSale(h) \/ SettleLiveSale(h) \/ CreateLiveSale(h)
           \/ AddLiveLine(h) \/ ApplyLiveSale(h)
  PROVE  /\ agent[h].op = "import" /\ agent[h].step # "list"
         /\ agent[h] \in ImportWork(DOMAIN tkOrders) /\ agent[h].rows # << >>
<1>1. agent[h].op = "import" /\ agent[h].step # "list"
  BY DEF At, UpdateLiveSale, SyncLiveSale, SettleLiveSale, CreateLiveSale, AddLiveLine,
     ApplyLiveSale
<1> QED
  BY <1>1, ImportBelongs, SMTT(40)

LEMMA UpdateLiveSaleLooksUp ==
  ASSUME TikTokTypeOK, RefsUnique, RefsKept, WorkBelongs, NEW h \in Agents,
         LookedUp(agent[h], Taken), UpdateLiveSale(h)
  PROVE  LookedUpStep(h)
<1> DEFINE w == agent[h]
<1>1. PICK o \in w.left :
        /\ tkOrders' = IF RowStatus(h) = "cancelled"
                         THEN Rewritten(o, "cancel", "unpaid")
                         ELSE Rewritten(o, "sale", "paid")
        /\ Becomes(h, [w EXCEPT !.step = "sync", !.order = o, !.left = @ \ {o}])
  BY DEF UpdateLiveSale
<1> DEFINE v == [w EXCEPT !.step = "sync", !.order = o, !.left = w.left \ {o}]
<1>2. Becomes(h, v)
  BY <1>1
<1>3. DOMAIN tkOrders' = DOMAIN tkOrders
  BY <1>1 DEF Rewritten
<1>4. w \in ImportWork(DOMAIN tkOrders) /\ w.step # "list" /\ LookedUp(w, Taken)
  BY PastList
<1> HIDE DEF w
<1>5. v.op = "import" /\ w.op = "import" /\ v.rows = w.rows /\ v.found = w.found
      /\ v.step = "sync"
  BY <1>4 DEF ImportWork
<1> HIDE DEF v
<1>6. LookedUp(v, Taken)
  BY <1>4, <1>5 DEF LookedUp
<1> QED
  BY <1>2, <1>3, <1>6, LookedUpIf

LEMMA LiveStockLooksUp ==
  ASSUME TikTokTypeOK, RefsUnique, RefsKept, WorkBelongs, NEW h \in Agents,
         LookedUp(agent[h], Taken),
         SyncLiveSale(h) \/ SettleLiveSale(h) \/ ApplyLiveSale(h)
  PROVE  LookedUpStep(h)
<1> DEFINE w == agent[h]
           O == DOMAIN tkOrders
<1>1. DOMAIN tkOrders' = DOMAIN tkOrders
  BY DEF SyncLiveSale, SettleLiveSale, ApplyLiveSale
<1>2. \E v \in {NextRow(w), [w EXCEPT !.step = "settle"], [w EXCEPT !.step = "update"]} :
        Becomes(h, v)
  BY DEF SyncLiveSale, SettleLiveSale, ApplyLiveSale
<1>3. w \in ImportWork(O) /\ w.step # "list" /\ w.rows # << >> /\ LookedUp(w, Taken)
  BY PastList
<1>4. \A v \in {NextRow(w), [w EXCEPT !.step = "settle"], [w EXCEPT !.step = "update"]} :
        LookedUp(v, Taken)
  <2> HIDE DEF w, O
  <2>1. LookedUp(NextRow(w), Taken)
    BY <1>3, LookedUpNextRow
  <2>2. LookedUp([w EXCEPT !.step = "settle"], Taken)
    BY <1>3, LookedUpStepOf
  <2>3. LookedUp([w EXCEPT !.step = "update"], Taken)
    BY <1>3, LookedUpStepOf
  <2> QED
    BY <2>1, <2>2, <2>3
<1> QED
  BY <1>1, <1>2, <1>4, LookedUpIf

LEMMA CreateLiveSaleLooksUp ==
  ASSUME TikTokTypeOK, RefsUnique, RefsKept, WorkBelongs, NEW h \in Agents,
         LookedUp(agent[h], Taken), CreateLiveSale(h)
  PROVE  LookedUpStep(h)
<1> DEFINE w == agent[h]
           row == Head(w.rows)
           sale == NewLiveSale(row)
           products == IF row.products = << >> THEN <<NoProduct>> ELSE row.products
           o == Len(tkOrders) + 1
           v == [w EXCEPT !.step = "line", !.order = o, !.products = products]
           taken == Taken
           taken2 == Taken'
<1>1. tkOrders' = Append(tkOrders, sale) /\ Becomes(h, v) /\ w.step = "create"
  BY DEF CreateLiveSale, At
<1>2. /\ w \in ImportWork(DOMAIN tkOrders) /\ w.rows # << >> /\ w.op = "import"
      /\ LookedUp(w, Taken)
  BY PastList
<1>3. sale.ref = Head(w.rows).lot
  BY SMTT(40) DEF NewLiveSale
<1>4. sale.ref \notin Taken
  BY <1>1, <1>2, <1>3 DEF LookedUp
<1>5. taken2 = taken \cup {sale.ref} /\ RefsUnique'
  BY <1>1, <1>4, OneMoreTaken
<1>6. /\ w.rows \in Seq(ImportRow) /\ 1 \in DOMAIN w.rows /\ Head(w.rows) = w.rows[1]
  <2>1. w.rows \in Seq(ImportRow)
    BY <1>2 DEF ImportWork
  <2> QED
    BY <1>2, <2>1, HeadTailProperties, LenProperties
<1>7. sale.ref \in Concerns(w)
  BY <1>2, <1>3, <1>6 DEF Concerns
<1>8. \A n \in DOMAIN w.rows \ {1} : w.rows[n].lot # sale.ref
  BY <1>2, <1>3, <1>6, ImportBelongs DEF FoundForLots
<1>9. agent'[h] = v
  BY <1>1, ThreadSet
<1> HIDE DEF w, sale, products, o, taken, taken2
<1>10. v.op = "import" /\ w.op = "import" /\ v.rows = w.rows /\ v.found = w.found
      /\ v.step = "line"
  BY <1>2 DEF ImportWork
<1> HIDE DEF v
<1>11. LookedUp(v, taken2)
  BY <1>1, <1>2, <1>5, <1>8, <1>10 DEF LookedUp, taken
<1> QED
  BY <1>5, <1>7, <1>9, <1>11 DEF LookedUpStep, taken, taken2, w

LEMMA AddLiveLineLooksUp ==
  ASSUME TikTokTypeOK, RefsUnique, RefsKept, WorkBelongs, NEW h \in Agents,
         LookedUp(agent[h], Taken), AddLiveLine(h)
  PROVE  LookedUpStep(h)
<1> DEFINE w == agent[h]
           tail == Tail(w.products)
           rest == [w EXCEPT !.products = tail]
           v == IF rest.products # << >> THEN rest
                ELSE IF RowStatus(h) = "cancelled" THEN NextRow(rest)
                     ELSE [rest EXCEPT !.step = "apply"]
           O == DOMAIN tkOrders
<1>1. DOMAIN tkOrders' = DOMAIN tkOrders /\ Becomes(h, v) /\ At(h, "import", "line")
  BY DEF AddLiveLine
<1>2. /\ w \in ImportWork(O) /\ w.rows # << >> /\ w.op = "import"
      /\ LookedUp(w, Taken) /\ w.step = "line"
  BY <1>1, PastList DEF At
<1>3. tail \in Seq(Products \cup {NoProduct})
  <2>1. w.products \in Seq(Products \cup {NoProduct}) /\ w.products # << >>
    BY <1>1, <1>2, AtImport DEF ImportWork, IsImport
  <2> QED
    BY <2>1, HeadTailProperties
<1> HIDE DEF w, tail, O
<1>4. /\ rest \in ImportWork(O) /\ rest.rows = w.rows /\ rest.found = w.found
      /\ rest.step = "line" /\ rest.op = "import"
  BY <1>2, <1>3 DEF ImportWork
<1> HIDE DEF rest
<1>5. LookedUp(rest, Taken)
  BY <1>2, <1>4 DEF LookedUp
<1>6. LookedUp(NextRow(rest), Taken)
  BY <1>2, <1>4, <1>5, LookedUpNextRow
<1>7. LookedUp([rest EXCEPT !.step = "apply"], Taken)
  BY <1>4, <1>5, LookedUpStepOf
<1>8. LookedUp(v, Taken)
  BY <1>5, <1>6, <1>7
<1> HIDE DEF v
<1> QED
  BY <1>1, <1>8, LookedUpIf

LEMMA LiveWorkLooksUp ==
  ASSUME TikTokTypeOK, RefsUnique, RefsKept, WorkBelongs, NEW h \in Agents,
         LookedUp(agent[h], Taken), LiveGoesOn(h)
  PROVE  LookedUpStep(h)
<1>1. CASE ReadLotLine(h)
  <2>1. agent[h] \in CorrectionWork(DOMAIN tkLines)
    BY <1>1, AtCorrection, SMTT(40) DEF ReadLotLine
  <2> DEFINE w == agent[h]
  <2>2. /\ DOMAIN tkOrders' = DOMAIN tkOrders
        /\ \/ \E old : Becomes(h, [w EXCEPT !.step = "write", !.old = old])
           \/ \E line, old, applied, due :
                Becomes(h, [w EXCEPT !.step = "write", !.line = line, !.old = old,
                                     !.applied = applied, !.due = due])
    BY <1>1 DEF ReadLotLine, saleTables
  <2>3. \E v : Becomes(h, v) /\ v.op = "correct"
    <3>1. w \in CorrectionWork(DOMAIN tkLines)
      BY <2>1
    <3> HIDE DEF w
    <3>2. CASE \E old : Becomes(h, [w EXCEPT !.step = "write", !.old = old])
      <4>1. PICK old : Becomes(h, [w EXCEPT !.step = "write", !.old = old])
        BY <3>2
      <4> DEFINE v == [w EXCEPT !.step = "write", !.old = old]
      <4>2. v.op = "correct"
        BY <3>1 DEF CorrectionWork
      <4> QED
        BY <4>1, <4>2
    <3>3. CASE \E line, old, applied, due :
                 Becomes(h, [w EXCEPT !.step = "write", !.line = line, !.old = old,
                                      !.applied = applied, !.due = due])
      <4>1. PICK line, old, applied, due :
                 Becomes(h, [w EXCEPT !.step = "write", !.line = line, !.old = old,
                                      !.applied = applied, !.due = due])
        BY <3>3
      <4> DEFINE v == [w EXCEPT !.step = "write", !.line = line, !.old = old,
                                !.applied = applied, !.due = due]
      <4>2. v.op = "correct"
        BY <3>1, SMTT(40) DEF CorrectionWork
      <4> QED
        BY <4>1, <4>2
    <3> QED
      BY <2>2, <3>2, <3>3
  <2> QED
    BY <2>2, <2>3, LookedUpOther, LookedUpIf
<1>2. CASE CorrectLine(h) \/ ApplySession(h)
  BY <1>2, LookedUpFreed DEF CorrectLine, ApplySession
<1>3. CASE LiveFails(h)
  <2>1. DOMAIN tkOrders' = DOMAIN tkOrders
    BY <1>3 DEF LiveFails, saleTables
  <2>2. CASE Becomes(h, Free)
    BY <2>1, <2>2, LookedUpFreed
  <2>3. CASE agent[h].op = "import" /\ agent[h].step # "list" /\ Becomes(h, NextRow(agent[h]))
    <3> DEFINE w == agent[h]
               O == DOMAIN tkOrders
    <3>1. w \in ImportWork(O) /\ w.rows # << >> /\ LookedUp(w, Taken) /\ w.step # "list"
      BY <2>3, ImportBelongs
    <3>2. LookedUp(NextRow(w), Taken)
      <4> HIDE DEF w, O
      <4> QED
        BY <3>1, LookedUpNextRow
    <3> QED
      BY <2>1, <2>3, <3>2, LookedUpIf
  <2> QED
    BY <1>3, <2>2, <2>3 DEF LiveFails
<1> QED
  BY <1>1, <1>2, <1>3, ListSalesLooksUp, UpdateLiveSaleLooksUp, LiveStockLooksUp,
     CreateLiveSaleLooksUp, AddLiveLineLooksUp DEF LiveGoesOn

LEMMA ShopLooksUp ==
  ASSUME TikTokTypeOK, RefsUnique, RefsKept, WorkBelongs, NEW h \in Agents,
         LookedUp(agent[h], Taken), ShopArrives(h) \/ ShopGoesOn(h)
  PROVE  LookedUpStep(h)
<1> DEFINE w == agent[h]
<1>1. CASE SyncRequest(h) \/ WebhookRequest(h)
  <2>1. DOMAIN tkOrders' = DOMAIN tkOrders
    BY <1>1 DEF SyncRequest, WebhookRequest, saleTables
  <2>2. \E t, status, items : Becomes(h, ImportOf(t, status, items))
    BY <1>1 DEF SyncRequest, WebhookRequest
  <2>3. \A t, status, items : LookedUp(ImportOf(t, status, items), Taken)
    BY DEF LookedUp, ImportOf
  <2> QED
    BY <2>1, <2>2, <2>3, LookedUpIf
<1>2. CASE ReturnRequest(h)
  <2>1. DOMAIN tkOrders' = DOMAIN tkOrders
    BY <1>2 DEF ReturnRequest, saleTables
  <2>2. \E t, o : Becomes(h, [op |-> "return", step |-> "store", ref |-> t, order |-> o])
    BY <1>2 DEF ReturnRequest
  <2> QED
    BY <2>1, <2>2, LookedUpOther, LookedUpIf
<1>3. CASE FindSale(h)
  <2> DEFINE S == SalesOf(w.ref)
             newest == CHOOSE o \in S : \A p \in S : p <= o
             payment == tkOrders[newest].payment
             found == [w EXCEPT !.step = "update", !.order = newest, !.payment = payment]
             create == [w EXCEPT !.step = "create"]
             v == IF S # {} THEN found
                  ELSE IF w.items /\ w.products # << >> THEN create ELSE Free
  <2>1. UNCHANGED saleTables /\ At(h, "shop", "find") /\ Becomes(h, v)
    BY <1>3 DEF FindSale
  <2>2. w \in ShopImportWork
    BY <2>1, AtShop
  <2>3. S = {} => w.ref \notin Taken
    BY NoneOf
  <2> HIDE DEF w, S, newest, payment
  <2>4. found.op = "shop" /\ found.step = "update"
    BY <2>2 DEF ShopImportWork
  <2>5. create.op = "shop" /\ create.step = "create" /\ create.ref = w.ref
    BY <2>2 DEF ShopImportWork
  <2> HIDE DEF found, create
  <2>6. LookedUp(v, Taken)
    BY <2>3, <2>4, <2>5, LookedUpFree DEF LookedUp
  <2> HIDE DEF v
  <2> QED
    BY <2>1, <2>6, LookedUpIf DEF saleTables
<1>4. CASE UpdateShopSale(h)
  <2>1. DOMAIN tkOrders' = DOMAIN tkOrders /\ Becomes(h, [w EXCEPT !.step = "sync"])
    BY <1>4 DEF UpdateShopSale, Rewritten
  <2>2. w \in ShopImportWork
    BY <1>4, AtShop DEF UpdateShopSale
  <2> HIDE DEF w
  <2>3. [w EXCEPT !.step = "sync"].op = "shop" /\ [w EXCEPT !.step = "sync"].step = "sync"
    BY <2>2 DEF ShopImportWork
  <2>4. LookedUp([w EXCEPT !.step = "sync"], Taken)
    BY <2>3 DEF LookedUp
  <2> QED
    BY <2>1, <2>4, LookedUpIf
<1>5. CASE SyncShopSale(h) \/ ApplyShopSale(h)
  BY <1>5, LookedUpFreed DEF SyncShopSale, ApplyShopSale
<1>6. CASE CreateShopSale(h)
  <2> DEFINE o == Len(tkOrders) + 1
             sale == [ref |-> w.ref, state |-> StateFor(w.status),
                      payment |-> PaymentFor(w.status, "unpaid")]
             v == [w EXCEPT !.step = "line", !.order = o]
             taken2 == Taken'
  <2>1. tkOrders' = Append(tkOrders, sale) /\ Becomes(h, v) /\ w.step = "create"
    BY <1>6 DEF CreateShopSale, At
  <2>2. w \in ShopImportWork /\ sale.ref = w.ref
    BY <1>6, AtShop DEF CreateShopSale
  <2>3. w.op = "shop"
    BY <2>2 DEF ShopImportWork
  <2>4. sale.ref \notin Taken
    BY <2>1, <2>2, <2>3 DEF LookedUp
  <2>5. taken2 = Taken \cup {sale.ref} /\ RefsUnique'
    BY <2>1, <2>4, OneMoreTaken
  <2>6. sale.ref \in Concerns(w)
    BY <2>2, <2>3 DEF Concerns
  <2>7. agent'[h] = v
    BY <2>1, ThreadSet
  <2> HIDE DEF w, o, sale, taken2
  <2>8. v.op = "shop" /\ v.step = "line"
    BY <2>2 DEF ShopImportWork
  <2> HIDE DEF v
  <2>9. LookedUp(v, taken2)
    BY <2>8 DEF LookedUp
  <2> QED
    BY <2>5, <2>6, <2>7, <2>9 DEF LookedUpStep, taken2, w
<1>7. CASE AddShopLine(h)
  <2> DEFINE tail == Tail(w.products)
             rest == [w EXCEPT !.products = tail]
             v == IF rest.products # << >> THEN rest
                  ELSE IF w.status = "confirmed" THEN [rest EXCEPT !.step = "apply"] ELSE Free
  <2>1. DOMAIN tkOrders' = DOMAIN tkOrders /\ Becomes(h, v) /\ w.step = "line"
    BY <1>7 DEF AddShopLine, At
  <2>2. w \in ShopImportWork
    BY <1>7, AtShop DEF AddShopLine
  <2> HIDE DEF w, tail
  <2>3. rest.op = "shop" /\ rest.step = "line"
    BY <2>1, <2>2 DEF ShopImportWork
  <2>4. [rest EXCEPT !.step = "apply"].op = "shop" /\ [rest EXCEPT !.step = "apply"].step = "apply"
    BY <2>2 DEF ShopImportWork
  <2> HIDE DEF rest
  <2>5. LookedUp(v, Taken)
    BY <2>3, <2>4, LookedUpFree DEF LookedUp
  <2> HIDE DEF v
  <2> QED
    BY <2>1, <2>5, LookedUpIf
<1>8. CASE StoreReturn(h) \/ CancelReturned(h) \/ SyncReturned(h)
  <2>1. DOMAIN tkOrders' = DOMAIN tkOrders
    BY <1>8 DEF StoreReturn, CancelReturned, SyncReturned, saleTables, Rewritten
  <2>2. \/ Becomes(h, Free)
        \/ \E step \in {"update", "manual", "sync", "mark"} :
             Becomes(h, [w EXCEPT !.step = step])
    BY <1>8 DEF StoreReturn, CancelReturned, SyncReturned
  <2>3. w \in ReturnWork(DOMAIN tkOrders)
    BY <1>8, AtReturn DEF StoreReturn, CancelReturned, SyncReturned
  <2> HIDE DEF w
  <2>4. \A step : [w EXCEPT !.step = step].op = "return"
    BY <2>3 DEF ReturnWork
  <2>5. \A step : LookedUp([w EXCEPT !.step = step], Taken)
    BY <2>4, LookedUpOther
  <2> QED
    BY <2>1, <2>2, <2>5, LookedUpIf, LookedUpFreed
<1>9. CASE ToBeReviewed(h) \/ MarkProcessed(h) \/ ShopFails(h)
  BY <1>9, LookedUpFreed DEF ToBeReviewed, MarkProcessed, ShopFails, saleTables
<1> QED
  BY <1>1, <1>2, <1>3, <1>4, <1>5, <1>6, <1>7, <1>8, <1>9 DEF ShopArrives, ShopGoesOn

LEMMA AgentsLookUp ==
  ASSUME TikTokTypeOK, RefsUnique, WorkBelongs, NEW h \in Agents,
         LookedUp(agent[h], Taken), LiveArrival(h) \/ ShopArrival(h) \/ AgentWork(h)
  PROVE  LookedUpStep(h)
<1>1. RefsKept
  BY AgentsBelong DEF BelongStep
<1> QED
  BY <1>1, LiveRequestsLookUp, LiveWorkLooksUp, ShopLooksUp
     DEF LiveArrival, ShopArrival, AgentWork

LEMMA SalesLookedUpStep ==
  ASSUME WarehouseTypeOK, WorkBelongs, SalesLookedUp, [WarehouseNext]_warehouseVars
  PROVE  SalesLookedUp'
<1>1. TikTokTypeOK
  BY DEF WarehouseTypeOK
<1>2. crossed' = crossed \/ crossed' = crossed \cup Overlaps'
  BY DEF WarehouseNext, warehouseVars
<1>3. CASE UNCHANGED <<saleTables, agent>>
  BY <1>2, <1>3 DEF SalesLookedUp, Uncrossed, TikTokCrossed, RefsUnique, Taken, saleTables
<1>4. CASE \E h \in Agents : LiveArrival(h) \/ ShopArrival(h) \/ AgentWork(h)
  <2>1. CASE UNCHANGED warehouseVars
    BY <1>3, <2>1 DEF warehouseVars, tiktokVars
  <2>2. CASE WarehouseNext
    <3>1. PICK h \in Agents : LiveArrival(h) \/ ShopArrival(h) \/ AgentWork(h)
      BY <1>4
    <3>2. Uncrossed => LookedUpStep(h)
      BY <1>1, <3>1, AgentsLookUp DEF SalesLookedUp
    <3>3. \A g \in Agents \ {h} : agent'[g] = agent[g]
      BY <1>1, <3>1, AgentsBelong DEF BelongStep
    <3> QED
      BY <1>1, <2>2, <3>2, <3>3, LookedUpStepKeeps DEF WarehouseNext
  <2> QED
    BY <2>1, <2>2
<1> QED
  BY <1>3, <1>4, WhoMoves

LEMMA SalesAlwaysLookedUp == WarehouseSpec => []SalesLookedUp
<1>1. WarehouseInit => SalesLookedUp
  <2> SUFFICES ASSUME WarehouseInit PROVE SalesLookedUp
    OBVIOUS
  <2>1. \A h \in Agents : agent[h] = Free
    BY DEF WarehouseInit, TikTokInit
  <2>2. \A h \in Agents : LookedUp(agent[h], Taken)
    BY <2>1, LookedUpFree
  <2>3. Concerns(Free) = {}
    BY DEF Concerns, Free
  <2>4. ~TikTokCrossed
    BY <2>1, <2>3 DEF TikTokCrossed
  <2>5. RefsUnique
    BY DEF WarehouseInit, TikTokInit, RefsUnique
  <2> QED
    BY <2>2, <2>4, <2>5 DEF SalesLookedUp
<1>2. WarehouseTypeOK /\ WorkBelongs /\ SalesLookedUp /\ [WarehouseNext]_warehouseVars
        => SalesLookedUp'
  BY SalesLookedUpStep
<1> QED
  BY <1>1, <1>2, WarehouseTypes, WorkAlwaysBelongs, PTL DEF WarehouseSpec

(***************************************************************************)
(* However often the page of a live session imports it, the shop is        *)
(* synchronised and events are posted again, and wherever an import fails, *)
(* a TikTok order of which no two requests overlapped has one sale order:  *)
(* the list _materialize_tiktok_go_live_sale_orders_from_api reads before  *)
(* its first row is still right at its last, and import_tiktok_order       *)
(* creates only what it has just looked for.                               *)
(***************************************************************************)
THEOREM OneSaleEach == WarehouseSpec => []OneSalePerTikTokOrder
<1>1. WarehouseTypeOK /\ SalesLookedUp => OneSalePerTikTokOrder
  <2> SUFFICES ASSUME WarehouseTypeOK, SalesLookedUp, Uncrossed, NEW t \in TikTokOrders
               PROVE  Cardinality(SalesOf(t)) <= 1
    BY DEF OneSalePerTikTokOrder, OneSalePerReference, Uncrossed
  <2>1. CASE SalesOf(t) = {}
    BY <2>1, FS_EmptySet
  <2>2. CASE SalesOf(t) # {}
    <3>1. PICK o \in SalesOf(t) : TRUE
      BY <2>2
    <3>2. SalesOf(t) = {o}
      BY <3>1 DEF SalesOf, SalesLookedUp, RefsUnique
    <3>3. Cardinality({o}) = 1
      BY FS_Singleton
    <3> QED
      BY <3>2, <3>3
  <2> QED
    BY <2>1, <2>2
<1> QED
  BY <1>1, WarehouseTypes, SalesAlwaysLookedUp, PTL

-----------------------------------------------------------------------------
(* A thread changes only what it is at work on *)

(***************************************************************************)
(* The rows a step of the thread may change are those of the TikTok orders *)
(* it is concerned with.                                                   *)
(***************************************************************************)
OnlyItsOwn(h) ==
  /\ \A o \in DOMAIN tkOrders :
       tkOrders[o].ref \notin Concerns(agent[h]) => tkOrders'[o] = tkOrders[o]
  /\ \A l \in DOMAIN tkLines' :
       \/ l \in DOMAIN tkLines /\ tkLines'[l] = tkLines[l]
       \/ tkOrders[tkLines'[l].order].ref \in Concerns(agent[h])

LEMMA NothingTouched == ASSUME NEW h, UNCHANGED saleTables PROVE OnlyItsOwn(h)
  BY DEF OnlyItsOwn, saleTables

LEMMA StockOfOne ==
  ASSUME TikTokTypeOK, NEW h, NEW o, UNCHANGED tkOrders,
         tkOrders[o].ref \in Concerns(agent[h]),
         TakeStock(o) \/ GiveStockBack(o) \/ BringInLine(o)
  PROVE  OnlyItsOwn(h)
<1>1. \/ UNCHANGED tkLines \/ tkLines' = Flagged(ProductLinesOfSale(o), TRUE)
      \/ tkLines' = Flagged(AppliedOfSale(o), FALSE)
  BY DEF TakeStock, GiveStockBack, BringInLine
<1>2. LinesSame
  BY StockKeepsLines
<1>3. ASSUME NEW l \in DOMAIN tkLines, tkLines[l].order # o
      PROVE  tkLines'[l] = tkLines[l]
  <2>1. l \notin ProductLinesOfSale(o) /\ l \notin AppliedOfSale(o)
    BY <1>3 DEF ProductLinesOfSale, AppliedOfSale, LinesOfSale
  <2> QED
    BY <1>1, <2>1 DEF Flagged
<1> QED
  BY <1>2, <1>3 DEF OnlyItsOwn, LinesSame

LEMMA OneRewritten ==
  ASSUME TikTokTypeOK, NEW h, NEW o \in DOMAIN tkOrders, UNCHANGED tkLines,
         tkOrders[o].ref \in Concerns(agent[h]),
         NEW state, NEW payment, tkOrders' = Rewritten(o, state, payment)
  PROVE  OnlyItsOwn(h)
<1>1. \A p \in DOMAIN tkOrders : p # o => tkOrders'[p] = tkOrders[p]
  BY DEF Rewritten
<1> QED
  BY <1>1 DEF OnlyItsOwn

LEMMA OneCreated ==
  ASSUME TikTokTypeOK, NEW h, UNCHANGED tkLines, NEW row,
         tkOrders' = Append(tkOrders, row)
  PROVE  OnlyItsOwn(h)
<1>1. \A n \in DOMAIN tkOrders : tkOrders'[n] = tkOrders[n]
  BY AppendedRow DEF TikTokTypeOK
<1> QED
  BY <1>1 DEF OnlyItsOwn

LEMMA OneAdded ==
  ASSUME TikTokTypeOK, NEW h, UNCHANGED tkOrders, NEW row,
         tkOrders[row.order].ref \in Concerns(agent[h]), tkLines' = Append(tkLines, row)
  PROVE  OnlyItsOwn(h)
<1>1. /\ DOMAIN tkLines' = DOMAIN tkLines \cup {Len(tkLines) + 1}
      /\ tkLines'[Len(tkLines) + 1] = row
      /\ \A n \in DOMAIN tkLines : tkLines'[n] = tkLines[n]
  BY AppendedRow DEF TikTokTypeOK
<1> QED
  BY <1>1 DEF OnlyItsOwn

(***************************************************************************)
(* The row an import is at is one it is concerned with.                    *)
(***************************************************************************)
LEMMA HeadConcerns ==
  ASSUME NEW orders, NEW w \in ImportWork(orders), w.rows # << >>
  PROVE  Head(w.rows).lot \in Concerns(w)
<1>1. w.op = "import" /\ w.rows \in Seq(ImportRow)
  BY DEF ImportWork
<1>2. 1 \in DOMAIN w.rows /\ Head(w.rows) = w.rows[1]
  BY <1>1, HeadTailProperties, LenProperties
<1> QED
  BY <1>1, <1>2 DEF Concerns

LEMMA ImportAtItsOwn ==
  ASSUME TikTokTypeOK, WorkBelongs, NEW h \in Agents, NEW step, At(h, "import", step)
  PROVE  /\ step \in {"sync", "settle", "line", "apply"} =>
              tkOrders[agent[h].order].ref \in Concerns(agent[h])
         /\ \A o \in agent[h].left :
              o \in DOMAIN tkOrders /\ tkOrders[o].ref \in Concerns(agent[h])
<1> DEFINE w == agent[h]
           O == DOMAIN tkOrders
<1>1. w \in ImportWork(O) /\ w.rows # << >> /\ w.step = step
  BY AtImport
<1>2. Head(w.rows).lot \in Concerns(w)
  <2> HIDE DEF w, O
  <2> QED
    BY <1>1, HeadConcerns
<1>3. w.op = "import" /\ w.left \subseteq O
  BY <1>1 DEF ImportWork
<1>4. About(w, tkOrders, tkLines)
  BY DEF WorkBelongs
<1> QED
  BY <1>1, <1>2, <1>3, <1>4 DEF About

LEMMA LiveTouchesItsOwn ==
  ASSUME TikTokTypeOK, WorkBelongs, NEW h \in Agents, LiveGoesOn(h)
  PROVE  OnlyItsOwn(h)
<1>1. CASE ListSales(h) \/ ReadLotLine(h) \/ LiveFails(h)
  BY <1>1, NothingTouched DEF ListSales, ReadLotLine, LiveFails
<1>2. CASE UpdateLiveSale(h)
  <2>1. PICK o \in agent[h].left : \E state, payment : tkOrders' = Rewritten(o, state, payment)
    BY <1>2 DEF UpdateLiveSale
  <2>2. o \in DOMAIN tkOrders /\ tkOrders[o].ref \in Concerns(agent[h])
    BY <1>2, ImportAtItsOwn DEF UpdateLiveSale
  <2>3. UNCHANGED tkLines
    BY <1>2 DEF UpdateLiveSale
  <2> QED
    BY <2>1, <2>2, <2>3, OneRewritten
<1>3. CASE SyncLiveSale(h) \/ SettleLiveSale(h) \/ ApplyLiveSale(h)
  <2> DEFINE o == agent[h].order
  <2>1. /\ UNCHANGED tkOrders
        /\ TakeStock(o) \/ GiveStockBack(o) \/ BringInLine(o)
        /\ \E step \in {"sync", "settle", "apply"} : At(h, "import", step)
    BY <1>3 DEF SyncLiveSale, SettleLiveSale, ApplyLiveSale
  <2>2. tkOrders[o].ref \in Concerns(agent[h])
    BY <2>1, ImportAtItsOwn
  <2> HIDE DEF o
  <2> QED
    BY <2>1, <2>2, StockOfOne
<1>4. CASE CreateLiveSale(h)
  <2>1. UNCHANGED tkLines /\ \E row : tkOrders' = Append(tkOrders, row)
    BY <1>4 DEF CreateLiveSale
  <2> QED
    BY <2>1, OneCreated
<1>5. CASE AddLiveLine(h)
  <2> DEFINE row == [order |-> agent[h].order, product |-> Head(agent[h].products),
                     applied |-> FALSE]
  <2>1. UNCHANGED tkOrders /\ tkLines' = Append(tkLines, row) /\ At(h, "import", "line")
    BY <1>5 DEF AddLiveLine
  <2>2. tkOrders[row.order].ref \in Concerns(agent[h])
    BY <2>1, ImportAtItsOwn
  <2> HIDE DEF row
  <2> QED
    BY <2>1, <2>2, OneAdded
<1>6. CASE CorrectLine(h)
  <2> DEFINE w == agent[h]
             l == w.line
             old == tkLines[l]
             new == Corrected(old, w)
  <2>1. At(h, "correct", "write") /\ UNCHANGED tkOrders
    BY <1>6 DEF CorrectLine
  <2>2. CASE l = 0
    <3>1. UNCHANGED saleTables
      BY <1>6, <2>1, <2>2 DEF CorrectLine, saleTables
    <3> QED
      BY <3>1, NothingTouched
  <2>3. CASE l # 0
    <3>1. tkLines' = [tkLines EXCEPT ![l] = new]
      BY <1>6, <2>3 DEF CorrectLine
    <3>2. w \in CorrectionWork(DOMAIN tkLines)
      BY <2>1, AtCorrection
    <3>3. l \in DOMAIN tkLines /\ w.op = "correct"
      BY <2>3, <3>2 DEF CorrectionWork
    <3>4. old \in TikTokLine
      BY <3>3, TikTokRows
    <3>5. new.order = old.order
      <4> HIDE DEF old
      <4> QED
        BY <3>4 DEF Corrected, TikTokLine
    <3>6. tkOrders[old.order].ref = w.lot
      BY <2>3, <3>3 DEF WorkBelongs, About
    <3>7. w.lot \in Concerns(w)
      BY <3>3 DEF Concerns
    <3> HIDE DEF new, l
    <3>8. /\ DOMAIN tkLines' = DOMAIN tkLines
          /\ \A k \in DOMAIN tkLines : k # l => tkLines'[k] = tkLines[k]
          /\ tkLines'[l] = new
      BY <3>1, <3>3
    <3> QED
      BY <2>1, <3>5, <3>6, <3>7, <3>8 DEF OnlyItsOwn
  <2> QED
    BY <2>2, <2>3
<1>7. CASE ApplySession(h)
  <2> DEFINE rows == {r \in agent[h].read : r.product # NoProduct}
             lines == {r.id : r \in rows}
  <2>1. UNCHANGED tkOrders /\ At(h, "session", "write")
    BY <1>7 DEF ApplySession
  <2>2. /\ DOMAIN tkLines' = DOMAIN tkLines
        /\ \A l \in DOMAIN tkLines : l \notin lines => tkLines'[l] = tkLines[l]
    BY <1>7 DEF ApplySession
  <2>3. \A l \in lines : tkOrders[tkLines[l].order].ref \in LotOrders
    BY <2>1 DEF WorkBelongs, About, At
  <2>4. Concerns(agent[h]) = LotOrders
    BY <2>1 DEF At, Concerns
  <2>5. RefsKept
    BY <1>7, ApplySessionBelongs DEF BelongStep
  <2> HIDE DEF lines
  <2> QED
    BY <2>1, <2>2, <2>3, <2>4, <2>5, SMTT(40) DEF OnlyItsOwn, RefsKept
<1> QED
  BY <1>1, <1>2, <1>3, <1>4, <1>5, <1>6, <1>7 DEF LiveGoesOn

LEMMA ShopAtItsOwn ==
  ASSUME TikTokTypeOK, WorkBelongs, NEW h \in Agents,
         \/ \E step \in {"update", "sync", "line", "apply"} : At(h, "shop", step)
         \/ \E step : At(h, "return", step)
  PROVE  /\ agent[h].order \in DOMAIN tkOrders
         /\ tkOrders[agent[h].order].ref = agent[h].ref
         /\ agent[h].ref \in Concerns(agent[h])
<1>1. About(agent[h], tkOrders, tkLines)
  BY DEF WorkBelongs
<1>2. CASE \E step \in {"update", "sync", "line", "apply"} : At(h, "shop", step)
  <2>1. agent[h].op = "shop" /\ agent[h].step \in {"update", "sync", "line", "apply"}
    BY <1>2 DEF At
  <2>2. agent[h].order \in DOMAIN tkOrders
    BY <1>2, <2>1, AtShop DEF IsShopImport
  <2> QED
    BY <1>1, <2>1, <2>2 DEF About, Concerns
<1>3. CASE \E step : At(h, "return", step)
  <2>1. agent[h].op = "return"
    BY <1>3 DEF At
  <2>2. agent[h].order \in DOMAIN tkOrders
    BY <1>3, AtReturn DEF ReturnWork
  <2> QED
    BY <1>1, <2>1, <2>2 DEF About, Concerns
<1> QED
  BY <1>2, <1>3

LEMMA ShopTouchesItsOwn ==
  ASSUME TikTokTypeOK, WorkBelongs, NEW h \in Agents, ShopGoesOn(h)
  PROVE  OnlyItsOwn(h)
<1>1. CASE FindSale(h) \/ StoreReturn(h) \/ ToBeReviewed(h) \/ MarkProcessed(h) \/ ShopFails(h)
  BY <1>1, NothingTouched
     DEF FindSale, StoreReturn, ToBeReviewed, MarkProcessed, ShopFails
<1>2. CASE UpdateShopSale(h) \/ CancelReturned(h)
  <2>1. /\ UNCHANGED tkLines
        /\ \E state, payment : tkOrders' = Rewritten(agent[h].order, state, payment)
        /\ At(h, "shop", "update") \/ At(h, "return", "update")
    BY <1>2 DEF UpdateShopSale, CancelReturned
  <2>2. /\ agent[h].order \in DOMAIN tkOrders
        /\ tkOrders[agent[h].order].ref \in Concerns(agent[h])
    BY <2>1, ShopAtItsOwn
  <2> QED
    BY <2>1, <2>2, OneRewritten
<1>3. CASE SyncShopSale(h) \/ ApplyShopSale(h) \/ SyncReturned(h)
  <2> DEFINE o == agent[h].order
  <2>1. /\ UNCHANGED tkOrders
        /\ TakeStock(o) \/ BringInLine(o)
        /\ At(h, "shop", "sync") \/ At(h, "shop", "apply") \/ At(h, "return", "sync")
    BY <1>3 DEF SyncShopSale, ApplyShopSale, SyncReturned
  <2>2. tkOrders[o].ref \in Concerns(agent[h])
    BY <2>1, ShopAtItsOwn
  <2> HIDE DEF o
  <2> QED
    BY <2>1, <2>2, StockOfOne
<1>4. CASE CreateShopSale(h)
  <2>1. UNCHANGED tkLines /\ \E row : tkOrders' = Append(tkOrders, row)
    BY <1>4 DEF CreateShopSale
  <2> QED
    BY <2>1, OneCreated
<1>5. CASE AddShopLine(h)
  <2> DEFINE row == [order |-> agent[h].order, product |-> Head(agent[h].products),
                     applied |-> FALSE]
  <2>1. UNCHANGED tkOrders /\ tkLines' = Append(tkLines, row) /\ At(h, "shop", "line")
    BY <1>5 DEF AddShopLine
  <2>2. tkOrders[row.order].ref \in Concerns(agent[h])
    BY <2>1, ShopAtItsOwn
  <2> HIDE DEF row
  <2> QED
    BY <2>1, <2>2, OneAdded
<1> QED
  BY <1>1, <1>2, <1>3, <1>4, <1>5 DEF ShopGoesOn

LEMMA AgentsTouchTheirOwn ==
  ASSUME TikTokTypeOK, WorkBelongs, NEW h \in Agents,
         LiveArrival(h) \/ ShopArrival(h) \/ AgentWork(h)
  PROVE  OnlyItsOwn(h)
<1>1. CASE LiveArrival(h) \/ ShopArrival(h)
  <2>1. UNCHANGED saleTables
    BY <1>1 DEF LiveArrival, ShopArrival, LiveArrives, ShopArrives, ImportRequest,
       CorrectRequest, SessionRequest, SyncRequest, WebhookRequest, ReturnRequest
  <2> QED
    BY <2>1, NothingTouched
<1>2. CASE AgentWork(h)
  BY <1>2, LiveTouchesItsOwn, ShopTouchesItsOwn DEF AgentWork
<1> QED
  BY <1>1, <1>2

-----------------------------------------------------------------------------
(* Returns *)

(***************************************************************************)
(* Past its first transaction, the return of a shop order has cancelled    *)
(* it; past its second, no line of the order is out of the stock.          *)
(***************************************************************************)
GivenUp(w, orders, lines) ==
  w.op = "return" /\ w.ref \in ShopOrders =>
    /\ w.step = "sync" => orders[w.order].state = "cancel"
    /\ w.step = "mark" =>
         \A l \in DOMAIN lines : lines[l].order = w.order => ~lines[l].applied

ReturnsGivenUp ==
  Uncrossed => \A h \in Agents : GivenUp(agent[h], tkOrders, tkLines)

LEMMA GivenUpFree == ASSUME NEW orders, NEW lines PROVE GivenUp(Free, orders, lines)
  BY DEF GivenUp, Free

LEMMA GivenUpOthers ==
  ASSUME TikTokTypeOK, WorkBelongs, NEW g \in Agents, NEW h \in Agents,
         GivenUp(agent[g], tkOrders, tkLines), OnlyItsOwn(h),
         Concerns(agent[g]) \cap Concerns(agent[h]) = {}
  PROVE  GivenUp(agent[g], tkOrders', tkLines')
<1> DEFINE w == agent[g]
<1> SUFFICES ASSUME w.op = "return", w.ref \in ShopOrders, w.step \in {"sync", "mark"}
             PROVE  GivenUp(w, tkOrders', tkLines')
  BY DEF GivenUp
<1>1. /\ w.order \in DOMAIN tkOrders /\ tkOrders[w.order].ref = w.ref
      /\ w.ref \in Concerns(w)
  BY ShopAtItsOwn DEF At
<1>2. tkOrders[w.order].ref \notin Concerns(agent[h])
  BY <1>1
<1>3. tkOrders'[w.order] = tkOrders[w.order]
  BY <1>1, <1>2 DEF OnlyItsOwn
<1>4. \A l \in DOMAIN tkLines' : tkLines'[l].order = w.order =>
         l \in DOMAIN tkLines /\ tkLines'[l] = tkLines[l]
  BY <1>2 DEF OnlyItsOwn
<1> QED
  BY <1>3, <1>4 DEF GivenUp

(***************************************************************************)
(* A return's own step.                                                    *)
(***************************************************************************)
LEMMA GivenUpNot ==
  ASSUME NEW w, NEW orders, NEW lines,
         w.op # "return" \/ w.step \notin {"sync", "mark"}
  PROVE  GivenUp(w, orders, lines)
  BY DEF GivenUp

LEMMA CancelReturnedGivesUp ==
  ASSUME TikTokTypeOK, WorkBelongs, NEW h \in Agents, CancelReturned(h)
  PROVE  GivenUp(agent'[h], tkOrders', tkLines')
<1> DEFINE w == agent[h]
           v == [w EXCEPT !.step = "sync"]
           orders == tkOrders'
           lines == tkLines'
<1>1. w \in ReturnWork(DOMAIN tkOrders) /\ Becomes(h, v)
      /\ tkOrders' = Rewritten(w.order, "cancel", "refunded")
  BY AtReturn DEF CancelReturned
<1>2. w.order \in DOMAIN tkOrders
  BY <1>1 DEF ReturnWork
<1>3. tkOrders[w.order] \in TikTokRow
  BY <1>2, TikTokRows
<1>4. orders[w.order].state = "cancel"
  BY <1>1, <1>2, <1>3 DEF Rewritten, TikTokRow
<1>5. agent'[h] = v
  BY <1>1, ThreadSet
<1> HIDE DEF w, orders, lines
<1>6. v.order = w.order /\ v.step = "sync"
  BY <1>1 DEF ReturnWork
<1> HIDE DEF v
<1>7. GivenUp(v, orders, lines)
  BY <1>4, <1>6 DEF GivenUp
<1> QED
  BY <1>5, <1>7 DEF orders, lines

LEMMA SyncReturnedGivesUp ==
  ASSUME TikTokTypeOK, WorkBelongs, NEW h \in Agents, SyncReturned(h),
         GivenUp(agent[h], tkOrders, tkLines)
  PROVE  GivenUp(agent'[h], tkOrders', tkLines')
<1> DEFINE w == agent[h]
           v == [w EXCEPT !.step = "mark"]
           o == w.order
           orders == tkOrders'
           lines == tkLines'
<1>1. /\ w \in ReturnWork(DOMAIN tkOrders) /\ w.step = "sync" /\ w.op = "return"
      /\ Becomes(h, v) /\ BringInLine(o)
  BY AtReturn DEF SyncReturned, At
<1>2. tkOrders[o].ref = w.ref
  BY <1>1, ShopAtItsOwn DEF At
<1>3. agent'[h] = v
  BY <1>1, ThreadSet
<1>4. ASSUME w.ref \in ShopOrders, NEW l \in DOMAIN tkLines', tkLines'[l].order = o
      PROVE  ~tkLines'[l].applied
  <2>1. tkOrders[o].state = "cancel"
    BY <1>1, <1>4 DEF GivenUp
  <2>2. ~HoldsStock(o) /\ ~IsLive(o)
    BY <1>2, <1>4, <2>1, LotsAndShopDiffer DEF HoldsStock, IsLive
  <2>3. tkLines' = Flagged(AppliedOfSale(o), FALSE)
    BY <1>1, <2>2 DEF BringInLine, GiveStockBack
  <2>4. LinesSame
    BY <1>1, StockKeepsLines
  <2>5. /\ l \in DOMAIN tkLines /\ tkLines[l].order = o
        /\ tkLines[l].product # NoProduct /\ tkLines[l] \in TikTokLine
    BY <1>2, <1>4, <2>4, TikTokRows DEF LinesSame, WorkBelongs, ShopLinesNamed
  <2>6. CASE tkLines[l].applied
    <3>1. l \in AppliedOfSale(o)
      BY <2>5, <2>6 DEF AppliedOfSale, ProductLinesOfSale, LinesOfSale
    <3>2. tkLines'[l] = [tkLines[l] EXCEPT !.applied = FALSE]
      BY <2>3, <2>5, <3>1 DEF Flagged
    <3> QED
      BY <2>5, <3>2 DEF TikTokLine
  <2>7. CASE ~tkLines[l].applied
    <3>1. l \notin AppliedOfSale(o)
      BY <2>7 DEF AppliedOfSale
    <3> QED
      BY <2>3, <2>5, <2>7, <3>1 DEF Flagged
  <2> QED
    BY <2>6, <2>7
<1>5. w.ref \in ShopOrders =>
        \A l \in DOMAIN lines : lines[l].order = o => ~lines[l].applied
  BY <1>4
<1> HIDE DEF w, orders, lines, o
<1>6. v.ref = w.ref /\ v.order = o /\ v.step = "mark"
  BY <1>1 DEF ReturnWork, o
<1> HIDE DEF v
<1>7. GivenUp(v, orders, lines)
  BY <1>5, <1>6 DEF GivenUp
<1> QED
  BY <1>3, <1>7 DEF orders, lines

(***************************************************************************)
(* A thread keeps to its request until it is free.                         *)
(***************************************************************************)
LEMMA OpOfRow ==
  ASSUME NEW S, NEW w \in ImportWork(S)
  PROVE  ToRow(w) = Free \/ ToRow(w).op = "import"
<1> DEFINE old == w.found[Head(w.rows).lot]
           step == IF old = {} THEN "create" ELSE "update"
           v == [w EXCEPT !.step = step, !.left = old]
<1>1. ToRow(w) = Free \/ ToRow(w) = v
  BY DEF ToRow
<1> HIDE DEF old, step
<1>2. v.op = "import"
  BY DEF ImportWork
<1> QED
  BY <1>1, <1>2

LEMMA OpOfNextRow ==
  ASSUME NEW S, NEW w \in ImportWork(S), w.rows # << >>
  PROVE  NextRow(w) = Free \/ NextRow(w).op = "import"
<1> DEFINE v == [w EXCEPT !.rows = Tail(w.rows)]
<1>1. v \in ImportWork(S)
  BY RowsAfter
<1>2. NextRow(w) = ToRow(v)
  BY DEF NextRow, ImportWork
<1> HIDE DEF v
<1> QED
  BY <1>1, <1>2, OpOfRow

LEMMA OpOfCorrection ==
  ASSUME TikTokTypeOK, NEW h \in Agents, ReadLotLine(h)
  PROVE  agent'[h].op = "correct"
<1> DEFINE w == agent[h]
<1>1. w \in CorrectionWork(DOMAIN tkLines)
  BY AtCorrection DEF ReadLotLine
<1>2. \/ \E old : Becomes(h, [w EXCEPT !.step = "write", !.old = old])
      \/ \E line, old, applied, due :
           Becomes(h, [w EXCEPT !.step = "write", !.line = line, !.old = old,
                                !.applied = applied, !.due = due])
  BY DEF ReadLotLine
<1> HIDE DEF w
<1>3. CASE \E old : Becomes(h, [w EXCEPT !.step = "write", !.old = old])
  <2>1. PICK old : Becomes(h, [w EXCEPT !.step = "write", !.old = old])
    BY <1>3
  <2> DEFINE v == [w EXCEPT !.step = "write", !.old = old]
  <2>2. v.op = "correct"
    BY <1>1 DEF CorrectionWork
  <2> QED
    BY <2>1, <2>2, ThreadSet
<1>4. CASE \E line, old, applied, due :
             Becomes(h, [w EXCEPT !.step = "write", !.line = line, !.old = old,
                                  !.applied = applied, !.due = due])
  <2>1. PICK line, old, applied, due :
             Becomes(h, [w EXCEPT !.step = "write", !.line = line, !.old = old,
                                  !.applied = applied, !.due = due])
    BY <1>4
  <2> DEFINE v == [w EXCEPT !.step = "write", !.line = line, !.old = old,
                            !.applied = applied, !.due = due]
  <2>2. v.op = "correct"
    BY <1>1 DEF CorrectionWork
  <2> QED
    BY <2>1, <2>2, ThreadSet
<1> QED
  BY <1>2, <1>3, <1>4

LEMMA OpOfImport ==
  ASSUME TikTokTypeOK, WorkBelongs, NEW h \in Agents,
         UpdateLiveSale(h) \/ SyncLiveSale(h) \/ SettleLiveSale(h) \/ CreateLiveSale(h)
           \/ AddLiveLine(h) \/ ApplyLiveSale(h)
  PROVE  agent'[h] = Free \/ agent'[h].op = "import"
<1> DEFINE w == agent[h]
           S == DOMAIN tkOrders
<1>1. w \in ImportWork(S) /\ w.rows # << >>
  BY PastList
<1>2. NextRow(w) = Free \/ NextRow(w).op = "import"
  <2> HIDE DEF w, S
  <2> QED
    BY <1>1, OpOfNextRow
<1>3. CASE UpdateLiveSale(h)
  <2>1. PICK o, left : Becomes(h, [w EXCEPT !.step = "sync", !.order = o, !.left = left])
    BY <1>3 DEF UpdateLiveSale
  <2> DEFINE v == [w EXCEPT !.step = "sync", !.order = o, !.left = left]
  <2> HIDE DEF w
  <2>2. v.op = "import"
    BY <1>1 DEF ImportWork
  <2> QED
    BY <2>1, <2>2, ThreadSet
<1>4. CASE SyncLiveSale(h) \/ SettleLiveSale(h) \/ ApplyLiveSale(h)
  <2>1. \/ Becomes(h, NextRow(w)) \/ Becomes(h, [w EXCEPT !.step = "settle"])
        \/ Becomes(h, [w EXCEPT !.step = "update"])
    BY <1>4 DEF SyncLiveSale, SettleLiveSale, ApplyLiveSale
  <2> HIDE DEF w
  <2>2. \A step : [w EXCEPT !.step = step].op = "import"
    BY <1>1 DEF ImportWork
  <2> QED
    BY <1>2, <2>1, <2>2, ThreadSet, ZenonT(60)
<1>5. CASE CreateLiveSale(h)
  <2>1. PICK o, products :
          Becomes(h, [w EXCEPT !.step = "line", !.order = o, !.products = products])
    BY <1>5 DEF CreateLiveSale
  <2> DEFINE v == [w EXCEPT !.step = "line", !.order = o, !.products = products]
  <2> HIDE DEF w
  <2>2. v.op = "import"
    BY <1>1 DEF ImportWork
  <2> QED
    BY <2>1, <2>2, ThreadSet
<1>6. CASE AddLiveLine(h)
  <2> DEFINE tail == Tail(w.products)
             rest == [w EXCEPT !.products = tail]
             v == IF rest.products # << >> THEN rest
                  ELSE IF RowStatus(h) = "cancelled" THEN NextRow(rest)
                       ELSE [rest EXCEPT !.step = "apply"]
  <2>1. Becomes(h, v) /\ At(h, "import", "line")
    BY <1>6 DEF AddLiveLine
  <2>2. w.products \in Seq(Products \cup {NoProduct}) /\ w.products # << >>
    BY <2>1, AtImport DEF IsImport, ImportWork
  <2>3. tail \in Seq(Products \cup {NoProduct})
    BY <2>2, HeadTailProperties
  <2> HIDE DEF w, tail, S
  <2>4. rest \in ImportWork(S) /\ rest.rows = w.rows /\ rest.op = "import"
    BY <1>1, <2>3 DEF ImportWork
  <2> HIDE DEF rest
  <2>5. NextRow(rest) = Free \/ NextRow(rest).op = "import"
    BY <1>1, <2>4, OpOfNextRow
  <2>6. [rest EXCEPT !.step = "apply"].op = "import"
    BY <2>4 DEF ImportWork
  <2>7. v = Free \/ v.op = "import"
    BY <2>4, <2>5, <2>6
  <2> HIDE DEF v
  <2> QED
    BY <2>1, <2>7, ThreadSet
<1> QED
  BY <1>3, <1>4, <1>5, <1>6

LEMMA OpOfLiveWork ==
  ASSUME TikTokTypeOK, WorkBelongs, NEW h \in Agents, LiveGoesOn(h)
  PROVE  agent'[h] = Free \/ agent'[h].op \in {"import", "correct"}
<1>1. CASE ListSales(h)
  <2> DEFINE w == agent[h]
             S == DOMAIN tkOrders
             v == [w EXCEPT !.found = FoundSales]
  <2>1. w \in ImportWork(S) /\ Becomes(h, ToRow(v))
    BY <1>1, AtImport DEF ListSales
  <2>2. FoundSales \in [LotOrders -> SUBSET S]
    BY DEF FoundSales, SalesOf
  <2> HIDE DEF w, S
  <2>3. v \in ImportWork(S)
    BY <2>1, <2>2 DEF ImportWork
  <2> HIDE DEF v
  <2>4. ToRow(v) = Free \/ ToRow(v).op = "import"
    BY <2>3, OpOfRow
  <2> QED
    BY <2>1, <2>4, ThreadSet
<1>2. CASE ReadLotLine(h)
  BY <1>2, OpOfCorrection, SMTT(40)
<1>3. CASE CorrectLine(h) \/ ApplySession(h)
  BY <1>3, ThreadSet DEF CorrectLine, ApplySession
<1>4. CASE LiveFails(h)
  <2>1. CASE Becomes(h, Free)
    BY <2>1, ThreadSet
  <2>2. CASE agent[h].op = "import" /\ Becomes(h, NextRow(agent[h]))
    <3> DEFINE w == agent[h]
               S == DOMAIN tkOrders
    <3>1. w \in ImportWork(S) /\ w.rows # << >>
      BY <2>2, ImportBelongs
    <3>2. NextRow(w) = Free \/ NextRow(w).op = "import"
      <4> HIDE DEF w, S
      <4> QED
        BY <3>1, OpOfNextRow
    <3> QED
      BY <2>2, <3>2, ThreadSet
  <2> QED
    BY <1>4, <2>1, <2>2 DEF LiveFails
<1> QED
  BY <1>1, <1>2, <1>3, <1>4, OpOfImport DEF LiveGoesOn

LEMMA OpOfLiveRequest ==
  ASSUME TikTokTypeOK, NEW h \in Agents, LiveArrives(h)
  PROVE  agent'[h].op \in {"import", "correct", "session"}
<1>1. CASE ImportRequest(h)
  <2>1. PICK rows, found :
          Becomes(h, [op |-> "import", step |-> "list", rows |-> rows, found |-> found,
                      order |-> 0, left |-> {}, products |-> << >>])
    BY <1>1 DEF ImportRequest
  <2> QED
    BY <2>1, ThreadSet
<1>2. CASE CorrectRequest(h)
  <2>1. PICK l, p :
          Becomes(h, [op |-> "correct", step |-> "read", lot |-> l, product |-> p,
                      line |-> 0, old |-> NoProduct, applied |-> FALSE, due |-> FALSE])
    BY <1>2 DEF CorrectRequest
  <2> QED
    BY <2>1, ThreadSet
<1>3. CASE SessionRequest(h)
  <2>1. PICK read : Becomes(h, [op |-> "session", step |-> "write", read |-> read])
    BY <1>3 DEF SessionRequest
  <2> QED
    BY <2>1, ThreadSet
<1> QED
  BY <1>1, <1>2, <1>3 DEF LiveArrives

LEMMA OpOfShopImport ==
  ASSUME TikTokTypeOK, NEW h \in Agents,
         FindSale(h) \/ UpdateShopSale(h) \/ CreateShopSale(h) \/ AddShopLine(h)
  PROVE  agent'[h] = Free \/ agent'[h].op = "shop"
<1> DEFINE w == agent[h]
<1>1. w \in ShopImportWork
  BY AtShop DEF FindSale, UpdateShopSale, CreateShopSale, AddShopLine
<1>2. CASE FindSale(h)
  <2>1. \/ Becomes(h, Free) \/ Becomes(h, [w EXCEPT !.step = "create"])
        \/ \E o, payment :
             Becomes(h, [w EXCEPT !.step = "update", !.order = o, !.payment = payment])
    BY <1>2 DEF FindSale
  <2> HIDE DEF w
  <2>2. [w EXCEPT !.step = "create"].op = "shop"
    BY <1>1 DEF ShopImportWork
  <2>3. CASE \E o, payment :
               Becomes(h, [w EXCEPT !.step = "update", !.order = o, !.payment = payment])
    <3>1. PICK o, payment :
            Becomes(h, [w EXCEPT !.step = "update", !.order = o, !.payment = payment])
      BY <2>3
    <3> DEFINE v == [w EXCEPT !.step = "update", !.order = o, !.payment = payment]
    <3>2. v.op = "shop"
      BY <1>1 DEF ShopImportWork
    <3> QED
      BY <3>1, <3>2, ThreadSet
  <2> QED
    BY <2>1, <2>2, <2>3, ThreadSet
<1>3. CASE UpdateShopSale(h)
  <2>1. Becomes(h, [w EXCEPT !.step = "sync"])
    BY <1>3 DEF UpdateShopSale
  <2> HIDE DEF w
  <2>2. [w EXCEPT !.step = "sync"].op = "shop"
    BY <1>1 DEF ShopImportWork
  <2> QED
    BY <2>1, <2>2, ThreadSet
<1>4. CASE CreateShopSale(h)
  <2>1. PICK o : Becomes(h, [w EXCEPT !.step = "line", !.order = o])
    BY <1>4 DEF CreateShopSale
  <2> HIDE DEF w
  <2>2. [w EXCEPT !.step = "line", !.order = o].op = "shop"
    BY <1>1 DEF ShopImportWork
  <2> QED
    BY <2>1, <2>2, ThreadSet
<1>5. CASE AddShopLine(h)
  <2> DEFINE tail == Tail(w.products)
             rest == [w EXCEPT !.products = tail]
  <2>1. \/ Becomes(h, Free) \/ Becomes(h, rest) \/ Becomes(h, [rest EXCEPT !.step = "apply"])
    BY <1>5 DEF AddShopLine
  <2> HIDE DEF w, tail
  <2>2. rest.op = "shop"
    BY <1>1 DEF ShopImportWork
  <2>3. [rest EXCEPT !.step = "apply"].op = "shop"
    BY <1>1 DEF ShopImportWork
  <2> QED
    BY <2>1, <2>2, <2>3, ThreadSet
<1> QED
  BY <1>2, <1>3, <1>4, <1>5

LEMMA StoreReturnGoesOn ==
  ASSUME TikTokTypeOK, NEW h \in Agents, StoreReturn(h)
  PROVE  agent'[h].step \in {"idle", "update", "manual"}
<1> DEFINE w == agent[h]
<1>1. w \in ReturnWork(DOMAIN tkOrders)
  BY AtReturn DEF StoreReturn
<1>2. \/ Becomes(h, Free)
      \/ \E step \in {"update", "manual"} : Becomes(h, [w EXCEPT !.step = step])
  BY DEF StoreReturn
<1> HIDE DEF w
<1>3. [w EXCEPT !.step = "update"].step = "update"
  BY <1>1 DEF ReturnWork
<1>4. [w EXCEPT !.step = "manual"].step = "manual"
  BY <1>1 DEF ReturnWork
<1>5. CASE Becomes(h, Free)
  BY <1>5, ThreadSet DEF Free
<1>6. CASE Becomes(h, [w EXCEPT !.step = "update"])
  BY <1>3, <1>6, ThreadSet
<1>7. CASE Becomes(h, [w EXCEPT !.step = "manual"])
  BY <1>4, <1>7, ThreadSet
<1> QED
  BY <1>2, <1>5, <1>6, <1>7

LEMMA OwnReturnGivenUp ==
  ASSUME TikTokTypeOK, WorkBelongs, NEW h \in Agents, GivenUp(agent[h], tkOrders, tkLines),
         LiveArrival(h) \/ ShopArrival(h) \/ AgentWork(h)
  PROVE  GivenUp(agent'[h], tkOrders', tkLines')
<1>1. CASE LiveArrives(h)
  BY <1>1, OpOfLiveRequest, GivenUpNot
<1>2. CASE LiveGoesOn(h)
  BY <1>2, OpOfLiveWork, GivenUpNot, GivenUpFree
<1>3. CASE SyncRequest(h) \/ WebhookRequest(h)
  <2>1. PICK t, status, items : Becomes(h, ImportOf(t, status, items))
    BY <1>3 DEF SyncRequest, WebhookRequest
  <2>2. ImportOf(t, status, items).op = "shop"
    BY DEF ImportOf
  <2> QED
    BY <2>1, <2>2, ThreadSet, GivenUpNot
<1>4. CASE ReturnRequest(h)
  <2>1. PICK t, o : Becomes(h, [op |-> "return", step |-> "store", ref |-> t, order |-> o])
    BY <1>4 DEF ReturnRequest
  <2>2. agent'[h].step = "store"
    BY <2>1, ThreadSet
  <2> QED
    BY <2>2, GivenUpNot
<1>5. CASE FindSale(h) \/ UpdateShopSale(h) \/ CreateShopSale(h) \/ AddShopLine(h)
  BY <1>5, OpOfShopImport, GivenUpNot, GivenUpFree
<1>6. CASE SyncShopSale(h) \/ ApplyShopSale(h) \/ ToBeReviewed(h) \/ MarkProcessed(h)
           \/ ShopFails(h)
  <2>1. Becomes(h, Free)
    BY <1>6 DEF SyncShopSale, ApplyShopSale, ToBeReviewed, MarkProcessed, ShopFails
  <2> QED
    BY <2>1, ThreadSet, GivenUpFree
<1>7. CASE StoreReturn(h)
  BY <1>7, StoreReturnGoesOn, GivenUpNot
<1>8. CASE CancelReturned(h) \/ SyncReturned(h)
  BY <1>8, CancelReturnedGivesUp, SyncReturnedGivesUp
<1> QED
  BY <1>1, <1>2, <1>3, <1>4, <1>5, <1>6, <1>7, <1>8
     DEF LiveArrival, ShopArrival, AgentWork, ShopArrives, ShopGoesOn

LEMMA ReturnsGivenUpStep ==
  ASSUME WarehouseTypeOK, WorkBelongs, SalesLookedUp, ReturnsGivenUp,
         [WarehouseNext]_warehouseVars
  PROVE  ReturnsGivenUp'
<1>1. TikTokTypeOK
  BY DEF WarehouseTypeOK
<1>2. Uncrossed' => Uncrossed
  BY DEF WarehouseNext, warehouseVars, Uncrossed
<1>3. CASE UNCHANGED <<saleTables, agent>>
  BY <1>2, <1>3 DEF ReturnsGivenUp, saleTables
<1>4. CASE \E h \in Agents : LiveArrival(h) \/ ShopArrival(h) \/ AgentWork(h)
  <2>1. PICK h \in Agents : LiveArrival(h) \/ ShopArrival(h) \/ AgentWork(h)
    BY <1>4
  <2>2. /\ \A g \in Agents \ {h} : agent'[g] = agent[g]
        /\ OnlyItsOwn(h)
    BY <1>1, <2>1, AgentsBelong, AgentsTouchTheirOwn DEF BelongStep
  <2> SUFFICES ASSUME Uncrossed', NEW g \in Agents
               PROVE  GivenUp(agent'[g], tkOrders', tkLines')
    BY DEF ReturnsGivenUp
  <2>3. GivenUp(agent[g], tkOrders, tkLines)
    BY <1>2 DEF ReturnsGivenUp
  <2>4. CASE g = h
    BY <1>1, <2>1, <2>3, <2>4, OwnReturnGivenUp
  <2>5. CASE g # h
    <3>1. Concerns(agent[g]) \cap Concerns(agent[h]) = {}
      BY <1>2, <2>5 DEF SalesLookedUp, TikTokCrossed
    <3>2. GivenUp(agent[g], tkOrders', tkLines')
      BY <1>1, <2>2, <2>3, <3>1, GivenUpOthers
    <3> QED
      BY <2>2, <2>5, <3>2
  <2> QED
    BY <2>4, <2>5
<1> QED
  BY <1>3, <1>4, WhoMoves

(***************************************************************************)
(* Only the last transaction of a return marks it as processed.            *)
(***************************************************************************)
LEMMA WhoMarks ==
  ASSUME WarehouseTypeOK, [WarehouseNext]_warehouseVars, NEW t \in returnsDone' \ returnsDone
  PROVE  \E h \in Agents : At(h, "return", "mark") /\ agent[h].ref = t
<1>1. CASE UNCHANGED returnsDone
  BY <1>1
<1>2. CASE \E h \in Agents : ShopGoesOn(h)
  <2>1. PICK h \in Agents : ShopGoesOn(h)
    BY <1>2
  <2>2. CASE MarkProcessed(h)
    BY <2>2 DEF MarkProcessed
  <2>3. CASE ToBeReviewed(h)
    BY <2>3 DEF ToBeReviewed
  <2>4. CASE ~MarkProcessed(h) /\ ~ToBeReviewed(h)
    BY <2>1, <2>4 DEF ShopGoesOn, FindSale, UpdateShopSale, SyncShopSale, CreateShopSale,
       AddShopLine, ApplyShopSale, StoreReturn, CancelReturned, SyncReturned, ShopFails, shopVars
  <2> QED
    BY <2>2, <2>3, <2>4
<1>3. \/ UNCHANGED returnsDone
      \/ \E h \in Agents : ShopGoesOn(h)
  <2>1. CASE UNCHANGED warehouseVars
    BY <2>1 DEF warehouseVars, tiktokVars, shopVars
  <2>2. CASE SellStep \/ BuyStep
    BY <2>2 DEF SellStep, BuyStep, tiktokVars, shopVars
  <2>3. CASE TikTokStep
    <3>1. workload.agents \subseteq Agents
      BY DEF WarehouseTypeOK, Workload
    <3>2. CASE \E u : Changes(u) \/ Returns(u)
      BY <3>2 DEF Changes, Returns, shopVars
    <3>3. CASE \E h \in workload.agents : LiveArrival(h) \/ ShopArrival(h)
      BY <3>3 DEF LiveArrival, ShopArrival, ShopArrives, SyncRequest, WebhookRequest,
         ReturnRequest, shopVars
    <3>4. CASE \E h \in workload.agents : AgentWork(h)
      BY <3>1, <3>4 DEF AgentWork, shopVars
    <3> QED
      BY <2>3, <3>2, <3>3, <3>4 DEF TikTokStep, TikTokActs
  <2> QED
    BY <2>1, <2>2, <2>3 DEF WarehouseNext
<1> QED
  BY <1>1, <1>2, <1>3

LEMMA ReturnsAlwaysGivenUp == WarehouseSpec => []ReturnsGivenUp
<1>1. WarehouseInit => ReturnsGivenUp
  <2> SUFFICES ASSUME WarehouseInit PROVE ReturnsGivenUp
    OBVIOUS
  <2>1. \A h \in Agents : agent[h] = Free
    BY DEF WarehouseInit, TikTokInit
  <2> QED
    BY <2>1, GivenUpFree DEF ReturnsGivenUp
<1>2. WarehouseTypeOK /\ WorkBelongs /\ SalesLookedUp /\ ReturnsGivenUp
        /\ [WarehouseNext]_warehouseVars => ReturnsGivenUp'
  BY ReturnsGivenUpStep
<1> QED
  BY <1>1, <1>2, WarehouseTypes, WorkAlwaysBelongs, SalesAlwaysLookedUp, PTL
     DEF WarehouseSpec

(***************************************************************************)
(* process_return marks a return as processed after update_sale_order has  *)
(* cancelled the order and given its stock back, in transactions of their  *)
(* own: wherever a request fails between them, and whatever is imported    *)
(* meanwhile for other orders, a return that is marked is of an order no   *)
(* line of which still holds stock.                                        *)
(***************************************************************************)
THEOREM ReturnsAlwaysGiveBack == WarehouseSpec => ReturnsGiveStockBack
<1> DEFINE Marks == \A t \in ShopOrders : t \in returnsDone' \ returnsDone =>
                      "tiktok" \in crossed \/ StockOfReturned(t) = {}
<1>1. ASSUME WarehouseTypeOK, WorkBelongs, SalesLookedUp, ReturnsGivenUp,
             [WarehouseNext]_warehouseVars
      PROVE  Marks
  <2> SUFFICES ASSUME NEW t \in ShopOrders, t \in returnsDone' \ returnsDone, Uncrossed
               PROVE  StockOfReturned(t) = {}
    BY DEF Uncrossed
  <2>1. PICK h \in Agents : At(h, "return", "mark") /\ agent[h].ref = t
    BY <1>1, WhoMarks
  <2> DEFINE w == agent[h]
  <2>2. \A l \in DOMAIN tkLines : tkLines[l].order = w.order => ~tkLines[l].applied
    BY <1>1, <2>1 DEF ReturnsGivenUp, GivenUp, At
  <2>3. w.order \in DOMAIN tkOrders /\ tkOrders[w.order].ref = t
    BY <1>1, <2>1, ShopAtItsOwn DEF WarehouseTypeOK
  <2>4. \A o \in SalesOf(t) : o = w.order
    BY <1>1, <2>3 DEF SalesOf, SalesLookedUp, RefsUnique
  <2>5. \A o \in SalesOf(t) : {l \in LinesOfSale(o) : tkLines[l].applied} = {}
    BY <2>2, <2>4 DEF LinesOfSale
  <2> QED
    BY <2>5 DEF StockOfReturned
<1>2. WarehouseTypeOK /\ WorkBelongs /\ SalesLookedUp /\ ReturnsGivenUp
        /\ [WarehouseNext]_warehouseVars => [Marks]_warehouseVars
  BY <1>1
<1> QED
  BY <1>2, WarehouseTypes, WorkAlwaysBelongs, SalesAlwaysLookedUp, ReturnsAlwaysGivenUp, PTL
     DEF WarehouseSpec, ReturnsGiveStockBack, Marks
-----------------------------------------------------------------------------
(* What arrived *)

(***************************************************************************)
(* The movements of one kind and product.                                  *)
(***************************************************************************)
KindRows(kind, p) == {r \in MovementRow : r.reference = kind /\ r.product = p}

(***************************************************************************)
(* NetOf, as the sum over those movements.                                 *)
(***************************************************************************)
LEMMA NetOfKind ==
  ASSUME NEW rows \in Seq(MovementRow), NEW kind, NEW p
  PROVE  Ledger!NetOfRows(rows, {i \in DOMAIN rows :
                                   rows[i].reference = kind /\ rows[i].product = p})
           = NetAmong(rows, KindRows(kind, p))
<1>1. \A i \in DOMAIN rows : rows[i] \in MovementRow
  BY LenProperties, ElementOfSeq
<1>2. {i \in DOMAIN rows : rows[i].reference = kind /\ rows[i].product = p}
        = {i \in DOMAIN rows : rows[i] \in KindRows(kind, p)}
  <2>1. \A i \in DOMAIN rows : rows[i].reference = kind /\ rows[i].product = p
                                <=> rows[i] \in KindRows(kind, p)
    BY <1>1 DEF KindRows
  <2> QED
    BY <2>1
<1> QED
  BY <1>2, LedgerSum DEF Ledger!NetOfRows, NetAmong

(***************************************************************************)
(* The ids of a set in their order: each of them at one position.          *)
(***************************************************************************)
LEMMA EachIdOnce ==
  ASSUME NEW ids, ids \subseteq Nat, IsFiniteSet(ids)
  PROVE  /\ \A l \in ids : \E n \in 1 .. Cardinality(ids) : InIdOrder(ids)[n] = l
         /\ \A m, n \in 1 .. Cardinality(ids) :
              InIdOrder(ids)[m] = InIdOrder(ids)[n] => m = n
<1> DEFINE s == InIdOrder(ids)
           N == Cardinality(ids)
<1>1. N \in Nat /\ s \in [1 .. N -> ids] /\ Ascending(s)
  BY IdsInOrder
<1>2. \A m, n \in 1 .. N : m < n => s[m] < s[n]
  BY <1>1 DEF Ascending
<1> HIDE DEF s
<1>3. \A n \in 1 .. N : s[n] \in Nat /\ n \in Int
  <2>1. \A n \in 1 .. N : n \in Int
    BY <1>1
  <2>2. \A n \in 1 .. N : s[n] \in ids
    BY <1>1
  <2> QED
    BY <2>1, <2>2
<1>4. \A m, n \in 1 .. N : s[m] = s[n] => m = n
  <2> SUFFICES ASSUME NEW m \in 1 .. N, NEW n \in 1 .. N, s[m] = s[n], m # n
               PROVE  FALSE
    OBVIOUS
  <2>1. m < n \/ n < m
    BY <1>3
  <2> QED
    BY <1>2, <1>3, <2>1
<1>5. s \in Injection(1 .. N, ids)
  BY <1>1, <1>4 DEF Injection, IsInjective
<1>6. IsFiniteSet(1 .. N) /\ Cardinality(1 .. N) = N
  BY <1>1, FS_Interval
<1>7. s \in Surjection(1 .. N, ids)
  BY <1>5, <1>6, FS_Injection
<1>8. \A l \in ids : \E n \in 1 .. N : s[n] = l
  BY <1>7 DEF Surjection
<1> QED
  BY <1>4, <1>8 DEF s

(***************************************************************************)
(* What arrived of each line: f[l] is what the movements say of it, also   *)
(* when a later receipt has overwritten the row or a deletion has taken    *)
(* the line away.                                                          *)
(***************************************************************************)
ArrivedWith(f, lines, threads, rows) ==
  /\ f \in [DOMAIN lines -> Int]
  /\ \A l \in DOMAIN lines : 0 <= f[l] /\ lines[l].received <= f[l]
  /\ \A b \in Buyers : \A l \in DOMAIN threads[b].read :
       /\ threads[b].read[l].received <= f[l]
       /\ threads[b].read[l].product = lines[l].product
  /\ \A p \in Products :
       NetAmong(rows, KindRows("purchase_order", p))
         = SumFunctionOnSet(f, {l \in DOMAIN lines : lines[l].product = p})

(***************************************************************************)
(* Nothing arrived that the lines do not show.                             *)
(***************************************************************************)
Exact(f, lines) == \A l \in DOMAIN lines : f[l] = lines[l].received

(***************************************************************************)
(* A step that records no receipt keeps what arrived: lines keep their     *)
(* product and what they received, new ones have received nothing, and a   *)
(* thread reads no line but as it is.                                      *)
(***************************************************************************)
LinesLike(old, new) ==
  /\ DOMAIN old \subseteq DOMAIN new
  /\ \A l \in DOMAIN old : /\ new[l].product = old[l].product
                           /\ new[l].received = old[l].received
  /\ \A l \in DOMAIN new \ DOMAIN old : new[l].received = 0

(***************************************************************************)
(* What a thread has read anew is as the lines are.                        *)
(***************************************************************************)
ReadsLines(threads, old, lines) ==
  \A b \in Buyers :
    \/ threads[b].read = old[b].read
    \/ \A l \in DOMAIN threads[b].read :
         l \in DOMAIN lines /\ threads[b].read[l] = lines[l]

(***************************************************************************)
(* No unit arrived between two states of inventory_movements.              *)
(***************************************************************************)
NoArrivals(old, new) ==
  \A p \in Products :
    NetAmong(new, KindRows("purchase_order", p)) = NetAmong(old, KindRows("purchase_order", p))

LEMMA ArrivedBefore ==
  ASSUME PurchaseTypeOK, NEW lines \in Seq(OrderLineRow), NEW threads, NEW rows,
         LinesLike(purchaseLines, lines), ReadsLines(threads, buyer, purchaseLines),
         NoArrivals(movements, rows),
         NEW f, ArrivedWith(f, purchaseLines, buyer, movements)
  PROVE  \E g : /\ ArrivedWith(g, lines, threads, rows)
                /\ Exact(f, purchaseLines) => Exact(g, lines)
<1> DEFINE g == [l \in DOMAIN lines |-> IF l \in DOMAIN purchaseLines THEN f[l] ELSE 0]
<1>1. /\ \A l \in DOMAIN purchaseLines :
           /\ g[l] = f[l] /\ f[l] \in Int /\ 0 <= f[l] /\ l \in DOMAIN lines
           /\ lines[l].product = purchaseLines[l].product
           /\ lines[l].received = purchaseLines[l].received
           /\ purchaseLines[l].received <= f[l]
      /\ \A l \in DOMAIN lines \ DOMAIN purchaseLines :
           g[l] = 0 /\ lines[l].received = 0
  BY DEF ArrivedWith, LinesLike
<1>2. g \in [DOMAIN lines -> Int]
  <2>1. \A l \in DOMAIN lines : (IF l \in DOMAIN purchaseLines THEN f[l] ELSE 0) \in Int
    BY DEF ArrivedWith
  <2> QED
    BY <2>1
<1> HIDE DEF g
<1>3. \A l \in DOMAIN lines : 0 <= g[l] /\ lines[l].received <= g[l] /\ g[l] \in Int
  BY <1>1, <1>2
<1>4. ASSUME NEW b \in Buyers, NEW l \in DOMAIN threads[b].read
      PROVE  /\ threads[b].read[l].received <= g[l]
             /\ threads[b].read[l].product = lines[l].product
  <2>1. CASE threads[b].read = buyer[b].read
    <3>1. l \in DOMAIN purchaseLines
      BY <2>1, AtBuyer
    <3>2. /\ buyer[b].read[l].received <= f[l]
          /\ buyer[b].read[l].product = purchaseLines[l].product
      BY <2>1 DEF ArrivedWith
    <3> QED
      BY <1>1, <2>1, <3>1, <3>2
  <2>2. CASE l \in DOMAIN purchaseLines /\ threads[b].read[l] = purchaseLines[l]
    BY <1>1, <2>2
  <2> QED
    BY <2>1, <2>2 DEF ReadsLines
<1>5. ASSUME NEW p \in Products
      PROVE  NetAmong(rows, KindRows("purchase_order", p))
               = SumFunctionOnSet(g, {l \in DOMAIN lines : lines[l].product = p})
  <2> DEFINE S == {l \in DOMAIN lines : lines[l].product = p}
             T == {l \in DOMAIN purchaseLines : purchaseLines[l].product = p}
             net == NetAmong(rows, KindRows("purchase_order", p))
  <2>1. net = SumFunctionOnSet(f, T)
    BY DEF ArrivedWith, NoArrivals
  <2>2. T \subseteq S /\ \A l \in S \ T : g[l] = 0
    BY <1>1
  <2>3. IsFiniteSet(S) /\ IsFiniteSet(T)
    <3>1. S \subseteq DOMAIN lines
      OBVIOUS
    <3> HIDE DEF S, T
    <3> QED
      BY <2>2, <3>1, PositionsFinite, FS_Subset
  <2>4. \A l \in S : g[l] \in Int
    BY <1>3
  <2>5. \A l \in T : f[l] = g[l]
    BY <1>1
  <2> HIDE DEF S, T, net
  <2>6. SumFunctionOnSet(g, S) = SumFunctionOnSet(g, T)
    BY <2>2, <2>3, <2>4, SumOfPart
  <2>7. SumFunctionOnSet(f, T) = SumFunctionOnSet(g, T)
    BY <2>3, <2>5, SumSame
  <2> QED
    BY <2>1, <2>6, <2>7 DEF S, net
<1>6. ArrivedWith(g, lines, threads, rows)
  BY <1>2, <1>3, <1>4, <1>5 DEF ArrivedWith
<1>7. Exact(f, purchaseLines) => Exact(g, lines)
  BY <1>1 DEF Exact
<1> QED
  BY <1>6, <1>7

-----------------------------------------------------------------------------
(* A receipt *)

(***************************************************************************)
(* What a receipt records for a product is what it was asked to receive of *)
(* the lines it has read for that product.                                 *)
(***************************************************************************)
LEMMA ArrivalsOfProduct ==
  ASSUME PurchaseTypeOK, NEW b \in Buyers, NEW p \in Products,
         NEW e, \A l \in DOMAIN buyer[b].read : e[l] = buyer[b].qtys[l]
  PROVE  NetAmong(Arrivals(b), KindRows("purchase_order", p))
           = SumFunctionOnSet(e, {l \in DOMAIN buyer[b].read : buyer[b].read[l].product = p})
<1> DEFINE S == DOMAIN buyer[b].read
           row == [l \in S |->
                     [reference |-> "purchase_order", id |-> buyer[b].order,
                      product |-> buyer[b].read[l].product,
                      delta |-> buyer[b].qtys[l]]]
           at == InIdOrder(S)
           N == Cardinality(S)
           counted == KindRows("purchase_order", p)
           arrivals == Arrivals(b)
           T == {l \in S : buyer[b].read[l].product = p}
<1>1. /\ S \subseteq Nat /\ IsFiniteSet(S) /\ buyer[b].order \in Nat
      /\ \A l \in S : buyer[b].read[l] \in OrderLineRow /\ buyer[b].qtys[l] \in Nat
  BY AtBuyer
<1>2. \A l \in S : buyer[b].read[l].product \in Products /\ buyer[b].qtys[l] \in Int
  BY <1>1 DEF OrderLineRow
<1>3. \A l \in S : row[l].delta \in Int
  BY <1>2
<1>4. \A l \in S : row[l] \in counted <=> buyer[b].read[l].product = p
  BY <1>1, <1>2 DEF KindRows, MovementRow
<1>5. N \in Nat /\ at \in [1 .. N -> S]
  BY <1>1, IdsInOrder
<1>6. /\ \A l \in S : \E n \in 1 .. N : at[n] = l
      /\ \A m, n \in 1 .. N : at[m] = at[n] => m = n
  BY <1>1, EachIdOnce
<1>7. arrivals = [n \in DOMAIN at |->
                       [reference |-> "purchase_order", id |-> buyer[b].order,
                        product |-> buyer[b].read[at[n]].product,
                        delta |-> buyer[b].qtys[at[n]]]]
  BY DEF Arrivals, MapSeq
<1> HIDE DEF at, arrivals
<1>8. DOMAIN arrivals = 1 .. N /\ \A n \in 1 .. N : arrivals[n] = row[at[n]]
  BY <1>5, <1>7
<1>9. \A l \in T : e[l] = row[l].delta
  OBVIOUS
<1> HIDE DEF row, counted, N
<1>10. T \subseteq S /\ \A l \in S : l \in T <=> row[l] \in counted
  BY <1>4
<1> HIDE DEF S, T
<1>11. ListsOnce(at, N, S)
  BY <1>1, <1>5, <1>6 DEF ListsOnce
<1>12. RowsListed(arrivals, row, at, N)
  BY <1>8 DEF RowsListed
<1>13. CountedOf(e, T, row, S, counted)
  BY <1>3, <1>9, <1>10 DEF CountedOf
<1>14. NetAmong(arrivals, counted) = SumFunctionOnSet(e, T)
  BY <1>11, <1>12, <1>13, NetOfListed
<1> QED
  BY <1>14 DEF arrivals, counted, T, S

(***************************************************************************)
(* The lines a receipt has read are still the lines there are.             *)
(***************************************************************************)
ReadIsCurrent(b) ==
  \A l \in DOMAIN buyer[b].read :
    purchaseLines[l].order # NoOrder /\ buyer[b].read[l] = purchaseLines[l]

(***************************************************************************)
(* The lines as a receipt commits them.                                    *)
(***************************************************************************)
LEMMA ReceivedOfLines ==
  ASSUME PurchaseTypeOK, NEW b \in Buyers
  PROVE  /\ DOMAIN ReceivedLines(b) = DOMAIN purchaseLines
         /\ \A l \in DOMAIN purchaseLines :
              /\ ReceivedLines(b)[l].product = purchaseLines[l].product
              /\ ReceivedLines(b)[l].order = purchaseLines[l].order
              /\ ReceivedLines(b)[l].ordered = purchaseLines[l].ordered
              /\ \/ /\ l \in DOMAIN buyer[b].read /\ purchaseLines[l].order # NoOrder
                    /\ ReceivedLines(b)[l].received
                         = buyer[b].read[l].received + buyer[b].qtys[l]
                 \/ /\ l \notin DOMAIN buyer[b].read \/ purchaseLines[l].order = NoOrder
                    /\ ReceivedLines(b)[l].received = purchaseLines[l].received
<1>1. DOMAIN ReceivedLines(b) = DOMAIN purchaseLines
  BY ReceivedLinesType
<1>2. ASSUME NEW l \in DOMAIN purchaseLines
      PROVE  /\ ReceivedLines(b)[l].product = purchaseLines[l].product
             /\ ReceivedLines(b)[l].order = purchaseLines[l].order
             /\ ReceivedLines(b)[l].ordered = purchaseLines[l].ordered
             /\ \/ /\ l \in DOMAIN buyer[b].read /\ purchaseLines[l].order # NoOrder
                   /\ ReceivedLines(b)[l].received
                        = buyer[b].read[l].received + buyer[b].qtys[l]
                \/ /\ l \notin DOMAIN buyer[b].read \/ purchaseLines[l].order = NoOrder
                   /\ ReceivedLines(b)[l].received = purchaseLines[l].received
  <2> DEFINE n == buyer[b].read[l].received + buyer[b].qtys[l]
             line == purchaseLines[l]
  <2>1. line \in OrderLineRow
    BY PurchaseRows
  <2>2. CASE l \in DOMAIN buyer[b].read /\ line.order # NoOrder
    <3>1. ReceivedLines(b)[l] = [line EXCEPT !.received = n]
      BY <2>2 DEF ReceivedLines
    <3> HIDE DEF n, line
    <3> QED
      BY <2>1, <2>2, <3>1 DEF OrderLineRow, n, line
  <2>3. CASE ~(l \in DOMAIN buyer[b].read /\ line.order # NoOrder)
    BY <2>3 DEF ReceivedLines
  <2> QED
    BY <2>2, <2>3
<1> QED
  BY <1>1, <1>2

(***************************************************************************)
(* A receipt adds to the stock what it adds to the numbers it has read: to *)
(* what arrived, at least what it adds to the lines.                       *)
(***************************************************************************)
LEMMA ReceiptArrives ==
  ASSUME PurchaseTypeOK, StockType, NEW b \in Buyers, CommitReceipt(b),
         NEW f, ArrivedWith(f, purchaseLines, buyer, movements)
  PROVE  \E g : /\ ArrivedWith(g, purchaseLines', buyer', movements')
                /\ Exact(f, purchaseLines) /\ ReadIsCurrent(b) => Exact(g, purchaseLines')
<1> DEFINE R == DOMAIN buyer[b].read
           e == [l \in DOMAIN purchaseLines |-> IF l \in R THEN buyer[b].qtys[l] ELSE 0]
           g == [l \in DOMAIN purchaseLines |-> f[l] + e[l]]
           lines == ReceivedLines(b)
<1>1. /\ purchaseLines' = lines /\ Done(b)
      /\ movements' = movements \o Arrivals(b)
  BY DEF CommitReceipt, RecordMovements
<1>2. /\ R \subseteq DOMAIN purchaseLines
      /\ \A l \in R : buyer[b].qtys[l] \in Nat /\ buyer[b].read[l] \in OrderLineRow
  BY AtBuyer
<1>3. \A l \in DOMAIN purchaseLines :
        /\ e[l] \in Int /\ 0 <= e[l]
        /\ l \in R => e[l] = buyer[b].qtys[l]
        /\ l \notin R => e[l] = 0
        /\ g[l] = f[l] + e[l]
  BY <1>2
<1>4. \A l \in DOMAIN purchaseLines :
        /\ f[l] \in Int /\ 0 <= f[l] /\ purchaseLines[l].received <= f[l]
        /\ purchaseLines[l].received \in Int
  BY PurchaseRows DEF ArrivedWith, OrderLineRow
<1> HIDE DEF e
<1>5. g \in [DOMAIN purchaseLines -> Int]
  BY <1>3, <1>4
<1> HIDE DEF g
<1>6. DOMAIN lines = DOMAIN purchaseLines
  BY ReceivedOfLines
<1>7. ASSUME NEW l \in DOMAIN purchaseLines
      PROVE  0 <= g[l] /\ lines[l].received <= g[l] /\ f[l] <= g[l]
  <2>1. CASE l \in R /\ lines[l].received = buyer[b].read[l].received + buyer[b].qtys[l]
    <3>1. buyer[b].read[l].received <= f[l] /\ buyer[b].read[l].received \in Int
      BY <1>2, <2>1 DEF ArrivedWith, OrderLineRow
    <3>2. buyer[b].qtys[l] \in Nat /\ e[l] = buyer[b].qtys[l]
      BY <1>2, <1>3, <2>1
    <3> QED
      BY <1>3, <1>4, <2>1, <3>1, <3>2
  <2>2. CASE lines[l].received = purchaseLines[l].received
    BY <1>3, <1>4, <2>2
  <2> QED
    BY <2>1, <2>2, ReceivedOfLines
<1>8. ASSUME NEW c \in Buyers, NEW l \in DOMAIN buyer'[c].read
      PROVE  /\ buyer'[c].read[l].received <= g[l]
             /\ buyer'[c].read[l].product = lines[l].product
  <2>1. c # b
    <3>1. buyer'[b] = IdleBuyer
      BY <1>1 DEF Done, PurchaseTypeOK
    <3> QED
      BY <3>1, IdleBuyerType
  <2>2. buyer'[c] = buyer[c]
    BY <1>1, <2>1 DEF Done, PurchaseTypeOK
  <2>3. l \in DOMAIN purchaseLines /\ buyer[c].read[l].received \in Int
    BY <2>2, AtBuyer DEF OrderLineRow
  <2>4. buyer[c].read[l].received <= f[l] /\ buyer[c].read[l].product = purchaseLines[l].product
    BY <2>2 DEF ArrivedWith
  <2>5. lines[l].product = purchaseLines[l].product
    BY <2>3, ReceivedOfLines
  <2>6. f[l] <= g[l] /\ f[l] \in Int /\ g[l] \in Int
    BY <1>4, <1>5, <1>7, <2>3
  <2> QED
    BY <2>2, <2>3, <2>4, <2>5, <2>6
<1>9. ASSUME NEW p \in Products
      PROVE  NetAmong(movements', KindRows("purchase_order", p))
               = SumFunctionOnSet(g, {l \in DOMAIN lines : lines[l].product = p})
  <2> DEFINE counted == KindRows("purchase_order", p)
             S == {l \in DOMAIN purchaseLines : purchaseLines[l].product = p}
             T == {l \in R : buyer[b].read[l].product = p}
  <2>1. {l \in DOMAIN lines : lines[l].product = p} = S
    BY <1>6, ReceivedOfLines
  <2>2. T \subseteq S /\ \A l \in S \ T : e[l] = 0
    <3>1. \A l \in R : buyer[b].read[l].product = purchaseLines[l].product
      BY DEF ArrivedWith
    <3> QED
      BY <1>2, <1>3, <3>1
  <2>3. IsFiniteSet(S)
    BY PositionsFinite DEF PurchaseTypeOK
  <2>4. \A l \in S : f[l] \in Int /\ e[l] \in Int /\ g[l] = f[l] + e[l]
    BY <1>3, <1>4
  <2>5. NetAmong(movements, counted) = SumFunctionOnSet(f, S)
    BY DEF ArrivedWith
  <2>6. NetAmong(Arrivals(b), counted) = SumFunctionOnSet(e, T)
    BY <1>2, <1>3, ArrivalsOfProduct
  <2>7. NetAmong(movements \o Arrivals(b), counted)
          = NetAmong(movements, counted) + NetAmong(Arrivals(b), counted)
    <3>1. ArrivalRow \subseteq MovementRow
      BY DEF ArrivalRow
    <3>2. Arrivals(b) \in Seq(MovementRow)
      BY <3>1, ArrivalsType
    <3>3. movements \in Seq(MovementRow)
      BY DEF StockType
    <3>4. \A r \in MovementRow : r.delta \in Int
      BY DEF MovementRow
    <3> QED
      BY <3>2, <3>3, <3>4, NetOfBoth
  <2> HIDE DEF S, T, counted
  <2>8. SumFunctionOnSet(e, S) = SumFunctionOnSet(e, T)
    BY <2>2, <2>3, <2>4, SumOfPart
  <2>9. SumFunctionOnSet(g, S) = SumFunctionOnSet(f, S) + SumFunctionOnSet(e, S)
    BY <2>3, <2>4, SumOfSums
  <2> QED
    BY <1>1, <2>1, <2>5, <2>6, <2>7, <2>8, <2>9 DEF counted
<1>10. ArrivedWith(g, purchaseLines', buyer', movements')
  <2>1. DOMAIN purchaseLines' = DOMAIN purchaseLines
    BY <1>1, <1>6
  <2>2. ArrivedWith(g, lines, buyer', movements')
    BY <1>5, <1>6, <1>7, <1>8, <1>9 DEF ArrivedWith
  <2> QED
    BY <1>1, <2>2
<1>11. ASSUME Exact(f, purchaseLines), ReadIsCurrent(b)
       PROVE  Exact(g, lines)
  <2> SUFFICES ASSUME NEW l \in DOMAIN purchaseLines PROVE g[l] = lines[l].received
    BY <1>6 DEF Exact
  <2>1. f[l] = purchaseLines[l].received
    BY <1>11 DEF Exact
  <2>2. CASE l \in R
    <3>1. purchaseLines[l].order # NoOrder /\ buyer[b].read[l] = purchaseLines[l]
      BY <1>11, <2>2 DEF ReadIsCurrent
    <3>2. lines[l].received = purchaseLines[l].received + buyer[b].qtys[l]
      BY <2>2, <3>1, ReceivedOfLines
    <3> QED
      BY <1>3, <2>1, <2>2, <3>2
  <2>3. CASE l \notin R
    <3>1. lines[l].received = purchaseLines[l].received
      BY <2>3, ReceivedOfLines
    <3> QED
      BY <1>3, <1>4, <2>1, <2>3, <3>1
  <2> QED
    BY <2>2, <2>3
<1> QED
  BY <1>1, <1>10, <1>11

-----------------------------------------------------------------------------
(* The other steps of a purchase *)

(***************************************************************************)
(* New lines come after the others and have received nothing.              *)
(***************************************************************************)
LEMMA LinesAdded ==
  ASSUME PurchaseTypeOK, NEW lines \in Seq(OrderLineRow),
         DOMAIN lines = DOMAIN purchaseLines, NEW o \in Nat, NEW basket \in Seq(BasketLine)
  PROVE  /\ DOMAIN lines \subseteq DOMAIN (lines \o NewOrderLines(o, basket))
         /\ \A l \in DOMAIN lines : (lines \o NewOrderLines(o, basket))[l] = lines[l]
         /\ \A l \in DOMAIN (lines \o NewOrderLines(o, basket)) \ DOMAIN lines :
              /\ (lines \o NewOrderLines(o, basket))[l].received = 0
              /\ (lines \o NewOrderLines(o, basket))[l].ordered \in OrderedQty
              /\ (lines \o NewOrderLines(o, basket))[l].order = o
<1> DEFINE new == NewOrderLines(o, basket)
           all == lines \o new
<1>1. /\ new \in Seq(OrderLineRow) /\ DOMAIN new = DOMAIN basket
      /\ \A n \in DOMAIN basket : /\ new[n].received = 0
                                  /\ new[n].ordered = basket[n].ordered
                                  /\ new[n].order = o
  BY NewOrderLinesType DEF NewOrderLines
<1>2. \A n \in DOMAIN basket : basket[n].ordered \in OrderedQty
  <2> SUFFICES ASSUME NEW n \in DOMAIN basket PROVE basket[n].ordered \in OrderedQty
    OBVIOUS
  <2>1. basket[n] \in BasketLine
    BY LenProperties, ElementOfSeq
  <2> QED
    BY <2>1 DEF BasketLine
<1> HIDE DEF new
<1>3. /\ Len(all) = Len(lines) + Len(new) /\ Len(lines) \in Nat /\ Len(new) \in Nat
      /\ DOMAIN all = 1 .. Len(all) /\ DOMAIN lines = 1 .. Len(lines)
      /\ DOMAIN new = 1 .. Len(new)
      /\ \A i \in 1 .. Len(lines) : all[i] = lines[i]
      /\ \A i \in 1 .. Len(new) : all[Len(lines) + i] = new[i]
  BY <1>1, ConcatProperties, LenProperties
<1> HIDE DEF all
<1>4. ASSUME NEW l \in DOMAIN all \ DOMAIN lines
      PROVE  all[l].received = 0 /\ all[l].ordered \in OrderedQty /\ all[l].order = o
  <2>1. l - Len(lines) \in 1 .. Len(new) /\ Len(lines) + (l - Len(lines)) = l
    BY <1>3
  <2>2. all[l] = new[l - Len(lines)]
    BY <1>3, <2>1
  <2> QED
    BY <1>1, <1>2, <1>3, <2>1, <2>2
<1>5. DOMAIN lines \subseteq DOMAIN all /\ \A l \in DOMAIN lines : all[l] = lines[l]
  BY <1>3
<1> QED
  BY <1>4, <1>5 DEF all, new

LEMMA SameLinesLike ==
  ASSUME PurchaseTypeOK
  PROVE  LinesLike(purchaseLines, purchaseLines)
  BY DEF LinesLike

(***************************************************************************)
(* An update replaces the lines of its order, or detaches them, and adds   *)
(* the new ones; none loses what it received.                              *)
(***************************************************************************)
LEMMA BaseOfUpdate ==
  ASSUME PurchaseTypeOK, NEW b \in Buyers
  PROVE  \E lines \in Seq(OrderLineRow) :
           /\ UpdatedLines(b) = lines \o NewOrderLines(buyer[b].order, buyer[b].added)
           /\ DOMAIN lines = DOMAIN purchaseLines
           /\ \A l \in DOMAIN purchaseLines :
                /\ lines[l].product = purchaseLines[l].product
                /\ lines[l].received = purchaseLines[l].received
                /\ l \in Dropped(b) => /\ lines[l].order = NoOrder
                                       /\ lines[l].ordered = purchaseLines[l].ordered
                /\ l \in LineIds(purchaseLines, buyer[b].order) \ Dropped(b) =>
                     /\ lines[l].order = purchaseLines[l].order
                     /\ lines[l].ordered = buyer[b].qtys[l]
                /\ l \notin LineIds(purchaseLines, buyer[b].order) =>
                     lines[l] = purchaseLines[l]
<1> DEFINE ls == LineIds(purchaseLines, buyer[b].order)
           line(l) == CASE l \in Dropped(b) -> [purchaseLines[l] EXCEPT !.order = NoOrder]
                        [] l \in ls \ Dropped(b) ->
                             [purchaseLines[l] EXCEPT !.ordered = buyer[b].qtys[l]]
                        [] OTHER -> purchaseLines[l]
           lines == [l \in DOMAIN purchaseLines |-> line(l)]
<1>1. UpdatedLines(b) = lines \o NewOrderLines(buyer[b].order, buyer[b].added)
  BY DEF UpdatedLines
<1>2. IsBuyer(buyer[b])
  BY AtBuyer
<1>3. Dropped(b) \subseteq ls
  BY DEF Dropped
<1>4. ASSUME NEW l \in DOMAIN purchaseLines
      PROVE  /\ line(l) \in OrderLineRow
             /\ line(l).product = purchaseLines[l].product
             /\ line(l).received = purchaseLines[l].received
             /\ l \in Dropped(b) => /\ line(l).order = NoOrder
                                    /\ line(l).ordered = purchaseLines[l].ordered
             /\ l \in ls \ Dropped(b) => /\ line(l).order = purchaseLines[l].order
                                         /\ line(l).ordered = buyer[b].qtys[l]
             /\ l \notin ls => line(l) = purchaseLines[l]
  <2>1. purchaseLines[l] \in OrderLineRow
    BY PurchaseRows
  <2>2. CASE l \in Dropped(b)
    <3>1. line(l) = [purchaseLines[l] EXCEPT !.order = NoOrder]
      BY <2>2
    <3> HIDE DEF line, ls
    <3> QED
      BY <1>3, <2>1, <2>2, <3>1 DEF OrderLineRow, NoOrder
  <2>3. CASE l \in ls \ Dropped(b)
    <3>1. line(l) = [purchaseLines[l] EXCEPT !.ordered = buyer[b].qtys[l]]
      BY <2>3
    <3>2. l \in DOMAIN buyer[b].qtys
      BY <2>3 DEF Dropped
    <3>3. buyer[b].qtys[l] \in Nat
      BY <1>2, <3>2 DEF IsBuyer
    <3> HIDE DEF line, ls
    <3> QED
      BY <2>1, <2>3, <3>1, <3>3 DEF OrderLineRow
  <2>4. CASE l \notin ls
    BY <1>3, <2>1, <2>4
  <2> QED
    BY <2>2, <2>3, <2>4
<1> HIDE DEF line
<1>5. lines \in [DOMAIN purchaseLines -> OrderLineRow]
  BY <1>4
<1>6. lines \in Seq(OrderLineRow)
  BY <1>5, SameLength DEF PurchaseTypeOK
<1>7. \A l \in DOMAIN purchaseLines : lines[l] = line(l)
  OBVIOUS
<1> HIDE DEF lines
<1>8. DOMAIN lines = DOMAIN purchaseLines
  BY <1>5
<1>9. \A l \in DOMAIN purchaseLines :
        /\ lines[l].product = purchaseLines[l].product
        /\ lines[l].received = purchaseLines[l].received
        /\ l \in Dropped(b) => /\ lines[l].order = NoOrder
                               /\ lines[l].ordered = purchaseLines[l].ordered
        /\ l \in ls \ Dropped(b) => /\ lines[l].order = purchaseLines[l].order
                                    /\ lines[l].ordered = buyer[b].qtys[l]
        /\ l \notin ls => lines[l] = purchaseLines[l]
  BY <1>4, <1>7
<1> QED
  BY <1>1, <1>6, <1>8, <1>9

LEMMA UpdateKeepsReceived ==
  ASSUME PurchaseTypeOK, NEW b \in Buyers
  PROVE  LinesLike(purchaseLines, UpdatedLines(b))
<1>1. PICK lines \in Seq(OrderLineRow) :
        /\ UpdatedLines(b) = lines \o NewOrderLines(buyer[b].order, buyer[b].added)
        /\ DOMAIN lines = DOMAIN purchaseLines
        /\ \A l \in DOMAIN purchaseLines :
             /\ lines[l].product = purchaseLines[l].product
             /\ lines[l].received = purchaseLines[l].received
  BY BaseOfUpdate
<1>2. buyer[b].order \in Nat /\ buyer[b].added \in Seq(BasketLine)
  BY AtBuyer DEF IsBuyer
<1> DEFINE all == lines \o NewOrderLines(buyer[b].order, buyer[b].added)
<1>3. /\ DOMAIN lines \subseteq DOMAIN all
      /\ \A l \in DOMAIN lines : all[l] = lines[l]
      /\ \A l \in DOMAIN all \ DOMAIN lines : all[l].received = 0
  BY <1>1, <1>2, LinesAdded
<1> HIDE DEF all
<1>4. LinesLike(purchaseLines, all)
  BY <1>1, <1>3 DEF LinesLike
<1> QED
  BY <1>1, <1>4 DEF all

(***************************************************************************)
(* A step of one thread, the others have read what they had.               *)
(***************************************************************************)
LEMMA ReadsOf ==
  ASSUME PurchaseTypeOK, NEW b \in Buyers, NEW d, buyer' = [buyer EXCEPT ![b] = d],
         \/ d.read = buyer[b].read
         \/ \A l \in DOMAIN d.read : l \in DOMAIN purchaseLines /\ d.read[l] = purchaseLines[l]
  PROVE  ReadsLines(buyer', buyer, purchaseLines)
<1> SUFFICES ASSUME NEW c \in Buyers
             PROVE  \/ buyer'[c].read = buyer[c].read
                    \/ \A l \in DOMAIN buyer'[c].read :
                         l \in DOMAIN purchaseLines /\ buyer'[c].read[l] = purchaseLines[l]
  BY DEF ReadsLines
<1>1. CASE c = b
  <2>1. buyer'[c] = d
    BY <1>1 DEF PurchaseTypeOK
  <2> QED
    BY <1>1, <2>1
<1>2. CASE c # b
  <2>1. buyer'[c] = buyer[c]
    BY <1>2 DEF PurchaseTypeOK
  <2> QED
    BY <2>1
<1> QED
  BY <1>1, <1>2

LEMMA ReadsWhenDone ==
  ASSUME PurchaseTypeOK, NEW b \in Buyers, Done(b)
  PROVE  ReadsLines(buyer', buyer, purchaseLines)
<1> DEFINE d == IdleBuyer
<1>1. buyer' = [buyer EXCEPT ![b] = d] /\ DOMAIN d.read = {}
  BY IdleBuyerType DEF Done
<1> HIDE DEF d
<1> QED
  BY <1>1, ReadsOf

LEMMA StartsRead ==
  ASSUME PurchaseTypeOK, NEW b \in Buyers,
         StartUpdate(b) \/ StartReceipt(b) \/ StartDelete(b)
  PROVE  ReadsLines(buyer', buyer, purchaseLines)
<1> DEFINE i == IdleBuyer
<1>1. DOMAIN i = {"step", "op", "order", "status", "qtys", "added", "read"}
      /\ DOMAIN i.read = {}
  BY IdleBuyerType DEF IsBuyer
<1>2. ASSUME NEW o, NEW status, NEW q, NEW added,
             buyer' = [buyer EXCEPT ![b] =
               [i EXCEPT !.step = "write", !.op = "update", !.order = o,
                         !.status = status, !.qtys = q, !.added = added]]
      PROVE  ReadsLines(buyer', buyer, purchaseLines)
  <2> DEFINE d == [i EXCEPT !.step = "write", !.op = "update", !.order = o,
                            !.status = status, !.qtys = q, !.added = added]
  <2> HIDE DEF i
  <2>1. d.read = i.read /\ buyer' = [buyer EXCEPT ![b] = d]
    BY <1>1, <1>2
  <2> HIDE DEF d
  <2> QED
    BY <1>1, <2>1, ReadsOf
<1>3. ASSUME NEW o, NEW q,
             buyer' = [buyer EXCEPT ![b] =
               [i EXCEPT !.step = "lines", !.op = "receive", !.order = o, !.qtys = q]]
      PROVE  ReadsLines(buyer', buyer, purchaseLines)
  <2> DEFINE d == [i EXCEPT !.step = "lines", !.op = "receive", !.order = o, !.qtys = q]
  <2> HIDE DEF i
  <2>1. d.read = i.read /\ buyer' = [buyer EXCEPT ![b] = d]
    BY <1>1, <1>3
  <2> HIDE DEF d
  <2> QED
    BY <1>1, <2>1, ReadsOf
<1>4. ASSUME NEW o,
             buyer' = [buyer EXCEPT ![b] =
               [i EXCEPT !.step = "write", !.op = "delete", !.order = o]]
      PROVE  ReadsLines(buyer', buyer, purchaseLines)
  <2> DEFINE d == [i EXCEPT !.step = "write", !.op = "delete", !.order = o]
  <2> HIDE DEF i
  <2>1. d.read = i.read /\ buyer' = [buyer EXCEPT ![b] = d]
    BY <1>1, <1>4
  <2> HIDE DEF d
  <2> QED
    BY <1>1, <2>1, ReadsOf
<1>5. CASE StartUpdate(b)
  <2>1. PICK o \in Stored, status \in NewStatuses, added \in Baskets \cup {<< >>} :
          \E q \in Maps(LineIds(purchaseLines, o), OrderedQty \cup {0}) :
            buyer' = [buyer EXCEPT ![b] =
              [i EXCEPT !.step = "write", !.op = "update", !.order = o,
                        !.status = status, !.qtys = q, !.added = added]]
    BY <1>5 DEF StartUpdate
  <2> HIDE DEF i
  <2> QED
    BY <1>2, <2>1
<1>6. CASE StartReceipt(b)
  <2>1. PICK o \in Stored :
          \E q \in Maps(LineIds(purchaseLines, o), OrderedQty) :
            buyer' = [buyer EXCEPT ![b] =
              [i EXCEPT !.step = "lines", !.op = "receive", !.order = o, !.qtys = q]]
    BY <1>6 DEF StartReceipt
  <2> HIDE DEF i
  <2> QED
    BY <1>3, <2>1
<1>7. CASE StartDelete(b)
  <2>1. PICK o \in Stored :
          buyer' = [buyer EXCEPT ![b] =
            [i EXCEPT !.step = "write", !.op = "delete", !.order = o]]
    BY <1>7 DEF StartDelete
  <2> HIDE DEF i
  <2> QED
    BY <1>4, <2>1
<1> QED
  BY <1>5, <1>6, <1>7

LEMMA ReceiptReads ==
  ASSUME PurchaseTypeOK, NEW b \in Buyers, ReadReceiptLines(b) \/ WriteReceipt(b)
  PROVE  ReadsLines(buyer', buyer, purchaseLines)
<1> DEFINE r == buyer[b]
           found == DOMAIN r.qtys \cap LineIds(purchaseLines, r.order)
           read == [l \in found |-> purchaseLines[l]]
           status == Refreshed(purchases[r.order].status, ReceivedLines(b), r.order)
<1>1. \/ Done(b)
      \/ buyer' = [buyer EXCEPT ![b].step = "write", ![b].read = read]
      \/ buyer' = [buyer EXCEPT ![b].step = "commit", ![b].status = status]
  BY DEF ReadReceiptLines, WriteReceipt
<1>2. IsBuyer(r)
  BY AtBuyer
<1>3. found \subseteq DOMAIN purchaseLines
  BY DEF LineIds
<1>4. CASE buyer' = [buyer EXCEPT ![b].step = "write", ![b].read = read]
  <2> DEFINE d == [r EXCEPT !.step = "write", !.read = read]
  <2>1. buyer' = [buyer EXCEPT ![b] = d]
    BY <1>4 DEF PurchaseTypeOK
  <2>2. \A l \in DOMAIN read : l \in DOMAIN purchaseLines /\ read[l] = purchaseLines[l]
    BY <1>3
  <2> HIDE DEF r, read, found
  <2>3. d.read = read
    BY <1>2 DEF IsBuyer
  <2> HIDE DEF d
  <2> QED
    BY <2>1, <2>2, <2>3, ReadsOf
<1>5. CASE buyer' = [buyer EXCEPT ![b].step = "commit", ![b].status = status]
  <2> DEFINE d == [r EXCEPT !.step = "commit", !.status = status]
  <2>1. buyer' = [buyer EXCEPT ![b] = d]
    BY <1>5 DEF PurchaseTypeOK
  <2> HIDE DEF status
  <2>2. d.read = buyer[b].read
    BY <1>2 DEF IsBuyer
  <2> HIDE DEF d
  <2> QED
    BY <2>1, <2>2, ReadsOf
<1> QED
  BY <1>1, <1>4, <1>5, ReadsWhenDone

(***************************************************************************)
(* Only CommitReceipt moves stock or changes what a line received.         *)
(***************************************************************************)
LEMMA OtherPurchaseSteps ==
  ASSUME PurchaseTypeOK, NEW b \in Buyers, PurchaseArrival(b) \/ PurchaseWork(b),
         ~CommitReceipt(b)
  PROVE  /\ LinesLike(purchaseLines, purchaseLines')
         /\ ReadsLines(buyer', buyer, purchaseLines)
         /\ NoMovement
<1>1. CASE CreatePurchase(b)
  <2> DEFINE o == Len(purchases) + 1
  <2>1. PICK basket \in Baskets : purchaseLines' = purchaseLines \o NewOrderLines(o, basket)
    BY <1>1 DEF CreatePurchase
  <2>2. buyer' = buyer /\ NoMovement
    BY <1>1 DEF CreatePurchase
  <2>3. o \in Nat /\ basket \in Seq(BasketLine) /\ purchaseLines \in Seq(OrderLineRow)
    BY LenProperties, PurchaseConstants DEF PurchaseTypeOK
  <2> HIDE DEF o
  <2> DEFINE all == purchaseLines \o NewOrderLines(o, basket)
  <2>4. /\ DOMAIN purchaseLines \subseteq DOMAIN all
        /\ \A l \in DOMAIN purchaseLines : all[l] = purchaseLines[l]
        /\ \A l \in DOMAIN all \ DOMAIN purchaseLines : all[l].received = 0
    BY <2>3, LinesAdded
  <2> HIDE DEF all
  <2>5. LinesLike(purchaseLines, all)
    BY <2>4 DEF LinesLike
  <2> QED
    BY <2>1, <2>2, <2>5 DEF all, ReadsLines
<1>2. CASE StartUpdate(b) \/ StartReceipt(b) \/ StartDelete(b)
  <2>1. NoMovement /\ purchaseLines' = purchaseLines
    BY <1>2 DEF StartUpdate, StartReceipt, StartDelete, purchaseTables
  <2> QED
    BY <1>2, <2>1, StartsRead, SameLinesLike
<1>3. CASE FinishUpdate(b)
  <2>1. /\ NoMovement /\ Done(b)
        /\ purchaseLines' = purchaseLines \/ purchaseLines' = UpdatedLines(b)
    BY <1>3 DEF FinishUpdate, purchaseTables
  <2> QED
    BY <2>1, ReadsWhenDone, SameLinesLike, UpdateKeepsReceived
<1>4. CASE ReadReceiptLines(b) \/ WriteReceipt(b)
  <2>1. NoMovement /\ purchaseLines' = purchaseLines
    BY <1>4 DEF ReadReceiptLines, WriteReceipt, purchaseTables
  <2> QED
    BY <1>4, <2>1, ReceiptReads, SameLinesLike
<1>5. CASE FinishDelete(b)
  <2> DEFINE o == buyer[b].order
  <2>1. /\ NoMovement /\ Done(b)
        /\ purchaseLines' = [l \in DOMAIN purchaseLines |->
             IF purchaseLines[l].order = o
               THEN [purchaseLines[l] EXCEPT !.order = NoOrder]
               ELSE purchaseLines[l]]
    BY <1>5 DEF FinishDelete
  <2>2. DOMAIN purchaseLines' = DOMAIN purchaseLines
    BY <2>1
  <2>3. ASSUME NEW l \in DOMAIN purchaseLines
        PROVE  /\ purchaseLines'[l].product = purchaseLines[l].product
               /\ purchaseLines'[l].received = purchaseLines[l].received
    <3>1. purchaseLines[l] \in OrderLineRow
      BY PurchaseRows
    <3>2. \/ purchaseLines'[l] = [purchaseLines[l] EXCEPT !.order = NoOrder]
          \/ purchaseLines'[l] = purchaseLines[l]
      BY <2>1
    <3> QED
      BY <3>1, <3>2 DEF OrderLineRow
  <2>4. LinesLike(purchaseLines, purchaseLines')
    BY <2>2, <2>3 DEF LinesLike
  <2> QED
    BY <2>1, <2>4, ReadsWhenDone
<1>6. CASE PurchaseFail(b)
  <2>1. NoMovement /\ purchaseLines' = purchaseLines /\ Done(b)
    BY <1>6 DEF PurchaseFail, purchaseTables
  <2> QED
    BY <2>1, ReadsWhenDone, SameLinesLike
<1> QED
  BY <1>1, <1>2, <1>3, <1>4, <1>5, <1>6 DEF PurchaseArrival, PurchaseWork

(***************************************************************************)
(* Neither the counter nor TikTok records an arrival.                      *)
(***************************************************************************)
LEMMA NoOtherArrivals ==
  ASSUME StockType, NoMovement \/ CounterStep \/ LineStep
  PROVE  NoArrivals(movements, movements')
<1>1. CASE NoMovement
  BY <1>1 DEF NoMovement, NoArrivals
<1>2. ASSUME NEW T, T \subseteq MovementRow, \A r \in T : r.reference # "purchase_order",
             NEW rows \in Seq(T), RecordMovements(rows), NEW p \in Products
      PROVE  NetAmong(movements', KindRows("purchase_order", p))
               = NetAmong(movements, KindRows("purchase_order", p))
  <2> DEFINE counted == KindRows("purchase_order", p)
  <2>1. rows \in Seq(MovementRow) /\ movements \in Seq(MovementRow)
    BY <1>2 DEF StockType
  <2>2. \A r \in MovementRow : r.delta \in Int
    BY DEF MovementRow
  <2>3. \A r \in T : r \notin counted
    BY <1>2 DEF KindRows
  <2>4. movements' = movements \o rows
    BY <1>2 DEF RecordMovements
  <2> HIDE DEF counted
  <2>5. NetAmong(movements \o rows, counted) = NetAmong(movements, counted) + NetAmong(rows, counted)
    BY <2>1, <2>2, NetOfBoth
  <2>6. NetAmong(rows, counted) = 0
    BY <2>3, NetOfOthers
  <2>7. NetAmong(movements, counted) \in Int
    BY <2>1, <2>2, NetType
  <2> QED
    BY <2>4, <2>5, <2>6, <2>7 DEF counted
<1>3. CASE \E rows \in Seq(CounterRow) : RecordMovements(rows)
  <2>1. CounterRow \subseteq MovementRow /\ \A r \in CounterRow : r.reference # "purchase_order"
    BY DEF CounterRow
  <2> QED
    BY <1>2, <1>3, <2>1 DEF NoArrivals
<1>4. CASE \E rows \in Seq(LineMovementRow) : RecordMovements(rows)
  <2>1. /\ LineMovementRow \subseteq MovementRow
        /\ \A r \in LineMovementRow : r.reference # "purchase_order"
    BY DEF LineMovementRow
  <2> QED
    BY <1>2, <1>4, <2>1 DEF NoArrivals
<1> QED
  BY <1>1, <1>3, <1>4 DEF CounterStep, LineStep

-----------------------------------------------------------------------------
(* No phantom receipts *)

(***************************************************************************)
(* The inductive invariant of NoPhantomReceipt.                            *)
(***************************************************************************)
ReceiptsCovered == \E f : ArrivedWith(f, purchaseLines, buyer, movements)

LEMMA NothingArrivedYet ==
  ASSUME WarehouseInit PROVE ReceiptsCovered
<1> DEFINE f == << >>
<1>1. /\ purchaseLines = << >> /\ movements = << >>
      /\ buyer = [b \in Buyers |-> IdleBuyer]
  BY DEF WarehouseInit, PurchaseInit, StockInit
<1>2. \A b \in Buyers : DOMAIN buyer[b].read = {}
  BY <1>1, IdleBuyerType
<1>3. f \in [DOMAIN purchaseLines -> Int] /\ DOMAIN purchaseLines = {}
  BY <1>1
<1> HIDE DEF f
<1>4. ASSUME NEW p \in Products
      PROVE  NetAmong(movements, KindRows("purchase_order", p))
               = SumFunctionOnSet(f, {l \in DOMAIN purchaseLines : purchaseLines[l].product = p})
  <2> DEFINE S == {l \in DOMAIN purchaseLines : purchaseLines[l].product = p}
  <2>1. S = {}
    BY <1>3
  <2> HIDE DEF S
  <2>2. SumFunctionOnSet(f, S) = 0
    BY <2>1, SumOfNone
  <2>3. NetAmong(movements, KindRows("purchase_order", p)) = 0
    BY <1>1, NetOfNone
  <2> QED
    BY <2>2, <2>3 DEF S
<1>5. ArrivedWith(f, purchaseLines, buyer, movements)
  BY <1>2, <1>3, <1>4 DEF ArrivedWith
<1> QED
  BY <1>5 DEF ReceiptsCovered

LEMMA PurchasesElsewhere ==
  ASSUME PurchaseTypeOK, UNCHANGED purchaseVars
  PROVE  /\ LinesLike(purchaseLines, purchaseLines')
         /\ ReadsLines(buyer', buyer, purchaseLines)
  BY SameLinesLike DEF purchaseVars, ReadsLines

(***************************************************************************)
(* It is preserved by every step of the composition.                       *)
(***************************************************************************)
LEMMA ReceiptsStayCovered ==
  ASSUME WarehouseTypeOK, ReceiptsCovered, [WarehouseNext]_warehouseVars
  PROVE  ReceiptsCovered'
<1>1. PICK f : ArrivedWith(f, purchaseLines, buyer, movements)
  BY DEF ReceiptsCovered
<1>2. PurchaseTypeOK /\ StockType
  BY DEF WarehouseTypeOK
<1>3. PurchaseTypeOK'
  BY WarehouseStepTypes, WarehouseStutters DEF WarehouseTypeOK
<1>4. purchaseLines' \in Seq(OrderLineRow)
  BY <1>3 DEF PurchaseTypeOK
<1>5. CASE /\ LinesLike(purchaseLines, purchaseLines')
           /\ ReadsLines(buyer', buyer, purchaseLines)
           /\ NoArrivals(movements, movements')
  <2>1. \E g : ArrivedWith(g, purchaseLines', buyer', movements')
    BY <1>1, <1>2, <1>4, <1>5, ArrivedBefore
  <2> QED
    BY <2>1 DEF ReceiptsCovered
<1>6. CASE \E b \in Buyers : CommitReceipt(b)
  <2>1. \E g : ArrivedWith(g, purchaseLines', buyer', movements')
    BY <1>1, <1>2, <1>6, ReceiptArrives
  <2> QED
    BY <2>1 DEF ReceiptsCovered
<1>7. CASE UNCHANGED warehouseVars
  BY <1>2, <1>5, <1>7, PurchasesElsewhere, NoOtherArrivals DEF warehouseVars, NoMovement
<1>8. CASE WarehouseNext
  <2>1. CASE SellStep /\ CounterStep
    BY <1>2, <1>5, <2>1, PurchasesElsewhere, NoOtherArrivals DEF SellStep
  <2>2. CASE TikTokStep /\ LineStep
    BY <1>2, <1>5, <2>2, PurchasesElsewhere, NoOtherArrivals DEF TikTokStep
  <2>3. CASE BuyStep
    <3>1. PICK b \in workload.buyers : PurchaseArrival(b) \/ PurchaseWork(b)
      BY <2>3 DEF BuyStep
    <3>2. b \in Buyers
      BY DEF WarehouseTypeOK, Workload
    <3>3. CASE ~CommitReceipt(b)
      BY <1>2, <1>5, <3>1, <3>2, <3>3, OtherPurchaseSteps, NoOtherArrivals
    <3> QED
      BY <1>6, <3>2, <3>3
  <2> QED
    BY <1>8, <2>1, <2>2, <2>3, WarehouseStepTypes
<1> QED
  BY <1>7, <1>8

(***************************************************************************)
(* What receive_purchase_order has written into the lines of a product is  *)
(* never more than the movements brought into the stock, however receipts, *)
(* updates and deletions of one order overlap: each receipt adds to a line *)
(* what it adds to the stock, and starts from a number the line once had.  *)
(***************************************************************************)
THEOREM NothingReceivedUnseen == WarehouseSpec => []NoPhantomReceipt
<1>1. WarehouseInit => ReceiptsCovered
  BY NothingArrivedYet
<1>2. WarehouseTypeOK /\ ReceiptsCovered /\ [WarehouseNext]_warehouseVars => ReceiptsCovered'
  BY ReceiptsStayCovered
<1>3. WarehouseTypeOK /\ ReceiptsCovered => NoPhantomReceipt
  <2> SUFFICES ASSUME WarehouseTypeOK, ReceiptsCovered, NEW p \in Products
               PROVE  Received(LinesOfProduct(p)) <= NetOf("purchase_order", p)
    BY DEF NoPhantomReceipt, ReceivedIsInStock
  <2> DEFINE ls == LinesOfProduct(p)
             S == {l \in DOMAIN purchaseLines : purchaseLines[l].product = p}
             received == [l \in DOMAIN purchaseLines |-> purchaseLines[l].received]
  <2>1. PICK f : ArrivedWith(f, purchaseLines, buyer, movements)
    BY DEF ReceiptsCovered
  <2>2. PurchaseTypeOK /\ movements \in Seq(MovementRow)
    BY DEF WarehouseTypeOK, StockType
  <2>3. NetOf("purchase_order", p) = NetAmong(movements, KindRows("purchase_order", p))
    BY <2>2, NetOfKind DEF NetOf
  <2>4. NetAmong(movements, KindRows("purchase_order", p)) = SumFunctionOnSet(f, S)
    BY <2>1 DEF ArrivedWith
  <2>5. Received(ls) = SumFunctionOnSet(received, ls)
    BY LedgerSum DEF Received, TotalOf
  <2>6. ls \subseteq S
    BY DEF LinesOfProduct
  <2>7. IsFiniteSet(S) /\ IsFiniteSet(ls)
    <3>1. IsFiniteSet(S)
      BY <2>2, PositionsFinite DEF PurchaseTypeOK
    <3> HIDE DEF S, ls
    <3> QED
      BY <2>6, <3>1, FS_Subset
  <2>8. \A l \in S : /\ received[l] \in Int /\ f[l] \in Int
                     /\ received[l] <= f[l] /\ 0 <= f[l]
    BY <2>1, <2>2, PurchaseRows DEF ArrivedWith, OrderLineRow
  <2> HIDE DEF S, ls, received
  <2>9. SumFunctionOnSet(received, ls) <= SumFunctionOnSet(f, ls)
    BY <2>6, <2>7, <2>8, SumAtMost
  <2>10. SumFunctionOnSet(f, ls) <= SumFunctionOnSet(f, S)
    BY <2>6, <2>7, <2>8, SumOfFewer
  <2>11. /\ SumFunctionOnSet(received, ls) \in Int /\ SumFunctionOnSet(f, ls) \in Int
         /\ SumFunctionOnSet(f, S) \in Int
    <3>1. (\A l \in ls : received[l] \in Int) /\ (\A l \in ls : f[l] \in Int)
          /\ (\A l \in S : f[l] \in Int)
      BY <2>6, <2>8
    <3> QED
      BY <2>7, <3>1, SumType
  <2> QED
    BY <2>3, <2>4, <2>5, <2>9, <2>10, <2>11 DEF ls
<1> QED
  BY <1>1, <1>2, <1>3, WarehouseTypes, PTL DEF WarehouseSpec

-----------------------------------------------------------------------------
(* What holds unless two requests on one purchase order overlapped *)

(***************************************************************************)
(* ReceivedLines, of any thread and any lines.                             *)
(***************************************************************************)
ReceivedBy(r, lines) ==
  [l \in DOMAIN lines |->
     IF l \in DOMAIN r.read /\ lines[l].order # NoOrder
       THEN [lines[l] EXCEPT !.received = r.read[l].received + r.qtys[l]]
       ELSE lines[l]]

(***************************************************************************)
(* What a thread is going to write is still what follows from the rows.    *)
(***************************************************************************)
StillCurrent(r, orders, lines) ==
  /\ r.step \in {"lines", "commit"} => r.op = "receive"
  /\ r.step \in {"write", "commit"} /\ r.op = "receive" =>
       \A l \in DOMAIN r.read :
         /\ lines[l].order = r.order /\ r.read[l] = lines[l]
         /\ r.qtys[l] <= Remaining(lines[l])
  /\ r.step = "commit" =>
       r.status = Refreshed(orders[r.order].status, ReceivedBy(r, lines), r.order)
  /\ r.step = "write" /\ r.op = "delete" =>
       \A l \in LineIds(lines, r.order) : lines[l].received = 0

(***************************************************************************)
(* No line received more than it orders, a deleted line nothing at all.    *)
(***************************************************************************)
WithinOrder(lines) ==
  \A l \in DOMAIN lines :
    /\ 0 <= lines[l].received /\ lines[l].received <= lines[l].ordered
    /\ lines[l].order = NoOrder => lines[l].received = 0

(***************************************************************************)
(* The status of an order says how much of it has arrived.                 *)
(***************************************************************************)
StatusAgrees(status, lines, o) ==
  status # "cancelled" =>
    /\ status \in {"draft", "ordered"} <=> UnitsReceived(lines, o) = 0
    /\ status = "received" <=>
         /\ UnitsReceived(lines, o) > 0
         /\ \A l \in LineIds(lines, o) : lines[l].received = lines[l].ordered

(***************************************************************************)
(* No two requests on one purchase order have overlapped.                  *)
(***************************************************************************)
AloneOnPurchases == "purchases" \notin crossed

PurchasesCurrent(orders, lines, threads) ==
  /\ WithinOrder(lines)
  /\ \A o \in DOMAIN orders :
       ~orders[o].deleted => StatusAgrees(orders[o].status, lines, o)
  /\ \A b \in Buyers : StillCurrent(threads[b], orders, lines)

(***************************************************************************)
(* The inductive invariant of the statuses and of the numbers received.    *)
(***************************************************************************)
ReceiptsAreCurrent ==
  AloneOnPurchases => ~PurchaseCrossed /\ PurchasesCurrent(purchases, purchaseLines, buyer)

LEMMA LineNumbers ==
  ASSUME NEW lines \in Seq(OrderLineRow)
  PROVE  \A l \in DOMAIN lines :
           /\ lines[l] \in OrderLineRow /\ l \in Nat
           /\ lines[l].received \in Int /\ lines[l].ordered \in Int /\ lines[l].order \in Nat
<1>1. \A l \in DOMAIN lines : lines[l] \in OrderLineRow /\ l \in Nat
  BY ElementOfSeq, LenProperties
<1> QED
  BY <1>1 DEF OrderLineRow

(***************************************************************************)
(* What an order has ordered and received, as sums over its lines.         *)
(***************************************************************************)
LEMMA UnitsAreSums ==
  ASSUME NEW lines \in Seq(OrderLineRow), NEW o
  PROVE  /\ IsFiniteSet(LineIds(lines, o))
         /\ UnitsOrdered(lines, o)
              = SumFunctionOnSet([l \in DOMAIN lines |-> lines[l].ordered], LineIds(lines, o))
         /\ UnitsReceived(lines, o)
              = SumFunctionOnSet([l \in DOMAIN lines |-> lines[l].received], LineIds(lines, o))
         /\ UnitsOrdered(lines, o) \in Int /\ UnitsReceived(lines, o) \in Int
<1> DEFINE ls == LineIds(lines, o)
           f == [l \in DOMAIN lines |-> lines[l].ordered]
           g == [l \in DOMAIN lines |-> lines[l].received]
<1>1. ls \subseteq DOMAIN lines
  BY DEF LineIds
<1>2. IsFiniteSet(ls)
  BY <1>1, PositionsFinite
<1>3. /\ UnitsOrdered(lines, o) = SumFunctionOnSet(f, ls)
      /\ UnitsReceived(lines, o) = SumFunctionOnSet(g, ls)
  BY LedgerSum DEF UnitsOrdered, UnitsReceived, TotalOf
<1>4. \A l \in ls : f[l] \in Int
  BY <1>1, LineNumbers
<1>5. \A l \in ls : g[l] \in Int
  BY <1>1, LineNumbers
<1>6. SumFunctionOnSet(f, ls) \in Int /\ SumFunctionOnSet(g, ls) \in Int
  <2> HIDE DEF ls, f, g
  <2> QED
    BY <1>2, <1>4, <1>5, SumType
<1> QED
  BY <1>2, <1>3, <1>6

(***************************************************************************)
(* What the quantities of an order's lines say of their sums.              *)
(***************************************************************************)
LEMMA UnitsCompared ==
  ASSUME NEW lines \in Seq(OrderLineRow), NEW o,
         \A l \in LineIds(lines, o) :
           0 <= lines[l].received /\ lines[l].received <= lines[l].ordered
  PROVE  /\ 0 <= UnitsReceived(lines, o)
         /\ UnitsReceived(lines, o) <= UnitsOrdered(lines, o)
         /\ UnitsReceived(lines, o) = 0 => \A l \in LineIds(lines, o) : lines[l].received = 0
         /\ UnitsOrdered(lines, o) <= UnitsReceived(lines, o)
              <=> \A l \in LineIds(lines, o) : lines[l].received = lines[l].ordered
<1> DEFINE ls == LineIds(lines, o)
           f == [l \in DOMAIN lines |-> lines[l].ordered]
           g == [l \in DOMAIN lines |-> lines[l].received]
           zero == [l \in DOMAIN lines |-> 0]
<1>1. /\ IsFiniteSet(ls)
      /\ UnitsOrdered(lines, o) = SumFunctionOnSet(f, ls)
      /\ UnitsReceived(lines, o) = SumFunctionOnSet(g, ls)
      /\ UnitsOrdered(lines, o) \in Int /\ UnitsReceived(lines, o) \in Int
  BY UnitsAreSums
<1>2. \A l \in ls : l \in DOMAIN lines
  BY DEF LineIds
<1>3. \A l \in ls : /\ f[l] = lines[l].ordered /\ g[l] = lines[l].received /\ zero[l] = 0
                    /\ f[l] \in Int /\ g[l] \in Int /\ zero[l] \in Int
                    /\ zero[l] <= g[l] /\ g[l] <= f[l]
  BY <1>2, LineNumbers
<1> HIDE DEF ls, f, g, zero
<1>4. SumFunctionOnSet(zero, ls) = 0
  BY <1>1, <1>3, SumOfZeros
<1>5. /\ SumFunctionOnSet(zero, ls) <= SumFunctionOnSet(g, ls)
      /\ SumFunctionOnSet(g, ls) <= SumFunctionOnSet(zero, ls) => \A l \in ls : zero[l] = g[l]
  BY <1>1, <1>3, SumAtMost
<1>6. /\ SumFunctionOnSet(g, ls) <= SumFunctionOnSet(f, ls)
      /\ SumFunctionOnSet(f, ls) <= SumFunctionOnSet(g, ls) => \A l \in ls : g[l] = f[l]
  BY <1>1, <1>3, SumAtMost
<1>7. (\A l \in ls : g[l] = f[l]) => SumFunctionOnSet(g, ls) = SumFunctionOnSet(f, ls)
  BY <1>1, SumSame
<1>8. 0 <= UnitsReceived(lines, o) /\ UnitsReceived(lines, o) <= UnitsOrdered(lines, o)
  BY <1>1, <1>4, <1>5, <1>6
<1>9. UnitsReceived(lines, o) = 0 => \A l \in ls : lines[l].received = 0
  BY <1>1, <1>3, <1>4, <1>5
<1>10. UnitsOrdered(lines, o) <= UnitsReceived(lines, o)
         => \A l \in ls : lines[l].received = lines[l].ordered
  BY <1>1, <1>3, <1>6
<1>11. (\A l \in ls : lines[l].received = lines[l].ordered)
         => UnitsOrdered(lines, o) <= UnitsReceived(lines, o)
  <2> SUFFICES ASSUME \A l \in ls : lines[l].received = lines[l].ordered
               PROVE  UnitsOrdered(lines, o) <= UnitsReceived(lines, o)
    OBVIOUS
  <2>1. \A l \in ls : g[l] = f[l]
    BY <1>3
  <2>2. UnitsReceived(lines, o) = UnitsOrdered(lines, o)
    BY <1>1, <1>7, <2>1
  <2> QED
    BY <1>1, <2>2
<1> QED
  BY <1>8, <1>9, <1>10, <1>11 DEF ls

(***************************************************************************)
(* _pg_refresh_purchase_order_totals_txn writes a status that says how     *)
(* much was received.                                                      *)
(***************************************************************************)
LEMMA RefreshedAgrees ==
  ASSUME NEW lines \in Seq(OrderLineRow), NEW o, NEW status \in OrderStatuses,
         \A l \in LineIds(lines, o) :
           0 <= lines[l].received /\ lines[l].received <= lines[l].ordered
  PROVE  StatusAgrees(Refreshed(status, lines, o), lines, o)
<1> DEFINE r == UnitsReceived(lines, o)
           q == UnitsOrdered(lines, o)
           all == \A l \in LineIds(lines, o) : lines[l].received = lines[l].ordered
           new == Refreshed(status, lines, o)
<1>1. r \in Int /\ q \in Int
  BY UnitsAreSums
<1>2. 0 <= r /\ r <= q /\ (q <= r <=> all)
  BY UnitsCompared
<1>3. CASE status = "cancelled"
  <2>1. new = "cancelled"
    BY <1>3 DEF Refreshed
  <2> QED
    BY <2>1 DEF StatusAgrees
<1>4. CASE status # "cancelled" /\ q > 0 /\ r >= q
  <2>1. new = "received"
    BY <1>4 DEF Refreshed
  <2>2. r > 0 /\ r # 0 /\ all
    BY <1>1, <1>2, <1>4
  <2> QED
    BY <2>1, <2>2 DEF StatusAgrees
<1>5. CASE status # "cancelled" /\ r > 0 /\ ~(q > 0 /\ r >= q)
  <2>1. new = "partially_received"
    BY <1>5 DEF Refreshed
  <2>2. r # 0 /\ ~all
    BY <1>1, <1>2, <1>5
  <2> QED
    BY <2>1, <2>2 DEF StatusAgrees
<1>6. CASE status # "cancelled" /\ ~(q > 0 /\ r >= q) /\ ~(r > 0)
  <2>1. new \in {"draft", "ordered"}
    BY <1>6 DEF Refreshed
  <2>2. r = 0
    BY <1>1, <1>2, <1>6
  <2> QED
    BY <1>6, <2>1, <2>2 DEF StatusAgrees
<1> QED
  BY <1>3, <1>4, <1>5, <1>6

(***************************************************************************)
(* An order's sums and status depend on its own lines.                     *)
(***************************************************************************)
SameOnOrder(o, old, new) ==
  /\ LineIds(new, o) = LineIds(old, o)
  /\ \A l \in LineIds(old, o) :
       new[l].ordered = old[l].ordered /\ new[l].received = old[l].received

(***************************************************************************)
(* Both, and the status they give, depend on the order's own lines only.   *)
(***************************************************************************)
LEMMA SameUnits ==
  ASSUME NEW old \in Seq(OrderLineRow), NEW new \in Seq(OrderLineRow), NEW o,
         SameOnOrder(o, old, new)
  PROVE  /\ UnitsOrdered(new, o) = UnitsOrdered(old, o)
         /\ UnitsReceived(new, o) = UnitsReceived(old, o)
         /\ \A status : /\ Refreshed(status, new, o) = Refreshed(status, old, o)
                        /\ StatusAgrees(status, old, o) => StatusAgrees(status, new, o)
<1> DEFINE ls == LineIds(old, o)
           f == [l \in DOMAIN old |-> old[l].ordered]
           f2 == [l \in DOMAIN new |-> new[l].ordered]
           g == [l \in DOMAIN old |-> old[l].received]
           g2 == [l \in DOMAIN new |-> new[l].received]
<1>1. LineIds(new, o) = ls
  BY DEF SameOnOrder
<1>2. /\ IsFiniteSet(ls)
      /\ UnitsOrdered(old, o) = SumFunctionOnSet(f, ls)
      /\ UnitsReceived(old, o) = SumFunctionOnSet(g, ls)
  BY UnitsAreSums
<1>3. /\ UnitsOrdered(new, o) = SumFunctionOnSet(f2, ls)
      /\ UnitsReceived(new, o) = SumFunctionOnSet(g2, ls)
  BY <1>1, UnitsAreSums
<1>4. \A l \in ls : l \in DOMAIN old /\ l \in DOMAIN new
  BY <1>1 DEF LineIds
<1>5. (\A l \in ls : f2[l] = f[l]) /\ (\A l \in ls : g2[l] = g[l])
  BY <1>4 DEF SameOnOrder
<1> HIDE DEF ls, f, f2, g, g2
<1>6. UnitsOrdered(new, o) = UnitsOrdered(old, o)
  BY <1>2, <1>3, <1>5, SumSame
<1>7. UnitsReceived(new, o) = UnitsReceived(old, o)
  BY <1>2, <1>3, <1>5, SumSame
<1>8. \A status : Refreshed(status, new, o) = Refreshed(status, old, o)
  BY <1>6, <1>7 DEF Refreshed
<1>9. \A status : StatusAgrees(status, old, o) => StatusAgrees(status, new, o)
  BY <1>1, <1>7 DEF StatusAgrees, SameOnOrder, ls
<1> QED
  BY <1>6, <1>7, <1>8, <1>9

(***************************************************************************)
(* A transaction changes the lines of its order, and creates lines of it.  *)
(***************************************************************************)
OnlyOrder(o, old, new) ==
  /\ DOMAIN old \subseteq DOMAIN new
  /\ \A l \in DOMAIN old : \/ new[l] = old[l]
                           \/ old[l].order = o /\ new[l].order \in {o, NoOrder}
  /\ \A l \in DOMAIN new \ DOMAIN old : new[l].order = o

(***************************************************************************)
(* A change of one order's lines leaves those of the others.               *)
(***************************************************************************)
LEMMA OtherOrders ==
  ASSUME NEW old, NEW new, NEW o, OnlyOrder(o, old, new), NEW q, q # o, q # NoOrder
  PROVE  /\ LineIds(new, q) = LineIds(old, q)
         /\ \A l \in LineIds(old, q) : new[l] = old[l]
         /\ SameOnOrder(q, old, new)
<1>1. ASSUME NEW l \in LineIds(new, q) PROVE l \in LineIds(old, q)
  BY DEF LineIds, OnlyOrder
<1>2. ASSUME NEW l \in LineIds(old, q) PROVE l \in LineIds(new, q) /\ new[l] = old[l]
  BY DEF LineIds, OnlyOrder
<1>3. LineIds(new, q) = LineIds(old, q)
  BY <1>1, <1>2
<1> QED
  BY <1>2, <1>3 DEF SameOnOrder

LEMMA ReceivedByRows ==
  ASSUME NEW lines \in Seq(OrderLineRow), NEW r,
         \A l \in DOMAIN r.read : r.read[l].received \in Int /\ r.qtys[l] \in Int
  PROVE  /\ ReceivedBy(r, lines) \in Seq(OrderLineRow)
         /\ DOMAIN ReceivedBy(r, lines) = DOMAIN lines
         /\ \A l \in DOMAIN lines :
              /\ ReceivedBy(r, lines)[l].order = lines[l].order
              /\ ReceivedBy(r, lines)[l].ordered = lines[l].ordered
              /\ ReceivedBy(r, lines)[l].received =
                   IF l \in DOMAIN r.read /\ lines[l].order # NoOrder
                     THEN r.read[l].received + r.qtys[l] ELSE lines[l].received
<1> DEFINE all == ReceivedBy(r, lines)
<1>1. ASSUME NEW l \in DOMAIN lines
      PROVE  /\ all[l] \in OrderLineRow
             /\ all[l].order = lines[l].order
             /\ all[l].ordered = lines[l].ordered
             /\ all[l].received =
                  IF l \in DOMAIN r.read /\ lines[l].order # NoOrder
                    THEN r.read[l].received + r.qtys[l] ELSE lines[l].received
  <2> DEFINE n == r.read[l].received + r.qtys[l]
             line == lines[l]
  <2>1. line \in OrderLineRow
    BY LineNumbers
  <2>2. CASE l \in DOMAIN r.read /\ line.order # NoOrder
    <3>1. all[l] = [line EXCEPT !.received = n]
      BY <2>2 DEF ReceivedBy
    <3>2. n \in Int
      BY <2>2
    <3> HIDE DEF n, line, all
    <3>3. /\ all[l] \in OrderLineRow /\ all[l].order = line.order
          /\ all[l].ordered = line.ordered /\ all[l].received = n
      BY <2>1, <3>1, <3>2 DEF OrderLineRow
    <3> QED
      BY <2>2, <3>3 DEF n, line
  <2>3. CASE ~(l \in DOMAIN r.read /\ line.order # NoOrder)
    <3>1. all[l] = line
      BY <2>3 DEF ReceivedBy
    <3> QED
      BY <2>1, <2>3, <3>1
  <2> QED
    BY <2>2, <2>3
<1>2. DOMAIN all = DOMAIN lines
  BY DEF ReceivedBy
<1>3. all \in [DOMAIN lines -> OrderLineRow]
  <2>1. all = [l \in DOMAIN lines |-> all[l]]
    BY DEF ReceivedBy
  <2> HIDE DEF all
  <2> QED
    BY <1>1, <2>1
<1> HIDE DEF all
<1>4. all \in Seq(OrderLineRow)
  BY <1>3, SameLength
<1> QED
  BY <1>1, <1>2, <1>4 DEF all

(***************************************************************************)
(* What a thread is going to write stays right when another order changes. *)
(***************************************************************************)
LEMMA StaysCurrent ==
  ASSUME NEW r, IsBuyer(r), NEW old \in Seq(OrderLineRow), NEW new \in Seq(OrderLineRow),
         DOMAIN r.read \subseteq DOMAIN old,
         NEW o, OnlyOrder(o, old, new), NEW orders, NEW orders2,
         r.step # "idle" => /\ r.order # o /\ r.order # NoOrder
                            /\ orders2[r.order] = orders[r.order],
         StillCurrent(r, orders, old)
  PROVE  StillCurrent(r, orders2, new)
<1>1. CASE r.step = "idle"
  BY <1>1 DEF StillCurrent
<1>2. CASE r.step # "idle"
  <2>1. r.order # o /\ r.order # NoOrder /\ orders2[r.order] = orders[r.order]
    BY <1>2
  <2>2. /\ LineIds(new, r.order) = LineIds(old, r.order)
        /\ \A l \in LineIds(old, r.order) : new[l] = old[l]
    BY <2>1, OtherOrders
  <2>3. r.step \in {"lines", "commit"} => r.op = "receive"
    BY DEF StillCurrent
  <2>4. ASSUME r.step \in {"write", "commit"}, r.op = "receive", NEW l \in DOMAIN r.read
        PROVE  /\ new[l] = old[l] /\ new[l].order = r.order /\ r.read[l] = new[l]
               /\ r.qtys[l] <= Remaining(new[l])
    <3>1. /\ old[l].order = r.order /\ r.read[l] = old[l]
          /\ r.qtys[l] <= Remaining(old[l])
      BY <2>4 DEF StillCurrent
    <3>2. l \in LineIds(old, r.order)
      BY <3>1 DEF LineIds
    <3> QED
      BY <2>2, <3>1, <3>2
  <2>5. ASSUME r.step = "commit"
        PROVE  r.status = Refreshed(orders2[r.order].status, ReceivedBy(r, new), r.order)
    <3> DEFINE was == ReceivedBy(r, old)
               now == ReceivedBy(r, new)
    <3>1. \A l \in DOMAIN r.read : r.read[l].received \in Int /\ r.qtys[l] \in Int
      BY DEF IsBuyer, OrderLineRow
    <3>2. /\ was \in Seq(OrderLineRow) /\ DOMAIN was = DOMAIN old
          /\ \A l \in DOMAIN old :
               /\ was[l].order = old[l].order /\ was[l].ordered = old[l].ordered
               /\ was[l].received =
                    IF l \in DOMAIN r.read /\ old[l].order # NoOrder
                      THEN r.read[l].received + r.qtys[l] ELSE old[l].received
      BY <3>1, ReceivedByRows
    <3>3. /\ now \in Seq(OrderLineRow) /\ DOMAIN now = DOMAIN new
          /\ \A l \in DOMAIN new :
               /\ now[l].order = new[l].order /\ now[l].ordered = new[l].ordered
               /\ now[l].received =
                    IF l \in DOMAIN r.read /\ new[l].order # NoOrder
                      THEN r.read[l].received + r.qtys[l] ELSE new[l].received
      BY <3>1, ReceivedByRows
    <3> HIDE DEF was, now
    <3>4. LineIds(was, r.order) = LineIds(old, r.order)
      BY <3>2 DEF LineIds
    <3>5. LineIds(now, r.order) = LineIds(new, r.order)
      BY <3>3 DEF LineIds
    <3>6. ASSUME NEW l \in LineIds(old, r.order)
          PROVE  now[l].ordered = was[l].ordered /\ now[l].received = was[l].received
      <4>1. l \in DOMAIN old /\ l \in DOMAIN new /\ new[l] = old[l]
        BY <2>2 DEF LineIds
      <4> QED
        BY <3>2, <3>3, <4>1
    <3>7. SameOnOrder(r.order, was, now)
      BY <2>2, <3>4, <3>5, <3>6 DEF SameOnOrder
    <3>8. Refreshed(orders[r.order].status, now, r.order)
            = Refreshed(orders[r.order].status, was, r.order)
      BY <3>2, <3>3, <3>7, SameUnits
    <3>9. r.status = Refreshed(orders[r.order].status, was, r.order)
      BY <2>5 DEF StillCurrent, was
    <3> QED
      BY <2>1, <3>8, <3>9 DEF now
  <2>6. ASSUME r.step = "write", r.op = "delete", NEW l \in LineIds(new, r.order)
        PROVE  new[l].received = 0
    BY <2>2, <2>6 DEF StillCurrent
  <2> QED
    BY <2>3, <2>4, <2>5, <2>6 DEF StillCurrent
<1> QED
  BY <1>1, <1>2

-----------------------------------------------------------------------------
(* Steps of purchases that do not overlap *)

LEMMA IdleIsCurrent ==
  ASSUME NEW orders, NEW lines PROVE StillCurrent(IdleBuyer, orders, lines)
<1>1. IdleBuyer.step = "idle"
  BY IdleBuyerType
<1> QED
  BY <1>1 DEF StillCurrent

(***************************************************************************)
(* A step that writes no row.                                              *)
(***************************************************************************)
LEMMA ThreadStep ==
  ASSUME NEW b \in Buyers, UNCHANGED purchaseTables,
         \A c \in Buyers \ {b} : buyer'[c] = buyer[c],
         PurchasesCurrent(purchases, purchaseLines, buyer),
         StillCurrent(buyer'[b], purchases, purchaseLines)
  PROVE  PurchasesCurrent(purchases', purchaseLines', buyer')
<1>1. purchases' = purchases /\ purchaseLines' = purchaseLines
  BY DEF purchaseTables
<1>2. \A c \in Buyers : StillCurrent(buyer'[c], purchases, purchaseLines)
  BY DEF PurchasesCurrent
<1>3. PurchasesCurrent(purchases, purchaseLines, buyer')
  BY <1>2 DEF PurchasesCurrent
<1> QED
  BY <1>1, <1>3

(***************************************************************************)
(* A step that writes rows of one order, which no other thread is at.      *)
(***************************************************************************)
LEMMA OrderStep ==
  ASSUME PurchaseTypeOK, NEW b \in Buyers, NEW o \in Nat \ {NoOrder},
         purchaseLines' \in Seq(OrderLineRow), purchases' \in Seq(PurchaseRow),
         DOMAIN purchases \subseteq DOMAIN purchases',
         OnlyOrder(o, purchaseLines, purchaseLines'),
         \A q \in DOMAIN purchases' \ {o} : q \in DOMAIN purchases /\ purchases'[q] = purchases[q],
         \A c \in Buyers \ {b} :
           buyer'[c] = buyer[c] /\ (buyer[c].step # "idle" => buyer[c].order # o),
         buyer'[b].step = "idle",
         PurchasesCurrent(purchases, purchaseLines, buyer),
         WithinOrder(purchaseLines'),
         o \in DOMAIN purchases' /\ ~purchases'[o].deleted
           => StatusAgrees(purchases'[o].status, purchaseLines', o)
  PROVE  PurchasesCurrent(purchases', purchaseLines', buyer')
<1>1. purchaseLines \in Seq(OrderLineRow)
  BY DEF PurchaseTypeOK
<1>2. \A q \in DOMAIN purchases' : q \in Nat /\ q # NoOrder
  BY LenProperties DEF NoOrder
<1>3. ASSUME NEW q \in DOMAIN purchases', ~purchases'[q].deleted
      PROVE  StatusAgrees(purchases'[q].status, purchaseLines', q)
  <2>1. CASE q = o
    BY <1>3, <2>1
  <2>2. CASE q # o
    <3>1. q \in DOMAIN purchases /\ purchases'[q] = purchases[q]
      BY <2>2
    <3>2. StatusAgrees(purchases[q].status, purchaseLines, q)
      BY <1>3, <3>1 DEF PurchasesCurrent
    <3>3. SameOnOrder(q, purchaseLines, purchaseLines')
      BY <1>2, <2>2, OtherOrders
    <3> QED
      BY <1>1, <3>1, <3>2, <3>3, SameUnits
  <2> QED
    BY <2>1, <2>2
<1>4. ASSUME NEW c \in Buyers
      PROVE  StillCurrent(buyer'[c], purchases', purchaseLines')
  <2>1. CASE c = b
    BY <2>1 DEF StillCurrent
  <2>2. CASE c # b
    <3> DEFINE r == buyer[c]
    <3>1. buyer'[c] = r /\ (r.step # "idle" => r.order # o)
      BY <2>2
    <3>2. IsBuyer(r) /\ DOMAIN r.read \subseteq DOMAIN purchaseLines
          /\ (r.step # "idle" => r.order \in DOMAIN purchases)
      BY AtBuyer
    <3>3. r.step # "idle" => /\ r.order # o /\ r.order # NoOrder
                             /\ purchases'[r.order] = purchases[r.order]
      BY <1>2, <3>1, <3>2
    <3>4. StillCurrent(r, purchases, purchaseLines)
      BY DEF PurchasesCurrent
    <3> HIDE DEF r
    <3>5. StillCurrent(r, purchases', purchaseLines')
      BY <1>1, <3>2, <3>3, <3>4, StaysCurrent
    <3> QED
      BY <3>1, <3>5
  <2> QED
    BY <2>1, <2>2
<1> QED
  BY <1>3, <1>4 DEF PurchasesCurrent

LEMMA OthersWhenSet ==
  ASSUME PurchaseTypeOK, NEW b \in Buyers, NEW d, buyer' = [buyer EXCEPT ![b] = d]
  PROVE  buyer'[b] = d /\ \A c \in Buyers \ {b} : buyer'[c] = buyer[c]
  BY DEF PurchaseTypeOK

(***************************************************************************)
(* While requests do not overlap, the others are at other orders.          *)
(***************************************************************************)
LEMMA NobodyElseAt ==
  ASSUME ~PurchaseCrossed, NEW b \in Buyers, buyer[b].step # "idle"
  PROVE  \A c \in Buyers \ {b} : buyer[c].step # "idle" => buyer[c].order # buyer[b].order
  BY DEF PurchaseCrossed

LEMMA CreateCurrent ==
  ASSUME PurchaseTypeOK, PurchaseTypeOK', NEW b \in Buyers, CreatePurchase(b),
         PurchasesCurrent(purchases, purchaseLines, buyer)
  PROVE  PurchasesCurrent(purchases', purchaseLines', buyer')
<1> DEFINE o == Len(purchases) + 1
<1>1. PICK status \in {"draft", "ordered"}, basket \in Baskets :
        /\ purchaseLines' = purchaseLines \o NewOrderLines(o, basket)
        /\ purchases' = Append(purchases,
             [status |-> Refreshed(status, purchaseLines', o), deleted |-> FALSE])
  BY DEF CreatePurchase
<1>2. buyer' = buyer
  BY DEF CreatePurchase
<1>3. /\ o \in Nat \ {NoOrder} /\ basket \in Seq(BasketLine)
      /\ purchaseLines \in Seq(OrderLineRow) /\ purchaseLines' \in Seq(OrderLineRow)
      /\ purchases \in Seq(PurchaseRow) /\ purchases' \in Seq(PurchaseRow)
      /\ DOMAIN purchases = 1 .. Len(purchases) /\ Len(purchases) \in Nat
  BY LenProperties, PurchaseConstants DEF PurchaseTypeOK, NoOrder
<1> DEFINE refreshed == Refreshed(status, purchaseLines', o)
           row == [status |-> refreshed, deleted |-> FALSE]
<1>4. purchases' = Append(purchases, row) /\ row.status = refreshed
  BY <1>1
<1> HIDE DEF row, refreshed
<1>5. /\ DOMAIN purchases' = 1 .. o /\ purchases'[o] = row
      /\ \A q \in DOMAIN purchases : purchases'[q] = purchases[q]
  BY <1>3, <1>4, AppendProperties
<1>6. \A q \in DOMAIN purchases' \ {o} : q \in DOMAIN purchases /\ purchases'[q] = purchases[q]
  BY <1>3, <1>5
<1>7. o \notin DOMAIN purchases /\ DOMAIN purchases \subseteq DOMAIN purchases'
  BY <1>3, <1>5
<1> HIDE DEF o
<1>8. /\ DOMAIN purchaseLines \subseteq DOMAIN purchaseLines'
      /\ \A l \in DOMAIN purchaseLines : purchaseLines'[l] = purchaseLines[l]
      /\ \A l \in DOMAIN purchaseLines' \ DOMAIN purchaseLines :
           /\ purchaseLines'[l].received = 0
           /\ purchaseLines'[l].ordered \in OrderedQty
           /\ purchaseLines'[l].order = o
  BY <1>1, <1>3, LinesAdded, SMTT(40)
<1>9. OnlyOrder(o, purchaseLines, purchaseLines')
  BY <1>8 DEF OnlyOrder
<1>10. WithinOrder(purchaseLines')
  <2> SUFFICES ASSUME NEW l \in DOMAIN purchaseLines'
               PROVE  /\ 0 <= purchaseLines'[l].received
                      /\ purchaseLines'[l].received <= purchaseLines'[l].ordered
                      /\ purchaseLines'[l].order = NoOrder => purchaseLines'[l].received = 0
    BY DEF WithinOrder
  <2>1. CASE l \in DOMAIN purchaseLines
    BY <1>8, <2>1 DEF PurchasesCurrent, WithinOrder
  <2>2. CASE l \notin DOMAIN purchaseLines
    <3>1. purchaseLines'[l].received = 0 /\ purchaseLines'[l].ordered \in OrderedQty
      BY <1>8, <2>2
    <3> QED
      BY <3>1, OrderedIsPositive
  <2> QED
    BY <2>1, <2>2
<1>11. StatusAgrees(purchases'[o].status, purchaseLines', o)
  <2>1. status \in OrderStatuses
    BY DEF OrderStatuses
  <2>2. \A l \in LineIds(purchaseLines', o) :
          /\ 0 <= purchaseLines'[l].received
          /\ purchaseLines'[l].received <= purchaseLines'[l].ordered
    BY <1>10 DEF WithinOrder, LineIds
  <2>3. StatusAgrees(refreshed, purchaseLines', o)
    BY <1>3, <2>1, <2>2, RefreshedAgrees DEF refreshed
  <2> QED
    BY <1>4, <1>5, <2>3
<1>12. ASSUME NEW c \in Buyers
       PROVE  buyer[c].step # "idle" => buyer[c].order # o
  BY <1>7, AtBuyer
<1>13. buyer'[b].step = "idle"
  BY <1>2 DEF CreatePurchase
<1>14. \A c \in Buyers \ {b} :
         buyer'[c] = buyer[c] /\ (buyer[c].step # "idle" => buyer[c].order # o)
  BY <1>2, <1>12
<1> QED
  BY <1>3, <1>6, <1>7, <1>9, <1>10, <1>11, <1>13, <1>14, OrderStep

LEMMA StartsCurrent ==
  ASSUME PurchaseTypeOK, NEW b \in Buyers,
         StartUpdate(b) \/ StartReceipt(b) \/ StartDelete(b),
         PurchasesCurrent(purchases, purchaseLines, buyer)
  PROVE  PurchasesCurrent(purchases', purchaseLines', buyer')
<1> DEFINE i == IdleBuyer
<1>1. UNCHANGED purchaseTables
  BY DEF StartUpdate, StartReceipt, StartDelete
<1>2. DOMAIN i = {"step", "op", "order", "status", "qtys", "added", "read"}
  BY IdleBuyerType DEF IsBuyer
<1>3. ASSUME NEW d, buyer' = [buyer EXCEPT ![b] = d],
             StillCurrent(d, purchases, purchaseLines)
      PROVE  PurchasesCurrent(purchases', purchaseLines', buyer')
  <2>1. buyer'[b] = d /\ \A c \in Buyers \ {b} : buyer'[c] = buyer[c]
    BY <1>3, OthersWhenSet
  <2> QED
    BY <1>1, <1>3, <2>1, ThreadStep
<1>4. CASE StartUpdate(b)
  <2>1. PICK o \in Stored, status \in NewStatuses, added \in Baskets \cup {<< >>} :
          \E q \in Maps(LineIds(purchaseLines, o), OrderedQty \cup {0}) :
            buyer' = [buyer EXCEPT ![b] =
              [i EXCEPT !.step = "write", !.op = "update", !.order = o,
                        !.status = status, !.qtys = q, !.added = added]]
    BY <1>4 DEF StartUpdate
  <2>2. PICK q \in Maps(LineIds(purchaseLines, o), OrderedQty \cup {0}) :
            buyer' = [buyer EXCEPT ![b] =
              [i EXCEPT !.step = "write", !.op = "update", !.order = o,
                        !.status = status, !.qtys = q, !.added = added]]
    BY <2>1
  <2> DEFINE d == [i EXCEPT !.step = "write", !.op = "update", !.order = o,
                            !.status = status, !.qtys = q, !.added = added]
  <2> HIDE DEF i
  <2>3. d.step = "write" /\ d.op = "update" /\ buyer' = [buyer EXCEPT ![b] = d]
    BY <1>2, <2>2
  <2> HIDE DEF d
  <2>4. StillCurrent(d, purchases, purchaseLines)
    BY <2>3 DEF StillCurrent
  <2> QED
    BY <1>3, <2>3, <2>4
<1>5. CASE StartReceipt(b)
  <2>1. PICK o \in Stored :
          \E q \in Maps(LineIds(purchaseLines, o), OrderedQty) :
            buyer' = [buyer EXCEPT ![b] =
              [i EXCEPT !.step = "lines", !.op = "receive", !.order = o, !.qtys = q]]
    BY <1>5 DEF StartReceipt
  <2>2. PICK q \in Maps(LineIds(purchaseLines, o), OrderedQty) :
            buyer' = [buyer EXCEPT ![b] =
              [i EXCEPT !.step = "lines", !.op = "receive", !.order = o, !.qtys = q]]
    BY <2>1
  <2> DEFINE d == [i EXCEPT !.step = "lines", !.op = "receive", !.order = o, !.qtys = q]
  <2> HIDE DEF i
  <2>3. d.step = "lines" /\ d.op = "receive" /\ buyer' = [buyer EXCEPT ![b] = d]
    BY <1>2, <2>2
  <2> HIDE DEF d
  <2>4. StillCurrent(d, purchases, purchaseLines)
    BY <2>3 DEF StillCurrent
  <2> QED
    BY <1>3, <2>3, <2>4
<1>6. CASE StartDelete(b)
  <2>1. PICK o \in Stored :
          /\ UnitsReceived(purchaseLines, o) = 0
          /\ buyer' = [buyer EXCEPT ![b] =
               [i EXCEPT !.step = "write", !.op = "delete", !.order = o]]
    BY <1>6 DEF StartDelete
  <2> DEFINE d == [i EXCEPT !.step = "write", !.op = "delete", !.order = o]
  <2> HIDE DEF i
  <2>2. /\ d.step = "write" /\ d.op = "delete" /\ d.order = o
        /\ buyer' = [buyer EXCEPT ![b] = d]
    BY <1>2, <2>1
  <2>3. \A l \in LineIds(purchaseLines, o) :
          0 <= purchaseLines[l].received /\ purchaseLines[l].received <= purchaseLines[l].ordered
    BY DEF PurchasesCurrent, WithinOrder, LineIds
  <2>4. \A l \in LineIds(purchaseLines, o) : purchaseLines[l].received = 0
    BY <2>1, <2>3, UnitsCompared DEF PurchaseTypeOK
  <2> HIDE DEF d
  <2>5. StillCurrent(d, purchases, purchaseLines)
    BY <2>2, <2>4 DEF StillCurrent
  <2> QED
    BY <1>3, <2>2, <2>5
<1> QED
  BY <1>4, <1>5, <1>6

LEMMA IdleAgainCurrent ==
  ASSUME PurchaseTypeOK, NEW b \in Buyers, Done(b), UNCHANGED purchaseTables,
         PurchasesCurrent(purchases, purchaseLines, buyer)
  PROVE  PurchasesCurrent(purchases', purchaseLines', buyer')
<1> DEFINE d == IdleBuyer
<1>1. buyer' = [buyer EXCEPT ![b] = d]
  BY DEF Done
<1>2. StillCurrent(d, purchases, purchaseLines)
  BY IdleIsCurrent
<1> HIDE DEF d
<1>3. buyer'[b] = d /\ \A c \in Buyers \ {b} : buyer'[c] = buyer[c]
  BY <1>1, OthersWhenSet
<1> QED
  BY <1>2, <1>3, ThreadStep

LEMMA ReceiptStepsCurrent ==
  ASSUME PurchaseTypeOK, NEW b \in Buyers, ReadReceiptLines(b) \/ WriteReceipt(b),
         PurchasesCurrent(purchases, purchaseLines, buyer)
  PROVE  PurchasesCurrent(purchases', purchaseLines', buyer')
<1> DEFINE r == buyer[b]
           found == DOMAIN r.qtys \cap LineIds(purchaseLines, r.order)
           read == [l \in found |-> purchaseLines[l]]
           status == Refreshed(purchases[r.order].status, ReceivedLines(b), r.order)
<1>1. UNCHANGED purchaseTables
  BY DEF ReadReceiptLines, WriteReceipt
<1>2. IsBuyer(r)
  BY AtBuyer
<1>3. StillCurrent(r, purchases, purchaseLines)
  BY DEF PurchasesCurrent
<1>4. CASE Done(b)
  BY <1>1, <1>4, IdleAgainCurrent
<1>5. CASE /\ r.step = "lines" /\ ~\E l \in found : r.qtys[l] > Remaining(purchaseLines[l])
           /\ buyer' = [buyer EXCEPT ![b].step = "write", ![b].read = read]
  <2> DEFINE d == [r EXCEPT !.step = "write", !.read = read]
  <2>1. buyer' = [buyer EXCEPT ![b] = d]
    BY <1>5 DEF PurchaseTypeOK
  <2>2. DOMAIN read = found
        /\ \A l \in DOMAIN read :
             /\ purchaseLines[l].order = r.order /\ read[l] = purchaseLines[l]
             /\ r.qtys[l] <= Remaining(purchaseLines[l])
    <3>1. DOMAIN read = found
      OBVIOUS
    <3>2. ASSUME NEW l \in found
          PROVE  /\ purchaseLines[l].order = r.order /\ read[l] = purchaseLines[l]
                 /\ r.qtys[l] <= Remaining(purchaseLines[l])
      <4>1. l \in DOMAIN purchaseLines /\ purchaseLines[l].order = r.order
        BY DEF LineIds
      <4>2. r.qtys[l] \in Nat
        BY <1>2 DEF IsBuyer
      <4>3. Remaining(purchaseLines[l]) \in Int
        BY <4>1, PurchaseRows DEF Remaining, OrderLineRow
      <4> QED
        BY <1>5, <4>1, <4>2, <4>3
    <3> QED
      BY <3>1, <3>2
  <2>3. r.op = "receive"
    BY <1>3, <1>5 DEF StillCurrent
  <2> HIDE DEF r, read, found
  <2>4. d.step = "write" /\ d.op = r.op /\ d.order = r.order /\ d.qtys = r.qtys /\ d.read = read
    BY <1>2 DEF IsBuyer
  <2> HIDE DEF d
  <2>5. StillCurrent(d, purchases, purchaseLines)
    BY <2>2, <2>3, <2>4 DEF StillCurrent
  <2>6. buyer'[b] = d /\ \A c \in Buyers \ {b} : buyer'[c] = buyer[c]
    BY <2>1, OthersWhenSet
  <2> QED
    BY <1>1, <2>5, <2>6, ThreadStep
<1>6. CASE /\ r.step = "write" /\ r.op = "receive"
           /\ buyer' = [buyer EXCEPT ![b].step = "commit", ![b].status = status]
  <2> DEFINE d == [r EXCEPT !.step = "commit", !.status = status]
  <2>1. buyer' = [buyer EXCEPT ![b] = d]
    BY <1>6 DEF PurchaseTypeOK
  <2>2. \A l \in DOMAIN r.read :
          /\ purchaseLines[l].order = r.order /\ r.read[l] = purchaseLines[l]
          /\ r.qtys[l] <= Remaining(purchaseLines[l])
    BY <1>3, <1>6 DEF StillCurrent
  <2>3. status = Refreshed(purchases[r.order].status, ReceivedBy(r, purchaseLines), r.order)
    BY DEF ReceivedLines, ReceivedBy
  <2>4. r.op = "receive"
    BY <1>6
  <2> HIDE DEF r, status
  <2>5. /\ d.step = "commit" /\ d.op = r.op /\ d.order = r.order /\ d.qtys = r.qtys
        /\ d.read = r.read /\ d.status = status
    BY <1>2 DEF IsBuyer
  <2> HIDE DEF d
  <2>6. ReceivedBy(d, purchaseLines) = ReceivedBy(r, purchaseLines)
    BY <2>5 DEF ReceivedBy
  <2>7. StillCurrent(d, purchases, purchaseLines)
    BY <2>2, <2>3, <2>4, <2>5, <2>6 DEF StillCurrent
  <2>8. buyer'[b] = d /\ \A c \in Buyers \ {b} : buyer'[c] = buyer[c]
    BY <2>1, OthersWhenSet
  <2> QED
    BY <1>1, <2>7, <2>8, ThreadStep
<1> QED
  BY <1>4, <1>5, <1>6 DEF ReadReceiptLines, WriteReceipt

(***************************************************************************)
(* An update that is not refused: no line it keeps orders less than was    *)
(* received, and none it drops has a receipt.                              *)
(***************************************************************************)
LEMMA UpdateCurrent ==
  ASSUME PurchaseTypeOK, PurchaseTypeOK', NEW b \in Buyers, FinishUpdate(b),
         ~PurchaseCrossed, PurchasesCurrent(purchases, purchaseLines, buyer)
  PROVE  PurchasesCurrent(purchases', purchaseLines', buyer')
<1> DEFINE o == buyer[b].order
           ls == LineIds(purchaseLines, o)
<1>1. Done(b) /\ buyer[b].step = "write"
  BY DEF FinishUpdate
<1>2. CASE UNCHANGED purchaseTables
  BY <1>1, <1>2, IdleAgainCurrent
<1>3. CASE /\ ~OrdersTooLittle(b) /\ ~DropsReceived(b)
           /\ purchaseLines' = UpdatedLines(b)
           /\ purchases' = [purchases EXCEPT
                ![o].status = Refreshed(buyer[b].status, purchaseLines', o)]
  <2> DEFINE status == Refreshed(buyer[b].status, purchaseLines', o)
  <2>1. PICK lines \in Seq(OrderLineRow) :
          /\ UpdatedLines(b) = lines \o NewOrderLines(o, buyer[b].added)
          /\ DOMAIN lines = DOMAIN purchaseLines
          /\ \A l \in DOMAIN purchaseLines :
               /\ lines[l].received = purchaseLines[l].received
               /\ l \in Dropped(b) => /\ lines[l].order = NoOrder
                                      /\ lines[l].ordered = purchaseLines[l].ordered
               /\ l \in ls \ Dropped(b) => /\ lines[l].order = purchaseLines[l].order
                                           /\ lines[l].ordered = buyer[b].qtys[l]
               /\ l \notin ls => lines[l] = purchaseLines[l]
    BY BaseOfUpdate
  <2>2. /\ o \in DOMAIN purchases /\ o \in Nat /\ buyer[b].status \in OrderStatuses
        /\ buyer[b].added \in Seq(BasketLine)
    BY <1>1, AtBuyer DEF IsBuyer
  <2>3. o # NoOrder
    BY <2>2, LenProperties DEF PurchaseTypeOK, NoOrder
  <2>4. /\ purchases \in Seq(PurchaseRow) /\ purchases' \in Seq(PurchaseRow)
        /\ purchaseLines \in Seq(OrderLineRow) /\ purchaseLines' \in Seq(OrderLineRow)
    BY DEF PurchaseTypeOK
  <2>5. purchases' = [purchases EXCEPT ![o].status = status]
    BY <1>3
  <2> HIDE DEF status
  <2>6. purchases \in [DOMAIN purchases -> PurchaseRow]
    BY <2>4, PurchaseRows
  <2>7. /\ DOMAIN purchases' = DOMAIN purchases
        /\ purchases'[o].status = status
        /\ \A q \in DOMAIN purchases \ {o} : purchases'[q] = purchases[q]
    BY <2>2, <2>5, <2>6 DEF PurchaseRow
  <2>8. /\ DOMAIN lines \subseteq DOMAIN purchaseLines'
        /\ \A l \in DOMAIN lines : purchaseLines'[l] = lines[l]
        /\ \A l \in DOMAIN purchaseLines' \ DOMAIN lines :
             /\ purchaseLines'[l].received = 0
             /\ purchaseLines'[l].ordered \in OrderedQty
             /\ purchaseLines'[l].order = o
    BY <1>3, <2>1, <2>2, LinesAdded
  <2>9. ASSUME NEW l \in DOMAIN purchaseLines
        PROVE  /\ \/ purchaseLines'[l] = purchaseLines[l]
                  \/ /\ purchaseLines[l].order = o
                     /\ purchaseLines'[l].order \in {o, NoOrder}
               /\ 0 <= purchaseLines'[l].received
               /\ purchaseLines'[l].received <= purchaseLines'[l].ordered
               /\ purchaseLines'[l].order = NoOrder => purchaseLines'[l].received = 0
    <3>1. /\ 0 <= purchaseLines[l].received
          /\ purchaseLines[l].received <= purchaseLines[l].ordered
          /\ purchaseLines[l].order = NoOrder => purchaseLines[l].received = 0
      BY DEF PurchasesCurrent, WithinOrder
    <3>2. purchaseLines'[l] = lines[l]
      BY <2>1, <2>8
    <3>3. purchaseLines[l].received \in Int
      BY PurchaseRows DEF OrderLineRow
    <3>4. CASE l \notin ls
      BY <2>1, <3>1, <3>2, <3>4
    <3>5. CASE l \in Dropped(b)
      <4>1. purchaseLines[l].order = o
        BY <3>5 DEF Dropped, LineIds
      <4>2. ~(purchaseLines[l].received > 0)
        BY <1>3, <3>5 DEF DropsReceived
      <4>3. purchaseLines[l].received = 0
        BY <3>1, <3>3, <4>2
      <4> QED
        BY <2>1, <3>1, <3>2, <3>5, <4>1, <4>3
    <3>6. CASE l \in ls \ Dropped(b)
      <4>1. purchaseLines[l].order = o
        BY <3>6 DEF LineIds
      <4>2. l \in DOMAIN buyer[b].qtys
        BY <3>6 DEF Dropped
      <4>3. ~(buyer[b].qtys[l] < purchaseLines[l].received)
        BY <1>3, <3>6, <4>2 DEF OrdersTooLittle
      <4>4. buyer[b].qtys[l] \in Nat
        BY <4>2, AtBuyer DEF IsBuyer
      <4>5. purchaseLines[l].received <= buyer[b].qtys[l]
        BY <3>3, <4>3, <4>4
      <4> QED
        BY <2>1, <2>3, <3>1, <3>2, <3>6, <4>1, <4>5
    <3> QED
      BY <3>4, <3>5, <3>6
  <2>10. OnlyOrder(o, purchaseLines, purchaseLines')
    BY <2>1, <2>8, <2>9 DEF OnlyOrder
  <2>11. WithinOrder(purchaseLines')
    <3>1. ASSUME NEW l \in DOMAIN purchaseLines' \ DOMAIN purchaseLines
          PROVE  /\ 0 <= purchaseLines'[l].received
                 /\ purchaseLines'[l].received <= purchaseLines'[l].ordered
                 /\ purchaseLines'[l].order = NoOrder => purchaseLines'[l].received = 0
      <4>1. purchaseLines'[l].received = 0 /\ purchaseLines'[l].ordered \in OrderedQty
        BY <2>1, <2>8
      <4> QED
        BY <4>1, OrderedIsPositive
    <3> QED
      BY <2>9, <3>1 DEF WithinOrder
  <2>12. StatusAgrees(purchases'[o].status, purchaseLines', o)
    <3>1. \A l \in LineIds(purchaseLines', o) :
            /\ 0 <= purchaseLines'[l].received
            /\ purchaseLines'[l].received <= purchaseLines'[l].ordered
      BY <2>11 DEF WithinOrder, LineIds
    <3> HIDE DEF o
    <3>2. StatusAgrees(status, purchaseLines', o)
      BY <2>2, <2>4, <3>1, RefreshedAgrees DEF status
    <3> QED
      BY <2>7, <3>2
  <2>13. buyer'[b].step = "idle" /\ \A c \in Buyers \ {b} : buyer'[c] = buyer[c]
    BY <1>1, IdleBuyerType DEF Done, PurchaseTypeOK
  <2>14. \A c \in Buyers \ {b} :
           buyer'[c] = buyer[c] /\ (buyer[c].step # "idle" => buyer[c].order # o)
    BY <1>1, <2>13, NobodyElseAt
  <2>15. \A q \in DOMAIN purchases' \ {o} :
           q \in DOMAIN purchases /\ purchases'[q] = purchases[q]
    BY <2>7
  <2> HIDE DEF o
  <2> QED
    BY <2>2, <2>3, <2>4, <2>7, <2>10, <2>11, <2>12, <2>13, <2>14, <2>15, OrderStep
<1> QED
  BY <1>2, <1>3 DEF FinishUpdate

LEMMA CommitCurrent ==
  ASSUME PurchaseTypeOK, PurchaseTypeOK', NEW b \in Buyers, CommitReceipt(b),
         ~PurchaseCrossed, PurchasesCurrent(purchases, purchaseLines, buyer)
  PROVE  PurchasesCurrent(purchases', purchaseLines', buyer') /\ ReadIsCurrent(b)
<1> DEFINE r == buyer[b]
           o == r.order
<1>1. /\ r.step = "commit" /\ Done(b)
      /\ purchaseLines' = ReceivedLines(b)
      /\ purchases' = [purchases EXCEPT ![o].status = r.status]
  BY DEF CommitReceipt
<1>2. StillCurrent(r, purchases, purchaseLines)
  BY DEF PurchasesCurrent
<1>3. /\ \A l \in DOMAIN r.read :
           /\ purchaseLines[l].order = o /\ r.read[l] = purchaseLines[l]
           /\ r.qtys[l] <= Remaining(purchaseLines[l])
      /\ r.status = Refreshed(purchases[o].status, ReceivedBy(r, purchaseLines), o)
  BY <1>1, <1>2 DEF StillCurrent
<1>4. o \in DOMAIN purchases /\ o \in Nat
  BY <1>1, AtBuyer
<1>5. o # NoOrder
  BY <1>4, LenProperties DEF PurchaseTypeOK, NoOrder
<1>6. ReadIsCurrent(b)
  BY <1>3, <1>5 DEF ReadIsCurrent
<1>7. /\ purchases \in Seq(PurchaseRow) /\ purchases' \in Seq(PurchaseRow)
      /\ purchaseLines \in Seq(OrderLineRow) /\ purchaseLines' \in Seq(OrderLineRow)
  BY DEF PurchaseTypeOK
<1>8. purchases \in [DOMAIN purchases -> PurchaseRow]
  BY <1>7, PurchaseRows
<1>9. /\ DOMAIN purchases' = DOMAIN purchases /\ purchases'[o].status = r.status
      /\ \A q \in DOMAIN purchases \ {o} : purchases'[q] = purchases[q]
  <2>1. PICK status : status = r.status
    OBVIOUS
  <2>2. purchases' = [purchases EXCEPT ![o].status = status]
    BY <1>1, <2>1
  <2> HIDE DEF o, r
  <2> QED
    BY <1>4, <1>8, <2>1, <2>2 DEF PurchaseRow
<1>10. purchaseLines' = ReceivedBy(r, purchaseLines)
  BY <1>1 DEF ReceivedLines, ReceivedBy
<1>11. /\ DOMAIN purchaseLines' = DOMAIN purchaseLines
       /\ \A l \in DOMAIN purchaseLines :
            /\ purchaseLines'[l].order = purchaseLines[l].order
            /\ purchaseLines'[l].ordered = purchaseLines[l].ordered
            /\ purchaseLines'[l].received =
                 IF l \in DOMAIN r.read /\ purchaseLines[l].order # NoOrder
                   THEN r.read[l].received + r.qtys[l] ELSE purchaseLines[l].received
  <2>1. \A l \in DOMAIN r.read : r.read[l].received \in Int /\ r.qtys[l] \in Int
    BY AtBuyer DEF OrderLineRow
  <2> HIDE DEF r
  <2> QED
    BY <1>7, <1>10, <2>1, ReceivedByRows
<1>12. \A l \in DOMAIN purchaseLines \ DOMAIN r.read : purchaseLines'[l] = purchaseLines[l]
  BY <1>10 DEF ReceivedBy
<1>13. OnlyOrder(o, purchaseLines, purchaseLines')
  BY <1>3, <1>11, <1>12 DEF OnlyOrder
<1>14. WithinOrder(purchaseLines')
  <2> SUFFICES ASSUME NEW l \in DOMAIN purchaseLines
               PROVE  /\ 0 <= purchaseLines'[l].received
                      /\ purchaseLines'[l].received <= purchaseLines'[l].ordered
                      /\ purchaseLines'[l].order = NoOrder => purchaseLines'[l].received = 0
    BY <1>11 DEF WithinOrder
  <2>1. /\ 0 <= purchaseLines[l].received
        /\ purchaseLines[l].received <= purchaseLines[l].ordered
        /\ purchaseLines[l].order = NoOrder => purchaseLines[l].received = 0
        /\ purchaseLines[l].received \in Int /\ purchaseLines[l].ordered \in Int
    BY PurchaseRows DEF PurchasesCurrent, WithinOrder, OrderLineRow
  <2>2. CASE l \in DOMAIN r.read
    <3>1. purchaseLines'[l].received = purchaseLines[l].received + r.qtys[l]
      BY <1>3, <1>5, <1>11, <2>2
    <3>2. purchaseLines[l].order # NoOrder
      BY <1>3, <1>5, <2>2
    <3>3. r.qtys[l] \in Nat /\ r.qtys[l] <= Remaining(purchaseLines[l])
      BY <1>3, <2>2, AtBuyer
    <3>4. purchaseLines[l].received + r.qtys[l] <= purchaseLines[l].ordered
      BY <2>1, <3>3 DEF Remaining
    <3> QED
      BY <1>11, <2>1, <3>1, <3>2, <3>3, <3>4
  <2>3. CASE l \notin DOMAIN r.read
    BY <1>12, <2>1, <2>3
  <2> QED
    BY <2>2, <2>3
<1>15. StatusAgrees(purchases'[o].status, purchaseLines', o)
  <2>1. \A l \in LineIds(purchaseLines', o) :
          /\ 0 <= purchaseLines'[l].received
          /\ purchaseLines'[l].received <= purchaseLines'[l].ordered
    BY <1>14 DEF WithinOrder, LineIds
  <2>2. purchases[o].status \in OrderStatuses
    BY <1>4, PurchaseRows DEF PurchaseRow
  <2> HIDE DEF o, r
  <2>3. StatusAgrees(Refreshed(purchases[o].status, purchaseLines', o), purchaseLines', o)
    BY <1>7, <2>1, <2>2, RefreshedAgrees
  <2> QED
    BY <1>3, <1>9, <1>10, <2>3
<1>16. buyer'[b].step = "idle" /\ \A c \in Buyers \ {b} : buyer'[c] = buyer[c]
  BY <1>1, IdleBuyerType DEF Done, PurchaseTypeOK
<1>17. \A c \in Buyers \ {b} :
         buyer'[c] = buyer[c] /\ (buyer[c].step # "idle" => buyer[c].order # o)
  BY <1>1, <1>16, NobodyElseAt
<1>18. \A q \in DOMAIN purchases' \ {o} :
         q \in DOMAIN purchases /\ purchases'[q] = purchases[q]
  BY <1>9
<1> HIDE DEF o
<1>19. PurchasesCurrent(purchases', purchaseLines', buyer')
  BY <1>4, <1>5, <1>7, <1>9, <1>13, <1>14, <1>15, <1>16, <1>17, <1>18, OrderStep
<1> QED
  BY <1>6, <1>19

LEMMA DeleteCurrent ==
  ASSUME PurchaseTypeOK, PurchaseTypeOK', NEW b \in Buyers, FinishDelete(b),
         ~PurchaseCrossed, PurchasesCurrent(purchases, purchaseLines, buyer)
  PROVE  PurchasesCurrent(purchases', purchaseLines', buyer')
<1> DEFINE o == buyer[b].order
<1>1. /\ buyer[b].step = "write" /\ buyer[b].op = "delete" /\ Done(b)
      /\ purchaseLines' =
          [l \in DOMAIN purchaseLines |->
             IF purchaseLines[l].order = o
               THEN [purchaseLines[l] EXCEPT !.order = NoOrder]
               ELSE purchaseLines[l]]
      /\ purchases' = [purchases EXCEPT ![o].deleted = TRUE]
  BY DEF FinishDelete
<1>2. \A l \in LineIds(purchaseLines, o) : purchaseLines[l].received = 0
  BY <1>1 DEF PurchasesCurrent, StillCurrent
<1>3. o \in DOMAIN purchases /\ o \in Nat
  BY <1>1, AtBuyer
<1>4. o # NoOrder
  BY <1>3, LenProperties DEF PurchaseTypeOK, NoOrder
<1>5. /\ purchases \in Seq(PurchaseRow) /\ purchases' \in Seq(PurchaseRow)
      /\ purchaseLines \in Seq(OrderLineRow) /\ purchaseLines' \in Seq(OrderLineRow)
  BY DEF PurchaseTypeOK
<1>6. purchases \in [DOMAIN purchases -> PurchaseRow]
  BY <1>5, PurchaseRows
<1>7. /\ DOMAIN purchases' = DOMAIN purchases /\ purchases'[o].deleted
      /\ \A q \in DOMAIN purchases \ {o} : purchases'[q] = purchases[q]
  BY <1>1, <1>3, <1>6 DEF PurchaseRow
<1>8. DOMAIN purchaseLines' = DOMAIN purchaseLines
  BY <1>1
<1>9. ASSUME NEW l \in DOMAIN purchaseLines
      PROVE  /\ \/ purchaseLines'[l] = purchaseLines[l]
                \/ /\ purchaseLines[l].order = o
                   /\ purchaseLines'[l].order \in {o, NoOrder}
             /\ 0 <= purchaseLines'[l].received
             /\ purchaseLines'[l].received <= purchaseLines'[l].ordered
             /\ purchaseLines'[l].order = NoOrder => purchaseLines'[l].received = 0
  <2> DEFINE line == purchaseLines[l]
  <2>1. line \in OrderLineRow
    BY PurchaseRows
  <2>2. /\ 0 <= line.received /\ line.received <= line.ordered
        /\ line.order = NoOrder => line.received = 0
    BY DEF PurchasesCurrent, WithinOrder
  <2>3. CASE line.order = o
    <3>1. purchaseLines'[l] = [line EXCEPT !.order = NoOrder]
      BY <1>1, <2>3
    <3>2. line.received = 0
      BY <1>2, <2>3 DEF LineIds
    <3> HIDE DEF line
    <3>3. /\ purchaseLines'[l].order = NoOrder /\ purchaseLines'[l].received = line.received
          /\ purchaseLines'[l].ordered = line.ordered
      BY <2>1, <3>1 DEF OrderLineRow
    <3> QED
      BY <2>2, <2>3, <3>2, <3>3 DEF line
  <2>4. CASE line.order # o
    <3>1. purchaseLines'[l] = line
      BY <1>1, <2>4
    <3> QED
      BY <2>2, <3>1
  <2> QED
    BY <2>3, <2>4
<1>10. OnlyOrder(o, purchaseLines, purchaseLines') /\ WithinOrder(purchaseLines')
  BY <1>8, <1>9 DEF OnlyOrder, WithinOrder
<1>11. buyer'[b].step = "idle" /\ \A c \in Buyers \ {b} : buyer'[c] = buyer[c]
  BY <1>1, IdleBuyerType DEF Done, PurchaseTypeOK
<1>12. \A c \in Buyers \ {b} :
         buyer'[c] = buyer[c] /\ (buyer[c].step # "idle" => buyer[c].order # o)
  BY <1>1, <1>11, NobodyElseAt
<1>13. \A q \in DOMAIN purchases' \ {o} :
         q \in DOMAIN purchases /\ purchases'[q] = purchases[q]
  BY <1>7
<1> HIDE DEF o
<1> QED
  BY <1>3, <1>4, <1>5, <1>7, <1>10, <1>11, <1>12, <1>13, OrderStep

(***************************************************************************)
(* The whole: what arrived is covered, and exactly what the rows say       *)
(* unless two requests on one order overlapped.                            *)
(***************************************************************************)
ReceiptsExact ==
  \E f : /\ ArrivedWith(f, purchaseLines, buyer, movements)
         /\ AloneOnPurchases => Exact(f, purchaseLines)

(***************************************************************************)
(* A later state without an overlap had none before.                       *)
(***************************************************************************)
LEMMA AloneBefore ==
  ASSUME [WarehouseNext]_warehouseVars, AloneOnPurchases'
  PROVE  AloneOnPurchases /\ (WarehouseNext => ~PurchaseCrossed')
<1>1. crossed' = crossed \/ crossed' = crossed \cup Overlaps'
  BY DEF WarehouseNext, warehouseVars
<1>2. AloneOnPurchases
  BY <1>1 DEF AloneOnPurchases
<1>3. ASSUME WarehouseNext PROVE ~PurchaseCrossed'
  BY <1>3 DEF WarehouseNext, Overlaps, AloneOnPurchases
<1> QED
  BY <1>2, <1>3

(***************************************************************************)
(* Both invariants hold of the tables the instance starts with.            *)
(***************************************************************************)
LEMMA FirstReceipts ==
  ASSUME WarehouseInit PROVE ReceiptsAreCurrent /\ ReceiptsExact
<1>1. /\ purchases = << >> /\ purchaseLines = << >>
      /\ buyer = [b \in Buyers |-> IdleBuyer]
  BY DEF WarehouseInit, PurchaseInit
<1>2. \A b \in Buyers : buyer[b].step = "idle" /\ StillCurrent(buyer[b], purchases, purchaseLines)
  BY <1>1, IdleBuyerType, IdleIsCurrent
<1>3. ~PurchaseCrossed
  BY <1>2 DEF PurchaseCrossed
<1>4. PurchasesCurrent(purchases, purchaseLines, buyer)
  BY <1>1, <1>2 DEF PurchasesCurrent, WithinOrder
<1>5. PICK f : ArrivedWith(f, purchaseLines, buyer, movements)
  BY NothingArrivedYet DEF ReceiptsCovered
<1>6. Exact(f, purchaseLines)
  BY <1>1 DEF Exact
<1> QED
  BY <1>3, <1>4, <1>5, <1>6 DEF ReceiptsAreCurrent, ReceiptsExact

LEMMA PurchaseStepsCurrent ==
  ASSUME PurchaseTypeOK, PurchaseTypeOK', NEW b \in Buyers,
         PurchaseArrival(b) \/ PurchaseWork(b),
         ~PurchaseCrossed, PurchasesCurrent(purchases, purchaseLines, buyer)
  PROVE  /\ PurchasesCurrent(purchases', purchaseLines', buyer')
         /\ CommitReceipt(b) => ReadIsCurrent(b)
<1>1. CommitReceipt(b) => ReadIsCurrent(b)
  BY CommitCurrent
<1>2. CASE PurchaseFail(b)
  <2>1. Done(b) /\ UNCHANGED purchaseTables
    BY <1>2 DEF PurchaseFail
  <2> QED
    BY <1>1, <2>1, IdleAgainCurrent
<1>3. CASE PurchaseArrival(b)
  BY <1>1, <1>3, CreateCurrent, StartsCurrent DEF PurchaseArrival
<1>4. CASE PurchaseWork(b)
  BY <1>1, <1>2, <1>4, UpdateCurrent, ReceiptStepsCurrent, CommitCurrent, DeleteCurrent
     DEF PurchaseWork
<1> QED
  BY <1>3, <1>4

(***************************************************************************)
(* Every step of the composition preserves the first of them.              *)
(***************************************************************************)
LEMMA ReceiptsStayCurrent ==
  ASSUME WarehouseTypeOK, ReceiptsAreCurrent, ReceiptsExact, [WarehouseNext]_warehouseVars
  PROVE  ReceiptsAreCurrent' /\ ReceiptsExact'
<1>1. PICK f : /\ ArrivedWith(f, purchaseLines, buyer, movements)
               /\ AloneOnPurchases => Exact(f, purchaseLines)
  BY DEF ReceiptsExact
<1>2. PurchaseTypeOK /\ StockType
  BY DEF WarehouseTypeOK
<1>3. PurchaseTypeOK'
  BY WarehouseStepTypes, WarehouseStutters DEF WarehouseTypeOK
<1>4. purchaseLines' \in Seq(OrderLineRow)
  BY <1>3 DEF PurchaseTypeOK
<1>5. AloneOnPurchases' => AloneOnPurchases /\ (WarehouseNext => ~PurchaseCrossed')
  BY AloneBefore
<1>6. AloneOnPurchases =>
        ~PurchaseCrossed /\ PurchasesCurrent(purchases, purchaseLines, buyer)
  BY DEF ReceiptsAreCurrent
<1>7. ASSUME LinesLike(purchaseLines, purchaseLines'),
             ReadsLines(buyer', buyer, purchaseLines), NoArrivals(movements, movements')
      PROVE  ReceiptsExact'
  <2>1. \E g : /\ ArrivedWith(g, purchaseLines', buyer', movements')
               /\ Exact(f, purchaseLines) => Exact(g, purchaseLines')
    BY <1>1, <1>2, <1>4, <1>7, ArrivedBefore
  <2>2. PICK g : /\ ArrivedWith(g, purchaseLines', buyer', movements')
                 /\ Exact(f, purchaseLines) => Exact(g, purchaseLines')
    BY <2>1
  <2>3. AloneOnPurchases' => Exact(g, purchaseLines')
    BY <1>1, <1>5, <2>2
  <2> QED
    BY <2>2, <2>3 DEF ReceiptsExact
<1>8. CASE UNCHANGED purchaseVars
  <2>1. ReceiptsAreCurrent'
    <3>1. PurchaseCrossed' <=> PurchaseCrossed
      BY <1>8 DEF purchaseVars, PurchaseCrossed
    <3>2. PurchasesCurrent(purchases, purchaseLines, buyer)
            => PurchasesCurrent(purchases', purchaseLines', buyer')
      BY <1>8 DEF purchaseVars
    <3> QED
      BY <1>5, <1>6, <3>1, <3>2 DEF ReceiptsAreCurrent
  <2>2. NoArrivals(movements, movements')
    <3>1. CASE UNCHANGED warehouseVars
      BY <1>2, <3>1, NoOtherArrivals DEF warehouseVars, NoMovement
    <3>2. CASE WarehouseNext /\ ~BuyStep
      BY <1>2, <3>2, WarehouseStepTypes, NoOtherArrivals
    <3>3. CASE BuyStep
      <4>1. PICK b \in workload.buyers : PurchaseArrival(b) \/ PurchaseWork(b)
        BY <3>3 DEF BuyStep
      <4>2. b \in Buyers
        BY DEF WarehouseTypeOK, Workload
      <4>3. ~CommitReceipt(b)
        <5> SUFFICES ASSUME CommitReceipt(b) PROVE FALSE
          OBVIOUS
        <5>1. buyer'[b].step = "idle" /\ buyer[b].step = "commit"
          BY <1>2, <4>2, IdleBuyerType DEF CommitReceipt, Done, PurchaseTypeOK
        <5> QED
          BY <1>8, <5>1 DEF purchaseVars
      <4> QED
        BY <1>2, <4>1, <4>2, <4>3, OtherPurchaseSteps, NoOtherArrivals
    <3> QED
      BY <3>1, <3>2, <3>3
  <2> QED
    BY <1>2, <1>7, <1>8, <2>1, <2>2, PurchasesElsewhere
<1>9. CASE BuyStep /\ WarehouseNext
  <2>1. PICK b \in workload.buyers : PurchaseArrival(b) \/ PurchaseWork(b)
    BY <1>9 DEF BuyStep
  <2>2. b \in Buyers
    BY DEF WarehouseTypeOK, Workload
  <2>3. AloneOnPurchases =>
          /\ PurchasesCurrent(purchases', purchaseLines', buyer')
          /\ CommitReceipt(b) => ReadIsCurrent(b)
    BY <1>2, <1>3, <1>6, <2>1, <2>2, PurchaseStepsCurrent
  <2>4. ReceiptsAreCurrent'
    BY <1>5, <1>9, <2>3 DEF ReceiptsAreCurrent
  <2>5. CASE ~CommitReceipt(b)
    BY <1>2, <1>7, <2>1, <2>2, <2>4, <2>5, OtherPurchaseSteps, NoOtherArrivals
  <2>6. CASE CommitReceipt(b)
    <3>1. PICK g : /\ ArrivedWith(g, purchaseLines', buyer', movements')
                   /\ Exact(f, purchaseLines) /\ ReadIsCurrent(b) => Exact(g, purchaseLines')
      BY <1>1, <1>2, <2>2, <2>6, ReceiptArrives
    <3>2. AloneOnPurchases' => Exact(g, purchaseLines')
      BY <1>1, <1>5, <2>3, <2>6, <3>1
    <3> QED
      BY <2>4, <3>1, <3>2 DEF ReceiptsExact
  <2> QED
    BY <2>5, <2>6
<1> QED
  BY <1>8, <1>9 DEF warehouseVars, WarehouseNext, SellStep, TikTokStep

(***************************************************************************)
(* As long as no two requests on one purchase order overlap, lines,        *)
(* movements and statuses agree: what a product's lines received is what   *)
(* the movements brought into the stock, no line receives more than it     *)
(* orders, whatever receive_purchase_order, update_ and                    *)
(* delete_purchase_order do in turn and wherever they fail, and the status *)
(* of an order says how much of it arrived.                                *)
(***************************************************************************)
THEOREM ReceivedOnceOnly == WarehouseSpec => []ReceivedOnce
<1>1. WarehouseInit => ReceiptsAreCurrent /\ ReceiptsExact
  BY FirstReceipts
<1>2. WarehouseTypeOK /\ (ReceiptsAreCurrent /\ ReceiptsExact) /\ [WarehouseNext]_warehouseVars
        => (ReceiptsAreCurrent /\ ReceiptsExact)'
  BY ReceiptsStayCurrent
<1>3. WarehouseTypeOK /\ (ReceiptsAreCurrent /\ ReceiptsExact) => ReceivedOnce
  <2> SUFFICES ASSUME WarehouseTypeOK, ReceiptsAreCurrent, ReceiptsExact, AloneOnPurchases
               PROVE  ReceiptsAgree
    BY DEF ReceivedOnce, AloneOnPurchases
  <2>1. PurchasesCurrent(purchases, purchaseLines, buyer)
    BY DEF ReceiptsAreCurrent
  <2>2. PICK f : ArrivedWith(f, purchaseLines, buyer, movements) /\ Exact(f, purchaseLines)
    BY DEF ReceiptsExact
  <2>3. purchaseLines \in Seq(OrderLineRow) /\ movements \in Seq(MovementRow)
    BY DEF WarehouseTypeOK, PurchaseTypeOK, StockType
  <2>4. ASSUME NEW p \in Products
        PROVE  Received(LinesOfProduct(p)) = NetOf("purchase_order", p)
    <3> DEFINE ls == LinesOfProduct(p)
               S == {l \in DOMAIN purchaseLines : purchaseLines[l].product = p}
               received == [l \in DOMAIN purchaseLines |-> purchaseLines[l].received]
    <3>1. NetOf("purchase_order", p) = NetAmong(movements, KindRows("purchase_order", p))
      BY <2>3, NetOfKind DEF NetOf
    <3>2. NetAmong(movements, KindRows("purchase_order", p)) = SumFunctionOnSet(f, S)
      BY <2>2 DEF ArrivedWith
    <3>3. Received(ls) = SumFunctionOnSet(received, ls)
      BY LedgerSum DEF Received, TotalOf
    <3>4. ls \subseteq S
      BY DEF LinesOfProduct
    <3>5. IsFiniteSet(S)
      BY <2>3, PositionsFinite
    <3>6. \A l \in S : received[l] \in Int /\ f[l] = received[l]
      BY <2>2, <2>3, LineNumbers DEF Exact
    <3>7. \A l \in S \ ls : received[l] = 0
      BY <2>1 DEF LinesOfProduct, PurchasesCurrent, WithinOrder
    <3> HIDE DEF S, ls, received
    <3>8. SumFunctionOnSet(f, S) = SumFunctionOnSet(received, S)
      BY <3>5, <3>6, SumSame
    <3>9. SumFunctionOnSet(received, S) = SumFunctionOnSet(received, ls)
      BY <3>4, <3>5, <3>6, <3>7, SumOfPart
    <3> QED
      BY <3>1, <3>2, <3>3, <3>8, <3>9 DEF ls
  <2>5. \A l \in DOMAIN purchaseLines :
          purchaseLines[l].received <= purchaseLines[l].ordered
    BY <2>1 DEF PurchasesCurrent, WithinOrder
  <2>6. ASSUME NEW o \in Stored, purchases[o].status # "cancelled"
        PROVE  /\ purchases[o].status \in {"draft", "ordered"}
                    <=> Received(LineIds(purchaseLines, o)) = 0
               /\ purchases[o].status = "received" <=>
                    /\ Received(LineIds(purchaseLines, o)) > 0
                    /\ \A l \in LineIds(purchaseLines, o) :
                         purchaseLines[l].received = purchaseLines[l].ordered
    <3>1. o \in DOMAIN purchases /\ ~purchases[o].deleted
      BY DEF Stored
    <3>2. StatusAgrees(purchases[o].status, purchaseLines, o)
      BY <2>1, <3>1 DEF PurchasesCurrent
    <3>3. UnitsReceived(purchaseLines, o) = Received(LineIds(purchaseLines, o))
      BY DEF UnitsReceived, Received
    <3> QED
      BY <2>6, <3>2, <3>3 DEF StatusAgrees
  <2> QED
    BY <2>4, <2>5, <2>6 DEF ReceiptsAgree
<1> QED
  BY <1>1, <1>2, <1>3, WarehouseTypes, PTL DEF WarehouseSpec
=============================================================================
