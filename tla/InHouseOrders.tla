--------------------------- MODULE InHouseOrders ---------------------------
(***************************************************************************)
(* Counter sales: invoices with their lines, approved into sales that take *)
(* stock, and edited, split and merged before and after.  Each operation   *)
(* is one transaction at READ COMMITTED: it reads the invoice, then the    *)
(* lines and the sales, decides, and writes rows by their id, so that what *)
(* it decided on may be stale when it commits.  The public routes read the *)
(* invoice's status on a connection of their own before that.              *)
(***************************************************************************)
EXTENDS StockMovement

CONSTANTS
  Clerks,        \* request threads
  SoldQty,       \* the quantities a request may carry
  Carts,         \* the new lines a request may carry
  MaxInvoices,   \* bounds of the three tables
  MaxLines,
  MaxSales

VARIABLES
  invoices,      \* in_house_orders, by id
  invoiceLines,  \* in_house_order_lines, by id
  sales,         \* in_house_sales, by id
  clerk          \* thread -> its request and what it has read

posTables == <<invoices, invoiceLines, sales>>
posVars == <<invoices, invoiceLines, sales, clerk>>

-----------------------------------------------------------------------------
(* Types *)

NoId == 0    \* the order of a deleted line, or of a sale without an invoice

Statuses == {"pending_approval", "approved", "rejected", "cancelled", "merged"}

InvoiceRow == [status : Statuses, notes : SUBSET Nat]

InvoiceLineRow == [order : Nat, product : Products, qty : Int]

SaleRow ==
  [order : Nat, line : Nat, product : Products, qty : Int, notes : SUBSET Nat]

Item == [product : Products, qty : SoldQty]

LineRead == [product : Products, qty : Int]

Functions(S, T) == UNION {[D -> T] : D \in SUBSET S}

(***************************************************************************)
(* What a thread holds.  Of the request: the operation, the invoice, the   *)
(* merge target, quantities by line id, new lines.  Of its transaction:    *)
(* the invoice row, the lines, and the sale matched to each of them.       *)
(***************************************************************************)
IsDesk(d) ==
  /\ DOMAIN d = {"step", "op", "order", "target", "qtys", "added",
                 "row", "rows", "match"}
  /\ d.step \in {"idle", "order", "lines", "write"}
  /\ d.op \in {"none", "update", "split", "merge", "approve", "reject", "cancel"}
  /\ d.order \in Nat /\ d.target \in Nat
  /\ d.qtys \in [DOMAIN d.qtys -> SoldQty] /\ DOMAIN d.qtys \subseteq Nat
  /\ d.added \in Seq(Item)
  /\ d.row \in InvoiceRow
  /\ d.rows \in [DOMAIN d.rows -> LineRead]
  /\ d.match \in [DOMAIN d.match -> Nat]
  /\ DOMAIN d.match \subseteq DOMAIN d.rows \cap DOMAIN d.qtys

(***************************************************************************)
(* Type correctness of the counter sale tables and threads: rows keep      *)
(* their shape, a transaction that reached its writes read an invoice that *)
(* exists, and a line it is to change has been read.                       *)
(***************************************************************************)
PosTypeOK ==
  /\ invoices \in Seq(InvoiceRow)
  /\ invoiceLines \in Seq(InvoiceLineRow)
  /\ sales \in Seq(SaleRow)
  /\ DOMAIN clerk = Clerks
  /\ \A h \in Clerks :
       /\ IsDesk(clerk[h])
       /\ DOMAIN clerk[h].rows \subseteq DOMAIN invoiceLines
       /\ clerk[h].step # "idle" => clerk[h].order \in DOMAIN invoices

ASSUME PosConstants ==
  /\ SoldQty \subseteq Nat \ {0}
  /\ Carts \subseteq Seq(Item) \ {<< >>}
  /\ {MaxInvoices, MaxLines, MaxSales} \subseteq Nat

-----------------------------------------------------------------------------
(* What the SELECTs return *)

(***************************************************************************)
(* SELECT * FROM in_house_order_lines WHERE order_id = o: the rows, by id. *)
(***************************************************************************)
LinesOf(o) == {l \in DOMAIN invoiceLines : invoiceLines[l].order = o}

LineRowsOf(o) ==
  [l \in LinesOf(o) |-> [product |-> invoiceLines[l].product,
                         qty |-> invoiceLines[l].qty]]

(***************************************************************************)
(* The sales the matching looks at: those of the invoice, and those of its *)
(* employee (there is one here) whose notes name it.                       *)
(***************************************************************************)
SalesNaming(o) ==
  {s \in DOMAIN sales : sales[s].order = o \/ o \in sales[s].notes}

FirstOf(S) == IF S = {} THEN NoId ELSE CHOOSE n \in S : \A m \in S : n <= m

(***************************************************************************)
(* _match_pg_in_house_sales_for_order: line by line, the first sale        *)
(* recorded for the line that no earlier line has got, and without one the *)
(* first of the line's product.                                            *)
(***************************************************************************)
IsMatch(f, o, rows) ==
  \A l \in DOMAIN f :
    LET taken  == {f[k] : k \in {j \in DOMAIN f : j < l}}
        direct == {s \in SalesNaming(o) \ taken : sales[s].line = l}
        same   == {s \in SalesNaming(o) \ taken :
                     sales[s].product = rows[l].product}
    IN f[l] = FirstOf(IF direct # {} THEN direct ELSE same)

Matches(o, rows, lines) ==
  {f \in [lines -> SalesNaming(o) \cup {NoId}] : IsMatch(f, o, rows)}

-----------------------------------------------------------------------------
(* The threads *)

Idle ==
  [step |-> "idle", op |-> "none", order |-> NoId, target |-> NoId,
   qtys |-> << >>, added |-> << >>,
   row |-> [status |-> "pending_approval", notes |-> {}],
   rows |-> << >>, match |-> << >>]

Answer(h) == clerk' = [clerk EXCEPT ![h] = Idle]

On(op, o) == [Idle EXCEPT !.step = "order", !.op = op, !.order = o]

(***************************************************************************)
(* The requests on the invoices there are.  An update carries quantities   *)
(* for some of the lines the caller was shown, and new lines; a split, the *)
(* quantities to move out.                                                 *)
(***************************************************************************)
Edit(op, o, q, a) == [On(op, o) EXCEPT !.qtys = q, !.added = a]

UpdateRequests ==
  UNION {{Edit("update", o, q, a) :
            q \in Functions(LinesOf(o), SoldQty), a \in Carts \cup {<< >>}} :
         o \in DOMAIN invoices}

SplitRequests ==
  UNION {{Edit("split", o, q, << >>) : q \in Functions(LinesOf(o), SoldQty)} :
         o \in DOMAIN invoices}

MergeRequests ==
  {[On("merge", o) EXCEPT !.target = t] :
     o \in DOMAIN invoices, t \in DOMAIN invoices}

EditRequests ==
  {r \in UpdateRequests \cup SplitRequests \cup MergeRequests :
     /\ r.op = "update" => r.qtys # << >> \/ r.added # << >>
     /\ r.op = "split" => r.qtys # << >>
     /\ r.order # r.target}

StatusRequests ==
  {On(op, o) : op \in {"approve", "reject", "cancel"}, o \in DOMAIN invoices}

(***************************************************************************)
(* Whether the invoice row a transaction reads first turns the request     *)
(* down.  An approval of an approved invoice goes on and changes nothing.  *)
(***************************************************************************)
Refused(r) ==
  LET status == invoices[r.order].status
  IN CASE r.op \in {"update", "split"} -> status = "cancelled"
       [] r.op = "merge" -> \/ "cancelled" \in {status, invoices[r.target].status}
                            \/ status # invoices[r.target].status
       [] r.op = "approve" -> status \in {"cancelled", "merged", "approved"}
       [] OTHER -> status = "approved"

ReadBy(r) ==
  [r EXCEPT !.row = invoices[r.order],
            !.step = IF r.op \in {"reject", "cancel"} THEN "write" ELSE "lines"]

(***************************************************************************)
(* A staff route opens the transaction at once.                            *)
(***************************************************************************)
StaffRequest(h) ==
  /\ clerk[h].step = "idle"
  /\ \E r \in EditRequests \cup StatusRequests :
       /\ ~Refused(r)
       /\ clerk' = [clerk EXCEPT ![h] = ReadBy(r)]
  /\ NoMovement /\ UNCHANGED posTables

(***************************************************************************)
(* A public route lets a guest edit pending invoices only: it reads the    *)
(* status, and leaves the editing to the transaction the staff use.        *)
(***************************************************************************)
GuestRequest(h) ==
  /\ clerk[h].step = "idle"
  /\ \E r \in EditRequests :
       /\ \A o \in {r.order, r.target} \ {NoId} :
            invoices[o].status = "pending_approval"
       /\ clerk' = [clerk EXCEPT ![h] = r]
  /\ NoMovement /\ UNCHANGED posTables

ReadOrder(h) ==
  /\ clerk[h].step = "order"
  /\ IF Refused(clerk[h])
       THEN Answer(h)
       ELSE clerk' = [clerk EXCEPT ![h] = ReadBy(clerk[h])]
  /\ NoMovement /\ UNCHANGED posTables

-----------------------------------------------------------------------------
(* After the lines have been read *)

(***************************************************************************)
(* The lines of a split: those it names.  It matches only their sales.     *)
(***************************************************************************)
Selected(r, rows) == DOMAIN rows \cap DOMAIN r.qtys

MatchedLines(r, rows) ==
  IF r.op = "split" THEN Selected(r, rows) ELSE DOMAIN rows

(***************************************************************************)
(* What the lines make a transaction give up for.  An update of an         *)
(* approved invoice must name each of its lines and no new one; a split    *)
(* must leave something behind and take no more than there is.             *)
(***************************************************************************)
Rejected(r, rows, match) ==
  CASE r.op = "update" ->
         /\ r.row.status = "approved"
         /\ \/ DOMAIN r.qtys # DOMAIN rows \/ r.added # << >>
            \/ \E l \in DOMAIN match : match[l] = NoId
    [] r.op = "split" ->
         \/ ~(DOMAIN r.qtys \subseteq DOMAIN rows)
         \/ \A l \in DOMAIN rows :
              l \in DOMAIN r.qtys /\ r.qtys[l] = rows[l].qty
         \/ \E l \in Selected(r, rows) : r.qtys[l] > rows[l].qty
    [] OTHER -> DOMAIN rows = {}

ReadLines(h) ==
  /\ clerk[h].step = "lines"
  /\ LET r    == clerk[h]
         rows == LineRowsOf(r.order)
     IN \E match \in IF r.op \in {"update", "split"} /\ r.row.status = "approved"
                       THEN Matches(r.order, rows, MatchedLines(r, rows))
                       ELSE {<< >>} :
          IF Rejected(r, rows, match)
            THEN Answer(h)
            ELSE clerk' = [clerk EXCEPT ![h] =
                             [r EXCEPT !.step = "write", !.rows = rows,
                                       !.match = match]]
  /\ NoMovement /\ UNCHANGED posTables

-----------------------------------------------------------------------------
(* The writes, which take effect when the transaction commits *)

SaleMovement(s, p, delta) ==
  [reference |-> "in_house_sale", id |-> s, product |-> p, delta |-> delta]

Fits ==
  /\ Len(invoices') <= MaxInvoices
  /\ Len(invoiceLines') <= MaxLines
  /\ Len(sales') <= MaxSales

NewLines(o, items) ==
  MapSeq(items, LAMBDA i : [order |-> o, product |-> i.product, qty |-> i.qty])

(***************************************************************************)
(* create_in_house_order: one transaction that reads no row of these       *)
(* tables.  A checkout, or an account with auto_approve_in_house_orders,   *)
(* goes on to approve the invoice in a transaction of its own.             *)
(***************************************************************************)
CreateInvoice(h) ==
  /\ clerk[h].step = "idle"
  /\ \E cart \in Carts, approve \in BOOLEAN :
       LET o == Len(invoices) + 1
       IN /\ invoices' = Append(invoices,
                                [status |-> "pending_approval", notes |-> {}])
          /\ invoiceLines' = invoiceLines \o NewLines(o, cart)
          /\ IF approve
               THEN clerk' = [clerk EXCEPT ![h] = On("approve", o)]
               ELSE Answer(h)
  /\ UNCHANGED sales /\ NoMovement
  /\ Fits

(***************************************************************************)
(* create_in_house_sale: a sale without an invoice.                        *)
(***************************************************************************)
SellAtCounter(h) ==
  /\ clerk[h].step = "idle"
  /\ \E cart \in Carts :
       LET i == Head(cart)
       IN /\ sales' = Append(sales, [order |-> NoId, line |-> NoId,
                                     product |-> i.product, qty |-> i.qty,
                                     notes |-> {}])
          /\ RecordMovements(<<SaleMovement(Len(sales'), i.product, -i.qty)>>)
  /\ UNCHANGED <<invoices, invoiceLines, clerk>>
  /\ Fits

StatusUnset(h, status) ==
  invoices' = [invoices EXCEPT ![clerk[h].order].status = ""]

SetStatus(h, status) ==
  invoices' = [invoices EXCEPT ![clerk[h].order].status = status]

(***************************************************************************)
(* approve_in_house_order: a sale and its movement for every line read.    *)
(***************************************************************************)
ApproveInvoice(h) ==
  LET r == clerk[h]
      ids == InIdOrder(DOMAIN r.rows)
      sold(l) == [order |-> r.order, line |-> l, product |-> r.rows[l].product,
                  qty |-> r.rows[l].qty, notes |-> r.row.notes \cup {r.order}]
  IN /\ r.step = "write" /\ r.op = "approve"
     /\ sales' = sales \o MapSeq(ids, sold)
     /\ RecordMovements([n \in DOMAIN ids |->
          SaleMovement(Len(sales) + n, r.rows[ids[n]].product,
                       -r.rows[ids[n]].qty)])
     /\ SetStatus(h, "approved")
     /\ Answer(h) /\ UNCHANGED invoiceLines
     /\ Fits

RejectInvoice(h) ==
  /\ clerk[h].step = "write" /\ clerk[h].op = "reject"
  /\ SetStatus(h, "rejected") /\ Answer(h)
  /\ UNCHANGED <<invoiceLines, sales>> /\ NoMovement

CancelInvoice(h) ==
  /\ clerk[h].step = "write" /\ clerk[h].op = "cancel"
  /\ SetStatus(h, "cancelled") /\ Answer(h)
  /\ UNCHANGED <<invoiceLines, sales>> /\ NoMovement

(***************************************************************************)
(* update_in_house_order: lines the request leaves out are deleted, the    *)
(* others get its quantity; new lines follow.  On an approved invoice the  *)
(* difference to the quantity read goes back to the stock, or out of it,   *)
(* and the line's sale takes the new quantity.                             *)
(***************************************************************************)
EditedLine(r, l) ==
  CASE l \in DOMAIN r.rows \ DOMAIN r.qtys -> [invoiceLines[l] EXCEPT !.order = NoId]
    [] l \in Selected(r, r.rows) ->
         [invoiceLines[l] EXCEPT !.qty = r.qtys[l]]
    [] OTHER -> invoiceLines[l]

IsMatched(r, s) == \E l \in DOMAIN r.match : r.match[l] = s

LineMatched(r, s) == CHOOSE l \in DOMAIN r.match : r.match[l] = s

EditedSale(r, s) ==
  IF IsMatched(r, s)
    THEN [sales[s] EXCEPT !.qty = r.qtys[LineMatched(r, s)],
                          !.order = r.order, !.line = LineMatched(r, s)]
    ELSE sales[s]

Corrections(r) ==
  MapSeq(InIdOrder({l \in DOMAIN r.match : r.qtys[l] # r.rows[l].qty}), LAMBDA l :
    SaleMovement(r.match[l], r.rows[l].product, r.rows[l].qty - r.qtys[l]))

UpdateInvoice(h) ==
  LET r == clerk[h]
  IN /\ r.step = "write" /\ r.op = "update"
     /\ invoiceLines' = [l \in DOMAIN invoiceLines |-> EditedLine(r, l)]
                          \o NewLines(r.order, r.added)
     /\ sales' = [s \in DOMAIN sales |-> EditedSale(r, s)]
     /\ RecordMovements(Corrections(r))
     /\ Answer(h) /\ UNCHANGED invoices
     /\ Fits

(***************************************************************************)
(* split_in_house_order: a line moved in full takes its sale along; of a   *)
(* line moved in part, line and sale keep the rest, and a new line and     *)
(* sale have the part, without a movement.                                 *)
(***************************************************************************)
Rest(r, l) == r.rows[l].qty - r.qtys[l]

InPart(r) == InIdOrder({l \in Selected(r, r.rows) : Rest(r, l) # 0})

SplitLine(r, new, l) ==
  CASE l \in Selected(r, r.rows) /\ Rest(r, l) = 0 ->
         [invoiceLines[l] EXCEPT !.order = IF @ = NoId THEN NoId ELSE new]
    [] l \in Selected(r, r.rows) /\ Rest(r, l) # 0 ->
         [invoiceLines[l] EXCEPT !.qty = Rest(r, l)]
    [] OTHER -> invoiceLines[l]

SaleOfWholeLine(r, new, s) == sales[s]

SplitSale(r, new, s) ==
  CASE IsMatched(r, s) /\ Rest(r, LineMatched(r, s)) = 0 ->
         [sales[s] EXCEPT !.order = new]
    [] IsMatched(r, s) /\ Rest(r, LineMatched(r, s)) # 0 ->
         [sales[s] EXCEPT !.qty = Rest(r, LineMatched(r, s))]
    [] OTHER -> sales[s]

(***************************************************************************)
(* The new sales: one for each part whose line has a sale.                 *)
(***************************************************************************)
PartSales(r, new) ==
  LET parts == InPart(r)
      sold  == InIdOrder({n \in DOMAIN parts : /\ parts[n] \in DOMAIN r.match
                                               /\ r.match[parts[n]] # NoId})
  IN MapSeq(sold, LAMBDA n :
       [order |-> new, line |-> Len(invoiceLines) + n,
        product |-> r.rows[parts[n]].product, qty |-> r.qtys[parts[n]],
        notes |-> r.row.notes \cup {r.order}])

SplitInvoice(h) ==
  LET r   == clerk[h]
      new == Len(invoices) + 1
      moved(l) == [order |-> new, product |-> r.rows[l].product, qty |-> r.qtys[l]]
  IN /\ r.step = "write" /\ r.op = "split"
     /\ invoices' = Append(invoices,
                      [status |-> r.row.status,
                       notes |-> r.row.notes \cup {r.order}])
     /\ invoiceLines' = [l \in DOMAIN invoiceLines |-> SplitLine(r, new, l)]
                          \o MapSeq(InPart(r), moved)
     /\ sales' = [s \in DOMAIN sales |-> SplitSale(r, new, s)]
                   \o PartSales(r, new)
     /\ NoMovement
     /\ Answer(h) /\ Fits

(***************************************************************************)
(* merge_in_house_orders: the lines the invoice has when they are moved,   *)
(* not those that were read; the sales too if it was read as approved.     *)
(***************************************************************************)
SaleStays(r, s) == sales[s]

MergedSale(r, s) ==
  IF r.row.status = "approved" /\ sales[s].order = r.order
    THEN [sales[s] EXCEPT !.order = r.target] ELSE sales[s]

MergeInvoice(h) ==
  LET r == clerk[h]
  IN /\ r.step = "write" /\ r.op = "merge"
     /\ invoiceLines' =
          [l \in DOMAIN invoiceLines |->
             IF invoiceLines[l].order = r.order
               THEN [invoiceLines[l] EXCEPT !.order = r.target]
               ELSE invoiceLines[l]]
     /\ sales' = [s \in DOMAIN sales |-> MergedSale(r, s)]
     /\ invoices' = [invoices EXCEPT
          ![r.order] = [status |-> "merged", notes |-> r.row.notes \cup {r.target}]]
     /\ Answer(h) /\ NoMovement

(***************************************************************************)
(* A transaction fails before it commits (a lost connection, a deadlock, a *)
(* crash): it leaves nothing behind, and the request is over.              *)
(***************************************************************************)
PosFail(h) ==
  /\ clerk[h].step # "idle"
  /\ Answer(h)
  /\ NoMovement /\ UNCHANGED posTables

-----------------------------------------------------------------------------
PosInit ==
  /\ invoices = << >>
  /\ invoiceLines = << >>
  /\ sales = << >>
  /\ clerk = [h \in Clerks |-> Idle]

PosArrival(h) ==
  StaffRequest(h) \/ GuestRequest(h) \/ CreateInvoice(h) \/ SellAtCounter(h)

PosWork(h) ==
  \/ ReadOrder(h) \/ ReadLines(h)
  \/ ApproveInvoice(h) \/ RejectInvoice(h) \/ CancelInvoice(h)
  \/ UpdateInvoice(h) \/ SplitInvoice(h) \/ MergeInvoice(h)
  \/ PosFail(h)

PosNext == \E h \in Clerks : PosArrival(h) \/ PosWork(h)

PosSpec == PosInit /\ StockInit /\ [][PosNext]_<<posVars, onHand, movements>>

-----------------------------------------------------------------------------
(* What the tables promise *)

(***************************************************************************)
(* Two requests on one invoice are open at the same time.                  *)
(***************************************************************************)
Touched(h) ==
  IF clerk[h].step = "idle" THEN {}
  ELSE {clerk[h].order, clerk[h].target} \ {NoId}

PosCrossed ==
  \E h, k \in Clerks : h # k /\ Touched(h) \cap Touched(k) # {}

SalesOfLine(l) == {s \in DOMAIN sales : sales[s].line = l}

(***************************************************************************)
(* Each line of an approved invoice has exactly one sale, of its product,  *)
(* quantity and invoice; a line of any other invoice has none, and neither *)
(* has a line that was deleted.                                            *)
(***************************************************************************)
LinesAreSoldOnce ==
  \A l \in DOMAIN invoiceLines :
    IF /\ invoiceLines[l].order # NoId
       /\ invoices[invoiceLines[l].order].status = "approved"
      THEN \E s \in DOMAIN sales :
             /\ SalesOfLine(l) = {s}
             /\ sales[s] = [sales[s] EXCEPT !.order = invoiceLines[l].order,
                                           !.product = invoiceLines[l].product,
                                           !.qty = invoiceLines[l].qty]
      ELSE SalesOfLine(l) = {}

(***************************************************************************)
(* What the sales say was sold of a product is what they took out of the   *)
(* stock.                                                                  *)
(***************************************************************************)
UnitsSold(p) ==
  Ledger!SumFunctionOnSet([s \in DOMAIN sales |-> sales[s].qty],
                          {s \in DOMAIN sales : sales[s].product = p})

SalesTookStock ==
  \A p \in Products : UnitsSold(p) = -NetOf("in_house_sale", p)
=============================================================================
