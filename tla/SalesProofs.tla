--------------------------- MODULE SalesProofs ---------------------------
(***************************************************************************)
(* What is proved of the sales in Warehouse, for every number of products, *)
(* desks, threads and orders. At the counter, when clerks do not overlap,  *)
(* each line of an approved invoice has the one sale it should have, and   *)
(* the units that left the stock are those of the sales there are. Of      *)
(* TikTok's orders, when no two requests on one overlap, each line takes   *)
(* its stock once, an order gives none back that it did not take, and the  *)
(* shop's follow the events that TikTok posts about them.                  *)
(***************************************************************************)
EXTENDS WarehouseProofs

-----------------------------------------------------------------------------
(* What counter sales have read is what there is *)

(***************************************************************************)
(* The sales of a line, and whether they are those it should have: one of  *)
(* its own if its invoice is approved, and none otherwise.                 *)
(***************************************************************************)
SalesFor(ss, l) == {s \in DOMAIN ss : ss[s].line = l}

IsSold(invs, lines, l) ==
  lines[l].order # NoId /\ invs[lines[l].order].status = "approved"

SoldAs(line, sale) ==
  sale.order = line.order /\ sale.product = line.product /\ sale.qty = line.qty

SoldOnce(invs, lines, ss, l) ==
  IF IsSold(invs, lines, l)
    THEN \E s \in DOMAIN ss : SalesFor(ss, l) = {s} /\ SoldAs(lines[l], ss[s])
    ELSE SalesFor(ss, l) = {}

(***************************************************************************)
(* The tables refer to each other: a line to an invoice, a sale to a line. *)
(***************************************************************************)
TablesAgree(invs, lines, ss) ==
  /\ \A l \in DOMAIN lines : lines[l].order \in {NoId} \cup DOMAIN invs
  /\ \A s \in DOMAIN ss : ss[s].line \in {NoId} \cup DOMAIN lines
  /\ \A l \in DOMAIN lines : SoldOnce(invs, lines, ss, l)

(***************************************************************************)
(* What a transaction read is still so: the invoice's row, its lines, and  *)
(* the sale it matched to each of them, which is the one of the line.      *)
(***************************************************************************)
LineIdsOf(lines, o) == {l \in DOMAIN lines : lines[l].order = o}

LineRowsIn(lines, o) ==
  [l \in LineIdsOf(lines, o) |-> [product |-> lines[l].product, qty |-> lines[l].qty]]

ToMatch(r) ==
  IF r.op \in {"update", "split"} /\ r.row.status = "approved"
    THEN MatchedLines(r, r.rows) ELSE {}

RowIsCurrent(r, invs) ==
  /\ r.row = invs[r.order]
  /\ r.op = "approve" => r.row.status \notin {"cancelled", "merged", "approved"}
  /\ r.op \in {"reject", "cancel"} => r.row.status # "approved"
  /\ r.op = "merge" => invs[r.target].status = r.row.status

LinesAreCurrent(r, lines, ss) ==
  /\ r.rows = LineRowsIn(lines, r.order)
  /\ DOMAIN r.match = ToMatch(r)
  /\ \A l \in DOMAIN r.match :
       r.match[l] \in DOMAIN ss /\ ss[r.match[l]].line = l
  /\ r.op = "update" /\ r.row.status = "approved"
       => DOMAIN r.qtys = DOMAIN r.rows /\ r.added = << >>

DeskIsCurrent(r, invs, lines, ss) ==
  /\ r.step # "idle" => r.target \in {NoId} \cup DOMAIN invs
  /\ r.step # "idle" /\ r.op = "merge"
       => r.target \in DOMAIN invs /\ r.target # r.order
  /\ r.step \in {"lines", "write"} => RowIsCurrent(r, invs)
  /\ r.step = "write" /\ r.op \notin {"reject", "cancel"}
       => LinesAreCurrent(r, lines, ss)

SalesCurrent(invs, lines, ss, desks) ==
  /\ TablesAgree(invs, lines, ss)
  /\ \A h \in Clerks : DeskIsCurrent(desks[h], invs, lines, ss)

AloneOnSales == "sales" \notin crossed

SalesAreCurrent ==
  AloneOnSales => ~PosCrossed /\ SalesCurrent(invoices, invoiceLines, sales, clerk)

(***************************************************************************)
(* What a step leaves alone: the invoices other than those in T, their     *)
(* lines, and for which line a sale is.                                    *)
(***************************************************************************)
SalesKept(ss, newSales) ==
  \A s \in DOMAIN ss : s \in DOMAIN newSales /\ newSales[s].line = ss[s].line

LineKept(T, invs, line, newLine) ==
  IF line.order \in T THEN newLine.order \notin DOMAIN invs \ T ELSE newLine = line

InvoicesKept(T, invs, newInvs) ==
  \A o \in DOMAIN invs : o \in DOMAIN newInvs /\ (o \notin T => newInvs[o] = invs[o])

OnlyTouched(T, invs, newInvs, lines, newLines, ss, newSales) ==
  /\ InvoicesKept(T, invs, newInvs)
  /\ \A l \in DOMAIN lines :
       l \in DOMAIN newLines /\ LineKept(T, invs, lines[l], newLines[l])
  /\ \A l \in DOMAIN newLines \ DOMAIN lines : newLines[l].order \notin DOMAIN invs \ T
  /\ SalesKept(ss, newSales)

LEMMA LinesUntouched ==
  ASSUME NEW T, NEW invs, NEW newInvs, NEW lines, NEW newLines, NEW ss, NEW newSales,
         OnlyTouched(T, invs, newInvs, lines, newLines, ss, newSales),
         NEW o \in DOMAIN invs, o \notin T
  PROVE  LineRowsIn(newLines, o) = LineRowsIn(lines, o)
<1>1. \A l \in DOMAIN newLines : newLines[l].order = o => l \in DOMAIN lines
  BY DEF OnlyTouched
<1>2. \A l \in DOMAIN lines :
        /\ l \in DOMAIN newLines
        /\ lines[l].order = o => newLines[l] = lines[l]
        /\ newLines[l].order = o => lines[l].order = o
  BY DEF OnlyTouched, LineKept
<1>3. LineIdsOf(newLines, o) = LineIdsOf(lines, o)
  BY <1>1, <1>2 DEF LineIdsOf
<1>4. \A l \in LineIdsOf(lines, o) : newLines[l] = lines[l]
  BY <1>2 DEF LineIdsOf
<1> QED
  BY <1>3, <1>4 DEF LineRowsIn

(***************************************************************************)
(* What a thread on other invoices has read stays current.                 *)
(***************************************************************************)
LEMMA DeskStays ==
  ASSUME NEW T, NEW invs, NEW newInvs, NEW lines, NEW newLines, NEW ss, NEW newSales,
         OnlyTouched(T, invs, newInvs, lines, newLines, ss, newSales),
         NEW r, DeskIsCurrent(r, invs, lines, ss),
         r.step # "idle" => /\ r.order \in DOMAIN invs
                            /\ r.order \notin T /\ r.target \notin T
  PROVE  DeskIsCurrent(r, newInvs, newLines, newSales)
<1>1. InvoicesKept(T, invs, newInvs) /\ SalesKept(ss, newSales)
  BY DEF OnlyTouched
<1>2. r.step # "idle" => r.target \in {NoId} \cup DOMAIN newInvs
  BY <1>1 DEF InvoicesKept, DeskIsCurrent
<1>3. r.step # "idle" /\ r.op = "merge" => r.target \in DOMAIN newInvs /\ r.target # r.order
  BY <1>1 DEF InvoicesKept, DeskIsCurrent
<1>4. ASSUME r.step \in {"lines", "write"} PROVE RowIsCurrent(r, newInvs)
  <2>1. RowIsCurrent(r, invs) /\ newInvs[r.order] = invs[r.order]
    BY <1>1, <1>4 DEF InvoicesKept, DeskIsCurrent
  <2>2. r.op = "merge" => newInvs[r.target] = invs[r.target]
    BY <1>1, <1>4 DEF InvoicesKept, DeskIsCurrent
  <2> QED
    BY <2>1, <2>2 DEF RowIsCurrent
<1>5. ASSUME r.step = "write", r.op \notin {"reject", "cancel"}
      PROVE  LinesAreCurrent(r, newLines, newSales)
  <2>1. LinesAreCurrent(r, lines, ss)
    BY <1>5 DEF DeskIsCurrent
  <2>2. LineRowsIn(newLines, r.order) = LineRowsIn(lines, r.order)
    BY <1>5, LinesUntouched
  <2> QED
    BY <1>1, <2>1, <2>2 DEF LinesAreCurrent, SalesKept
<1> QED
  BY <1>2, <1>3, <1>4, <1>5 DEF DeskIsCurrent

LEMMA IdleDeskIsCurrent ==
  ASSUME NEW invs, NEW lines, NEW ss
  PROVE  DeskIsCurrent(Idle, invs, lines, ss)
<1>1. Idle.step = "idle"
  BY IdleDesk
<1> QED
  BY <1>1 DEF DeskIsCurrent

(***************************************************************************)
(* The sales of a line stay the same when none is added for it, and then   *)
(* it is sold once if the edits of line and sale agree.                    *)
(***************************************************************************)
LEMMA SameSalesFor ==
  ASSUME NEW ss, NEW newSales, SalesKept(ss, newSales), NEW l,
         \A s \in DOMAIN newSales \ DOMAIN ss : newSales[s].line # l
  PROVE  SalesFor(newSales, l) = SalesFor(ss, l)
  BY DEF SalesKept, SalesFor

LEMMA SoldStill ==
  ASSUME NEW invs, NEW newInvs, NEW lines, NEW newLines, NEW ss, NEW newSales,
         SalesKept(ss, newSales), NEW l, SoldOnce(invs, lines, ss, l),
         \A s \in DOMAIN newSales \ DOMAIN ss : newSales[s].line # l,
         IsSold(newInvs, newLines, l) <=> IsSold(invs, lines, l),
         IsSold(invs, lines, l) =>
           \A s \in DOMAIN ss : /\ ss[s].line = l /\ SoldAs(lines[l], ss[s])
                                => SoldAs(newLines[l], newSales[s])
  PROVE  SoldOnce(newInvs, newLines, newSales, l)
<1>1. SalesFor(newSales, l) = SalesFor(ss, l)
  BY SameSalesFor
<1>2. CASE ~IsSold(invs, lines, l)
  BY <1>1, <1>2 DEF SoldOnce
<1>3. CASE IsSold(invs, lines, l)
  <2>1. PICK s \in DOMAIN ss : SalesFor(ss, l) = {s} /\ SoldAs(lines[l], ss[s])
    BY <1>3 DEF SoldOnce
  <2>2. ss[s].line = l
    BY <2>1 DEF SalesFor
  <2>3. s \in DOMAIN newSales
    BY DEF SalesKept
  <2> QED
    BY <1>1, <1>3, <2>1, <2>2, <2>3 DEF SoldOnce
<1> QED
  BY <1>2, <1>3

(***************************************************************************)
(* What a request aims at, and what it reads first.                        *)
(***************************************************************************)
Aimed(r) ==
  IF r.op = "merge" THEN r.target \in DOMAIN invoices /\ r.target # r.order
                    ELSE r.target = NoId

LEMMA OnAims ==
  ASSUME NEW op, NEW o
  PROVE  On(op, o).op = op /\ On(op, o).order = o /\ On(op, o).target = NoId
  BY DEF On, Idle

LEMMA EditAims ==
  ASSUME NEW op, NEW o, NEW q, NEW a
  PROVE  Edit(op, o, q, a).op = op /\ Edit(op, o, q, a).target = NoId
<1> DEFINE d == On(op, o)
<1>1. d.op = op /\ d.target = NoId
  BY OnAims
<1>2. Edit(op, o, q, a) = [d EXCEPT !.qtys = q, !.added = a]
  BY DEF Edit
<1> HIDE DEF d
<1> QED
  BY <1>1, <1>2

LEMMA RequestsAim ==
  ASSUME PosTypeOK, NEW r \in EditRequests \cup StatusRequests
  PROVE  IsRequest(r) /\ Aimed(r)
<1>1. IsRequest(r)
  BY Requested
<1>2. CASE r \in StatusRequests
  <2>1. PICK op \in {"approve", "reject", "cancel"}, o \in DOMAIN invoices : r = On(op, o)
    BY <1>2 DEF StatusRequests
  <2> QED
    BY <1>1, <2>1, OnAims DEF Aimed
<1>3. CASE r \in EditRequests
  <2>1. r \in UpdateRequests \cup SplitRequests \cup MergeRequests /\ r.order # r.target
    BY <1>3 DEF EditRequests
  <2>2. CASE r \in UpdateRequests
    <3>1. \E o \in DOMAIN invoices :
            \E q \in Functions(LinesOf(o), SoldQty), a \in Carts \cup {<< >>} :
              r = Edit("update", o, q, a)
      BY <2>2 DEF UpdateRequests
    <3> QED
      BY <1>1, <3>1, EditAims DEF Aimed
  <2>3. CASE r \in SplitRequests
    <3>1. \E o \in DOMAIN invoices :
            \E q \in Functions(LinesOf(o), SoldQty) : r = Edit("split", o, q, << >>)
      BY <2>3 DEF SplitRequests
    <3> QED
      BY <1>1, <3>1, EditAims DEF Aimed
  <2>4. CASE r \in MergeRequests
    <3>1. PICK o \in DOMAIN invoices, t \in DOMAIN invoices :
            r = [On("merge", o) EXCEPT !.target = t]
      BY <2>4 DEF MergeRequests
    <3> DEFINE d == On("merge", o)
    <3>2. d.op = "merge" /\ d.order = o
      BY OnAims
    <3>3. IsRequest(d)
      BY StatusRequested
    <3>4. DOMAIN d = {"step", "op", "order", "target", "qtys", "added",
                      "row", "rows", "match"}
      BY <3>3 DEF IsRequest, IsDesk
    <3> HIDE DEF d
    <3>5. r.op = "merge" /\ r.target = t /\ r.order = o
      BY <3>1, <3>2, <3>4 DEF d
    <3> QED
      BY <1>1, <2>1, <3>5 DEF Aimed
  <2> QED
    BY <2>1, <2>2, <2>3, <2>4
<1> QED
  BY <1>1, <1>2, <1>3

LEMMA AimedAtInvoices ==
  ASSUME NEW r, Aimed(r)
  PROVE  /\ r.target \in {NoId} \cup DOMAIN invoices
         /\ r.op = "merge" => r.target \in DOMAIN invoices /\ r.target # r.order
  BY DEF Aimed

LEMMA ReadCurrent ==
  ASSUME NEW r, IsDesk(r), ~Refused(r),
         r.target \in {NoId} \cup DOMAIN invoices,
         r.op = "merge" => r.target \in DOMAIN invoices /\ r.target # r.order
  PROVE  DeskIsCurrent(ReadBy(r), invoices, invoiceLines, sales)
<1> DEFINE step == IF r.op \in {"reject", "cancel"} THEN "write" ELSE "lines"
           row == invoices[r.order]
           d == [r EXCEPT !.row = row, !.step = step]
<1>1. ReadBy(r) = d
  BY DEF ReadBy
<1>2. /\ d.step = step /\ d.op = r.op /\ d.order = r.order /\ d.target = r.target
      /\ d.row = row
  BY DEF IsDesk
<1>3. step \in {"lines", "write"} /\ (step = "write" => r.op \in {"reject", "cancel"})
  OBVIOUS
<1>4. /\ r.op = "approve" => row.status \notin {"cancelled", "merged", "approved"}
      /\ r.op \in {"reject", "cancel"} => row.status # "approved"
      /\ r.op = "merge" => invoices[r.target].status = row.status
  BY DEF Refused
<1> HIDE DEF step, d
<1>5. RowIsCurrent(d, invoices)
  BY <1>2, <1>4 DEF RowIsCurrent
<1> QED
  BY <1>1, <1>2, <1>3, <1>5 DEF DeskIsCurrent

(***************************************************************************)
(* The reads, which change no table.                                       *)
(***************************************************************************)
LEMMA TablesSame ==
  ASSUME UNCHANGED posTables, TablesAgree(invoices, invoiceLines, sales), NEW T
  PROVE  /\ TablesAgree(invoices', invoiceLines', sales')
         /\ OnlyTouched(T, invoices, invoices', invoiceLines, invoiceLines', sales, sales')
<1>1. invoices' = invoices /\ invoiceLines' = invoiceLines /\ sales' = sales
  BY DEF posTables
<1>2. TablesAgree(invoices', invoiceLines', sales')
  BY <1>1
<1>3. InvoicesKept(T, invoices, invoices') /\ SalesKept(sales, sales')
  BY <1>1 DEF InvoicesKept, SalesKept
<1>4. \A l \in DOMAIN invoiceLines :
        /\ l \in DOMAIN invoiceLines'
        /\ LineKept(T, invoices, invoiceLines[l], invoiceLines'[l])
  BY <1>1 DEF LineKept
<1> QED
  BY <1>1, <1>2, <1>3, <1>4 DEF OnlyTouched

LEMMA DeskOf ==
  ASSUME PosTypeOK, NEW h \in Clerks, NEW d, clerk' = [clerk EXCEPT ![h] = d]
  PROVE  clerk'[h] = d /\ \A k \in Clerks \ {h} : clerk'[k] = clerk[k]
  BY DEF PosTypeOK

LEMMA RequestsCurrent ==
  ASSUME PosTypeOK, NEW h \in Clerks, StaffRequest(h) \/ GuestRequest(h)
  PROVE  DeskIsCurrent(clerk'[h], invoices, invoiceLines, sales)
<1>1. CASE StaffRequest(h)
  <2>1. PICK r \in EditRequests \cup StatusRequests :
          ~Refused(r) /\ clerk' = [clerk EXCEPT ![h] = ReadBy(r)]
    BY <1>1 DEF StaffRequest
  <2>2. IsDesk(r) /\ Aimed(r)
    BY RequestsAim DEF IsRequest
  <2>3. DeskIsCurrent(ReadBy(r), invoices, invoiceLines, sales)
    BY <2>1, <2>2, AimedAtInvoices, ReadCurrent
  <2> QED
    BY <2>1, <2>3, DeskOf
<1>2. CASE GuestRequest(h)
  <2>1. PICK r \in EditRequests : clerk' = [clerk EXCEPT ![h] = r]
    BY <1>2 DEF GuestRequest
  <2>2. r.step = "order" /\ Aimed(r)
    BY RequestsAim DEF IsRequest
  <2>3. DeskIsCurrent(r, invoices, invoiceLines, sales)
    BY <2>2, AimedAtInvoices DEF DeskIsCurrent
  <2> QED
    BY <2>1, <2>3, DeskOf
<1> QED
  BY <1>1, <1>2

LEMMA ReadOrderCurrent ==
  ASSUME PosTypeOK, NEW h \in Clerks, ReadOrder(h),
         DeskIsCurrent(clerk[h], invoices, invoiceLines, sales)
  PROVE  DeskIsCurrent(clerk'[h], invoices, invoiceLines, sales)
<1>1. CASE Refused(clerk[h])
  BY <1>1, DeskOf, IdleDeskIsCurrent DEF ReadOrder, Answer
<1>2. CASE ~Refused(clerk[h])
  <2> DEFINE r == clerk[h]
  <2>1. r.step = "order" /\ clerk' = [clerk EXCEPT ![h] = ReadBy(r)]
    BY <1>2 DEF ReadOrder
  <2>2. IsDesk(r)
    BY AtDesk
  <2>3. /\ r.target \in {NoId} \cup DOMAIN invoices
        /\ r.op = "merge" => r.target \in DOMAIN invoices /\ r.target # r.order
    BY <2>1 DEF DeskIsCurrent
  <2>4. clerk'[h] = ReadBy(r)
    BY <2>1, DeskOf
  <2> HIDE DEF r
  <2>5. ~Refused(r)
    BY <1>2 DEF r
  <2> QED
    BY <2>2, <2>3, <2>4, <2>5, ReadCurrent
<1> QED
  BY <1>1, <1>2

(***************************************************************************)
(* _match_pg_in_house_sales_for_order: when each line of an approved       *)
(* invoice has its one sale, the matching finds it; the sales other lines  *)
(* took before are theirs, and it never falls back on the product.         *)
(***************************************************************************)
LEMMA MatchIsSale ==
  ASSUME PosTypeOK, TablesAgree(invoices, invoiceLines, sales),
         NEW o \in DOMAIN invoices, invoices[o].status = "approved",
         NEW rows, NEW lines, lines \subseteq LinesOf(o), NEW f \in Matches(o, rows, lines)
  PROVE  \A l \in lines : f[l] \in DOMAIN sales /\ sales[f[l]].line = l
<1> DEFINE bad == {l \in lines : ~(f[l] \in DOMAIN sales /\ sales[f[l]].line = l)}
<1> SUFFICES ASSUME bad # {} PROVE FALSE
  OBVIOUS
<1>1. lines \subseteq DOMAIN invoiceLines /\ \A l \in lines : invoiceLines[l].order = o
  BY DEF LinesOf
<1>2. \A l \in lines : l \in Nat
  BY <1>1, PosRows
<1>3. PICK l \in bad : \A k \in bad : l <= k
  BY <1>2, LeastElement
<1>4. l \in lines
  OBVIOUS
<1>5. o # NoId
  BY LenProperties DEF PosTypeOK, NoId
<1>6. IsSold(invoices, invoiceLines, l)
  BY <1>1, <1>4, <1>5 DEF IsSold
<1>7. PICK s \in DOMAIN sales :
        SalesFor(sales, l) = {s} /\ SoldAs(invoiceLines[l], sales[s])
  BY <1>1, <1>4, <1>6 DEF TablesAgree, SoldOnce
<1>8. sales[s].line = l /\ sales[s].order = o
  BY <1>1, <1>4, <1>7 DEF SalesFor, SoldAs
<1> DEFINE taken == {f[k] : k \in {j \in DOMAIN f : j < l}}
           direct == {t \in SalesNaming(o) \ taken : sales[t].line = l}
           same == {t \in SalesNaming(o) \ taken : sales[t].product = rows[l].product}
<1>9. DOMAIN f = lines /\ IsMatch(f, o, rows)
  BY DEF Matches
<1>10. f[l] = FirstOf(IF direct # {} THEN direct ELSE same)
  BY <1>4, <1>9 DEF IsMatch
<1>11. s \notin taken
  <2> SUFFICES ASSUME NEW k \in DOMAIN f, k < l, f[k] = s PROVE FALSE
    OBVIOUS
  <2>1. k \notin bad
    BY <1>2, <1>3, <1>4, <1>9
  <2>2. sales[f[k]].line = k
    BY <1>9, <2>1
  <2> QED
    BY <1>2, <1>4, <1>8, <1>9, <2>2
<1>12. s \in direct
  BY <1>7, <1>8, <1>11 DEF SalesNaming
<1>13. direct \subseteq {s}
  <2>1. direct \subseteq SalesFor(sales, l)
    BY DEF SalesNaming, SalesFor
  <2> QED
    BY <1>7, <2>1
<1>14. direct = {s}
  BY <1>12, <1>13
<1>15. s \in Nat
  BY <1>7, LenProperties DEF PosTypeOK
<1>16. FirstOf({s}) = s
  BY <1>15 DEF FirstOf
<1>17. f[l] = s
  BY <1>10, <1>14, <1>16
<1> QED
  BY <1>7, <1>8, <1>17

LEMMA RowsRead ==
  ASSUME NEW o
  PROVE  /\ LineRowsOf(o) = LineRowsIn(invoiceLines, o)
         /\ LinesOf(o) = LineIdsOf(invoiceLines, o)
  BY DEF LineRowsOf, LineRowsIn, LinesOf, LineIdsOf

LEMMA ReadLinesCurrent ==
  ASSUME PosTypeOK, NEW h \in Clerks, ReadLines(h),
         TablesAgree(invoices, invoiceLines, sales),
         DeskIsCurrent(clerk[h], invoices, invoiceLines, sales)
  PROVE  DeskIsCurrent(clerk'[h], invoices, invoiceLines, sales)
<1> DEFINE r == clerk[h]
           rows == LineRowsOf(r.order)
<1>1. PICK match \in IF r.op \in {"update", "split"} /\ r.row.status = "approved"
                       THEN Matches(r.order, rows, MatchedLines(r, rows))
                       ELSE {<< >>} :
        IF Rejected(r, rows, match)
          THEN Answer(h)
          ELSE clerk' = [clerk EXCEPT ![h] =
                           [r EXCEPT !.step = "write", !.rows = rows, !.match = match]]
  BY DEF ReadLines
<1>2. CASE Rejected(r, rows, match)
  <2>1. Answer(h)
    BY <1>1, <1>2
  <2>2. clerk'[h] = Idle
    BY <2>1, DeskOf DEF Answer
  <2> QED
    BY <2>2, IdleDeskIsCurrent
<1>3. CASE ~Rejected(r, rows, match)
  <2> DEFINE d == [r EXCEPT !.step = "write", !.rows = rows, !.match = match]
  <2>1. clerk'[h] = d
    BY <1>1, <1>3, DeskOf
  <2>2. IsDesk(r) /\ r.step = "lines" /\ r.order \in DOMAIN invoices
    BY AtDesk DEF ReadLines
  <2>3. /\ r.target \in {NoId} \cup DOMAIN invoices
        /\ r.op = "merge" => r.target \in DOMAIN invoices /\ r.target # r.order
        /\ RowIsCurrent(r, invoices)
    BY <2>2 DEF DeskIsCurrent
  <2>4. /\ d.step = "write" /\ d.op = r.op /\ d.order = r.order
        /\ d.target = r.target /\ d.qtys = r.qtys /\ d.added = r.added
        /\ d.row = r.row /\ d.rows = rows /\ d.match = match
    BY <2>2 DEF IsDesk
  <2>5. DOMAIN match = ToMatch(d)
        /\ \A l \in DOMAIN match : match[l] \in DOMAIN sales /\ sales[match[l]].line = l
    <3>1. CASE r.op \in {"update", "split"} /\ r.row.status = "approved"
      <4>1. match \in Matches(r.order, rows, MatchedLines(r, rows))
        BY <1>1, <3>1
      <4>2. DOMAIN rows = LinesOf(r.order)
        BY LinesRead
      <4>3. MatchedLines(r, rows) \subseteq LinesOf(r.order)
        BY <4>2 DEF MatchedLines, Selected
      <4>4. invoices[r.order].status = "approved"
        BY <2>3, <3>1 DEF RowIsCurrent
      <4>5. DOMAIN match = MatchedLines(r, rows)
        BY <4>1 DEF Matches
      <4>6. MatchedLines(d, rows) = MatchedLines(r, rows)
        BY <2>4 DEF MatchedLines, Selected
      <4> HIDE DEF rows, d, r
      <4>7. \A l \in DOMAIN match : match[l] \in DOMAIN sales /\ sales[match[l]].line = l
        BY <2>2, <4>1, <4>3, <4>4, <4>5, MatchIsSale
      <4>8. ToMatch(d) = MatchedLines(d, rows)
        BY <2>4, <3>1 DEF ToMatch
      <4> QED
        BY <4>5, <4>6, <4>7, <4>8
    <3>2. CASE ~(r.op \in {"update", "split"} /\ r.row.status = "approved")
      <4>1. match = << >>
        BY <1>1, <3>2
      <4>2. DOMAIN match = {}
        BY <4>1
      <4>3. ToMatch(d) = {}
        BY <2>4, <3>2 DEF ToMatch
      <4> QED
        BY <4>2, <4>3
    <3> QED
      BY <3>1, <3>2
  <2>6. r.op = "update" /\ r.row.status = "approved"
          => DOMAIN r.qtys = DOMAIN rows /\ r.added = << >>
    BY <1>3 DEF Rejected
  <2>7. rows = LineRowsIn(invoiceLines, r.order)
    BY RowsRead
  <2> HIDE DEF d, r, rows
  <2>8. LinesAreCurrent(d, invoiceLines, sales)
    BY <2>4, <2>5, <2>6, <2>7 DEF LinesAreCurrent
  <2>9. RowIsCurrent(d, invoices)
    BY <2>3, <2>4 DEF RowIsCurrent
  <2> QED
    BY <2>1, <2>3, <2>4, <2>8, <2>9 DEF DeskIsCurrent
<1> QED
  BY <1>2, <1>3

(***************************************************************************)
(* A row of a table another has been appended to.                          *)
(***************************************************************************)
LEMMA RowOfBoth ==
  ASSUME NEW S, NEW s \in Seq(S), NEW t \in Seq(S), NEW n \in DOMAIN (s \o t)
  PROVE  \/ n \in DOMAIN s /\ (s \o t)[n] = s[n]
         \/ n \notin DOMAIN s /\ n - Len(s) \in DOMAIN t /\ (s \o t)[n] = t[n - Len(s)]
<1>1. /\ Len(s) \in Nat /\ Len(t) \in Nat
      /\ DOMAIN s = 1 .. Len(s) /\ DOMAIN t = 1 .. Len(t)
      /\ DOMAIN (s \o t) = 1 .. Len(s) + Len(t)
      /\ \A i \in 1 .. Len(s) : (s \o t)[i] = s[i]
      /\ \A i \in 1 .. Len(t) : (s \o t)[Len(s) + i] = t[i]
  BY ConcatProperties, LenProperties
<1>2. n \in Int /\ 1 <= n /\ n <= Len(s) + Len(t)
  BY <1>1
<1> DEFINE m == n - Len(s)
<1>3. CASE n <= Len(s)
  BY <1>1, <1>2, <1>3
<1>4. CASE ~(n <= Len(s))
  <2>1. m \in 1 .. Len(t) /\ Len(s) + m = n /\ n \notin 1 .. Len(s)
    BY <1>1, <1>2, <1>4
  <2> HIDE DEF m
  <2>2. (s \o t)[n] = t[m]
    BY <1>1, <2>1
  <2> QED
    BY <1>1, <2>1, <2>2 DEF m
<1> QED
  BY <1>3, <1>4

LEMMA OldRowOfBoth ==
  ASSUME NEW S, NEW s \in Seq(S), NEW t \in Seq(S), NEW n \in DOMAIN s
  PROVE  n \in DOMAIN (s \o t) /\ (s \o t)[n] = s[n]
<1>1. /\ Len(s) \in Nat /\ Len(t) \in Nat
      /\ DOMAIN s = 1 .. Len(s)
      /\ DOMAIN (s \o t) = 1 .. Len(s) + Len(t)
      /\ \A i \in 1 .. Len(s) : (s \o t)[i] = s[i]
  BY ConcatProperties, LenProperties
<1> QED
  BY <1>1

LEMMA RowsOfBoth ==
  ASSUME NEW S, NEW s \in Seq(S), NEW t \in Seq(S), NEW u, u = s \o t
  PROVE  /\ Len(s) \in Nat /\ Len(t) \in Nat
         /\ DOMAIN s = 1 .. Len(s) /\ DOMAIN t = 1 .. Len(t)
         /\ DOMAIN u = 1 .. Len(s) + Len(t)
         /\ \A i \in 1 .. Len(s) : u[i] = s[i]
         /\ \A i \in 1 .. Len(t) : u[Len(s) + i] = t[i]
  BY ConcatProperties, LenProperties

LEMMA RowOfAppended ==
  ASSUME NEW S, NEW s \in Seq(S), NEW e \in S
  PROVE  /\ DOMAIN Append(s, e) = DOMAIN s \cup {Len(s) + 1}
         /\ Len(s) + 1 \notin DOMAIN s /\ Len(s) + 1 \in Nat \ {0}
         /\ Append(s, e)[Len(s) + 1] = e
         /\ \A n \in DOMAIN s : Append(s, e)[n] = s[n]
<1>1. /\ Len(s) \in Nat /\ DOMAIN s = 1 .. Len(s)
      /\ DOMAIN Append(s, e) = 1 .. Len(s) + 1
      /\ \A i \in 1 .. Len(s) : Append(s, e)[i] = s[i]
      /\ Append(s, e)[Len(s) + 1] = e
  BY AppendProperties, LenProperties
<1> QED
  BY <1>1

LEMMA NewLineRow ==
  ASSUME NEW o, NEW items, NEW n \in DOMAIN NewLines(o, items)
  PROVE  NewLines(o, items)[n].order = o
  BY DEF NewLines, MapSeq

LEMMA NoRowIsZero ==
  ASSUME NEW S, NEW s \in Seq(S) PROVE NoId \notin DOMAIN s
  BY LenProperties DEF NoId

(***************************************************************************)
(* The lines of a new invoice are pending and have no sale.                *)
(***************************************************************************)
LEMMA CreateInvoiceCurrent ==
  ASSUME PosTypeOK, PosTypeOK', NEW h \in Clerks, CreateInvoice(h), NEW T,
         TablesAgree(invoices, invoiceLines, sales)
  PROVE  /\ TablesAgree(invoices', invoiceLines', sales')
         /\ OnlyTouched(T, invoices, invoices', invoiceLines, invoiceLines', sales, sales')
         /\ DeskIsCurrent(clerk'[h], invoices', invoiceLines', sales')
<1> DEFINE o == Len(invoices) + 1
           row == [status |-> "pending_approval", notes |-> {}]
<1>1. PICK cart \in Carts :
        /\ invoices' = Append(invoices, row)
        /\ invoiceLines' = invoiceLines \o NewLines(o, cart)
        /\ clerk' = [clerk EXCEPT ![h] = On("approve", o)] \/ Answer(h)
  BY DEF CreateInvoice
<1>2. sales' = sales
  BY DEF CreateInvoice
<1>3. row \in InvoiceRow /\ row.status # "approved"
  BY DEF InvoiceRow, Statuses
<1> HIDE DEF row
<1>4. /\ DOMAIN invoices' = DOMAIN invoices \cup {o}
      /\ o \notin DOMAIN invoices /\ o \in Nat \ {0}
      /\ invoices'[o] = row
      /\ \A n \in DOMAIN invoices : invoices'[n] = invoices[n]
  BY <1>1, <1>3, RowOfAppended DEF PosTypeOK
<1> HIDE DEF o
<1> DEFINE more == NewLines(o, cart)
<1>5. more \in Seq(InvoiceLineRow)
  BY <1>4, NewLinesType, PosConstants
<1>6. \A n \in DOMAIN more : more[n].order = o
  BY NewLineRow
<1> HIDE DEF more
<1>7. invoiceLines' = invoiceLines \o more /\ invoiceLines \in Seq(InvoiceLineRow)
  BY <1>1 DEF more, PosTypeOK
<1>8. \A l \in DOMAIN invoiceLines :
        l \in DOMAIN invoiceLines' /\ invoiceLines'[l] = invoiceLines[l]
  BY <1>5, <1>7, OldRowOfBoth
<1>9. \A l \in DOMAIN invoiceLines' \ DOMAIN invoiceLines : invoiceLines'[l].order = o
  BY <1>5, <1>6, <1>7, RowOfBoth
<1>10. SalesKept(sales, sales')
  BY <1>2 DEF SalesKept
<1>11. ASSUME NEW l \in DOMAIN invoiceLines'
       PROVE  SoldOnce(invoices', invoiceLines', sales', l)
  <2>1. CASE l \in DOMAIN invoiceLines
    <3>1. invoiceLines'[l] = invoiceLines[l] /\ invoiceLines[l].order \in {NoId} \cup DOMAIN invoices
          /\ SoldOnce(invoices, invoiceLines, sales, l)
      BY <1>8, <2>1 DEF TablesAgree
    <3>2. IsSold(invoices', invoiceLines', l) <=> IsSold(invoices, invoiceLines, l)
      BY <1>4, <3>1 DEF IsSold
    <3> QED
      BY <1>2, <1>10, <3>1, <3>2, SoldStill
  <2>2. CASE l \notin DOMAIN invoiceLines
    <3>1. ~IsSold(invoices', invoiceLines', l)
      BY <1>3, <1>4, <1>9, <2>2 DEF IsSold
    <3>2. l # NoId
      BY NoRowIsZero DEF PosTypeOK
    <3>3. SalesFor(sales', l) = {}
      BY <1>2, <2>2, <3>2 DEF SalesFor, TablesAgree
    <3> QED
      BY <3>1, <3>3 DEF SoldOnce
  <2> QED
    BY <2>1, <2>2
<1>12. TablesAgree(invoices', invoiceLines', sales')
  <2>1. \A l \in DOMAIN invoiceLines' :
          invoiceLines'[l].order \in {NoId} \cup DOMAIN invoices'
    BY <1>4, <1>8, <1>9 DEF TablesAgree
  <2>2. \A s \in DOMAIN sales' : sales'[s].line \in {NoId} \cup DOMAIN invoiceLines'
    BY <1>2, <1>8 DEF TablesAgree
  <2> QED
    BY <1>11, <2>1, <2>2 DEF TablesAgree
<1>13. OnlyTouched(T, invoices, invoices', invoiceLines, invoiceLines', sales, sales')
  <2>1. InvoicesKept(T, invoices, invoices')
    BY <1>4 DEF InvoicesKept
  <2>2. \A l \in DOMAIN invoiceLines :
          LineKept(T, invoices, invoiceLines[l], invoiceLines'[l])
    BY <1>8 DEF LineKept
  <2> QED
    BY <1>4, <1>8, <1>9, <1>10, <2>1, <2>2 DEF OnlyTouched
<1>14. DeskIsCurrent(clerk'[h], invoices', invoiceLines', sales')
  <2>1. CASE Answer(h)
    BY <2>1, DeskOf, IdleDeskIsCurrent DEF Answer
  <2>2. CASE clerk' = [clerk EXCEPT ![h] = On("approve", o)]
    <3> DEFINE d == On("approve", o)
    <3>1. d.op = "approve" /\ d.target = NoId /\ d.step = "order"
      BY DEF On, Idle
    <3>2. clerk'[h] = d
      BY <2>2, DeskOf
    <3> HIDE DEF d
    <3> QED
      BY <3>1, <3>2 DEF DeskIsCurrent
  <2> QED
    BY <1>1, <2>1, <2>2
<1> QED
  BY <1>12, <1>13, <1>14

(***************************************************************************)
(* A sale over the counter is for no line.                                 *)
(***************************************************************************)
LEMMA SellAtCounterCurrent ==
  ASSUME PosTypeOK, PosTypeOK', NEW h \in Clerks, SellAtCounter(h), NEW T,
         TablesAgree(invoices, invoiceLines, sales)
  PROVE  /\ TablesAgree(invoices', invoiceLines', sales')
         /\ OnlyTouched(T, invoices, invoices', invoiceLines, invoiceLines', sales, sales')
<1>1. PICK cart \in Carts :
        sales' = Append(sales, [order |-> NoId, line |-> NoId,
                                product |-> Head(cart).product,
                                qty |-> Head(cart).qty, notes |-> {}])
  BY DEF SellAtCounter
<1>2. invoices' = invoices /\ invoiceLines' = invoiceLines
  BY DEF SellAtCounter
<1> DEFINE sale == [order |-> NoId, line |-> NoId, product |-> Head(cart).product,
                    qty |-> Head(cart).qty, notes |-> {}]
           new == Len(sales) + 1
<1>3. sale \in SaleRow
  <2>1. cart \in Seq(Item) /\ cart # << >>
    BY PosConstants
  <2>2. Head(cart) \in Item
    BY <2>1, HeadTailProperties
  <2> QED
    BY <2>2, SoldIsPositive DEF Item, SaleRow, NoId
<1>4. sales' = Append(sales, sale) /\ sale.line = NoId
  BY <1>1
<1> HIDE DEF sale
<1>5. /\ DOMAIN sales' = DOMAIN sales \cup {new} /\ sales'[new].line = NoId
      /\ \A s \in DOMAIN sales : sales'[s] = sales[s]
  BY <1>3, <1>4, RowOfAppended DEF PosTypeOK
<1> HIDE DEF new
<1>6. SalesKept(sales, sales')
  BY <1>5 DEF SalesKept
<1>7. ASSUME NEW l \in DOMAIN invoiceLines
      PROVE  SoldOnce(invoices', invoiceLines', sales', l)
  <2>1. SoldOnce(invoices, invoiceLines, sales, l) /\ l # NoId
    BY NoRowIsZero DEF TablesAgree, PosTypeOK
  <2>2. \A s \in DOMAIN sales' \ DOMAIN sales : sales'[s].line # l
    BY <1>5, <2>1
  <2> QED
    BY <1>2, <1>5, <1>6, <2>1, <2>2, SoldStill
<1>8. TablesAgree(invoices', invoiceLines', sales')
  BY <1>2, <1>5, <1>7 DEF TablesAgree
<1>9. InvoicesKept(T, invoices, invoices')
  BY <1>2 DEF InvoicesKept
<1>10. \A l \in DOMAIN invoiceLines :
         LineKept(T, invoices, invoiceLines[l], invoiceLines'[l])
  BY <1>2 DEF LineKept
<1>11. OnlyTouched(T, invoices, invoices', invoiceLines, invoiceLines', sales, sales')
  BY <1>2, <1>6, <1>9, <1>10 DEF OnlyTouched
<1> QED
  BY <1>8, <1>11

(***************************************************************************)
(* What a thread is about to write of, when what it read is current.       *)
(***************************************************************************)
LEMMA AboutToWrite ==
  ASSUME PosTypeOK, NEW h \in Clerks, NEW r, r = clerk[h], r.step = "write",
         DeskIsCurrent(clerk[h], invoices, invoiceLines, sales)
  PROVE  /\ IsDesk(r) /\ r.order \in DOMAIN invoices /\ r.order \in Nat /\ r.order # NoId
         /\ r.order \in Touched(h) /\ Touched(h) \subseteq DOMAIN invoices
         /\ RowIsCurrent(r, invoices)
         /\ r.op \notin {"reject", "cancel"} => LinesAreCurrent(r, invoiceLines, sales)
         /\ r.op = "merge" => /\ r.target \in DOMAIN invoices /\ r.target # r.order
                              /\ r.target # NoId /\ r.target \in Touched(h)
<1>1. IsDesk(r) /\ r.order \in DOMAIN invoices /\ r.order \in Nat
  BY AtDesk
<1>2. NoId \notin DOMAIN invoices
  BY NoRowIsZero DEF PosTypeOK
<1>3. Touched(h) = {r.order, r.target} \ {NoId} /\ r.target \in {NoId} \cup DOMAIN invoices
  BY DEF Touched, DeskIsCurrent
<1>4. RowIsCurrent(r, invoices)
      /\ (r.op \notin {"reject", "cancel"} => LinesAreCurrent(r, invoiceLines, sales))
      /\ (r.op = "merge" => r.target \in DOMAIN invoices /\ r.target # r.order)
  BY DEF DeskIsCurrent
<1> QED
  BY <1>1, <1>2, <1>3, <1>4

LEMMA LinesRight ==
  ASSUME NEW r, NEW lines, NEW ss, LinesAreCurrent(r, lines, ss)
  PROVE  /\ DOMAIN r.rows = LineIdsOf(lines, r.order)
         /\ \A l \in DOMAIN lines : l \in DOMAIN r.rows <=> lines[l].order = r.order
         /\ \A l \in DOMAIN r.rows : /\ l \in DOMAIN lines /\ lines[l].order = r.order
                                     /\ r.rows[l].product = lines[l].product
                                     /\ r.rows[l].qty = lines[l].qty
<1>1. r.rows = LineRowsIn(lines, r.order)
  BY DEF LinesAreCurrent
<1>2. DOMAIN r.rows = LineIdsOf(lines, r.order)
      /\ \A l \in LineIdsOf(lines, r.order) :
           r.rows[l].product = lines[l].product /\ r.rows[l].qty = lines[l].qty
  BY <1>1 DEF LineRowsIn
<1> QED
  BY <1>2 DEF LineIdsOf

(***************************************************************************)
(* approve_in_house_order: each line of the invoice gets a sale.           *)
(***************************************************************************)
LEMMA ApproveCurrent ==
  ASSUME PosTypeOK, PosTypeOK', NEW h \in Clerks, ApproveInvoice(h),
         TablesAgree(invoices, invoiceLines, sales),
         DeskIsCurrent(clerk[h], invoices, invoiceLines, sales)
  PROVE  /\ TablesAgree(invoices', invoiceLines', sales')
         /\ OnlyTouched(Touched(h), invoices, invoices', invoiceLines, invoiceLines',
                        sales, sales')
<1> DEFINE r == clerk[h]
           T == Touched(h)
           ids == InIdOrder(DOMAIN r.rows)
           N == Cardinality(DOMAIN r.rows)
           sold(l) == [order |-> r.order, line |-> l, product |-> r.rows[l].product,
                       qty |-> r.rows[l].qty, notes |-> r.row.notes \cup {r.order}]
           more == [n \in DOMAIN ids |-> sold(ids[n])]
<1>1. /\ r.step = "write" /\ r.op = "approve" /\ sales' = sales \o more
      /\ invoices' = [invoices EXCEPT ![r.order].status = "approved"]
      /\ invoiceLines' = invoiceLines
  BY ZenonT(60) DEF ApproveInvoice, MapSeq, SetStatus
<1>2. /\ IsDesk(r) /\ r.order \in DOMAIN invoices /\ r.order \in Nat /\ r.order # NoId
      /\ r.order \in T /\ T \subseteq DOMAIN invoices
      /\ RowIsCurrent(r, invoices) /\ LinesAreCurrent(r, invoiceLines, sales)
  BY <1>1, AboutToWrite
<1>3. /\ DOMAIN r.rows \subseteq Nat /\ IsFiniteSet(DOMAIN r.rows)
      /\ \A l \in DOMAIN r.rows : r.rows[l].product \in Products /\ r.rows[l].qty \in Int
  BY AtDesk
<1>4. /\ N \in Nat /\ ids \in [1 .. N -> DOMAIN r.rows]
      /\ \A l \in DOMAIN r.rows : \E n \in 1 .. N : ids[n] = l
      /\ \A m, n \in 1 .. N : ids[m] = ids[n] => m = n
  BY <1>3, IdsInOrder, EachIdOnce
<1>5. /\ \A l \in DOMAIN invoiceLines :
           l \in DOMAIN r.rows <=> invoiceLines[l].order = r.order
      /\ \A l \in DOMAIN r.rows : /\ l \in DOMAIN invoiceLines
                                  /\ invoiceLines[l].order = r.order
                                  /\ r.rows[l].product = invoiceLines[l].product
                                  /\ r.rows[l].qty = invoiceLines[l].qty
  BY <1>2, LinesRight
<1>6. invoices[r.order].status # "approved"
  BY <1>1, <1>2 DEF RowIsCurrent
<1>7. r.row.notes \cup {r.order} \subseteq Nat
  BY <1>2 DEF IsDesk, InvoiceRow
<1>8. \A l \in DOMAIN r.rows : sold(l) \in SaleRow
  BY <1>2, <1>3, <1>7, SMTT(40) DEF SaleRow
<1>9. /\ DOMAIN invoices' = DOMAIN invoices /\ invoices'[r.order].status = "approved"
      /\ \A o \in DOMAIN invoices : o # r.order => invoices'[o] = invoices[o]
  <2>1. invoices[r.order] \in InvoiceRow
    BY <1>2, PosRows
  <2> QED
    BY <1>1, <1>2, <2>1 DEF InvoiceRow
<1>10. \A l \in DOMAIN r.rows : /\ sold(l).line = l /\ sold(l).order = r.order
                                /\ sold(l).product = r.rows[l].product
                                /\ sold(l).qty = r.rows[l].qty
  OBVIOUS
<1> HIDE DEF ids, N, r, T, sold
<1>11. more \in [1 .. N -> SaleRow]
  BY <1>4, <1>8
<1>12. more \in Seq(SaleRow)
  BY <1>4, <1>11, IsASeq
<1>13. /\ DOMAIN more = 1 .. N
       /\ \A n \in 1 .. N : /\ ids[n] \in DOMAIN r.rows
                            /\ more[n] = sold(ids[n]) /\ more[n].line = ids[n]
  BY <1>4, <1>10
<1> HIDE DEF more
<1>14. /\ Len(sales) \in Nat /\ DOMAIN sales = 1 .. Len(sales)
       /\ Len(more) = N
       /\ DOMAIN sales' = 1 .. Len(sales) + N
       /\ \A s \in 1 .. Len(sales) : sales'[s] = sales[s]
       /\ \A n \in 1 .. N : sales'[Len(sales) + n] = more[n]
  <2>1. sales \in Seq(SaleRow)
    BY DEF PosTypeOK
  <2>2. Len(more) = N
    BY <1>4, <1>12, <1>13, LenProperties
  <2> QED
    BY <1>1, <1>12, <2>1, <2>2, ConcatProperties, LenProperties
<1>15. \A s \in DOMAIN sales' \ DOMAIN sales :
         s - Len(sales) \in 1 .. N /\ sales'[s] = more[s - Len(sales)]
  <2> SUFFICES ASSUME NEW s \in DOMAIN sales' \ DOMAIN sales
               PROVE  s - Len(sales) \in 1 .. N /\ sales'[s] = more[s - Len(sales)]
    OBVIOUS
  <2>1. sales \in Seq(SaleRow) /\ s \in DOMAIN (sales \o more) /\ s \notin DOMAIN sales
    BY <1>1 DEF PosTypeOK
  <2>2. s - Len(sales) \in DOMAIN more /\ (sales \o more)[s] = more[s - Len(sales)]
    BY <1>12, <2>1, RowOfBoth
  <2> QED
    BY <1>1, <1>13, <2>2
<1>16. SalesKept(sales, sales')
  BY <1>4, <1>14 DEF SalesKept
<1>17. ASSUME NEW l \in DOMAIN invoiceLines
       PROVE  SoldOnce(invoices', invoiceLines', sales', l)
  <2>1. SoldOnce(invoices, invoiceLines, sales, l)
    BY DEF TablesAgree
  <2>2. CASE l \in DOMAIN r.rows
    <3>1. invoiceLines[l].order = r.order
      BY <1>5, <2>2
    <3>2. SalesFor(sales, l) = {} /\ IsSold(invoices', invoiceLines', l)
      BY <1>1, <1>2, <1>6, <1>9, <2>1, <3>1 DEF SoldOnce, IsSold
    <3>3. PICK n \in 1 .. N : ids[n] = l
      BY <1>4, <2>2
    <3> DEFINE s == Len(sales) + n
    <3>4. s \in DOMAIN sales' /\ s \notin DOMAIN sales /\ sales'[s] = sold(l)
      BY <1>4, <1>13, <1>14, <3>3
    <3>5. ASSUME NEW t \in SalesFor(sales', l) PROVE t = s
      <4>1. t \in DOMAIN sales' /\ sales'[t].line = l
        BY DEF SalesFor
      <4>2. t \notin DOMAIN sales
        BY <1>14, <3>2, <4>1 DEF SalesFor
      <4>3. t - Len(sales) \in 1 .. N /\ ids[t - Len(sales)] = l
        BY <1>13, <1>15, <4>1, <4>2
      <4>4. t - Len(sales) = n
        BY <1>4, <3>3, <4>3
      <4>5. t \in Int
        BY <1>4, <1>14, <4>1
      <4> QED
        BY <1>4, <1>14, <4>4, <4>5
    <3> HIDE DEF s
    <3>6. sales'[s].line = l /\ SoldAs(invoiceLines'[l], sales'[s])
      BY <1>1, <1>5, <1>10, <2>2, <3>1, <3>4 DEF SoldAs
    <3>7. SalesFor(sales', l) = {s}
      BY <3>4, <3>5, <3>6 DEF SalesFor
    <3> QED
      BY <3>2, <3>4, <3>6, <3>7 DEF SoldOnce
  <2>3. CASE l \notin DOMAIN r.rows
    <3>1. invoiceLines[l].order # r.order
          /\ invoiceLines[l].order \in {NoId} \cup DOMAIN invoices
      BY <1>5, <2>3 DEF TablesAgree
    <3>2. IsSold(invoices', invoiceLines', l) <=> IsSold(invoices, invoiceLines, l)
      BY <1>1, <1>9, <3>1 DEF IsSold
    <3>3. \A s \in DOMAIN sales' \ DOMAIN sales : sales'[s].line # l
      BY <1>13, <1>15, <2>3
    <3>4. \A s \in DOMAIN sales :
            SoldAs(invoiceLines[l], sales[s]) => SoldAs(invoiceLines'[l], sales'[s])
      BY <1>1, <1>14
    <3> QED
      BY <1>16, <2>1, <3>2, <3>3, <3>4, SoldStill
  <2> QED
    BY <2>2, <2>3
<1>18. TablesAgree(invoices', invoiceLines', sales')
  <2>1. \A s \in DOMAIN sales' : sales'[s].line \in {NoId} \cup DOMAIN invoiceLines'
    <3>1. \A s \in DOMAIN sales' \ DOMAIN sales : sales'[s].line \in DOMAIN invoiceLines'
      BY <1>1, <1>5, <1>13, <1>15
    <3>2. \A s \in DOMAIN sales : sales'[s].line \in {NoId} \cup DOMAIN invoiceLines'
      BY <1>1, <1>14 DEF TablesAgree
    <3> QED
      BY <3>1, <3>2
  <2> QED
    BY <1>1, <1>9, <1>17, <2>1 DEF TablesAgree
<1>19. InvoicesKept(T, invoices, invoices')
  BY <1>2, <1>9 DEF InvoicesKept
<1>20. \A l \in DOMAIN invoiceLines :
         LineKept(T, invoices, invoiceLines[l], invoiceLines'[l])
  BY <1>1 DEF LineKept
<1>21. OnlyTouched(T, invoices, invoices', invoiceLines, invoiceLines', sales, sales')
  BY <1>1, <1>16, <1>19, <1>20 DEF OnlyTouched
<1> QED
  BY <1>18, <1>21, SMTT(40) DEF T

(***************************************************************************)
(* reject_ and cancel_in_house_order: an invoice that is not approved      *)
(* stays without sales.                                                    *)
(***************************************************************************)
LEMMA StatusCurrent ==
  ASSUME PosTypeOK, NEW h \in Clerks, RejectInvoice(h) \/ CancelInvoice(h),
         TablesAgree(invoices, invoiceLines, sales),
         DeskIsCurrent(clerk[h], invoices, invoiceLines, sales)
  PROVE  /\ TablesAgree(invoices', invoiceLines', sales')
         /\ OnlyTouched(Touched(h), invoices, invoices', invoiceLines, invoiceLines',
                        sales, sales')
<1> DEFINE r == clerk[h]
           T == Touched(h)
<1>1. PICK status \in {"rejected", "cancelled"} :
        invoices' = [invoices EXCEPT ![r.order].status = status]
  BY DEF RejectInvoice, CancelInvoice, SetStatus
<1>2. /\ r.step = "write" /\ r.op \in {"reject", "cancel"}
      /\ invoiceLines' = invoiceLines /\ sales' = sales
  BY DEF RejectInvoice, CancelInvoice
<1>3. /\ r.order \in DOMAIN invoices /\ r.order \in T /\ RowIsCurrent(r, invoices)
  BY <1>2, AboutToWrite
<1>4. invoices[r.order].status # "approved"
  BY <1>2, <1>3 DEF RowIsCurrent
<1> HIDE DEF r, T
<1>5. /\ DOMAIN invoices' = DOMAIN invoices /\ invoices'[r.order].status # "approved"
      /\ \A o \in DOMAIN invoices : o # r.order => invoices'[o] = invoices[o]
  <2>1. invoices[r.order] \in InvoiceRow
    BY <1>3, PosRows
  <2>2. invoices'[r.order].status = status
    BY <1>1, <1>3, <2>1 DEF InvoiceRow
  <2> QED
    BY <1>1, <1>3, <2>2
<1>6. SalesKept(sales, sales')
  BY <1>2 DEF SalesKept
<1>7. ASSUME NEW l \in DOMAIN invoiceLines
      PROVE  SoldOnce(invoices', invoiceLines', sales', l)
  <2>1. /\ SoldOnce(invoices, invoiceLines, sales, l)
        /\ invoiceLines[l].order \in {NoId} \cup DOMAIN invoices
    BY DEF TablesAgree
  <2>2. IsSold(invoices', invoiceLines', l) <=> IsSold(invoices, invoiceLines, l)
    BY <1>2, <1>4, <1>5, <2>1 DEF IsSold
  <2>3. \A s \in DOMAIN sales :
          SoldAs(invoiceLines[l], sales[s]) => SoldAs(invoiceLines'[l], sales'[s])
    BY <1>2
  <2>4. \A s \in DOMAIN sales' \ DOMAIN sales : sales'[s].line # l
    BY <1>2
  <2> QED
    BY <1>6, <2>1, <2>2, <2>3, <2>4, SoldStill
<1>8. TablesAgree(invoices', invoiceLines', sales')
  BY <1>2, <1>5, <1>7 DEF TablesAgree
<1>9. InvoicesKept(T, invoices, invoices')
  BY <1>3, <1>5 DEF InvoicesKept
<1>10. \A l \in DOMAIN invoiceLines :
         LineKept(T, invoices, invoiceLines[l], invoiceLines'[l])
  BY <1>2 DEF LineKept
<1>11. OnlyTouched(T, invoices, invoices', invoiceLines, invoiceLines', sales, sales')
  BY <1>2, <1>6, <1>9, <1>10 DEF OnlyTouched
<1> QED
  BY <1>8, <1>11 DEF T

(***************************************************************************)
(* A matched sale is the one of its line.                                  *)
(***************************************************************************)
LEMMA MatchedIsOwn ==
  ASSUME NEW r, NEW lines, NEW ss, LinesAreCurrent(r, lines, ss), NEW s, IsMatched(r, s)
  PROVE  /\ LineMatched(r, s) = ss[s].line
         /\ ss[s].line \in DOMAIN r.match /\ r.match[ss[s].line] = s
<1>1. LineMatched(r, s) \in DOMAIN r.match /\ r.match[LineMatched(r, s)] = s
  BY DEF IsMatched, LineMatched
<1>2. ss[r.match[LineMatched(r, s)]].line = LineMatched(r, s)
  BY <1>1 DEF LinesAreCurrent
<1> QED
  BY <1>1, <1>2

LEMMA OwnIsMatched ==
  ASSUME NEW r, NEW lines, NEW ss, LinesAreCurrent(r, lines, ss),
         NEW l \in DOMAIN r.match, NEW s, SalesFor(ss, l) = {s}
  PROVE  r.match[l] = s /\ IsMatched(r, s) /\ LineMatched(r, s) = l
<1>1. r.match[l] \in SalesFor(ss, l)
  BY DEF LinesAreCurrent, SalesFor
<1>2. r.match[l] = s
  BY <1>1
<1>3. IsMatched(r, s)
  BY <1>2 DEF IsMatched
<1>4. ss[s].line = l
  BY DEF SalesFor
<1> QED
  BY <1>2, <1>3, <1>4, MatchedIsOwn

(***************************************************************************)
(* update_in_house_order: a line and its sale take the same quantity.      *)
(***************************************************************************)
LEMMA EditedFields ==
  ASSUME PosTypeOK, NEW r, IsDesk(r), NEW l \in DOMAIN invoiceLines
  PROVE  /\ EditedLine(r, l).product = invoiceLines[l].product
         /\ l \notin DOMAIN r.rows => EditedLine(r, l) = invoiceLines[l]
         /\ l \in Selected(r, r.rows) =>
              /\ EditedLine(r, l).order = invoiceLines[l].order
              /\ EditedLine(r, l).qty = r.qtys[l]
         /\ l \in DOMAIN r.rows \ DOMAIN r.qtys => EditedLine(r, l).order = NoId
<1>1. invoiceLines[l] \in InvoiceLineRow
  BY PosRows
<1>2. CASE l \notin DOMAIN r.rows
  BY <1>2 DEF EditedLine, Selected
<1>3. CASE l \in DOMAIN r.rows \ DOMAIN r.qtys
  <2>1. EditedLine(r, l) = [invoiceLines[l] EXCEPT !.order = NoId]
    BY <1>3 DEF EditedLine, Selected
  <2> QED
    BY <1>1, <1>3, <2>1 DEF InvoiceLineRow, Selected
<1>4. CASE l \in Selected(r, r.rows)
  <2>1. EditedLine(r, l) = [invoiceLines[l] EXCEPT !.qty = r.qtys[l]]
    BY <1>4 DEF EditedLine, Selected
  <2> QED
    BY <1>1, <1>4, <2>1 DEF InvoiceLineRow, Selected
<1> QED
  BY <1>2, <1>3, <1>4 DEF Selected

LEMMA EditedSaleFields ==
  ASSUME PosTypeOK, NEW r, NEW s \in DOMAIN sales
  PROVE  /\ ~IsMatched(r, s) => EditedSale(r, s) = sales[s]
         /\ IsMatched(r, s) =>
              /\ EditedSale(r, s).order = r.order
              /\ EditedSale(r, s).line = LineMatched(r, s)
              /\ EditedSale(r, s).product = sales[s].product
              /\ EditedSale(r, s).qty = r.qtys[LineMatched(r, s)]
<1>1. sales[s] \in SaleRow
  BY PosRows
<1>2. CASE ~IsMatched(r, s)
  BY <1>2 DEF EditedSale
<1>3. CASE IsMatched(r, s)
  <2> DEFINE l == LineMatched(r, s)
  <2>1. EditedSale(r, s)
          = [sales[s] EXCEPT !.qty = r.qtys[l], !.order = r.order, !.line = l]
    BY <1>3 DEF EditedSale
  <2> HIDE DEF l
  <2> QED
    BY <1>1, <1>3, <2>1 DEF SaleRow, l
<1> QED
  BY <1>2, <1>3

LEMMA UpdateCurrentSales ==
  ASSUME PosTypeOK, PosTypeOK', NEW h \in Clerks, UpdateInvoice(h),
         TablesAgree(invoices, invoiceLines, sales),
         DeskIsCurrent(clerk[h], invoices, invoiceLines, sales)
  PROVE  /\ TablesAgree(invoices', invoiceLines', sales')
         /\ OnlyTouched(Touched(h), invoices, invoices', invoiceLines, invoiceLines',
                        sales, sales')
<1> DEFINE r == clerk[h]
           T == Touched(h)
           lines == [l \in DOMAIN invoiceLines |-> EditedLine(r, l)]
           more == NewLines(r.order, r.added)
<1>1. /\ r.step = "write" /\ r.op = "update"
      /\ invoiceLines' = lines \o more
      /\ sales' = [s \in DOMAIN sales |-> EditedSale(r, s)]
      /\ invoices' = invoices
  BY DEF UpdateInvoice
<1>2. /\ IsDesk(r) /\ r.order \in DOMAIN invoices /\ r.order \in Nat /\ r.order # NoId
      /\ r.order \in T /\ T \subseteq DOMAIN invoices
      /\ RowIsCurrent(r, invoices) /\ LinesAreCurrent(r, invoiceLines, sales)
  BY <1>1, AboutToWrite
<1>3. /\ \A l \in DOMAIN invoiceLines :
           l \in DOMAIN r.rows <=> invoiceLines[l].order = r.order
      /\ \A l \in DOMAIN r.rows : l \in DOMAIN invoiceLines
  BY <1>2, LinesRight
<1>4. r.row.status = "approved"
        => /\ DOMAIN r.qtys = DOMAIN r.rows /\ r.added = << >>
           /\ DOMAIN r.match = DOMAIN r.rows
  BY <1>1, <1>2 DEF LinesAreCurrent, ToMatch, MatchedLines
<1>5. r.row.status # "approved" => DOMAIN r.match = {}
  BY <1>2 DEF LinesAreCurrent, ToMatch
<1>6. r.row.status = invoices[r.order].status
  BY <1>2 DEF RowIsCurrent
<1> HIDE DEF r, T
<1>7. lines \in Seq(InvoiceLineRow) /\ DOMAIN lines = DOMAIN invoiceLines
      /\ Len(lines) = Len(invoiceLines)
  <2>1. \A l \in DOMAIN invoiceLines : EditedLine(r, l) \in InvoiceLineRow
    <3> SUFFICES ASSUME NEW l \in DOMAIN invoiceLines
                 PROVE  EditedLine(r, l) \in InvoiceLineRow
      OBVIOUS
    <3>1. invoiceLines[l] \in InvoiceLineRow
      BY PosRows
    <3>2. l \in Selected(r, r.rows) => r.qtys[l] \in Int
      BY <1>2, QuantityAsked DEF Selected
    <3>3. \/ EditedLine(r, l) = [invoiceLines[l] EXCEPT !.order = NoId]
          \/ l \in Selected(r, r.rows)
             /\ EditedLine(r, l) = [invoiceLines[l] EXCEPT !.qty = r.qtys[l]]
          \/ EditedLine(r, l) = invoiceLines[l]
      BY DEF EditedLine
    <3> QED
      BY <3>1, <3>2, <3>3 DEF InvoiceLineRow, NoId
  <2>2. lines \in [DOMAIN invoiceLines -> InvoiceLineRow]
    BY <2>1
  <2> QED
    BY <2>2, SameLength DEF PosTypeOK
<1>8. more \in Seq(InvoiceLineRow)
  BY <1>2, NewLinesType DEF IsDesk
<1>9. \A n \in DOMAIN more : more[n].order = r.order
  BY NewLineRow
<1>10. \A l \in DOMAIN invoiceLines : lines[l] = EditedLine(r, l)
  OBVIOUS
<1> HIDE DEF lines, more
<1>11. \A l \in DOMAIN invoiceLines :
         l \in DOMAIN invoiceLines' /\ invoiceLines'[l] = EditedLine(r, l)
  BY <1>1, <1>7, <1>8, <1>10, OldRowOfBoth
<1>12. \A l \in DOMAIN invoiceLines' \ DOMAIN invoiceLines :
         invoiceLines'[l].order = r.order
  BY <1>1, <1>7, <1>8, <1>9, RowOfBoth
<1>13. r.row.status = "approved" => DOMAIN invoiceLines' = DOMAIN invoiceLines
  <2> SUFFICES ASSUME r.row.status = "approved"
               PROVE  DOMAIN invoiceLines' = DOMAIN invoiceLines
    OBVIOUS
  <2>1. more = << >>
    BY <1>4 DEF more, NewLines, MapSeq
  <2> QED
    BY <1>1, <1>7, <2>1
<1>14. \A s \in DOMAIN sales : IsMatched(r, s) => LineMatched(r, s) = sales[s].line
  BY <1>2, MatchedIsOwn
<1>15. /\ DOMAIN sales' = DOMAIN sales
       /\ \A s \in DOMAIN sales : sales'[s] = EditedSale(r, s)
  BY <1>1
<1>16. SalesKept(sales, sales')
  BY <1>14, <1>15, EditedSaleFields DEF SalesKept
<1>17. ASSUME NEW l \in DOMAIN invoiceLines
       PROVE  SoldOnce(invoices', invoiceLines', sales', l)
  <2>1. SoldOnce(invoices, invoiceLines, sales, l)
    BY DEF TablesAgree
  <2>2. invoiceLines'[l] = EditedLine(r, l)
    BY <1>11
  <2>3. \A s \in DOMAIN sales' \ DOMAIN sales : sales'[s].line # l
    BY <1>15
  <2>4. CASE l \notin DOMAIN r.rows
    <3>1. invoiceLines'[l] = invoiceLines[l]
      BY <1>2, <2>2, <2>4, EditedFields
    <3>2. IsSold(invoices', invoiceLines', l) <=> IsSold(invoices, invoiceLines, l)
      BY <1>1, <3>1 DEF IsSold
    <3>3. ASSUME NEW s \in DOMAIN sales, sales[s].line = l
          PROVE  sales'[s] = sales[s]
      <4>1. DOMAIN r.match \subseteq DOMAIN r.rows
        BY <1>2 DEF IsDesk
      <4>2. ~IsMatched(r, s)
        BY <1>2, <2>4, <3>3, <4>1, MatchedIsOwn
      <4> QED
        BY <1>15, <4>2, EditedSaleFields
    <3>4. \A s \in DOMAIN sales : sales[s].line = l /\ SoldAs(invoiceLines[l], sales[s])
                                    => SoldAs(invoiceLines'[l], sales'[s])
      BY <3>1, <3>3
    <3> QED
      BY <1>16, <2>1, <2>3, <3>2, <3>4, SoldStill
  <2>5. CASE l \in DOMAIN r.rows /\ r.row.status # "approved"
    <3>1. invoiceLines[l].order = r.order
      BY <1>3, <2>5
    <3>2. invoiceLines'[l].order \in {r.order, NoId}
      BY <1>2, <2>2, <2>5, <3>1, EditedFields DEF Selected
    <3>3. ~IsSold(invoices', invoiceLines', l) /\ ~IsSold(invoices, invoiceLines, l)
      BY <1>1, <1>6, <2>5, <3>1, <3>2 DEF IsSold
    <3> QED
      BY <1>16, <2>1, <2>3, <3>3, SoldStill
  <2>6. CASE l \in DOMAIN r.rows /\ r.row.status = "approved"
    <3>1. l \in Selected(r, r.rows) /\ l \in DOMAIN r.match
      BY <1>4, <2>6 DEF Selected
    <3>2. /\ invoiceLines'[l].order = r.order /\ invoiceLines[l].order = r.order
          /\ invoiceLines'[l].product = invoiceLines[l].product
          /\ invoiceLines'[l].qty = r.qtys[l]
      BY <1>2, <1>3, <2>2, <2>6, <3>1, EditedFields
    <3>3. IsSold(invoices', invoiceLines', l) /\ IsSold(invoices, invoiceLines, l)
      BY <1>1, <1>2, <1>6, <2>6, <3>2 DEF IsSold
    <3>4. ASSUME NEW s \in DOMAIN sales, sales[s].line = l,
                 SoldAs(invoiceLines[l], sales[s])
          PROVE  SoldAs(invoiceLines'[l], sales'[s])
      <4>1. \E t \in DOMAIN sales : SalesFor(sales, l) = {t}
        BY <2>1, <3>3 DEF SoldOnce
      <4>2. SalesFor(sales, l) = {s}
        BY <3>4, <4>1 DEF SalesFor
      <4>3. IsMatched(r, s) /\ LineMatched(r, s) = l
        BY <1>2, <3>1, <4>2, OwnIsMatched
      <4>4. /\ sales'[s].order = r.order /\ sales'[s].product = sales[s].product
            /\ sales'[s].qty = r.qtys[l]
        BY <1>15, <4>3, EditedSaleFields
      <4> QED
        BY <3>2, <3>4, <4>4 DEF SoldAs
    <3> QED
      BY <1>16, <2>1, <2>3, <3>3, <3>4, SoldStill
  <2> QED
    BY <2>4, <2>5, <2>6
<1>18. ASSUME NEW l \in DOMAIN invoiceLines' \ DOMAIN invoiceLines
       PROVE  SoldOnce(invoices', invoiceLines', sales', l)
  <2>1. ~IsSold(invoices', invoiceLines', l)
    BY <1>1, <1>6, <1>12, <1>13 DEF IsSold
  <2>2. l # NoId
    BY NoRowIsZero DEF PosTypeOK
  <2>3. SalesFor(sales', l) = {}
    BY <1>15, <1>16, <2>2 DEF SalesFor, TablesAgree, SalesKept
  <2> QED
    BY <2>1, <2>3 DEF SoldOnce
<1>19. TablesAgree(invoices', invoiceLines', sales')
  <2>1. ASSUME NEW l \in DOMAIN invoiceLines'
        PROVE  invoiceLines'[l].order \in {NoId} \cup DOMAIN invoices'
    <3>1. CASE l \notin DOMAIN invoiceLines
      BY <1>1, <1>2, <1>12, <3>1
    <3>2. CASE l \in DOMAIN invoiceLines
      <4>1. invoiceLines[l].order \in {NoId} \cup DOMAIN invoices
        BY <3>2 DEF TablesAgree
      <4>2. invoiceLines'[l].order \in {invoiceLines[l].order, NoId}
        BY <1>2, <1>11, <3>2, EditedFields DEF Selected
      <4> QED
        BY <1>1, <4>1, <4>2
    <3> QED
      BY <3>1, <3>2
  <2>2. \A s \in DOMAIN sales' : sales'[s].line \in {NoId} \cup DOMAIN invoiceLines'
    BY <1>11, <1>15, <1>16 DEF TablesAgree, SalesKept
  <2> QED
    BY <1>17, <1>18, <2>1, <2>2 DEF TablesAgree
<1>20. InvoicesKept(T, invoices, invoices')
  BY <1>1 DEF InvoicesKept
<1>21. ASSUME NEW l \in DOMAIN invoiceLines
       PROVE  LineKept(T, invoices, invoiceLines[l], invoiceLines'[l])
  <2>1. CASE l \notin DOMAIN r.rows
    <3>1. invoiceLines'[l] = invoiceLines[l]
      BY <1>2, <1>11, <2>1, EditedFields
    <3> QED
      BY <3>1 DEF LineKept
  <2>2. CASE l \in DOMAIN r.rows
    <3>1. invoiceLines[l].order = r.order
      BY <1>3, <2>2
    <3>2. invoiceLines'[l].order \in {r.order, NoId}
      BY <1>2, <1>11, <2>2, <3>1, EditedFields DEF Selected
    <3>3. NoId \notin DOMAIN invoices
      BY NoRowIsZero DEF PosTypeOK
    <3> QED
      BY <1>2, <3>1, <3>2, <3>3 DEF LineKept
  <2> QED
    BY <2>1, <2>2
<1>22. OnlyTouched(T, invoices, invoices', invoiceLines, invoiceLines', sales, sales')
  BY <1>2, <1>11, <1>12, <1>16, <1>20, <1>21 DEF OnlyTouched
<1> QED
  BY <1>19, <1>22 DEF T

(***************************************************************************)
(* merge_in_house_orders: lines and sales go to the target together, whose *)
(* status is the same.                                                     *)
(***************************************************************************)
LEMMA MergeCurrent ==
  ASSUME PosTypeOK, NEW h \in Clerks, MergeInvoice(h),
         TablesAgree(invoices, invoiceLines, sales),
         DeskIsCurrent(clerk[h], invoices, invoiceLines, sales)
  PROVE  /\ TablesAgree(invoices', invoiceLines', sales')
         /\ OnlyTouched(Touched(h), invoices, invoices', invoiceLines, invoiceLines',
                        sales, sales')
<1> DEFINE r == clerk[h]
           T == Touched(h)
           row == [status |-> "merged", notes |-> r.row.notes \cup {r.target}]
<1>1. /\ r.step = "write" /\ r.op = "merge"
      /\ invoiceLines' = [l \in DOMAIN invoiceLines |->
                            IF invoiceLines[l].order = r.order
                              THEN [invoiceLines[l] EXCEPT !.order = r.target]
                              ELSE invoiceLines[l]]
      /\ sales' = [s \in DOMAIN sales |-> MergedSale(r, s)]
      /\ invoices' = [invoices EXCEPT ![r.order] = row]
  BY DEF MergeInvoice
<1>2. /\ r.order \in DOMAIN invoices /\ r.order # NoId
      /\ r.order \in T /\ T \subseteq DOMAIN invoices
      /\ RowIsCurrent(r, invoices)
      /\ r.target \in DOMAIN invoices /\ r.target # r.order
      /\ r.target # NoId /\ r.target \in T
  BY <1>1, AboutToWrite
<1>3. r.row.status = invoices[r.order].status /\ invoices[r.target].status = r.row.status
  BY <1>1, <1>2 DEF RowIsCurrent
<1>4. row.status # "approved"
  OBVIOUS
<1> HIDE DEF r, T, row
<1>5. /\ DOMAIN invoices' = DOMAIN invoices /\ invoices'[r.order] = row
      /\ \A o \in DOMAIN invoices : o # r.order => invoices'[o] = invoices[o]
  BY <1>1, <1>2
<1>6. DOMAIN invoiceLines' = DOMAIN invoiceLines
  BY <1>1
<1>7. ASSUME NEW l \in DOMAIN invoiceLines
      PROVE  /\ invoiceLines[l].order = r.order =>
                  /\ invoiceLines'[l].order = r.target
                  /\ invoiceLines'[l].product = invoiceLines[l].product
                  /\ invoiceLines'[l].qty = invoiceLines[l].qty
             /\ invoiceLines[l].order # r.order => invoiceLines'[l] = invoiceLines[l]
  <2>1. invoiceLines[l] \in InvoiceLineRow
    BY PosRows
  <2>2. invoiceLines'[l] = IF invoiceLines[l].order = r.order
                             THEN [invoiceLines[l] EXCEPT !.order = r.target]
                             ELSE invoiceLines[l]
    BY <1>1
  <2> QED
    BY <2>1, <2>2 DEF InvoiceLineRow
<1>8. DOMAIN sales' = DOMAIN sales
  BY <1>1
<1>9. ASSUME NEW s \in DOMAIN sales
      PROVE  /\ sales'[s].line = sales[s].line /\ sales'[s].product = sales[s].product
             /\ sales'[s].qty = sales[s].qty
             /\ r.row.status = "approved" /\ sales[s].order = r.order
                  => sales'[s].order = r.target
             /\ ~(r.row.status = "approved" /\ sales[s].order = r.order)
                  => sales'[s] = sales[s]
  <2>1. sales[s] \in SaleRow /\ sales'[s] = MergedSale(r, s)
    BY <1>1, PosRows
  <2>2. CASE r.row.status = "approved" /\ sales[s].order = r.order
    <3>1. sales'[s] = [sales[s] EXCEPT !.order = r.target]
      BY <2>1, <2>2 DEF MergedSale
    <3> QED
      BY <2>1, <2>2, <3>1 DEF SaleRow
  <2>3. CASE ~(r.row.status = "approved" /\ sales[s].order = r.order)
    BY <2>1, <2>3 DEF MergedSale
  <2> QED
    BY <2>2, <2>3
<1>10. SalesKept(sales, sales')
  BY <1>8, <1>9 DEF SalesKept
<1>11. ASSUME NEW l \in DOMAIN invoiceLines
       PROVE  SoldOnce(invoices', invoiceLines', sales', l)
  <2>1. SoldOnce(invoices, invoiceLines, sales, l)
        /\ invoiceLines[l].order \in {NoId} \cup DOMAIN invoices
    BY DEF TablesAgree
  <2>2. \A s \in DOMAIN sales' \ DOMAIN sales : sales'[s].line # l
    BY <1>8
  <2>3. IsSold(invoices', invoiceLines', l) <=> IsSold(invoices, invoiceLines, l)
    BY <1>2, <1>3, <1>4, <1>5, <1>7, <2>1 DEF IsSold
  <2>4. ASSUME IsSold(invoices, invoiceLines, l), NEW s \in DOMAIN sales,
               SoldAs(invoiceLines[l], sales[s])
        PROVE  SoldAs(invoiceLines'[l], sales'[s])
    <3>1. CASE invoiceLines[l].order = r.order
      <4>1. r.row.status = "approved" /\ sales[s].order = r.order
        BY <1>3, <2>4, <3>1 DEF IsSold, SoldAs
      <4> QED
        BY <1>7, <1>9, <2>4, <3>1, <4>1 DEF SoldAs
    <3>2. CASE invoiceLines[l].order # r.order
      <4>1. sales[s].order # r.order
        BY <2>4, <3>2 DEF SoldAs
      <4> QED
        BY <1>7, <1>9, <2>4, <3>2, <4>1 DEF SoldAs
    <3> QED
      BY <3>1, <3>2
  <2> QED
    BY <1>10, <2>1, <2>2, <2>3, <2>4, SoldStill
<1>12. TablesAgree(invoices', invoiceLines', sales')
  <2>1. \A l \in DOMAIN invoiceLines' :
          invoiceLines'[l].order \in {NoId} \cup DOMAIN invoices'
    BY <1>2, <1>5, <1>6, <1>7 DEF TablesAgree
  <2>2. \A s \in DOMAIN sales' : sales'[s].line \in {NoId} \cup DOMAIN invoiceLines'
    BY <1>6, <1>8, <1>9 DEF TablesAgree
  <2> QED
    BY <1>6, <1>11, <2>1, <2>2 DEF TablesAgree
<1>13. InvoicesKept(T, invoices, invoices')
  BY <1>2, <1>5 DEF InvoicesKept
<1>14. \A l \in DOMAIN invoiceLines :
         LineKept(T, invoices, invoiceLines[l], invoiceLines'[l])
  BY <1>2, <1>7 DEF LineKept
<1>15. OnlyTouched(T, invoices, invoices', invoiceLines, invoiceLines', sales, sales')
  BY <1>6, <1>10, <1>13, <1>14 DEF OnlyTouched
<1> QED
  BY <1>12, <1>15 DEF T

(***************************************************************************)
(* The parts of a split that take a sale along, and their sales.           *)
(***************************************************************************)
SoldParts(r) ==
  {n \in DOMAIN InPart(r) : InPart(r)[n] \in DOMAIN r.match /\ r.match[InPart(r)[n]] # NoId}

PartSale(r, new, n) ==
  [order |-> new, line |-> Len(invoiceLines) + n,
   product |-> r.rows[InPart(r)[n]].product, qty |-> r.qtys[InPart(r)[n]],
   notes |-> r.row.notes \cup {r.order}]

LEMMA PartFields ==
  ASSUME NEW r, NEW new, NEW n
  PROVE  /\ PartSale(r, new, n).order = new
         /\ PartSale(r, new, n).line = Len(invoiceLines) + n
         /\ PartSale(r, new, n).product = r.rows[InPart(r)[n]].product
         /\ PartSale(r, new, n).qty = r.qtys[InPart(r)[n]]
  BY DEF PartSale

LEMMA PartsSold ==
  ASSUME PosTypeOK, NEW h \in Clerks, NEW r, r = clerk[h], NEW new \in Nat
  PROVE  /\ IsFiniteSet(SoldParts(r)) /\ SoldParts(r) \subseteq Nat
         /\ PartSales(r, new) \in Seq(SaleRow)
         /\ Len(PartSales(r, new)) = Cardinality(SoldParts(r))
         /\ \A k \in 1 .. Cardinality(SoldParts(r)) :
              /\ InIdOrder(SoldParts(r))[k] \in SoldParts(r)
              /\ PartSales(r, new)[k] = PartSale(r, new, InIdOrder(SoldParts(r))[k])
         /\ \A n \in SoldParts(r) : PartSale(r, new, n) \in SaleRow
<1> DEFINE S == SoldParts(r)
           ids == InIdOrder(S)
           K == Cardinality(S)
<1>1. /\ IsDesk(r) /\ r.order \in Nat
      /\ \A l \in DOMAIN r.rows : r.rows[l].product \in Products /\ r.rows[l].qty \in Int
  <2>1. IsDesk(r) /\ \A l \in DOMAIN r.rows : r.rows[l].product \in Products /\ r.rows[l].qty \in Int
    BY AtDesk
  <2>2. r.order \in Nat
    BY <2>1 DEF IsDesk
  <2> QED
    BY <2>1, <2>2
<1>2. /\ \A n \in DOMAIN InPart(r) : InPart(r)[n] \in Selected(r, r.rows)
      /\ IsFiniteSet(DOMAIN InPart(r)) /\ DOMAIN InPart(r) \subseteq Nat
  BY PartsInOrder
<1>3. S \subseteq DOMAIN InPart(r)
  BY DEF SoldParts
<1>4. IsFiniteSet(S) /\ S \subseteq Nat
  BY <1>2, <1>3, FS_Subset
<1>5. ASSUME NEW n \in S PROVE PartSale(r, new, n) \in SaleRow
  <2>1. InPart(r)[n] \in DOMAIN r.rows /\ InPart(r)[n] \in DOMAIN r.qtys
    BY <1>2, <1>3 DEF Selected
  <2>2. r.rows[InPart(r)[n]].product \in Products /\ r.qtys[InPart(r)[n]] \in Int
    BY <1>1, <2>1, QuantityAsked
  <2>3. r.row.notes \cup {r.order} \subseteq Nat
    BY <1>1 DEF IsDesk, InvoiceRow
  <2>4. Len(invoiceLines) + n \in Nat
    BY <1>4, LenProperties DEF PosTypeOK
  <2> QED
    BY <2>2, <2>3, <2>4 DEF PartSale, SaleRow
<1>6. K \in Nat /\ ids \in [1 .. K -> S]
  BY <1>4, IdsInOrder
<1>7. PartSales(r, new) = [k \in DOMAIN ids |-> PartSale(r, new, ids[k])]
  BY DEF PartSales, MapSeq, PartSale, SoldParts
<1> HIDE DEF S, ids, K
<1>8. PartSales(r, new) \in [1 .. K -> SaleRow]
  BY <1>5, <1>6, <1>7
<1>9. PartSales(r, new) \in Seq(SaleRow)
  BY <1>6, <1>8, IsASeq
<1>10. Len(PartSales(r, new)) = K
  BY <1>6, <1>8, <1>9, LenProperties
<1>11. \A k \in 1 .. K : ids[k] \in S /\ PartSales(r, new)[k] = PartSale(r, new, ids[k])
  BY <1>6, <1>7
<1> QED
  BY <1>4, <1>5, <1>9, <1>10, <1>11 DEF S, ids, K

LEMMA SplitLineFields ==
  ASSUME PosTypeOK, NEW r, IsDesk(r), NEW new \in Nat, NEW l \in DOMAIN invoiceLines
  PROVE  /\ SplitLine(r, new, l).product = invoiceLines[l].product
         /\ l \notin Selected(r, r.rows) => SplitLine(r, new, l) = invoiceLines[l]
         /\ l \in Selected(r, r.rows) /\ Rest(r, l) = 0 =>
              /\ SplitLine(r, new, l).qty = invoiceLines[l].qty
              /\ invoiceLines[l].order # NoId => SplitLine(r, new, l).order = new
         /\ l \in Selected(r, r.rows) /\ Rest(r, l) # 0 =>
              /\ SplitLine(r, new, l).qty = Rest(r, l)
              /\ SplitLine(r, new, l).order = invoiceLines[l].order
<1>1. invoiceLines[l] \in InvoiceLineRow
  BY PosRows
<1>2. CASE l \notin Selected(r, r.rows)
  BY <1>2 DEF SplitLine
<1>3. CASE l \in Selected(r, r.rows) /\ Rest(r, l) = 0
  <2> DEFINE o == IF invoiceLines[l].order = NoId THEN NoId ELSE new
  <2>1. SplitLine(r, new, l) = [invoiceLines[l] EXCEPT !.order = o]
    BY <1>1, <1>3 DEF SplitLine, InvoiceLineRow
  <2>2. invoiceLines[l].order # NoId => o = new
    OBVIOUS
  <2> HIDE DEF o
  <2> QED
    BY <1>1, <1>3, <2>1, <2>2 DEF InvoiceLineRow
<1>4. CASE l \in Selected(r, r.rows) /\ Rest(r, l) # 0
  <2>1. SplitLine(r, new, l) = [invoiceLines[l] EXCEPT !.qty = Rest(r, l)]
    BY <1>4 DEF SplitLine
  <2> QED
    BY <1>1, <1>4, <2>1 DEF InvoiceLineRow
<1> QED
  BY <1>2, <1>3, <1>4

LEMMA SplitSaleFields ==
  ASSUME PosTypeOK, NEW r, NEW new, NEW s \in DOMAIN sales
  PROVE  /\ ~IsMatched(r, s) => SplitSale(r, new, s) = sales[s]
         /\ SplitSale(r, new, s).line = sales[s].line
         /\ SplitSale(r, new, s).product = sales[s].product
         /\ IsMatched(r, s) /\ Rest(r, LineMatched(r, s)) = 0 =>
              /\ SplitSale(r, new, s).order = new
              /\ SplitSale(r, new, s).qty = sales[s].qty
         /\ IsMatched(r, s) /\ Rest(r, LineMatched(r, s)) # 0 =>
              /\ SplitSale(r, new, s).order = sales[s].order
              /\ SplitSale(r, new, s).qty = Rest(r, LineMatched(r, s))
<1> DEFINE rest == Rest(r, LineMatched(r, s))
<1>1. sales[s] \in SaleRow
  BY PosRows
<1>2. CASE ~IsMatched(r, s)
  BY <1>2 DEF SplitSale
<1>3. CASE IsMatched(r, s) /\ rest = 0
  <2>1. SplitSale(r, new, s) = [sales[s] EXCEPT !.order = new]
    BY <1>3 DEF SplitSale
  <2> HIDE DEF rest
  <2> QED
    BY <1>1, <1>3, <2>1 DEF SaleRow, rest
<1>4. CASE IsMatched(r, s) /\ rest # 0
  <2>1. SplitSale(r, new, s) = [sales[s] EXCEPT !.qty = rest]
    BY <1>4 DEF SplitSale
  <2> HIDE DEF rest
  <2> QED
    BY <1>1, <1>4, <2>1 DEF SaleRow, rest
<1> QED
  BY <1>2, <1>3, <1>4

(***************************************************************************)
(* What a split leaves in the three tables.                                *)
(***************************************************************************)
SplitLeaves(r, new) ==
  /\ new \in Nat /\ new # NoId /\ new \notin DOMAIN invoices
  /\ DOMAIN invoices' = DOMAIN invoices \cup {new}
  /\ invoices'[new].status = r.row.status
  /\ \A o \in DOMAIN invoices : invoices'[o] = invoices[o]
  /\ \A l \in DOMAIN invoiceLines :
       l \in DOMAIN invoiceLines' /\ invoiceLines'[l] = SplitLine(r, new, l)
  /\ \A n \in DOMAIN InPart(r) :
       /\ Len(invoiceLines) + n \in DOMAIN invoiceLines' \ DOMAIN invoiceLines
       /\ invoiceLines'[Len(invoiceLines) + n].order = new
       /\ invoiceLines'[Len(invoiceLines) + n].product
            = r.rows[InPart(r)[n]].product
       /\ invoiceLines'[Len(invoiceLines) + n].qty = r.qtys[InPart(r)[n]]
  /\ \A l \in DOMAIN invoiceLines' \ DOMAIN invoiceLines :
       \E n \in DOMAIN InPart(r) : l = Len(invoiceLines) + n
  /\ \A s \in DOMAIN sales :
       s \in DOMAIN sales' /\ sales'[s] = SplitSale(r, new, s)
  /\ \A k \in 1 .. Cardinality(SoldParts(r)) :
       /\ Len(sales) + k \in DOMAIN sales' \ DOMAIN sales
       /\ sales'[Len(sales) + k] = PartSale(r, new, InIdOrder(SoldParts(r))[k])
  /\ \A s \in DOMAIN sales' \ DOMAIN sales :
       \E k \in 1 .. Cardinality(SoldParts(r)) : s = Len(sales) + k

LEMMA SplitTables ==
  ASSUME PosTypeOK, NEW h \in Clerks, SplitInvoice(h), NEW r, r = clerk[h],
         NEW new, new = Len(invoices) + 1
  PROVE  SplitLeaves(r, new)
<1> DEFINE row == [status |-> r.row.status, notes |-> r.row.notes \cup {r.order}]
           lines == [l \in DOMAIN invoiceLines |-> SplitLine(r, new, l)]
           split == [s \in DOMAIN sales |-> SplitSale(r, new, s)]
           parts == InPart(r)
           moved == [n \in DOMAIN parts |->
                       [order |-> new, product |-> r.rows[parts[n]].product,
                        qty |-> r.qtys[parts[n]]]]
           K == Cardinality(SoldParts(r))
<1>1. /\ r.step = "write" /\ invoices' = Append(invoices, row)
      /\ invoiceLines' = lines \o moved /\ sales' = split \o PartSales(r, new)
  <2>1. r.step = "write" /\ invoices' = Append(invoices, row)
    BY ZenonT(60) DEF SplitInvoice
  <2>2. invoiceLines' = lines \o moved
    BY ZenonT(60) DEF SplitInvoice, MapSeq
  <2>3. sales' = split \o PartSales(r, new)
    BY ZenonT(60) DEF SplitInvoice
  <2> QED
    BY <2>1, <2>2, <2>3
<1>2. /\ IsDesk(r) /\ r.order \in Nat
      /\ \A l \in DOMAIN r.rows : r.rows[l].product \in Products /\ r.rows[l].qty \in Int
  BY <1>1, AtDesk
<1>3. row \in InvoiceRow /\ row.status = r.row.status
  BY <1>2 DEF IsDesk, InvoiceRow
<1>4. /\ parts \in Seq(Nat)
      /\ \A n \in DOMAIN parts : parts[n] \in Selected(r, r.rows)
  BY PartsInOrder
<1>5. \A l \in Selected(r, r.rows) : Rest(r, l) \in Int
  BY <1>2, QuantityAsked DEF Selected, Rest
<1>6. \A n \in DOMAIN parts : /\ r.rows[parts[n]].product \in Products
                              /\ r.qtys[parts[n]] \in Int
  BY <1>2, <1>4, QuantityAsked, SMTT(40) DEF Selected
<1>7. /\ DOMAIN invoices' = DOMAIN invoices \cup {new}
      /\ new \notin DOMAIN invoices /\ new \in Nat \ {0}
      /\ invoices'[new] = row
      /\ \A o \in DOMAIN invoices : invoices'[o] = invoices[o]
  <2> HIDE DEF row
  <2> QED
    BY <1>1, <1>3, RowOfAppended, SMTT(40) DEF PosTypeOK
<1>8. K \in Nat
  BY <1>7, PartsSold, FS_CardinalityType
<1> HIDE DEF row, K
<1>9. lines \in [DOMAIN invoiceLines -> InvoiceLineRow]
  <2>1. ASSUME NEW l \in DOMAIN invoiceLines
        PROVE  SplitLine(r, new, l) \in InvoiceLineRow
    <3>1. invoiceLines[l] \in InvoiceLineRow
      BY PosRows
    <3>2. \/ SplitLine(r, new, l) = [invoiceLines[l] EXCEPT !.order = NoId]
          \/ SplitLine(r, new, l) = [invoiceLines[l] EXCEPT !.order = new]
          \/ /\ l \in Selected(r, r.rows)
             /\ SplitLine(r, new, l) = [invoiceLines[l] EXCEPT !.qty = Rest(r, l)]
          \/ SplitLine(r, new, l) = invoiceLines[l]
      BY <3>1 DEF SplitLine, InvoiceLineRow
    <3> QED
      BY <1>5, <1>7, <3>1, <3>2 DEF InvoiceLineRow, NoId
  <2> QED
    BY <2>1
<1>10. split \in [DOMAIN sales -> SaleRow]
  <2>1. ASSUME NEW s \in DOMAIN sales
        PROVE  SplitSale(r, new, s) \in SaleRow
    <3> DEFINE l == LineMatched(r, s)
    <3>1. sales[s] \in SaleRow
      BY PosRows
    <3>2. IsMatched(r, s) => l \in Selected(r, r.rows)
      BY <1>2, MatchedSale DEF Selected
    <3>3. \/ SplitSale(r, new, s) = [sales[s] EXCEPT !.order = new]
          \/ /\ IsMatched(r, s)
             /\ SplitSale(r, new, s) = [sales[s] EXCEPT !.qty = Rest(r, l)]
          \/ SplitSale(r, new, s) = sales[s]
      BY DEF SplitSale
    <3> HIDE DEF l
    <3> QED
      BY <1>5, <1>7, <3>1, <3>2, <3>3 DEF SaleRow
  <2> QED
    BY <2>1
<1>11. moved \in [DOMAIN parts -> InvoiceLineRow]
  BY <1>6, <1>7 DEF InvoiceLineRow
<1>12. moved \in Seq(InvoiceLineRow) /\ DOMAIN moved = DOMAIN parts
  BY <1>4, <1>11, SameLength
<1>13. \A n \in DOMAIN parts : /\ moved[n].order = new
                               /\ moved[n].product = r.rows[parts[n]].product
                               /\ moved[n].qty = r.qtys[parts[n]]
  OBVIOUS
<1>14. /\ \A l \in DOMAIN invoiceLines : lines[l] = SplitLine(r, new, l)
       /\ \A s \in DOMAIN sales : split[s] = SplitSale(r, new, s)
  OBVIOUS
<1> HIDE DEF lines, split, moved, parts
<1>15. lines \in Seq(InvoiceLineRow) /\ DOMAIN lines = DOMAIN invoiceLines
       /\ Len(lines) = Len(invoiceLines)
  BY <1>9, SameLength DEF PosTypeOK
<1>16. split \in Seq(SaleRow) /\ DOMAIN split = DOMAIN sales /\ Len(split) = Len(sales)
  BY <1>10, SameLength DEF PosTypeOK
<1>17. \A l \in DOMAIN invoiceLines :
         l \in DOMAIN invoiceLines' /\ invoiceLines'[l] = SplitLine(r, new, l)
  BY <1>1, <1>12, <1>14, <1>15, OldRowOfBoth
<1>18. /\ Len(lines) \in Nat /\ Len(moved) \in Nat
       /\ DOMAIN lines = 1 .. Len(lines) /\ DOMAIN moved = 1 .. Len(moved)
       /\ DOMAIN invoiceLines' = 1 .. Len(lines) + Len(moved)
       /\ \A n \in 1 .. Len(moved) : invoiceLines'[Len(lines) + n] = moved[n]
  <2>1. invoiceLines' = lines \o moved
    BY <1>1
  <2>2. lines \in Seq(InvoiceLineRow) /\ moved \in Seq(InvoiceLineRow)
    BY <1>12, <1>15
  <2> QED
    BY <2>1, <2>2, RowsOfBoth
<1>19. ASSUME NEW n \in DOMAIN parts
       PROVE  /\ Len(invoiceLines) + n \in DOMAIN invoiceLines' \ DOMAIN invoiceLines
              /\ invoiceLines'[Len(invoiceLines) + n] = moved[n]
  BY <1>12, <1>15, <1>18
<1>20. ASSUME NEW l \in DOMAIN invoiceLines' \ DOMAIN invoiceLines
       PROVE  \E n \in DOMAIN parts : l = Len(invoiceLines) + n
  <2> DEFINE n == l - Len(invoiceLines)
  <2>1. l = Len(invoiceLines) + n /\ n \in 1 .. Len(moved)
    BY <1>15, <1>18
  <2> QED
    BY <1>12, <1>18, <2>1
<1>21. /\ PartSales(r, new) \in Seq(SaleRow) /\ Len(PartSales(r, new)) = K
       /\ \A k \in 1 .. K : PartSales(r, new)[k] = PartSale(r, new, InIdOrder(SoldParts(r))[k])
  BY <1>7, PartsSold DEF K
<1> DEFINE more == PartSales(r, new)
<1> HIDE DEF more
<1>22. /\ more \in Seq(SaleRow) /\ Len(more) = K
       /\ \A k \in 1 .. K : more[k] = PartSale(r, new, InIdOrder(SoldParts(r))[k])
       /\ sales' = split \o more
  BY <1>1, <1>21 DEF more
<1>23. \A s \in DOMAIN sales : s \in DOMAIN sales' /\ sales'[s] = SplitSale(r, new, s)
  BY <1>14, <1>16, <1>22, OldRowOfBoth
<1>24. /\ Len(split) \in Nat /\ DOMAIN split = 1 .. Len(split)
       /\ DOMAIN sales' = 1 .. Len(split) + K
       /\ \A k \in 1 .. K : sales'[Len(split) + k] = more[k]
  BY <1>16, <1>22, RowsOfBoth
<1>25. ASSUME NEW k \in 1 .. K
       PROVE  /\ Len(sales) + k \in DOMAIN sales' \ DOMAIN sales
              /\ sales'[Len(sales) + k] = PartSale(r, new, InIdOrder(SoldParts(r))[k])
  BY <1>8, <1>16, <1>22, <1>24
<1>26. ASSUME NEW s \in DOMAIN sales' \ DOMAIN sales
       PROVE  \E k \in 1 .. K : s = Len(sales) + k
  <2> DEFINE k == s - Len(sales)
  <2>1. s = Len(sales) + k /\ k \in 1 .. K
    BY <1>8, <1>16, <1>24
  <2> QED
    BY <2>1
<1> QED
  BY <1>3, <1>7, <1>13, <1>17, <1>19, <1>20, <1>23, <1>25, <1>26
     DEF NoId, K, parts, SplitLeaves

(***************************************************************************)
(* split_in_house_order: a line moved in full takes its sale along; one    *)
(* moved in part keeps it, and the part has one of its own.                *)
(***************************************************************************)
LEMMA SplitCurrent ==
  ASSUME PosTypeOK, NEW h \in Clerks, SplitInvoice(h), NEW r, r = clerk[h],
         NEW new, new = Len(invoices) + 1,
         TablesAgree(invoices, invoiceLines, sales),
         DeskIsCurrent(clerk[h], invoices, invoiceLines, sales)
  PROVE  /\ TablesAgree(invoices', invoiceLines', sales')
         /\ OnlyTouched(Touched(h), invoices, invoices', invoiceLines, invoiceLines',
                        sales, sales')
<1> DEFINE T == Touched(h)
           parts == InPart(r)
           S == SoldParts(r)
           ids == InIdOrder(S)
           K == Cardinality(S)
<1>a. SplitLeaves(r, new)
  BY SplitTables
<1>1. r.step = "write" /\ r.op = "split"
  BY DEF SplitInvoice
<1>2. /\ IsDesk(r) /\ r.order \in DOMAIN invoices /\ r.order # NoId
      /\ r.order \in T /\ T \subseteq DOMAIN invoices
      /\ RowIsCurrent(r, invoices) /\ LinesAreCurrent(r, invoiceLines, sales)
  BY <1>1, AboutToWrite
<1>3. \A l \in DOMAIN r.rows : /\ l \in DOMAIN invoiceLines
                               /\ invoiceLines[l].order = r.order
                               /\ r.rows[l].product = invoiceLines[l].product
                               /\ r.rows[l].qty = invoiceLines[l].qty
  BY <1>2, LinesRight
<1>4. r.row.status = "approved" => DOMAIN r.match = Selected(r, r.rows)
  BY <1>1, <1>2 DEF LinesAreCurrent, ToMatch, MatchedLines
<1>5. r.row.status # "approved" => DOMAIN r.match = {}
  BY <1>2 DEF LinesAreCurrent, ToMatch
<1>6. r.row.status = invoices[r.order].status
  BY <1>2 DEF RowIsCurrent
<1>7. /\ new \in Nat /\ new # NoId /\ new \notin DOMAIN invoices
      /\ DOMAIN invoices' = DOMAIN invoices \cup {new}
      /\ invoices'[new].status = r.row.status
      /\ \A o \in DOMAIN invoices : invoices'[o] = invoices[o]
  BY <1>a DEF SplitLeaves
<1>8. \A l \in DOMAIN invoiceLines :
        l \in DOMAIN invoiceLines' /\ invoiceLines'[l] = SplitLine(r, new, l)
  BY <1>a DEF SplitLeaves
<1>9. /\ \A n \in DOMAIN parts :
           /\ Len(invoiceLines) + n \in DOMAIN invoiceLines' \ DOMAIN invoiceLines
           /\ invoiceLines'[Len(invoiceLines) + n].order = new
           /\ invoiceLines'[Len(invoiceLines) + n].product = r.rows[parts[n]].product
           /\ invoiceLines'[Len(invoiceLines) + n].qty = r.qtys[parts[n]]
      /\ \A l \in DOMAIN invoiceLines' \ DOMAIN invoiceLines :
           \E n \in DOMAIN parts : l = Len(invoiceLines) + n
  BY <1>a DEF SplitLeaves
<1>10. \A s \in DOMAIN sales :
         s \in DOMAIN sales' /\ sales'[s] = SplitSale(r, new, s)
  BY <1>a DEF SplitLeaves
<1>11. /\ \A k \in 1 .. K : /\ Len(sales) + k \in DOMAIN sales' \ DOMAIN sales
                            /\ sales'[Len(sales) + k] = PartSale(r, new, ids[k])
       /\ \A s \in DOMAIN sales' \ DOMAIN sales : \E k \in 1 .. K : s = Len(sales) + k
  BY <1>a DEF SplitLeaves
<1>12. /\ parts \in Seq(Nat) /\ DOMAIN parts \subseteq Nat
       /\ \A n \in DOMAIN parts : parts[n] \in Selected(r, r.rows) /\ Rest(r, parts[n]) # 0
  BY PartsInOrder
<1>13. IsFiniteSet(S) /\ S \subseteq Nat /\ S \subseteq DOMAIN parts
  <2>1. IsFiniteSet(SoldParts(r)) /\ SoldParts(r) \subseteq Nat
    BY <1>7, PartsSold
  <2> QED
    BY <2>1 DEF SoldParts
<1>14. /\ K \in Nat /\ ids \in [1 .. K -> S]
       /\ \A n \in S : \E k \in 1 .. K : ids[k] = n
       /\ \A j, k \in 1 .. K : ids[j] = ids[k] => j = k
  <2> HIDE DEF S
  <2> QED
    BY <1>13, IdsInOrder, EachIdOnce
<1>15. NoId \notin DOMAIN sales /\ NoId \notin DOMAIN invoices /\ NoId \notin DOMAIN invoiceLines
  BY NoRowIsZero DEF PosTypeOK
<1>16. r.row.status = "approved" => S = DOMAIN parts
  <2> SUFFICES ASSUME r.row.status = "approved", NEW n \in DOMAIN parts PROVE n \in S
    BY <1>13
  <2>1. parts[n] \in DOMAIN r.match
    BY <1>4, <1>12
  <2>2. r.match[parts[n]] # NoId
    BY <1>2, <1>15, <2>1 DEF LinesAreCurrent
  <2> QED
    BY <2>1, <2>2 DEF SoldParts
<1>17. r.row.status # "approved" => S = {}
  BY <1>5 DEF SoldParts
<1> HIDE DEF T, parts, S, ids, K
<1>18. \A s \in DOMAIN sales' \ DOMAIN sales :
         \E n \in S : sales'[s] = PartSale(r, new, n)
  <2> SUFFICES ASSUME NEW s \in DOMAIN sales' \ DOMAIN sales
               PROVE  \E n \in S : sales'[s] = PartSale(r, new, n)
    OBVIOUS
  <2>1. PICK k \in 1 .. K : s = Len(sales) + k
    BY <1>11
  <2>2. sales'[s] = PartSale(r, new, ids[k]) /\ ids[k] \in S
    BY <1>11, <1>14, <2>1
  <2> QED
    BY <2>2
<1>19. \A s \in DOMAIN sales' \ DOMAIN sales :
         sales'[s].line \in DOMAIN invoiceLines' \ DOMAIN invoiceLines
  <2> SUFFICES ASSUME NEW s \in DOMAIN sales' \ DOMAIN sales
               PROVE  sales'[s].line \in DOMAIN invoiceLines' \ DOMAIN invoiceLines
    OBVIOUS
  <2>1. PICK n \in S : sales'[s] = PartSale(r, new, n)
    BY <1>18
  <2>2. sales'[s].line = Len(invoiceLines) + n
    BY <2>1, PartFields
  <2> QED
    BY <1>9, <1>13, <2>2
<1>20. SalesKept(sales, sales')
  BY <1>10, SplitSaleFields DEF SalesKept
<1>21. ASSUME NEW l \in DOMAIN invoiceLines
       PROVE  SoldOnce(invoices', invoiceLines', sales', l)
  <2>1. SoldOnce(invoices, invoiceLines, sales, l)
        /\ invoiceLines[l].order \in {NoId} \cup DOMAIN invoices
    BY DEF TablesAgree
  <2>2. invoiceLines'[l] = SplitLine(r, new, l)
    BY <1>8
  <2>3. \A s \in DOMAIN sales' \ DOMAIN sales : sales'[s].line # l
    BY <1>19
  <2>4. CASE l \notin Selected(r, r.rows)
    <3>1. invoiceLines'[l] = invoiceLines[l]
      BY <1>2, <1>7, <2>2, <2>4, SplitLineFields
    <3>2. IsSold(invoices', invoiceLines', l) <=> IsSold(invoices, invoiceLines, l)
      BY <1>7, <2>1, <3>1 DEF IsSold
    <3>3. ASSUME NEW s \in DOMAIN sales, sales[s].line = l
          PROVE  sales'[s] = sales[s]
      <4>1. DOMAIN r.match \subseteq Selected(r, r.rows)
        BY <1>2 DEF IsDesk, Selected
      <4>2. ~IsMatched(r, s)
        BY <1>2, <2>4, <3>3, <4>1, MatchedIsOwn
      <4> QED
        BY <1>10, <4>2, SplitSaleFields
    <3>4. \A s \in DOMAIN sales : sales[s].line = l /\ SoldAs(invoiceLines[l], sales[s])
                                    => SoldAs(invoiceLines'[l], sales'[s])
      BY <3>1, <3>3
    <3> QED
      BY <1>20, <2>1, <2>3, <3>2, <3>4, SoldStill
  <2>5. CASE l \in Selected(r, r.rows)
    <3>1. invoiceLines[l].order = r.order /\ r.rows[l].qty = invoiceLines[l].qty
      BY <1>3, <2>5 DEF Selected
    <3>2. /\ invoiceLines'[l].product = invoiceLines[l].product
          /\ Rest(r, l) = 0 => /\ invoiceLines'[l].qty = invoiceLines[l].qty
                               /\ invoiceLines'[l].order = new
          /\ Rest(r, l) # 0 => /\ invoiceLines'[l].qty = Rest(r, l)
                               /\ invoiceLines'[l].order = r.order
      BY <1>2, <1>7, <2>2, <2>5, <3>1, SplitLineFields
    <3>3. IsSold(invoices', invoiceLines', l) <=> IsSold(invoices, invoiceLines, l)
      BY <1>2, <1>6, <1>7, <3>1, <3>2 DEF IsSold
    <3>4. ASSUME IsSold(invoices, invoiceLines, l),
                 NEW s \in DOMAIN sales, sales[s].line = l,
                 SoldAs(invoiceLines[l], sales[s])
          PROVE  SoldAs(invoiceLines'[l], sales'[s])
      <4>1. \E t \in DOMAIN sales : SalesFor(sales, l) = {t}
        BY <2>1, <3>4 DEF SoldOnce
      <4>2. SalesFor(sales, l) = {s}
        BY <3>4, <4>1 DEF SalesFor
      <4>3. l \in DOMAIN r.match
        BY <1>4, <1>6, <2>5, <3>1, <3>4 DEF IsSold
      <4>4. IsMatched(r, s) /\ LineMatched(r, s) = l
        BY <1>2, <4>2, <4>3, OwnIsMatched
      <4>5. /\ sales'[s].product = sales[s].product
            /\ Rest(r, l) = 0 => sales'[s].order = new /\ sales'[s].qty = sales[s].qty
            /\ Rest(r, l) # 0 => /\ sales'[s].order = sales[s].order
                                 /\ sales'[s].qty = Rest(r, l)
        BY <1>10, <4>4, SplitSaleFields
      <4> QED
        BY <3>1, <3>2, <3>4, <4>5 DEF SoldAs
    <3> QED
      BY <1>20, <2>1, <2>3, <3>3, <3>4, SoldStill
  <2> QED
    BY <2>4, <2>5
<1>22. ASSUME NEW l \in DOMAIN invoiceLines' \ DOMAIN invoiceLines
       PROVE  SoldOnce(invoices', invoiceLines', sales', l)
  <2>1. PICK n \in DOMAIN parts : l = Len(invoiceLines) + n
    BY <1>9
  <2>2. /\ invoiceLines'[l].order = new
        /\ invoiceLines'[l].product = r.rows[parts[n]].product
        /\ invoiceLines'[l].qty = r.qtys[parts[n]]
    BY <1>9, <2>1
  <2>3. IsSold(invoices', invoiceLines', l) <=> r.row.status = "approved"
    BY <1>7, <2>2 DEF IsSold
  <2>4. \A s \in DOMAIN sales : sales'[s].line # l
    <3>1. l # NoId /\ l \notin DOMAIN invoiceLines
      BY <1>15, <2>1, LenProperties, <1>12 DEF PosTypeOK, NoId
    <3>2. \A s \in DOMAIN sales : sales[s].line \in {NoId} \cup DOMAIN invoiceLines
      BY DEF TablesAgree
    <3> QED
      BY <1>20, <3>1, <3>2 DEF SalesKept
  <2>5. CASE r.row.status # "approved"
    <3>1. DOMAIN sales' \ DOMAIN sales = {}
      BY <1>17, <1>18, <2>5
    <3>2. SalesFor(sales', l) = {}
      BY <2>4, <3>1 DEF SalesFor
    <3> QED
      BY <2>3, <2>5, <3>2 DEF SoldOnce
  <2>6. CASE r.row.status = "approved"
    <3>1. PICK k \in 1 .. K : ids[k] = n
      BY <1>14, <1>16, <2>6
    <3> DEFINE s == Len(sales) + k
    <3>2. s \in DOMAIN sales' /\ s \notin DOMAIN sales /\ sales'[s] = PartSale(r, new, n)
      BY <1>11, <3>1
    <3>3. ASSUME NEW t \in SalesFor(sales', l) PROVE t = s
      <4>1. t \in DOMAIN sales' /\ sales'[t].line = l /\ t \notin DOMAIN sales
        BY <2>4 DEF SalesFor
      <4>2. PICK j \in 1 .. K : t = Len(sales) + j
        BY <1>11, <4>1
      <4>3. sales'[t] = PartSale(r, new, ids[j]) /\ ids[j] \in S
        BY <1>11, <1>14, <4>2
      <4>4. Len(invoiceLines) + ids[j] = Len(invoiceLines) + n
        BY <2>1, <4>1, <4>3, PartFields
      <4>5. ids[j] \in Nat /\ n \in Nat /\ Len(invoiceLines) \in Nat
        BY <1>12, <1>13, <4>3, LenProperties DEF PosTypeOK
      <4>6. ids[j] = ids[k]
        BY <3>1, <4>4, <4>5
      <4> QED
        BY <1>14, <4>2, <4>6
    <3> HIDE DEF s
    <3>4. sales'[s].line = l /\ SoldAs(invoiceLines'[l], sales'[s])
      BY <2>1, <2>2, <3>2, PartFields DEF SoldAs, parts
    <3>5. SalesFor(sales', l) = {s}
      BY <3>2, <3>3, <3>4 DEF SalesFor
    <3> QED
      BY <2>3, <2>6, <3>2, <3>4, <3>5 DEF SoldOnce
  <2> QED
    BY <2>5, <2>6
<1>23. ASSUME NEW l \in DOMAIN invoiceLines
       PROVE  \/ l \in DOMAIN r.rows /\ invoiceLines'[l].order \in {r.order, new}
              \/ invoiceLines'[l] = invoiceLines[l]
  <2>1. invoiceLines'[l] = SplitLine(r, new, l)
    BY <1>8
  <2>2. CASE l \in Selected(r, r.rows)
    <3>1. l \in DOMAIN r.rows /\ invoiceLines[l].order = r.order
      BY <1>3, <2>2 DEF Selected
    <3> QED
      BY <1>2, <1>7, <2>1, <2>2, <3>1, SplitLineFields
  <2>3. CASE l \notin Selected(r, r.rows)
    BY <1>2, <1>7, <2>1, <2>3, SplitLineFields
  <2> QED
    BY <2>2, <2>3
<1>24. TablesAgree(invoices', invoiceLines', sales')
  <2>1. \A l \in DOMAIN invoiceLines :
          invoiceLines'[l].order \in {NoId} \cup DOMAIN invoices'
    BY <1>2, <1>7, <1>23 DEF TablesAgree
  <2>2. \A l \in DOMAIN invoiceLines' \ DOMAIN invoiceLines :
          invoiceLines'[l].order \in DOMAIN invoices'
    BY <1>7, <1>9
  <2>3. ASSUME NEW s \in DOMAIN sales'
        PROVE  sales'[s].line \in {NoId} \cup DOMAIN invoiceLines'
    <3>1. CASE s \in DOMAIN sales
      BY <1>8, <1>20, <3>1 DEF SalesKept, TablesAgree
    <3>2. CASE s \notin DOMAIN sales
      BY <1>19, <3>2
    <3> QED
      BY <3>1, <3>2
  <2> QED
    BY <1>21, <1>22, <2>1, <2>2, <2>3 DEF TablesAgree
<1>25. InvoicesKept(T, invoices, invoices')
  BY <1>7 DEF InvoicesKept
<1>26. \A l \in DOMAIN invoiceLines :
         LineKept(T, invoices, invoiceLines[l], invoiceLines'[l])
  BY <1>2, <1>3, <1>7, <1>23 DEF LineKept
<1>27. \A l \in DOMAIN invoiceLines' \ DOMAIN invoiceLines :
         invoiceLines'[l].order \notin DOMAIN invoices \ T
  BY <1>7, <1>9
<1>28. OnlyTouched(T, invoices, invoices', invoiceLines, invoiceLines', sales, sales')
  BY <1>8, <1>20, <1>25, <1>26, <1>27 DEF OnlyTouched
<1> QED
  BY <1>24, <1>28 DEF T

(***************************************************************************)
(* What a step of one thread leaves: the tables agree, its own desk is     *)
(* current, and the other threads' invoices are as they were.              *)
(***************************************************************************)
LeavesCurrent(h) ==
  /\ TablesAgree(invoices', invoiceLines', sales')
  /\ OnlyTouched(Touched(h), invoices, invoices', invoiceLines, invoiceLines', sales, sales')
  /\ DeskIsCurrent(clerk'[h], invoices', invoiceLines', sales')
  /\ \A k \in Clerks \ {h} : clerk'[k] = clerk[k]

LEMMA AnswersCurrent ==
  ASSUME PosTypeOK, NEW h \in Clerks, Answer(h)
  PROVE  /\ DeskIsCurrent(clerk'[h], invoices', invoiceLines', sales')
         /\ \A k \in Clerks \ {h} : clerk'[k] = clerk[k]
  BY DeskOf, IdleDeskIsCurrent DEF Answer

LEMMA ReadsLeaveCurrent ==
  ASSUME PosTypeOK, NEW h \in Clerks,
         TablesAgree(invoices, invoiceLines, sales),
         DeskIsCurrent(clerk[h], invoices, invoiceLines, sales),
         \/ StaffRequest(h) \/ GuestRequest(h) \/ ReadOrder(h) \/ ReadLines(h)
         \/ PosFail(h)
  PROVE  LeavesCurrent(h)
<1>1. UNCHANGED posTables
  BY DEF StaffRequest, GuestRequest, ReadOrder, ReadLines, PosFail
<1>2. DeskIsCurrent(clerk'[h], invoices, invoiceLines, sales)
  BY RequestsCurrent, ReadOrderCurrent, ReadLinesCurrent, DeskOf, IdleDeskIsCurrent
     DEF PosFail, Answer
<1>3. DeskIsCurrent(clerk'[h], invoices', invoiceLines', sales')
  BY <1>1, <1>2, SMTT(40) DEF posTables
<1>4. \E d : clerk' = [clerk EXCEPT ![h] = d]
  BY DEF StaffRequest, GuestRequest, ReadOrder, ReadLines, PosFail, Answer
<1>5. \A k \in Clerks \ {h} : clerk'[k] = clerk[k]
  BY <1>4, DeskOf
<1> QED
  BY <1>1, <1>3, <1>5, TablesSame DEF LeavesCurrent

LEMMA SalesStepLeavesCurrent ==
  ASSUME PosTypeOK, PosTypeOK', NEW h \in Clerks, PosArrival(h) \/ PosWork(h),
         TablesAgree(invoices, invoiceLines, sales),
         DeskIsCurrent(clerk[h], invoices, invoiceLines, sales)
  PROVE  LeavesCurrent(h)
<1>1. CASE CreateInvoice(h)
  <2>1. \E d : clerk' = [clerk EXCEPT ![h] = d]
    BY <1>1 DEF CreateInvoice, Answer
  <2>2. \A k \in Clerks \ {h} : clerk'[k] = clerk[k]
    BY <2>1, DeskOf
  <2> QED
    BY <1>1, <2>2, CreateInvoiceCurrent DEF LeavesCurrent
<1>2. CASE SellAtCounter(h)
  <2>1. clerk[h].step = "idle" /\ clerk' = clerk
    BY <1>2 DEF SellAtCounter
  <2>2. DeskIsCurrent(clerk'[h], invoices', invoiceLines', sales')
    BY <2>1 DEF DeskIsCurrent
  <2> QED
    BY <1>2, <2>1, <2>2, SellAtCounterCurrent DEF LeavesCurrent
<1>3. CASE \/ ApproveInvoice(h) \/ RejectInvoice(h) \/ CancelInvoice(h)
           \/ UpdateInvoice(h) \/ SplitInvoice(h) \/ MergeInvoice(h)
  <2>1. Answer(h)
    BY <1>3 DEF ApproveInvoice, RejectInvoice, CancelInvoice, UpdateInvoice,
                SplitInvoice, MergeInvoice
  <2>2. /\ DeskIsCurrent(clerk'[h], invoices', invoiceLines', sales')
        /\ \A k \in Clerks \ {h} : clerk'[k] = clerk[k]
    BY <2>1, AnswersCurrent
  <2>3. /\ TablesAgree(invoices', invoiceLines', sales')
        /\ OnlyTouched(Touched(h), invoices, invoices', invoiceLines, invoiceLines',
                       sales, sales')
    BY <1>3, ApproveCurrent, StatusCurrent, UpdateCurrentSales, SplitCurrent, MergeCurrent
  <2> QED
    BY <2>2, <2>3 DEF LeavesCurrent
<1>4. CASE \/ StaffRequest(h) \/ GuestRequest(h) \/ ReadOrder(h) \/ ReadLines(h)
           \/ PosFail(h)
  BY <1>4, ReadsLeaveCurrent
<1> QED
  BY <1>1, <1>2, <1>3, <1>4 DEF PosArrival, PosWork

LEMMA SalesStepsCurrent ==
  ASSUME PosTypeOK, PosTypeOK', NEW h \in Clerks, PosArrival(h) \/ PosWork(h),
         ~PosCrossed, SalesCurrent(invoices, invoiceLines, sales, clerk)
  PROVE  SalesCurrent(invoices', invoiceLines', sales', clerk')
<1>1. LeavesCurrent(h)
  BY SalesStepLeavesCurrent DEF SalesCurrent
<1>2. ASSUME NEW k \in Clerks \ {h}
      PROVE  DeskIsCurrent(clerk'[k], invoices', invoiceLines', sales')
  <2>1. DeskIsCurrent(clerk[k], invoices, invoiceLines, sales)
    BY DEF SalesCurrent
  <2>2. Touched(h) \cap Touched(k) = {}
    BY DEF PosCrossed
  <2>3. NoId \notin Touched(h)
    BY DEF Touched
  <2>4. clerk[k].step # "idle" => /\ clerk[k].order \in DOMAIN invoices
                                  /\ clerk[k].order # NoId
    BY AtDesk, NoRowIsZero DEF PosTypeOK
  <2>5. clerk[k].step # "idle" => /\ clerk[k].order \notin Touched(h)
                                  /\ clerk[k].target \notin Touched(h)
    BY <2>2, <2>3, <2>4 DEF Touched
  <2>6. DeskIsCurrent(clerk[k], invoices', invoiceLines', sales')
    BY <1>1, <2>1, <2>4, <2>5, DeskStays DEF LeavesCurrent
  <2> QED
    BY <1>1, <2>6 DEF LeavesCurrent
<1> QED
  BY <1>1, <1>2 DEF LeavesCurrent, SalesCurrent

(***************************************************************************)
(* A later state without an overlap had none before.                       *)
(***************************************************************************)
LEMMA SalesAloneBefore ==
  ASSUME [WarehouseNext]_warehouseVars, AloneOnSales'
  PROVE  AloneOnSales /\ (WarehouseNext => ~PosCrossed')
<1>1. crossed' = crossed \/ crossed' = crossed \cup Overlaps'
  BY DEF WarehouseNext, warehouseVars
<1>2. AloneOnSales
  BY <1>1 DEF AloneOnSales
<1>3. ASSUME WarehouseNext PROVE ~PosCrossed'
  BY <1>3 DEF WarehouseNext, Overlaps, AloneOnSales
<1> QED
  BY <1>2, <1>3

LEMMA FirstSales ==
  ASSUME WarehouseInit PROVE SalesAreCurrent
<1>1. /\ invoices = << >> /\ invoiceLines = << >> /\ sales = << >>
      /\ clerk = [h \in Clerks |-> Idle]
  BY DEF WarehouseInit, PosInit
<1>2. \A h \in Clerks : clerk[h] = Idle /\ clerk[h].step = "idle"
  BY <1>1, IdleDesk
<1>3. ~PosCrossed
  BY <1>2 DEF PosCrossed, Touched
<1>4. TablesAgree(invoices, invoiceLines, sales)
  BY <1>1 DEF TablesAgree
<1>5. SalesCurrent(invoices, invoiceLines, sales, clerk)
  BY <1>2, <1>4, IdleDeskIsCurrent DEF SalesCurrent
<1> QED
  BY <1>3, <1>5 DEF SalesAreCurrent

LEMMA SalesStayCurrent ==
  ASSUME WarehouseTypeOK, SalesAreCurrent, [WarehouseNext]_warehouseVars
  PROVE  SalesAreCurrent'
<1> SUFFICES ASSUME AloneOnSales'
             PROVE  ~PosCrossed' /\ SalesCurrent(invoices, invoiceLines, sales, clerk)'
  BY DEF SalesAreCurrent
<1>1. AloneOnSales /\ (WarehouseNext => ~PosCrossed')
  BY SalesAloneBefore
<1>2. ~PosCrossed /\ SalesCurrent(invoices, invoiceLines, sales, clerk)
  BY <1>1 DEF SalesAreCurrent
<1>3. CASE UNCHANGED posVars
  <2>1. PosCrossed' <=> PosCrossed
    BY <1>3 DEF posVars, PosCrossed, Touched
  <2>2. SalesCurrent(invoices', invoiceLines', sales', clerk')
    BY <1>2, <1>3 DEF posVars
  <2> QED
    BY <1>2, <2>1, <2>2 DEF SalesCurrent
<1>4. CASE SellStep /\ WarehouseNext
  <2>1. PICK h \in workload.clerks : PosArrival(h) \/ PosWork(h)
    BY <1>4 DEF SellStep
  <2>2. h \in Clerks
    BY DEF WarehouseTypeOK, Workload
  <2>3. PosTypeOK /\ PosTypeOK'
    BY WarehouseStepTypes, WarehouseStutters DEF WarehouseTypeOK
  <2>4. SalesCurrent(invoices', invoiceLines', sales', clerk')
    BY <1>2, <2>1, <2>2, <2>3, SalesStepsCurrent
  <2> QED
    BY <1>1, <1>4, <2>4
<1> QED
  BY <1>3, <1>4 DEF warehouseVars, WarehouseNext, BuyStep, TikTokStep

LEMMA SalesAlwaysCurrent == WarehouseSpec => []SalesAreCurrent
<1>1. WarehouseInit => SalesAreCurrent
  BY FirstSales
<1>2. WarehouseTypeOK /\ SalesAreCurrent /\ [WarehouseNext]_warehouseVars => SalesAreCurrent'
  BY SalesStayCurrent
<1> QED
  BY <1>1, <1>2, WarehouseTypes, PTL DEF WarehouseSpec

(***************************************************************************)
(* As long as no two requests on one invoice overlap: each line of an      *)
(* approved invoice has exactly one sale, of its product, quantity and     *)
(* invoice, and no other line has any, whatever approve_in_house_order,    *)
(* update_, split_ and merge_in_house_orders do in turn and wherever they  *)
(* fail; _match_pg_in_house_sales_for_order never takes another line's.    *)
(***************************************************************************)
THEOREM LinesSoldOnce == WarehouseSpec => []ApprovedLinesSoldOnce
<1>1. WarehouseTypeOK /\ SalesAreCurrent => ApprovedLinesSoldOnce
  <2> SUFFICES ASSUME WarehouseTypeOK, SalesAreCurrent, AloneOnSales,
                      NEW l \in DOMAIN invoiceLines
               PROVE  IF /\ invoiceLines[l].order # NoId
                         /\ invoices[invoiceLines[l].order].status = "approved"
                        THEN \E s \in DOMAIN sales :
                               /\ SalesOfLine(l) = {s}
                               /\ sales[s] = [sales[s] EXCEPT
                                    !.order = invoiceLines[l].order,
                                    !.product = invoiceLines[l].product,
                                    !.qty = invoiceLines[l].qty]
                        ELSE SalesOfLine(l) = {}
    BY DEF ApprovedLinesSoldOnce, AloneOnSales, LinesAreSoldOnce
  <2>1. SoldOnce(invoices, invoiceLines, sales, l)
    BY DEF SalesAreCurrent, SalesCurrent, TablesAgree
  <2>2. SalesOfLine(l) = SalesFor(sales, l)
    BY DEF SalesOfLine, SalesFor
  <2>3. CASE ~IsSold(invoices, invoiceLines, l)
    BY <2>1, <2>2, <2>3 DEF SoldOnce, IsSold
  <2>4. CASE IsSold(invoices, invoiceLines, l)
    <3>1. PICK s \in DOMAIN sales :
            SalesFor(sales, l) = {s} /\ SoldAs(invoiceLines[l], sales[s])
      BY <2>1, <2>4 DEF SoldOnce
    <3>2. sales[s] \in SaleRow
      BY PosRows DEF WarehouseTypeOK
    <3>3. sales[s] = [sales[s] EXCEPT !.order = invoiceLines[l].order,
                                      !.product = invoiceLines[l].product,
                                      !.qty = invoiceLines[l].qty]
      BY <3>1, <3>2 DEF SaleRow, SoldAs
    <3> QED
      BY <2>2, <2>4, <3>1, <3>3 DEF IsSold
  <2> QED
    BY <2>3, <2>4
<1> QED
  BY <1>1, WarehouseTypes, SalesAlwaysCurrent, PTL
-----------------------------------------------------------------------------
(* Units sold *)

(***************************************************************************)
(* The units a sequence of sales counts of a product: the net of the rows  *)
(* that say so.                                                            *)
(***************************************************************************)
UnitRows(ss) == [n \in DOMAIN ss |-> SaleMovement(NoId, ss[n].product, ss[n].qty)]

CounterRows(p) == KindRows("in_house_sale", p)

UnitsOf(ss, p) == NetAmong(UnitRows(ss), CounterRows(p))

LEMMA SaleMovementFields ==
  ASSUME NEW s, NEW p, NEW delta
  PROVE  /\ SaleMovement(s, p, delta).product = p
         /\ SaleMovement(s, p, delta).delta = delta
         /\ SaleMovement(s, p, delta).reference = "in_house_sale"
  BY DEF SaleMovement

LEMMA UnitRowsType ==
  ASSUME NEW ss \in Seq(SaleRow)
  PROVE  /\ UnitRows(ss) \in Seq(MovementRow) /\ DOMAIN UnitRows(ss) = DOMAIN ss
         /\ Len(UnitRows(ss)) = Len(ss)
         /\ \A n \in DOMAIN ss :
              /\ UnitRows(ss)[n].product = ss[n].product
              /\ UnitRows(ss)[n].delta = ss[n].qty
              /\ UnitRows(ss)[n].reference = "in_house_sale"
<1> DEFINE rows == UnitRows(ss)
<1>1. /\ Len(ss) \in Nat /\ DOMAIN ss = 1 .. Len(ss)
      /\ \A n \in 1 .. Len(ss) : ss[n] \in SaleRow
  BY LenProperties, ElementOfSeq
<1>2. rows = [n \in 1 .. Len(ss) |-> SaleMovement(NoId, ss[n].product, ss[n].qty)]
  BY <1>1 DEF UnitRows
<1>3. \A n \in 1 .. Len(ss) : SaleMovement(NoId, ss[n].product, ss[n].qty) \in MovementRow
  BY <1>1 DEF SaleRow, SaleMovement, MovementRow, NoId
<1> HIDE DEF rows
<1>4. rows \in [DOMAIN ss -> MovementRow]
  BY <1>1, <1>2, <1>3
<1>5. rows \in Seq(MovementRow) /\ Len(rows) = Len(ss) /\ DOMAIN rows = DOMAIN ss
  BY <1>4, SameLength
<1>6. \A n \in 1 .. Len(ss) : rows[n] = SaleMovement(NoId, ss[n].product, ss[n].qty)
  BY <1>2
<1>7. \A n \in 1 .. Len(ss) :
        /\ rows[n].product = ss[n].product
        /\ rows[n].delta = ss[n].qty
        /\ rows[n].reference = "in_house_sale"
  BY <1>6, SaleMovementFields
<1> QED
  BY <1>1, <1>5, <1>7 DEF rows

LEMMA MovedQuantities == \A r \in MovementRow : r.delta \in Int
  BY DEF MovementRow

LEMMA CounterNetType ==
  ASSUME NEW rows \in Seq(MovementRow), NEW p
  PROVE  NetAmong(rows, CounterRows(p)) \in Int
  BY NetType, MovedQuantities

LEMMA UnitsType ==
  ASSUME NEW ss \in Seq(SaleRow), NEW p
  PROVE  UnitsOf(ss, p) \in Int
  BY UnitRowsType, CounterNetType DEF UnitsOf

(***************************************************************************)
(* The units of a product are the sum of its sales' quantities.            *)
(***************************************************************************)
LEMMA UnitsAreSum ==
  ASSUME NEW ss \in Seq(SaleRow), NEW p,
         NEW f, \A s \in DOMAIN ss : f[s] = ss[s].qty
  PROVE  /\ UnitsOf(ss, p) = SumFunctionOnSet(f, {s \in DOMAIN ss : ss[s].product = p})
         /\ IsFiniteSet({s \in DOMAIN ss : ss[s].product = p})
         /\ \A s \in DOMAIN ss : f[s] \in Int
<1> DEFINE rows == UnitRows(ss)
           S == {s \in DOMAIN ss : ss[s].product = p}
           C == {n \in DOMAIN rows : rows[n] \in CounterRows(p)}
           g == [n \in DOMAIN rows |-> rows[n].delta]
<1>1. /\ rows \in Seq(MovementRow) /\ DOMAIN rows = DOMAIN ss
      /\ \A n \in DOMAIN ss : /\ rows[n].product = ss[n].product
                              /\ rows[n].delta = ss[n].qty
                              /\ rows[n].reference = "in_house_sale"
  BY UnitRowsType
<1>2. \A n \in DOMAIN ss : ss[n] \in SaleRow
  BY LenProperties, ElementOfSeq
<1>3. \A n \in DOMAIN ss : f[n] \in Int
  BY <1>2 DEF SaleRow
<1> HIDE DEF rows
<1>4. \A n \in DOMAIN ss : rows[n] \in MovementRow
  BY <1>1, LenProperties, ElementOfSeq
<1>5. C = S
  BY <1>1, <1>4 DEF CounterRows, KindRows
<1>6. \A n \in S : g[n] = f[n]
  BY <1>1
<1>7. IsFiniteSet(S)
  BY PositionsFinite
<1> HIDE DEF S, C, g
<1>8. SumFunctionOnSet(g, C) = SumFunctionOnSet(f, S)
  BY <1>5, <1>6, <1>7, SumSame
<1> QED
  BY <1>3, <1>7, <1>8 DEF UnitsOf, NetAmong, rows, S, C, g

LEMMA UnitsSame ==
  ASSUME NEW ss \in Seq(SaleRow), NEW tt \in Seq(SaleRow), DOMAIN tt = DOMAIN ss,
         \A s \in DOMAIN ss : tt[s].product = ss[s].product /\ tt[s].qty = ss[s].qty,
         NEW p
  PROVE  UnitsOf(tt, p) = UnitsOf(ss, p)
<1> DEFINE f == [s \in DOMAIN ss |-> ss[s].qty]
           S == {s \in DOMAIN ss : ss[s].product = p}
           T == {s \in DOMAIN tt : tt[s].product = p}
<1>1. /\ \A s \in DOMAIN ss : f[s] = ss[s].qty
      /\ \A s \in DOMAIN tt : f[s] = tt[s].qty
      /\ S = T
  OBVIOUS
<1> HIDE DEF f
<1>2. UnitsOf(ss, p) = SumFunctionOnSet(f, S)
  BY <1>1, UnitsAreSum
<1>3. UnitsOf(tt, p) = SumFunctionOnSet(f, T)
  BY <1>1, UnitsAreSum
<1> QED
  BY <1>1, <1>2, <1>3

LEMMA UnitsOfBoth ==
  ASSUME NEW ss \in Seq(SaleRow), NEW tt \in Seq(SaleRow), NEW p
  PROVE  UnitsOf(ss \o tt, p) = UnitsOf(ss, p) + UnitsOf(tt, p)
<1> DEFINE all == ss \o tt
           rows == UnitRows(ss)
           more == UnitRows(tt)
           both == UnitRows(all)
<1>1. all \in Seq(SaleRow)
  BY ConcatProperties
<1>2. /\ rows \in Seq(MovementRow) /\ more \in Seq(MovementRow) /\ both \in Seq(MovementRow)
      /\ Len(rows) = Len(ss) /\ Len(more) = Len(tt) /\ Len(both) = Len(all)
  BY <1>1, UnitRowsType
<1>3. /\ Len(ss) \in Nat /\ Len(tt) \in Nat /\ Len(all) = Len(ss) + Len(tt)
      /\ \A i \in 1 .. Len(ss) : all[i] = ss[i]
      /\ \A i \in 1 .. Len(tt) : all[Len(ss) + i] = tt[i]
  BY ConcatProperties, LenProperties
<1>4. DOMAIN ss = 1 .. Len(ss) /\ DOMAIN tt = 1 .. Len(tt) /\ DOMAIN all = 1 .. Len(all)
  BY <1>1, LenProperties
<1>6. \A i \in 1 .. Len(ss) : both[i] = rows[i]
  BY <1>3, <1>4 DEF UnitRows
<1>7. \A i \in 1 .. Len(tt) : both[Len(ss) + i] = more[i]
  <2> TAKE i \in 1 .. Len(tt)
  <2> DEFINE k == Len(ss) + i
  <2>1. k \in DOMAIN all /\ all[k] = tt[i] /\ i \in DOMAIN tt
    BY <1>3, <1>4
  <2> HIDE DEF k, all
  <2>2. both[k] = SaleMovement(NoId, all[k].product, all[k].qty)
    BY <2>1 DEF UnitRows
  <2>3. more[i] = SaleMovement(NoId, tt[i].product, tt[i].qty)
    BY <2>1 DEF UnitRows
  <2> QED
    BY <2>1, <2>2, <2>3 DEF k
<1> HIDE DEF all, rows, more, both
<1>8. both = rows \o more
  <2>1. /\ rows \o more \in Seq(MovementRow)
        /\ Len(rows \o more) = Len(rows) + Len(more)
        /\ \A i \in 1 .. Len(rows) : (rows \o more)[i] = rows[i]
        /\ \A i \in 1 .. Len(more) : (rows \o more)[Len(rows) + i] = more[i]
    <3>1. rows \in Seq(MovementRow) /\ more \in Seq(MovementRow)
          /\ Len(rows) \in Nat /\ Len(more) \in Nat
      BY <1>2, <1>3
    <3> QED
      BY <3>1, ConcatProperties
  <2>2. \A i \in 1 .. Len(both) : both[i] = (rows \o more)[i]
    <3> TAKE i \in 1 .. Len(both)
    <3>1. CASE i <= Len(ss)
      BY <1>2, <1>3, <1>6, <2>1, <3>1
    <3>2. CASE ~(i <= Len(ss))
      <4>1. i - Len(ss) \in 1 .. Len(tt) /\ Len(ss) + (i - Len(ss)) = i
        BY <1>2, <1>3, <3>2
      <4> QED
        BY <1>2, <1>7, <2>1, <4>1, SMTT(40)
    <3> QED
      BY <3>1, <3>2
  <2> QED
    BY <1>2, <1>3, <2>1, <2>2, SeqEqual
<1>9. NetAmong(rows \o more, CounterRows(p))
        = NetAmong(rows, CounterRows(p)) + NetAmong(more, CounterRows(p))
  BY <1>2, NetOfBoth, MovedQuantities
<1> QED
  BY <1>8, <1>9 DEF UnitsOf, all, rows, more, both

(***************************************************************************)
(* Movements that are the opposite of the sales beside them.               *)
(***************************************************************************)
LEMMA NetOpposite ==
  ASSUME NEW rows \in Seq(MovementRow), NEW more \in Seq(SaleRow),
         DOMAIN rows = DOMAIN more,
         \A n \in DOMAIN more : /\ rows[n].reference = "in_house_sale"
                                /\ rows[n].product = more[n].product
                                /\ rows[n].delta = -more[n].qty,
         NEW p
  PROVE  UnitsOf(more, p) + NetAmong(rows, CounterRows(p)) = 0
<1> DEFINE units == UnitRows(more)
           f == [n \in DOMAIN units |-> units[n].delta]
           g == [n \in DOMAIN rows |-> rows[n].delta]
           C == {n \in DOMAIN units : units[n] \in CounterRows(p)}
           D == {n \in DOMAIN rows : rows[n] \in CounterRows(p)}
<1>1. /\ units \in Seq(MovementRow) /\ DOMAIN units = DOMAIN more
      /\ \A n \in DOMAIN more : /\ units[n].product = more[n].product
                                /\ units[n].delta = more[n].qty
                                /\ units[n].reference = "in_house_sale"
  BY UnitRowsType
<1>2. \A n \in DOMAIN more : more[n].qty \in Int
  <2>1. \A n \in DOMAIN more : more[n] \in SaleRow
    BY LenProperties, ElementOfSeq
  <2> QED
    BY <2>1 DEF SaleRow
<1> HIDE DEF units
<1>3. \A n \in DOMAIN more : units[n] \in MovementRow /\ rows[n] \in MovementRow
  BY <1>1, LenProperties, ElementOfSeq
<1>4. C = D
  BY <1>1, <1>3 DEF CounterRows, KindRows
<1>5. \A n \in D : f[n] \in Int /\ g[n] \in Int /\ f[n] + g[n] = 0
  BY <1>1, <1>2
<1>6. IsFiniteSet(D)
  BY PositionsFinite
<1> HIDE DEF f, g, C, D
<1>7. SumFunctionOnSet(f, D) + SumFunctionOnSet(g, D) = 0
  BY <1>5, <1>6, SumOfOpposites
<1>8. SumFunctionOnSet(f, C) + SumFunctionOnSet(g, D) = 0
  BY <1>4, <1>7
<1> QED
  BY <1>8 DEF UnitsOf, NetAmong, f, g, C, D, units

(***************************************************************************)
(* What the sales count of a product and what left the stock for them: a   *)
(* step keeps the two together.                                            *)
(***************************************************************************)
Balance(ss, rows, p) == UnitsOf(ss, p) + NetAmong(rows, CounterRows(p))

LEMMA BalanceKept ==
  ASSUME StockType, PosTypeOK, PosTypeOK', NEW rows \in Seq(MovementRow),
         movements' = movements \o rows, NEW p,
         UnitsOf(sales', p) + NetAmong(rows, CounterRows(p)) = UnitsOf(sales, p)
  PROVE  Balance(sales', movements', p) = Balance(sales, movements, p)
<1>1. sales \in Seq(SaleRow) /\ sales' \in Seq(SaleRow) /\ movements \in Seq(MovementRow)
  BY DEF StockType, PosTypeOK
<1>2. UnitsOf(sales, p) \in Int /\ UnitsOf(sales', p) \in Int
  BY <1>1, UnitsType
<1>3. NetAmong(movements, CounterRows(p)) \in Int /\ NetAmong(rows, CounterRows(p)) \in Int
  BY <1>1, CounterNetType
<1>4. NetAmong(movements \o rows, CounterRows(p))
        = NetAmong(movements, CounterRows(p)) + NetAmong(rows, CounterRows(p))
  BY <1>1, NetOfBoth, MovedQuantities
<1>5. NetAmong(movements', CounterRows(p))
        = NetAmong(movements, CounterRows(p)) + NetAmong(rows, CounterRows(p))
  BY <1>4
<1> QED
  BY <1>2, <1>3, <1>5 DEF Balance

LEMMA BalanceSame ==
  ASSUME NoMovement, NEW p, UnitsOf(sales', p) = UnitsOf(sales, p)
  PROVE  Balance(sales', movements', p) = Balance(sales, movements, p)
  BY DEF NoMovement, Balance

LEMMA BalanceOfNewSales ==
  ASSUME StockType, PosTypeOK, PosTypeOK', NEW more \in Seq(SaleRow),
         sales' = sales \o more,
         NEW rows \in Seq(MovementRow), movements' = movements \o rows,
         DOMAIN rows = DOMAIN more,
         \A n \in DOMAIN more : /\ rows[n].reference = "in_house_sale"
                                /\ rows[n].product = more[n].product
                                /\ rows[n].delta = -more[n].qty,
         NEW p
  PROVE  Balance(sales', movements', p) = Balance(sales, movements, p)
<1>1. sales \in Seq(SaleRow)
  BY DEF PosTypeOK
<1>2. UnitsOf(sales \o more, p) = UnitsOf(sales, p) + UnitsOf(more, p)
  BY <1>1, UnitsOfBoth
<1>3. UnitsOf(more, p) + NetAmong(rows, CounterRows(p)) = 0
  BY NetOpposite
<1>4. /\ UnitsOf(sales, p) \in Int /\ UnitsOf(more, p) \in Int
      /\ NetAmong(rows, CounterRows(p)) \in Int
  BY <1>1, UnitsType, CounterNetType
<1>5. UnitsOf(sales', p) + NetAmong(rows, CounterRows(p)) = UnitsOf(sales, p)
  BY <1>2, <1>3, <1>4
<1> QED
  BY <1>5, BalanceKept

LEMMA SellAtCounterBalance ==
  ASSUME StockType, PosTypeOK, PosTypeOK', NEW h \in Clerks, SellAtCounter(h), NEW p
  PROVE  Balance(sales', movements', p) = Balance(sales, movements, p)
<1>1. PICK cart \in Carts :
        /\ sales' = Append(sales, [order |-> NoId, line |-> NoId,
                                   product |-> Head(cart).product,
                                   qty |-> Head(cart).qty, notes |-> {}])
        /\ RecordMovements(<<SaleMovement(Len(sales'), Head(cart).product,
                                          -Head(cart).qty)>>)
  BY DEF SellAtCounter
<1> DEFINE i == Head(cart)
           sale == [order |-> NoId, line |-> NoId, product |-> i.product,
                    qty |-> i.qty, notes |-> {}]
           row == SaleMovement(Len(sales'), i.product, -i.qty)
<1>2. i \in Item
  <2>1. cart \in Seq(Item) /\ cart # << >>
    BY PosConstants
  <2> QED
    BY <2>1, HeadTailProperties
<1>3. i.product \in Products /\ i.qty \in SoldQty
  BY <1>2 DEF Item
<1>4. i.qty \in Int /\ -i.qty \in Int
  BY <1>3, SoldIsPositive
<1>5. sale \in SaleRow /\ sale.product = i.product /\ sale.qty = i.qty
  BY <1>3, <1>4 DEF SaleRow, NoId
<1>6. sales' = Append(sales, sale) /\ movements' = movements \o <<row>>
  BY <1>1 DEF RecordMovements
<1>7. Len(sales') \in Nat
  BY LenProperties DEF PosTypeOK
<1> HIDE DEF i, sale
<1>8. row \in MovementRow
  BY <1>3, <1>4, <1>7, SaleMovementType DEF CounterRow
<1>9. row.reference = "in_house_sale" /\ row.product = sale.product /\ row.delta = -sale.qty
  BY <1>5, SaleMovementFields
<1> HIDE DEF row
<1>10. sales' = sales \o <<sale>>
  BY <1>5, <1>6, AppendIsConcat DEF PosTypeOK
<1>11. <<sale>> \in Seq(SaleRow) /\ <<row>> \in Seq(MovementRow)
  BY <1>5, <1>8
<1>12. /\ DOMAIN <<row>> = DOMAIN <<sale>>
       /\ \A n \in DOMAIN <<sale>> : <<row>>[n] = row /\ <<sale>>[n] = sale
  OBVIOUS
<1> DEFINE more == <<sale>>
           rows == <<row>>
<1>13. /\ more \in Seq(SaleRow) /\ rows \in Seq(MovementRow)
       /\ sales' = sales \o more /\ movements' = movements \o rows
       /\ DOMAIN rows = DOMAIN more
       /\ \A n \in DOMAIN more : rows[n] = row /\ more[n] = sale
  BY <1>6, <1>10, <1>11, <1>12
<1> HIDE DEF more, rows
<1> QED
  BY <1>9, <1>13, BalanceOfNewSales

LEMMA ApproveBalance ==
  ASSUME StockType, PosTypeOK, PosTypeOK', NEW h \in Clerks, ApproveInvoice(h), NEW p
  PROVE  Balance(sales', movements', p) = Balance(sales, movements, p)
<1> DEFINE r == clerk[h]
           ids == InIdOrder(DOMAIN r.rows)
           sold(l) == [order |-> r.order, line |-> l, product |-> r.rows[l].product,
                       qty |-> r.rows[l].qty, notes |-> r.row.notes \cup {r.order}]
           newSales == [n \in DOMAIN ids |-> sold(ids[n])]
           moves == [n \in DOMAIN ids |->
                       SaleMovement(Len(sales) + n, r.rows[ids[n]].product,
                                    -r.rows[ids[n]].qty)]
           N == Cardinality(DOMAIN r.rows)
<1>1. /\ r.step = "write" /\ sales' = sales \o newSales
      /\ movements' = movements \o moves
  BY ZenonT(60) DEF ApproveInvoice, MapSeq, RecordMovements
<1>2. /\ IsDesk(r) /\ DOMAIN r.rows \subseteq Nat /\ IsFiniteSet(DOMAIN r.rows)
      /\ r.order \in DOMAIN invoices /\ r.order \in Nat
      /\ \A l \in DOMAIN r.rows : r.rows[l].product \in Products /\ r.rows[l].qty \in Int
  BY <1>1, AtDesk
<1>3. N \in Nat /\ ids \in [1 .. N -> DOMAIN r.rows]
  BY <1>2, IdsInOrder
<1>4. r.row.notes \subseteq Nat
  BY <1>2 DEF IsDesk, InvoiceRow
<1> HIDE DEF ids
<1>5. newSales \in [1 .. N -> SaleRow]
  BY <1>2, <1>3, <1>4 DEF SaleRow
<1>6. newSales \in Seq(SaleRow)
  BY <1>3, <1>5, IsASeq
<1>7. Len(sales) \in Nat
  BY LenProperties DEF PosTypeOK
<1>8. ASSUME NEW n \in 1 .. N
      PROVE  /\ SaleMovement(Len(sales) + n, r.rows[ids[n]].product, -r.rows[ids[n]].qty)
                  \in MovementRow
             /\ newSales[n].product = r.rows[ids[n]].product
             /\ newSales[n].qty = r.rows[ids[n]].qty
             /\ moves[n] = SaleMovement(Len(sales) + n, r.rows[ids[n]].product,
                                        -r.rows[ids[n]].qty)
  <2>1. Len(sales) + n \in Nat /\ ids[n] \in DOMAIN r.rows
    BY <1>3, <1>7
  <2>2. r.rows[ids[n]].product \in Products /\ -r.rows[ids[n]].qty \in Int
    BY <1>2, <2>1
  <2>3. newSales[n] = sold(ids[n])
    BY <1>3
  <2>4. moves[n] = SaleMovement(Len(sales) + n, r.rows[ids[n]].product,
                                -r.rows[ids[n]].qty)
    BY <1>3, SMTT(40)
  <2> HIDE DEF newSales, moves
  <2>5. newSales[n].product = r.rows[ids[n]].product /\ newSales[n].qty = r.rows[ids[n]].qty
    BY ONLY <2>3
  <2> QED
    BY <2>1, <2>2, <2>4, <2>5, SaleMovementType DEF CounterRow
<1>9. moves \in [1 .. N -> MovementRow]
  BY <1>3, <1>8
<1>10. moves \in Seq(MovementRow)
  BY <1>3, <1>9, IsASeq
<1>11. DOMAIN moves = 1 .. N /\ DOMAIN newSales = 1 .. N
  BY <1>3
<1> HIDE DEF newSales, moves
<1>12. \A n \in 1 .. N : /\ moves[n].reference = "in_house_sale"
                         /\ moves[n].product = newSales[n].product
                         /\ moves[n].delta = -newSales[n].qty
  BY <1>8, SaleMovementFields
<1> QED
  BY <1>1, <1>6, <1>10, <1>11, <1>12, BalanceOfNewSales

(***************************************************************************)
(* A merge moves sales to another invoice, and changes no quantity.        *)
(***************************************************************************)
LEMMA MergeBalance ==
  ASSUME PosTypeOK, PosTypeOK', NEW h \in Clerks, MergeInvoice(h), NEW p
  PROVE  Balance(sales', movements', p) = Balance(sales, movements, p)
<1> DEFINE r == clerk[h]
<1>1. sales' = [s \in DOMAIN sales |-> MergedSale(r, s)] /\ NoMovement
  BY DEF MergeInvoice
<1>2. ASSUME NEW s \in DOMAIN sales
      PROVE  sales'[s].product = sales[s].product /\ sales'[s].qty = sales[s].qty
  <2>1. sales[s] \in SaleRow
    BY PosRows
  <2>2. sales'[s] = MergedSale(r, s)
    BY <1>1
  <2>3. MergedSale(r, s) = sales[s] \/ MergedSale(r, s) = [sales[s] EXCEPT !.order = r.target]
    BY DEF MergedSale
  <2> QED
    BY <2>1, <2>2, <2>3 DEF SaleRow
<1>3. sales \in Seq(SaleRow) /\ sales' \in Seq(SaleRow) /\ DOMAIN sales' = DOMAIN sales
  BY <1>1 DEF PosTypeOK
<1>4. UnitsOf(sales', p) = UnitsOf(sales, p)
  BY <1>2, <1>3, UnitsSame
<1> QED
  BY <1>1, <1>4, BalanceSame

(***************************************************************************)
(* The sale matched to a line has the product and the quantity that were   *)
(* read of the line, and is matched to no other.                           *)
(***************************************************************************)
MatchAsRead(r) ==
  /\ \A l \in DOMAIN r.match :
       /\ l \in DOMAIN r.rows /\ l \in DOMAIN r.qtys
       /\ r.match[l] \in DOMAIN sales
       /\ sales[r.match[l]].product = r.rows[l].product
       /\ sales[r.match[l]].qty = r.rows[l].qty
       /\ IsMatched(r, r.match[l]) /\ LineMatched(r, r.match[l]) = l
  /\ \A k, l \in DOMAIN r.match : r.match[k] = r.match[l] => k = l
  /\ \A s : IsMatched(r, s) => LineMatched(r, s) \in DOMAIN r.match
                               /\ r.match[LineMatched(r, s)] = s

LEMMA MatchedAsRead ==
  ASSUME PosTypeOK, NEW h \in Clerks, NEW r, r = clerk[h], r.step = "write",
         r.op \in {"update", "split"},
         TablesAgree(invoices, invoiceLines, sales),
         DeskIsCurrent(clerk[h], invoices, invoiceLines, sales)
  PROVE  MatchAsRead(r)
<1>1. /\ IsDesk(r) /\ r.order # NoId
      /\ RowIsCurrent(r, invoices) /\ LinesAreCurrent(r, invoiceLines, sales)
  BY AboutToWrite
<1>2. \A l \in DOMAIN r.rows : /\ l \in DOMAIN invoiceLines /\ invoiceLines[l].order = r.order
                               /\ r.rows[l].product = invoiceLines[l].product
                               /\ r.rows[l].qty = invoiceLines[l].qty
  BY <1>1, LinesRight
<1>3. DOMAIN r.match \subseteq DOMAIN r.rows \cap DOMAIN r.qtys
  BY <1>1 DEF IsDesk
<1>4. \A l \in DOMAIN r.match : r.match[l] \in DOMAIN sales /\ sales[r.match[l]].line = l
  BY <1>1 DEF LinesAreCurrent
<1>5. ASSUME NEW l \in DOMAIN r.match
      PROVE  /\ sales[r.match[l]].product = r.rows[l].product
             /\ sales[r.match[l]].qty = r.rows[l].qty
             /\ IsMatched(r, r.match[l]) /\ LineMatched(r, r.match[l]) = l
  <2>1. r.row.status = "approved"
    BY <1>1 DEF LinesAreCurrent, ToMatch
  <2>2. IsSold(invoices, invoiceLines, l)
    BY <1>1, <1>2, <1>3, <2>1 DEF IsSold, RowIsCurrent
  <2>3. PICK s \in DOMAIN sales :
          SalesFor(sales, l) = {s} /\ SoldAs(invoiceLines[l], sales[s])
    BY <1>2, <1>3, <2>2 DEF TablesAgree, SoldOnce
  <2>4. r.match[l] = s /\ IsMatched(r, s) /\ LineMatched(r, s) = l
    BY <1>1, <2>3, OwnIsMatched
  <2> QED
    BY <1>2, <1>3, <2>3, <2>4 DEF SoldAs
<1>6. \A k, l \in DOMAIN r.match : r.match[k] = r.match[l] => k = l
  BY <1>4
<1>7. ASSUME NEW s, IsMatched(r, s)
      PROVE  LineMatched(r, s) \in DOMAIN r.match /\ r.match[LineMatched(r, s)] = s
  BY <1>7 DEF IsMatched, LineMatched
<1> QED
  BY <1>3, <1>4, <1>5, <1>6, <1>7 DEF MatchAsRead

(***************************************************************************)
(* What an update moves of a product: of each line whose quantity changes, *)
(* the difference.                                                         *)
(***************************************************************************)
MovedLines(r) == {l \in DOMAIN r.match : r.qtys[l] # r.rows[l].qty}

LEMMA CorrectionsOfProduct ==
  ASSUME PosTypeOK, NEW h \in Clerks, NEW r, r = clerk[h], r.step = "write", NEW p,
         NEW e, \A l \in MovedLines(r) : e[l] = r.rows[l].qty - r.qtys[l]
  PROVE  /\ Corrections(r) \in Seq(MovementRow)
         /\ IsFiniteSet(MovedLines(r)) /\ \A l \in MovedLines(r) : e[l] \in Int
         /\ NetAmong(Corrections(r), CounterRows(p))
              = SumFunctionOnSet(e, {l \in MovedLines(r) : r.rows[l].product = p})
<1> DEFINE S == MovedLines(r)
           row == [l \in S |-> SaleMovement(r.match[l], r.rows[l].product,
                                            r.rows[l].qty - r.qtys[l])]
           at == InIdOrder(S)
           N == Cardinality(S)
           rows == Corrections(r)
           counted == CounterRows(p)
           T == {l \in S : r.rows[l].product = p}
<1>1. /\ IsDesk(r) /\ DOMAIN r.rows \subseteq Nat /\ IsFiniteSet(DOMAIN r.rows)
      /\ \A l \in DOMAIN r.rows : r.rows[l].product \in Products /\ r.rows[l].qty \in Int
  BY AtDesk
<1>2. S \subseteq DOMAIN r.match /\ S \subseteq DOMAIN r.rows /\ S \subseteq DOMAIN r.qtys
  BY <1>1 DEF IsDesk, MovedLines
<1>3. S \subseteq Nat /\ IsFiniteSet(S)
  BY <1>1, <1>2, FS_Subset
<1>4. \A l \in S : /\ r.match[l] \in Nat /\ r.rows[l].product \in Products
                   /\ r.rows[l].qty - r.qtys[l] \in Int
  <2>1. \A l \in S : r.match[l] \in Nat
    BY <1>1, <1>2 DEF IsDesk
  <2>2. \A l \in S : r.qtys[l] \in Int
    BY <1>1, <1>2, QuantityAsked
  <2> QED
    BY <1>1, <1>2, <2>1, <2>2
<1>5. rows = [n \in DOMAIN at |-> SaleMovement(r.match[at[n]], r.rows[at[n]].product,
                                               r.rows[at[n]].qty - r.qtys[at[n]])]
  BY DEF Corrections, MapSeq, MovedLines
<1>6. N \in Nat /\ at \in [1 .. N -> S]
  BY <1>3, IdsInOrder
<1>7. /\ \A l \in S : \E n \in 1 .. N : at[n] = l
      /\ \A m, n \in 1 .. N : at[m] = at[n] => m = n
  BY <1>3, EachIdOnce
<1>8. \A l \in S : row[l] \in MovementRow
  BY <1>4, SaleMovementType DEF CounterRow
<1>9. \A l \in S : /\ row[l].product = r.rows[l].product
                   /\ row[l].delta = r.rows[l].qty - r.qtys[l]
                   /\ row[l].reference = "in_house_sale"
  BY SaleMovementFields
<1> HIDE DEF at, rows, S
<1>10. DOMAIN rows = 1 .. N /\ \A n \in 1 .. N : rows[n] = row[at[n]]
  BY <1>5, <1>6
<1> HIDE DEF row, N
<1>11. \A l \in S : row[l] \in counted <=> r.rows[l].product = p
  BY <1>8, <1>9 DEF CounterRows, KindRows
<1>12. \A l \in S : e[l] = row[l].delta /\ e[l] \in Int
  BY <1>4, <1>9 DEF S
<1> HIDE DEF counted
<1>13. ListsOnce(at, N, S)
  BY <1>3, <1>6, <1>7 DEF ListsOnce
<1>14. RowsListed(rows, row, at, N)
  BY <1>10 DEF RowsListed
<1>15. CountedOf(e, T, row, S, counted)
  BY <1>11, <1>12 DEF CountedOf
<1>16. NetAmong(rows, counted) = SumFunctionOnSet(e, T)
  <2> HIDE DEF T
  <2> QED
    BY <1>13, <1>14, <1>15, NetOfListed
<1>17. rows \in Seq(MovementRow)
  <2>1. rows \in [1 .. N -> MovementRow]
    <3>1. \A n \in 1 .. N : rows[n] \in MovementRow
      BY <1>6, <1>8, <1>10
    <3>2. rows = [n \in 1 .. N |-> rows[n]]
      BY <1>5, <1>10
    <3> QED
      BY <3>1, <3>2
  <2> QED
    BY <1>6, <2>1, IsASeq
<1> QED
  BY <1>3, <1>12, <1>16, <1>17 DEF rows, counted, S

LEMMA UpdateBalance ==
  ASSUME StockType, PosTypeOK, PosTypeOK', NEW h \in Clerks, UpdateInvoice(h), NEW r, r = clerk[h],
         TablesAgree(invoices, invoiceLines, sales),
         DeskIsCurrent(clerk[h], invoices, invoiceLines, sales), NEW p
  PROVE  Balance(sales', movements', p) = Balance(sales, movements, p)
<1> DEFINE M == {l \in MovedLines(r) : r.rows[l].product = p}
           e == [l \in MovedLines(r) |-> r.rows[l].qty - r.qtys[l]]
           c == [l \in MovedLines(r) |-> r.qtys[l] - r.rows[l].qty]
           f == [s \in DOMAIN sales |-> sales[s].qty]
           g == [s \in DOMAIN sales' |-> sales'[s].qty]
           S == {s \in DOMAIN sales : sales[s].product = p}
           T == {s \in DOMAIN sales' : sales'[s].product = p}
<1>1. /\ r.step = "write" /\ r.op = "update"
      /\ sales' = [s \in DOMAIN sales |-> EditedSale(r, s)]
      /\ movements' = movements \o Corrections(r)
  BY DEF UpdateInvoice, RecordMovements
<1>2. /\ \A l \in DOMAIN r.match :
           /\ l \in DOMAIN r.rows /\ l \in DOMAIN r.qtys
           /\ r.match[l] \in DOMAIN sales
           /\ sales[r.match[l]].product = r.rows[l].product
           /\ sales[r.match[l]].qty = r.rows[l].qty
           /\ IsMatched(r, r.match[l]) /\ LineMatched(r, r.match[l]) = l
      /\ \A k, l \in DOMAIN r.match : r.match[k] = r.match[l] => k = l
      /\ \A s : IsMatched(r, s) => LineMatched(r, s) \in DOMAIN r.match
                                   /\ r.match[LineMatched(r, s)] = s
  <2>1. r.step = "write" /\ r.op \in {"update", "split"}
    BY <1>1
  <2>2. MatchAsRead(r)
    BY <2>1, MatchedAsRead
  <2> QED
    BY <2>2 DEF MatchAsRead
<1>3. /\ IsDesk(r)
      /\ \A l \in DOMAIN r.rows : r.rows[l].qty \in Int
  BY <1>1, AtDesk
<1>4. \A l \in DOMAIN r.match : r.qtys[l] \in Int /\ r.rows[l].qty \in Int
  BY <1>2, <1>3, QuantityAsked
<1>5. /\ Corrections(r) \in Seq(MovementRow) /\ IsFiniteSet(MovedLines(r))
      /\ NetAmong(Corrections(r), CounterRows(p)) = SumFunctionOnSet(e, M)
  <2>1. \A l \in MovedLines(r) : e[l] = r.rows[l].qty - r.qtys[l]
    OBVIOUS
  <2>2. r.step = "write"
    BY <1>1
  <2> HIDE DEF e
  <2>3. Corrections(r) \in Seq(MovementRow) /\ IsFiniteSet(MovedLines(r))
    BY <2>1, <2>2, CorrectionsOfProduct
  <2>4. NetAmong(Corrections(r), CounterRows(p)) = SumFunctionOnSet(e, M)
    BY <2>1, <2>2, CorrectionsOfProduct
  <2> QED
    BY <2>3, <2>4
<1>6. sales \in Seq(SaleRow) /\ sales' \in Seq(SaleRow) /\ DOMAIN sales' = DOMAIN sales
  BY <1>1 DEF PosTypeOK
<1>7. \A s \in DOMAIN sales : sales'[s] = EditedSale(r, s)
  BY <1>1
<1>8. ASSUME NEW s \in DOMAIN sales
      PROVE  /\ sales'[s].product = sales[s].product
             /\ ~IsMatched(r, s) => sales'[s].qty = sales[s].qty
             /\ IsMatched(r, s) => sales'[s].qty = r.qtys[LineMatched(r, s)]
  BY <1>7, EditedSaleFields
<1>9. T = S
  BY <1>6, <1>8, SMTT(40)
<1>10. IsFiniteSet(M) /\ M \subseteq MovedLines(r) /\ MovedLines(r) \subseteq DOMAIN r.match
  <2>1. M \subseteq MovedLines(r)
    OBVIOUS
  <2> QED
    BY <1>5, <2>1, FS_Subset DEF MovedLines
<1>11. \A l \in M : c[l] \in Int /\ e[l] \in Int /\ c[l] + e[l] = 0
                    /\ c[l] = r.qtys[l] - r.rows[l].qty
  BY <1>4, <1>10
<1>12. UnitsOf(sales, p) = SumFunctionOnSet(f, S)
       /\ IsFiniteSet(S) /\ \A s \in S : f[s] \in Int
  <2>1. \A s \in DOMAIN sales : f[s] = sales[s].qty
    OBVIOUS
  <2> HIDE DEF f
  <2> QED
    BY <1>6, <2>1, UnitsAreSum, ZenonT(40)
<1>13. UnitsOf(sales', p) = SumFunctionOnSet(g, T) /\ \A s \in T : g[s] \in Int
  <2>1. \A s \in DOMAIN sales' : g[s] = sales'[s].qty
    OBVIOUS
  <2> HIDE DEF g
  <2> QED
    BY <1>6, <2>1, UnitsAreSum
<1>14. \A l \in M : /\ r.match[l] \in S
                    /\ g[r.match[l]] = f[r.match[l]] + c[l]
  <2> SUFFICES ASSUME NEW l \in M
               PROVE  r.match[l] \in S /\ g[r.match[l]] = f[r.match[l]] + c[l]
    OBVIOUS
  <2>1. l \in DOMAIN r.match /\ r.rows[l].product = p
    BY <1>10
  <2> DEFINE s == r.match[l]
  <2>2. s \in DOMAIN sales /\ sales[s].product = p /\ sales[s].qty = r.rows[l].qty
    BY <1>2, <2>1
  <2>3. sales'[s].qty = r.qtys[l]
    BY <1>2, <1>8, <2>1
  <2>4. f[s] = r.rows[l].qty /\ g[s] = r.qtys[l]
    BY <1>6, <2>2, <2>3
  <2> HIDE DEF f, g, c, s
  <2>5. g[s] = f[s] + c[l]
    BY <1>4, <1>11, <2>1, <2>4
  <2> QED
    BY <2>2, <2>5 DEF s
<1>15. \A s \in S : (\A l \in M : r.match[l] # s) => g[s] = f[s]
  <2> SUFFICES ASSUME NEW s \in S, \A l \in M : r.match[l] # s
               PROVE  g[s] = f[s]
    OBVIOUS
  <2>1. f[s] = sales[s].qty /\ g[s] = sales'[s].qty
    BY <1>6
  <2>2. CASE ~IsMatched(r, s)
    BY <1>8, <2>1, <2>2
  <2>3. CASE IsMatched(r, s)
    <3> DEFINE l == LineMatched(r, s)
    <3>1. l \in DOMAIN r.match /\ r.match[l] = s
      BY <1>2, <2>3
    <3>2. sales[s].product = r.rows[l].product /\ sales[s].qty = r.rows[l].qty
      BY <1>2, <3>1
    <3>3. l \notin MovedLines(r)
      BY <3>1, <3>2
    <3>4. r.qtys[l] = r.rows[l].qty
      BY <3>1, <3>3 DEF MovedLines
    <3> QED
      BY <1>8, <2>1, <2>3, <3>2, <3>4
  <2> QED
    BY <2>2, <2>3
<1>16. \A k, l \in M : r.match[k] = r.match[l] => k = l
  BY <1>2, <1>10
<1> HIDE DEF M, e, c, f, g, S, T
<1>17. SumFunctionOnSet(g, S) = SumFunctionOnSet(f, S) + SumFunctionOnSet(c, M)
  <2>1. \A s \in S : f[s] \in Int /\ g[s] \in Int
    BY <1>9, <1>12, <1>13
  <2>2. \A l \in M : c[l] \in Int
    BY <1>11
  <2>3. IsFiniteSet(S) /\ IsFiniteSet(M)
    BY <1>10, <1>12
  <2> DEFINE m == r.match
  <2>4. /\ \A l \in M : m[l] \in S /\ g[m[l]] = f[m[l]] + c[l]
        /\ \A k, l \in M : m[k] = m[l] => k = l
        /\ \A s \in S : (\A l \in M : m[l] # s) => g[s] = f[s]
    BY <1>14, <1>15, <1>16
  <2> HIDE DEF m
  <2> QED
    BY <2>1, <2>2, <2>3, <2>4, SumChangesAt
<1>18. SumFunctionOnSet(c, M) + SumFunctionOnSet(e, M) = 0
  BY <1>10, <1>11, SumOfOpposites
<1>19. SumFunctionOnSet(c, M) \in Int /\ SumFunctionOnSet(e, M) \in Int
       /\ SumFunctionOnSet(f, S) \in Int
  BY <1>10, <1>11, <1>12, SumType
<1>20. UnitsOf(sales', p) + NetAmong(Corrections(r), CounterRows(p)) = UnitsOf(sales, p)
  BY <1>5, <1>9, <1>12, <1>13, <1>17, <1>18, <1>19
<1> QED
  BY <1>1, <1>5, <1>20, BalanceKept

(***************************************************************************)
(* A split takes from a line's sale, in part, what the new sale counts.    *)
(***************************************************************************)
PartLines(r, p) ==
  {l \in DOMAIN r.match : Rest(r, l) # 0 /\ r.rows[l].product = p}

LEMMA PartsListed ==
  ASSUME PosTypeOK, NEW h \in Clerks, NEW r, r = clerk[h]
  PROVE  /\ \A l \in Selected(r, r.rows) :
              Rest(r, l) # 0 => \E n \in DOMAIN InPart(r) : InPart(r)[n] = l
         /\ \A m, n \in DOMAIN InPart(r) : InPart(r)[m] = InPart(r)[n] => m = n
<1> DEFINE S == {l \in Selected(r, r.rows) : Rest(r, l) # 0}
           ids == InIdOrder(S)
           N == Cardinality(S)
<1>1. DOMAIN r.rows \subseteq Nat /\ IsFiniteSet(DOMAIN r.rows)
  BY AtDesk
<1>2. S \subseteq DOMAIN r.rows
  BY DEF Selected
<1>3. S \subseteq Nat /\ IsFiniteSet(S)
  BY <1>1, <1>2, FS_Subset
<1>4. InPart(r) = ids
  BY DEF InPart
<1>5. \A l \in Selected(r, r.rows) : Rest(r, l) # 0 => l \in S
  OBVIOUS
<1> HIDE DEF S
<1>6. ids \in [1 .. N -> S] /\ DOMAIN ids = 1 .. N
  BY <1>3, IdsInOrder
<1>7. /\ \A l \in S : \E n \in 1 .. N : ids[n] = l
      /\ \A m, n \in 1 .. N : ids[m] = ids[n] => m = n
  BY <1>3, EachIdOnce
<1> HIDE DEF ids, N
<1> QED
  BY <1>4, <1>5, <1>6, <1>7

LEMMA PartLinesFinite ==
  ASSUME PosTypeOK, NEW h \in Clerks, NEW r, r = clerk[h], MatchAsRead(r), NEW p
  PROVE  IsFiniteSet(PartLines(r, p))
<1>1. IsFiniteSet(DOMAIN r.rows)
  BY AtDesk
<1>2. PartLines(r, p) \subseteq DOMAIN r.rows
  BY DEF PartLines, MatchAsRead
<1> QED
  BY <1>1, <1>2, FS_Subset

LEMMA PartUnits ==
  ASSUME PosTypeOK, NEW h \in Clerks, NEW r, r = clerk[h], NEW new \in Nat, MatchAsRead(r),
         NEW p, NEW q, \A l \in DOMAIN r.match : q[l] = r.qtys[l]
  PROVE  UnitsOf(PartSales(r, new), p) = SumFunctionOnSet(q, PartLines(r, p))
<1> DEFINE M == PartLines(r, p)
           part == PartSales(r, new)
           parts == InPart(r)
           sold == SoldParts(r)
           ids == InIdOrder(sold)
           K == Cardinality(sold)
           u == [k \in 1 .. K |-> part[k].qty]
           at == [k \in 1 .. K |-> parts[ids[k]]]
           W == {k \in DOMAIN part : part[k].product = p}
<1>1. /\ IsFiniteSet(sold) /\ sold \subseteq Nat
      /\ part \in Seq(SaleRow) /\ Len(part) = K
      /\ \A k \in 1 .. K : ids[k] \in sold /\ part[k] = PartSale(r, new, ids[k])
  BY PartsSold
<1>2. /\ \A l \in Selected(r, r.rows) :
           Rest(r, l) # 0 => \E n \in DOMAIN parts : parts[n] = l
      /\ \A m, n \in DOMAIN parts : parts[m] = parts[n] => m = n
  BY PartsListed
<1>3. /\ \A n \in sold : \E k \in 1 .. K : ids[k] = n
      /\ \A j, k \in 1 .. K : ids[j] = ids[k] => j = k
  <2> HIDE DEF sold
  <2> QED
    BY <1>1, EachIdOnce
<1>4. \A n \in DOMAIN parts : parts[n] \in Selected(r, r.rows) /\ Rest(r, parts[n]) # 0
  BY PartsInOrder
<1>5. \A n : n \in sold <=> /\ n \in DOMAIN parts /\ parts[n] \in DOMAIN r.match
                            /\ r.match[parts[n]] # NoId
  BY DEF SoldParts
<1>6. \A l \in DOMAIN r.match :
        /\ l \in Selected(r, r.rows) /\ r.match[l] # NoId
        /\ q[l] = r.qtys[l] /\ q[l] \in Int
  <2>1. NoId \notin DOMAIN sales
    BY NoRowIsZero DEF PosTypeOK
  <2>2. \A l \in DOMAIN r.match :
          l \in DOMAIN r.rows /\ l \in DOMAIN r.qtys /\ r.match[l] \in DOMAIN sales
    BY DEF MatchAsRead
  <2>3. IsDesk(r)
    BY AtDesk
  <2>4. \A l \in DOMAIN r.match : r.qtys[l] \in Int
    BY <2>2, <2>3, QuantityAsked
  <2> QED
    BY <2>1, <2>2, <2>4 DEF Selected
<1>7. DOMAIN part = 1 .. K
  BY <1>1, LenProperties
<1>8. IsFiniteSet(M)
  BY PartLinesFinite
<1> HIDE DEF part, parts, sold, ids, K
<1>9. ASSUME NEW k \in 1 .. K
      PROVE  /\ ids[k] \in DOMAIN parts
             /\ at[k] \in DOMAIN r.match /\ Rest(r, at[k]) # 0
             /\ part[k].product = r.rows[at[k]].product
             /\ u[k] = q[at[k]]
  <2>1. ids[k] \in sold /\ at[k] = parts[ids[k]] /\ part[k] = PartSale(r, new, ids[k])
    BY <1>1
  <2>2. /\ part[k].product = r.rows[at[k]].product
        /\ part[k].qty = r.qtys[at[k]]
    BY <2>1, PartFields DEF parts
  <2>3. at[k] \in DOMAIN r.match /\ Rest(r, at[k]) # 0
    BY <1>4, <1>5, <2>1
  <2> QED
    BY <1>5, <1>6, <2>1, <2>2, <2>3
<1>10. \A k \in W : k \in 1 .. K /\ at[k] \in M /\ u[k] = q[at[k]]
  BY <1>7, <1>9 DEF PartLines
<1>11. \A l \in M : \E k \in W : at[k] = l
  <2> SUFFICES ASSUME NEW l \in M PROVE \E k \in W : at[k] = l
    OBVIOUS
  <2>1. l \in DOMAIN r.match /\ Rest(r, l) # 0 /\ r.rows[l].product = p
    BY DEF PartLines
  <2>2. PICK n \in DOMAIN parts : parts[n] = l
    BY <1>2, <1>6, <2>1
  <2>3. PICK k \in 1 .. K : ids[k] = n
    BY <1>3, <1>5, <1>6, <2>1, <2>2
  <2>4. at[k] = l /\ k \in DOMAIN part
    BY <1>7, <2>2, <2>3
  <2>5. part[k].product = p
    BY <1>9, <2>1, <2>3, <2>4
  <2> QED
    BY <2>4, <2>5
<1>12. \A j, k \in W : at[j] = at[k] => j = k
  <2> SUFFICES ASSUME NEW j \in W, NEW k \in W, at[j] = at[k] PROVE j = k
    OBVIOUS
  <2>1. j \in 1 .. K /\ k \in 1 .. K
    BY <1>7
  <2>2. parts[ids[j]] = parts[ids[k]]
    BY <2>1
  <2> QED
    BY <1>2, <1>3, <1>9, <2>1, <2>2
<1>13. UnitsOf(part, p) = SumFunctionOnSet(u, W) /\ IsFiniteSet(W)
  <2>1. \A k \in DOMAIN part : u[k] = part[k].qty
    BY <1>7
  <2> HIDE DEF u
  <2> QED
    BY <1>1, <2>1, UnitsAreSum
<1>14. \A l \in M : q[l] \in Int
  BY <1>6 DEF PartLines
<1> HIDE DEF u, at, W, M
<1>15. SumFunctionOnSet(u, W) = SumFunctionOnSet(q, M)
  BY <1>8, <1>10, <1>11, <1>12, <1>13, <1>14, SumListed
<1> QED
  BY <1>13, <1>15 DEF M, part

LEMMA SplitSalesType ==
  ASSUME PosTypeOK, NEW h \in Clerks, NEW r, r = clerk[h], MatchAsRead(r), NEW new \in Nat
  PROVE  [s \in DOMAIN sales |-> SplitSale(r, new, s)] \in Seq(SaleRow)
<1>1. /\ IsDesk(r)
      /\ \A l \in DOMAIN r.rows : r.rows[l].qty \in Int
  BY AtDesk
<1>2. ASSUME NEW s \in DOMAIN sales
      PROVE  SplitSale(r, new, s) \in SaleRow
  <2> DEFINE l == LineMatched(r, s)
             rest == Rest(r, l)
  <2>1. sales[s] \in SaleRow
    BY PosRows
  <2>2. IsMatched(r, s) => rest \in Int
    BY <1>1, QuantityAsked DEF MatchAsRead, Rest
  <2>3. \/ SplitSale(r, new, s) = [sales[s] EXCEPT !.order = new]
        \/ IsMatched(r, s) /\ SplitSale(r, new, s) = [sales[s] EXCEPT !.qty = rest]
        \/ SplitSale(r, new, s) = sales[s]
    BY DEF SplitSale
  <2> HIDE DEF l, rest
  <2> QED
    BY <2>1, <2>2, <2>3 DEF SaleRow
<1>3. [s \in DOMAIN sales |-> SplitSale(r, new, s)] \in [DOMAIN sales -> SaleRow]
  BY <1>2
<1> QED
  BY <1>3, SameLength DEF PosTypeOK

LEMMA SplitBalance ==
  ASSUME PosTypeOK, PosTypeOK', NEW h \in Clerks, SplitInvoice(h), NEW r, r = clerk[h],
         NEW new, new = Len(invoices) + 1,
         TablesAgree(invoices, invoiceLines, sales),
         DeskIsCurrent(clerk[h], invoices, invoiceLines, sales), NEW p
  PROVE  Balance(sales', movements', p) = Balance(sales, movements, p)
<1> DEFINE M == PartLines(r, p)
           q == [l \in DOMAIN r.match |-> r.qtys[l]]
           c == [l \in DOMAIN r.match |-> -r.qtys[l]]
           split == [s \in DOMAIN sales |-> SplitSale(r, new, s)]
           f == [s \in DOMAIN sales |-> sales[s].qty]
           g == [s \in DOMAIN split |-> split[s].qty]
           S == {s \in DOMAIN sales : sales[s].product = p}
           T == {s \in DOMAIN split : split[s].product = p}
<1>1. /\ r.step = "write" /\ r.op = "split" /\ r.op \in {"update", "split"}
      /\ sales' = split \o PartSales(r, new) /\ NoMovement
  BY DEF SplitInvoice
<1>2. MatchAsRead(r)
  BY <1>1, MatchedAsRead
<1>3. new \in Nat
  BY LenProperties DEF PosTypeOK
<1>4. IsDesk(r) /\ \A l \in DOMAIN r.rows : r.rows[l].qty \in Int
  BY AtDesk
<1>5. \A l \in DOMAIN r.match : r.qtys[l] \in Int /\ r.rows[l].qty \in Int
  BY <1>2, <1>4, QuantityAsked DEF MatchAsRead
<1>6. split \in Seq(SaleRow) /\ sales \in Seq(SaleRow)
  BY <1>2, <1>3, SplitSalesType DEF PosTypeOK
<1>7. /\ UnitsOf(PartSales(r, new), p) = SumFunctionOnSet(q, M)
      /\ IsFiniteSet(M)
  <2>1. \A l \in DOMAIN r.match : q[l] = r.qtys[l]
    OBVIOUS
  <2> HIDE DEF q, M
  <2>2. UnitsOf(PartSales(r, new), p) = SumFunctionOnSet(q, M)
    <3>1. MatchAsRead(r) /\ new \in Nat /\ PosTypeOK /\ h \in Clerks /\ r = clerk[h]
      BY <1>2, <1>3
    <3>2. \A l \in DOMAIN r.match : q[l] = r.qtys[l]
      BY <2>1
    <3>3. UnitsOf(PartSales(r, new), p) = SumFunctionOnSet(q, PartLines(r, p))
      BY ONLY <3>1, <3>2, PartUnits, SMTT(40)
    <3> QED
      BY ONLY <3>3 DEF M
  <2>3. IsFiniteSet(M)
    BY <1>2, PartLinesFinite DEF M
  <2> QED
    BY <2>2, <2>3
<1>8. \A l \in M : /\ l \in DOMAIN r.match /\ Rest(r, l) # 0 /\ r.rows[l].product = p
                   /\ q[l] = r.qtys[l] /\ c[l] = -r.qtys[l]
                   /\ q[l] \in Int /\ c[l] \in Int /\ c[l] + q[l] = 0
  BY <1>5 DEF PartLines
<1>9. ASSUME NEW s \in DOMAIN sales
      PROVE  /\ split[s].product = sales[s].product
             /\ ~IsMatched(r, s) \/ Rest(r, LineMatched(r, s)) = 0
                  => split[s].qty = sales[s].qty
             /\ IsMatched(r, s) /\ Rest(r, LineMatched(r, s)) # 0
                  => split[s].qty = Rest(r, LineMatched(r, s))
  <2>1. split[s] = SplitSale(r, new, s)
    OBVIOUS
  <2> HIDE DEF split
  <2> QED
    BY <2>1, SplitSaleFields
<1>10. DOMAIN split = DOMAIN sales
  OBVIOUS
<1> HIDE DEF split
<1>11. T = S
  BY <1>9, <1>10
<1>12. UnitsOf(sales, p) = SumFunctionOnSet(f, S)
       /\ IsFiniteSet(S) /\ \A s \in S : f[s] \in Int
  <2>1. \A s \in DOMAIN sales : f[s] = sales[s].qty
    OBVIOUS
  <2> HIDE DEF f
  <2> QED
    BY <1>6, <2>1, UnitsAreSum
<1>13. UnitsOf(split, p) = SumFunctionOnSet(g, T) /\ \A s \in T : g[s] \in Int
  <2>1. \A s \in DOMAIN split : g[s] = split[s].qty
    OBVIOUS
  <2> HIDE DEF g
  <2> QED
    BY <1>6, <2>1, UnitsAreSum
<1>14. \A l \in M : r.match[l] \in S /\ g[r.match[l]] = f[r.match[l]] + c[l]
  <2> SUFFICES ASSUME NEW l \in M
               PROVE  r.match[l] \in S /\ g[r.match[l]] = f[r.match[l]] + c[l]
    OBVIOUS
  <2>1. l \in DOMAIN r.match /\ r.rows[l].product = p /\ Rest(r, l) # 0 /\ c[l] = -r.qtys[l]
    BY <1>8
  <2> DEFINE s == r.match[l]
  <2>2. /\ s \in DOMAIN sales /\ sales[s].product = p /\ sales[s].qty = r.rows[l].qty
        /\ IsMatched(r, s) /\ LineMatched(r, s) = l
    BY <1>2, <2>1 DEF MatchAsRead
  <2>3. split[s].qty = Rest(r, l)
    BY <1>9, <2>1, <2>2
  <2>4. f[s] = r.rows[l].qty /\ g[s] = r.rows[l].qty - r.qtys[l]
    BY <1>10, <2>2, <2>3 DEF Rest
  <2> HIDE DEF f, g, c, s
  <2>5. g[s] = f[s] + c[l]
    BY <1>5, <2>1, <2>4
  <2> QED
    BY <2>2, <2>5 DEF s
<1>15. \A s \in S : (\A l \in M : r.match[l] # s) => g[s] = f[s]
  <2> SUFFICES ASSUME NEW s \in S, \A l \in M : r.match[l] # s
               PROVE  g[s] = f[s]
    OBVIOUS
  <2>1. f[s] = sales[s].qty /\ g[s] = split[s].qty
    BY <1>10
  <2>2. CASE ~IsMatched(r, s)
    BY <1>9, <2>1, <2>2
  <2>3. CASE IsMatched(r, s)
    <3> DEFINE l == LineMatched(r, s)
    <3>1. l \in DOMAIN r.match /\ r.match[l] = s
      BY <1>2, <2>3 DEF MatchAsRead
    <3>2. sales[s].product = r.rows[l].product
      BY <1>2, <3>1 DEF MatchAsRead
    <3>3. l \notin M
      BY <3>1, <3>2
    <3>4. Rest(r, l) = 0
      BY <3>1, <3>2, <3>3 DEF PartLines
    <3> QED
      BY <1>9, <2>1, <3>4
  <2> QED
    BY <2>2, <2>3
<1>16. \A k, l \in M : r.match[k] = r.match[l] => k = l
  BY <1>2, <1>8 DEF MatchAsRead
<1> HIDE DEF M, q, c, f, g, S, T
<1>17. SumFunctionOnSet(g, S) = SumFunctionOnSet(f, S) + SumFunctionOnSet(c, M)
  <2>1. \A s \in S : f[s] \in Int /\ g[s] \in Int
    BY <1>11, <1>12, <1>13
  <2>2. \A l \in M : c[l] \in Int
    BY <1>8
  <2>3. IsFiniteSet(S) /\ IsFiniteSet(M)
    BY <1>7, <1>12
  <2> DEFINE m == r.match
  <2>4. /\ \A l \in M : m[l] \in S /\ g[m[l]] = f[m[l]] + c[l]
        /\ \A k, l \in M : m[k] = m[l] => k = l
        /\ \A s \in S : (\A l \in M : m[l] # s) => g[s] = f[s]
    BY <1>14, <1>15, <1>16
  <2> HIDE DEF m
  <2> QED
    BY <2>1, <2>2, <2>3, <2>4, SumChangesAt
<1>18. SumFunctionOnSet(c, M) + SumFunctionOnSet(q, M) = 0
  BY <1>7, <1>8, SumOfOpposites
<1>19. SumFunctionOnSet(c, M) \in Int /\ SumFunctionOnSet(q, M) \in Int
       /\ SumFunctionOnSet(f, S) \in Int
  BY <1>7, <1>8, <1>12, SumType
<1>20. UnitsOf(split \o PartSales(r, new), p)
         = UnitsOf(split, p) + UnitsOf(PartSales(r, new), p)
  <2>1. PartSales(r, new) \in Seq(SaleRow)
    BY <1>3, PartsSold
  <2> QED
    BY <1>6, <2>1, UnitsOfBoth
<1>21. UnitsOf(sales', p) = UnitsOf(sales, p)
  BY <1>1, <1>7, <1>11, <1>12, <1>13, <1>17, <1>18, <1>19, <1>20
<1> QED
  BY <1>1, <1>21, BalanceSame

(***************************************************************************)
(* Every step of a counter sale keeps the balance of each product.         *)
(***************************************************************************)
LEMMA SalesStepBalance ==
  ASSUME StockType, PosTypeOK, PosTypeOK', NEW h \in Clerks, PosArrival(h) \/ PosWork(h),
         TablesAgree(invoices, invoiceLines, sales),
         DeskIsCurrent(clerk[h], invoices, invoiceLines, sales), NEW p
  PROVE  Balance(sales', movements', p) = Balance(sales, movements, p)
<1>1. CASE sales' = sales /\ NoMovement
  BY <1>1, BalanceSame, SMTT(40)
<1>2. CASE \/ StaffRequest(h) \/ GuestRequest(h) \/ ReadOrder(h) \/ ReadLines(h)
           \/ PosFail(h)
  BY <1>1, <1>2
     DEF StaffRequest, GuestRequest, ReadOrder, ReadLines, PosFail, posTables
<1>3. CASE CreateInvoice(h) \/ RejectInvoice(h) \/ CancelInvoice(h)
  BY <1>1, <1>3 DEF CreateInvoice, RejectInvoice, CancelInvoice
<1>4. CASE SellAtCounter(h)
  BY <1>4, SellAtCounterBalance
<1>5. CASE ApproveInvoice(h)
  BY <1>5, ApproveBalance
<1>6. CASE UpdateInvoice(h)
  BY <1>6, UpdateBalance
<1>7. CASE SplitInvoice(h)
  BY <1>7, SplitBalance
<1>8. CASE MergeInvoice(h)
  BY <1>8, MergeBalance
<1> QED
  BY <1>2, <1>3, <1>4, <1>5, <1>6, <1>7, <1>8 DEF PosArrival, PosWork

(***************************************************************************)
(* Neither the purchases nor TikTok record a counter sale.                 *)
(***************************************************************************)
LEMMA NoOtherSales ==
  ASSUME StockType, sales' = sales, NoMovement \/ ArrivalStep \/ LineStep, NEW p
  PROVE  Balance(sales', movements', p) = Balance(sales, movements, p)
<1>1. CASE NoMovement
  BY <1>1 DEF NoMovement, Balance
<1>2. ASSUME NEW T, T \subseteq MovementRow, \A r \in T : r.reference # "in_house_sale",
             NEW rows \in Seq(T), RecordMovements(rows)
      PROVE  NetAmong(movements', CounterRows(p)) = NetAmong(movements, CounterRows(p))
  <2> DEFINE counted == CounterRows(p)
  <2>1. rows \in Seq(MovementRow) /\ movements \in Seq(MovementRow)
    BY <1>2 DEF StockType
  <2>2. \A r \in T : r \notin counted
    BY <1>2 DEF CounterRows, KindRows
  <2>3. movements' = movements \o rows
    BY <1>2 DEF RecordMovements
  <2> HIDE DEF counted
  <2>4. NetAmong(movements \o rows, counted) = NetAmong(movements, counted) + NetAmong(rows, counted)
    BY <2>1, NetOfBoth, MovedQuantities
  <2>5. NetAmong(rows, counted) = 0
    BY <2>2, NetOfOthers
  <2>6. NetAmong(movements, counted) \in Int
    BY <2>1, NetType, MovedQuantities
  <2> QED
    BY <2>3, <2>4, <2>5, <2>6 DEF counted
<1>3. CASE \E rows \in Seq(ArrivalRow) : RecordMovements(rows)
  <2>1. ArrivalRow \subseteq MovementRow /\ \A r \in ArrivalRow : r.reference # "in_house_sale"
    BY DEF ArrivalRow
  <2> QED
    BY <1>2, <1>3, <2>1 DEF Balance
<1>4. CASE \E rows \in Seq(LineMovementRow) : RecordMovements(rows)
  <2>1. /\ LineMovementRow \subseteq MovementRow
        /\ \A r \in LineMovementRow : r.reference # "in_house_sale"
    BY DEF LineMovementRow
  <2> QED
    BY <1>2, <1>4, <2>1 DEF Balance
<1> QED
  BY <1>1, <1>3, <1>4 DEF ArrivalStep, LineStep

(***************************************************************************)
(* The inductive invariant of SoldUnitsLeftStock; a step keeps it because  *)
(* what the transactions have read is current.                             *)
(***************************************************************************)
UnitsOut == AloneOnSales => \A p \in Products : Balance(sales, movements, p) = 0

LEMMA NothingSoldYet ==
  ASSUME WarehouseInit PROVE UnitsOut
<1>1. sales = << >> /\ movements = << >>
  BY DEF WarehouseInit, PosInit, StockInit
<1>2. UnitRows(<< >>) = << >>
  BY DEF UnitRows
<1>3. \A p \in Products : Balance(<< >>, << >>, p) = 0
  BY <1>2, NetOfNone DEF Balance, UnitsOf
<1> QED
  BY <1>1, <1>3 DEF UnitsOut

LEMMA UnitsStayOut ==
  ASSUME WarehouseTypeOK, SalesAreCurrent, UnitsOut, [WarehouseNext]_warehouseVars
  PROVE  UnitsOut'
<1> SUFFICES ASSUME AloneOnSales', NEW p \in Products
             PROVE  Balance(sales', movements', p) = 0
  BY DEF UnitsOut
<1>1. AloneOnSales
  BY SalesAloneBefore
<1>2. Balance(sales, movements, p) = 0
  BY <1>1 DEF UnitsOut
<1>3. SalesCurrent(invoices, invoiceLines, sales, clerk)
  BY <1>1 DEF SalesAreCurrent
<1>4. StockType /\ PosTypeOK /\ PosTypeOK'
  BY WarehouseStepTypes, WarehouseStutters DEF WarehouseTypeOK
<1>5. CASE UNCHANGED warehouseVars
  BY <1>2, <1>4, <1>5, NoOtherSales DEF warehouseVars, posVars, NoMovement
<1>6. CASE WarehouseNext
  <2>1. CASE BuyStep /\ ArrivalStep
    BY <1>2, <1>4, <2>1, NoOtherSales DEF BuyStep, posVars
  <2>2. CASE TikTokStep /\ LineStep
    BY <1>2, <1>4, <2>2, NoOtherSales DEF TikTokStep, posVars
  <2>3. CASE SellStep
    <3>1. PICK h \in workload.clerks : PosArrival(h) \/ PosWork(h)
      BY <2>3 DEF SellStep
    <3>2. h \in Clerks
      BY DEF WarehouseTypeOK, Workload
    <3>3. /\ TablesAgree(invoices, invoiceLines, sales)
          /\ DeskIsCurrent(clerk[h], invoices, invoiceLines, sales)
      BY <1>3, <3>2 DEF SalesCurrent
    <3>4. Balance(sales', movements', p) = Balance(sales, movements, p)
      BY <1>4, <3>1, <3>2, <3>3, SalesStepBalance
    <3> QED
      BY <1>2, <3>4
  <2> QED
    BY <1>6, <2>1, <2>2, <2>3, WarehouseStepTypes
<1> QED
  BY <1>5, <1>6

(***************************************************************************)
(* As long as no two requests on one invoice overlap: the units the sales  *)
(* of a product count are those that left the stock for them, however      *)
(* approve_in_house_order, create_in_house_sale and the edits, splits and  *)
(* merges of approved invoices follow each other or fail, and whatever     *)
(* purchases and TikTok's orders move beside them.                         *)
(***************************************************************************)
THEOREM SoldUnitsOut == WarehouseSpec => []SoldUnitsLeftStock
<1>1. WarehouseInit => UnitsOut
  BY NothingSoldYet
<1>2. WarehouseTypeOK /\ SalesAreCurrent /\ UnitsOut /\ [WarehouseNext]_warehouseVars
        => UnitsOut'
  BY UnitsStayOut
<1>3. WarehouseTypeOK /\ UnitsOut => SoldUnitsLeftStock
  <2> SUFFICES ASSUME WarehouseTypeOK, UnitsOut, AloneOnSales, NEW p \in Products
               PROVE  UnitsSold(p) = -NetOf("in_house_sale", p)
    BY DEF SoldUnitsLeftStock, SalesTookStock, AloneOnSales
  <2>1. sales \in Seq(SaleRow) /\ movements \in Seq(MovementRow)
    BY DEF WarehouseTypeOK, PosTypeOK, StockType
  <2>2. UnitsSold(p) = UnitsOf(sales, p)
    <3> DEFINE f == [s \in DOMAIN sales |-> sales[s].qty]
    <3>1. \A s \in DOMAIN sales : f[s] = sales[s].qty
      OBVIOUS
    <3>2. UnitsSold(p) = SumFunctionOnSet(f, {s \in DOMAIN sales : sales[s].product = p})
      BY LedgerSum DEF UnitsSold
    <3> HIDE DEF f
    <3> QED
      BY <2>1, <3>1, <3>2, UnitsAreSum
  <2>3. NetOf("in_house_sale", p) = NetAmong(movements, CounterRows(p))
    BY <2>1, NetOfKind DEF NetOf, CounterRows
  <2>4. UnitsOf(sales, p) + NetAmong(movements, CounterRows(p)) = 0
    BY DEF UnitsOut, Balance
  <2>5. UnitsOf(sales, p) \in Int /\ NetAmong(movements, CounterRows(p)) \in Int
    BY <2>1, UnitsType, CounterNetType
  <2> QED
    BY <2>2, <2>3, <2>4, <2>5
<1> QED
  BY <1>1, <1>2, <1>3, WarehouseTypes, SalesAlwaysCurrent, PTL DEF WarehouseSpec

-----------------------------------------------------------------------------
(* The rows of a TikTok line, and those of an order's return *)

(***************************************************************************)
(* The movements recorded for a line, and for the return of a product of   *)
(* an order; that a line took its stock, that the order gave some back.    *)
(***************************************************************************)
LineRows(ms, l) ==
  {n \in DOMAIN ms : ms[n].reference \in LineReferences /\ ms[n].id = l}

BackRows(ms, o, p) ==
  {n \in DOMAIN ms :
     ms[n].reference = "sale_order_cancel" /\ ms[n].id = o /\ ms[n].product = p}

Took(ms, l, p) ==
  \E n \in DOMAIN ms :
    LineRows(ms, l) = {n} /\ ms[n] = Moves("sale_order_line", l, p, -1)

GaveOne(ms, o, p) ==
  \E n \in DOMAIN ms : BackRows(ms, o, p) = {n} /\ ms[n].delta = 1

(***************************************************************************)
(* What recording rows does to a line, or to an order's return: nothing    *)
(* unless one of the rows is about it.                                     *)
(***************************************************************************)
SameForLine(ms, ms2, l) ==
  /\ LineRows(ms2, l) = {} <=> LineRows(ms, l) = {}
  /\ \A p : Took(ms, l, p) => Took(ms2, l, p)

SameForReturn(ms, ms2, o) ==
  \A p : /\ BackRows(ms2, o, p) = {} <=> BackRows(ms, o, p) = {}
         /\ GaveOne(ms, o, p) => GaveOne(ms2, o, p)

LEMMA RowsAppended ==
  ASSUME NEW T, NEW ms \in Seq(T), NEW rows \in Seq(T)
  PROVE  /\ Len(ms) \in Nat
         /\ DOMAIN ms = 1 .. Len(ms) /\ DOMAIN rows = 1 .. Len(rows) /\ Len(rows) \in Nat
         /\ DOMAIN (ms \o rows) = 1 .. Len(ms) + Len(rows)
         /\ \A n \in DOMAIN ms : (ms \o rows)[n] = ms[n]
         /\ \A n \in DOMAIN rows : (ms \o rows)[Len(ms) + n] = rows[n]
  BY ConcatProperties, LenProperties

LEMMA NoRowForLine ==
  ASSUME NEW T, NEW ms \in Seq(T), NEW rows \in Seq(T), NEW l, LineRows(rows, l) = {}
  PROVE  SameForLine(ms, ms \o rows, l)
<1> DEFINE all == ms \o rows
<1>1. /\ Len(ms) \in Nat /\ Len(rows) \in Nat
      /\ DOMAIN ms = 1 .. Len(ms) /\ DOMAIN rows = 1 .. Len(rows)
      /\ DOMAIN all = 1 .. Len(ms) + Len(rows)
      /\ \A n \in DOMAIN ms : all[n] = ms[n]
      /\ \A n \in DOMAIN rows : all[Len(ms) + n] = rows[n]
  BY RowsAppended
<1> HIDE DEF all
<1>2. ASSUME NEW n \in DOMAIN all, n \notin DOMAIN ms
      PROVE  n - Len(ms) \in DOMAIN rows /\ all[n] = rows[n - Len(ms)]
  <2>1. n - Len(ms) \in DOMAIN rows /\ Len(ms) + (n - Len(ms)) = n
    BY <1>1, <1>2
  <2> QED
    BY <1>1, <2>1
<1>3. LineRows(all, l) = LineRows(ms, l)
  <2>1. ASSUME NEW n \in LineRows(all, l) PROVE n \in LineRows(ms, l)
    <3>1. n \in DOMAIN ms
      BY <1>2 DEF LineRows
    <3> QED
      BY <1>1, <3>1 DEF LineRows
  <2>2. ASSUME NEW n \in LineRows(ms, l) PROVE n \in LineRows(all, l)
    BY <1>1 DEF LineRows
  <2> QED
    BY <2>1, <2>2
<1>4. \A p : Took(ms, l, p) => Took(all, l, p)
  BY <1>1, <1>3 DEF Took
<1> QED
  BY <1>3, <1>4 DEF SameForLine, all

LEMMA NoRowForReturn ==
  ASSUME NEW T, NEW ms \in Seq(T), NEW rows \in Seq(T), NEW o, NEW p,
         BackRows(rows, o, p) = {}
  PROVE  /\ BackRows(ms \o rows, o, p) = {} <=> BackRows(ms, o, p) = {}
         /\ GaveOne(ms, o, p) => GaveOne(ms \o rows, o, p)
<1> DEFINE all == ms \o rows
<1>1. /\ Len(ms) \in Nat /\ Len(rows) \in Nat
      /\ DOMAIN ms = 1 .. Len(ms) /\ DOMAIN rows = 1 .. Len(rows)
      /\ DOMAIN all = 1 .. Len(ms) + Len(rows)
      /\ \A n \in DOMAIN ms : all[n] = ms[n]
      /\ \A n \in DOMAIN rows : all[Len(ms) + n] = rows[n]
  BY RowsAppended
<1> HIDE DEF all
<1>2. ASSUME NEW n \in DOMAIN all, n \notin DOMAIN ms
      PROVE  n - Len(ms) \in DOMAIN rows /\ all[n] = rows[n - Len(ms)]
  <2>1. n - Len(ms) \in DOMAIN rows /\ Len(ms) + (n - Len(ms)) = n
    BY <1>1, <1>2
  <2> QED
    BY <1>1, <2>1
<1>3. BackRows(all, o, p) = BackRows(ms, o, p)
  <2>1. ASSUME NEW n \in BackRows(all, o, p) PROVE n \in BackRows(ms, o, p)
    <3>1. n \in DOMAIN ms
      BY <1>2 DEF BackRows
    <3> QED
      BY <1>1, <3>1 DEF BackRows
  <2>2. ASSUME NEW n \in BackRows(ms, o, p) PROVE n \in BackRows(all, o, p)
    BY <1>1 DEF BackRows
  <2> QED
    BY <2>1, <2>2
<1> QED
  BY <1>1, <1>3 DEF GaveOne, all

LEMMA FirstRowForLine ==
  ASSUME NEW T, NEW ms \in Seq(T), NEW rows \in Seq(T), NEW l, NEW p,
         LineRows(ms, l) = {}, Took(rows, l, p)
  PROVE  LineRows(ms \o rows, l) # {} /\ Took(ms \o rows, l, p)
<1> DEFINE all == ms \o rows
<1>1. /\ Len(ms) \in Nat /\ Len(rows) \in Nat
      /\ DOMAIN ms = 1 .. Len(ms) /\ DOMAIN rows = 1 .. Len(rows)
      /\ DOMAIN all = 1 .. Len(ms) + Len(rows)
      /\ \A n \in DOMAIN ms : all[n] = ms[n]
      /\ \A n \in DOMAIN rows : all[Len(ms) + n] = rows[n]
  BY RowsAppended
<1> HIDE DEF all
<1>2. PICK k \in DOMAIN rows :
        LineRows(rows, l) = {k} /\ rows[k] = Moves("sale_order_line", l, p, -1)
  BY DEF Took
<1>3. Len(ms) + k \in DOMAIN all /\ all[Len(ms) + k] = rows[k]
  BY <1>1
<1>4. Len(ms) + k \in LineRows(all, l)
  BY <1>2, <1>3 DEF LineRows
<1>5. ASSUME NEW n \in LineRows(all, l) PROVE n = Len(ms) + k
  <2>1. n \in DOMAIN all /\ n \notin DOMAIN ms
    BY <1>1 DEF LineRows
  <2>2. n - Len(ms) \in DOMAIN rows /\ Len(ms) + (n - Len(ms)) = n
    BY <1>1, <2>1
  <2>3. all[n] = rows[n - Len(ms)]
    BY <1>1, <2>2
  <2>4. n - Len(ms) \in LineRows(rows, l)
    BY <2>2, <2>3 DEF LineRows
  <2>5. n - Len(ms) = k
    BY <1>2, <2>4
  <2> QED
    BY <2>2, <2>5
<1>6. LineRows(all, l) = {Len(ms) + k}
  BY <1>4, <1>5
<1> QED
  BY <1>2, <1>3, <1>6 DEF Took, all

LEMMA FirstRowForReturn ==
  ASSUME NEW T, NEW ms \in Seq(T), NEW rows \in Seq(T), NEW o, NEW p,
         BackRows(ms, o, p) = {}, GaveOne(rows, o, p)
  PROVE  BackRows(ms \o rows, o, p) # {} /\ GaveOne(ms \o rows, o, p)
<1> DEFINE all == ms \o rows
<1>1. /\ Len(ms) \in Nat /\ Len(rows) \in Nat
      /\ DOMAIN ms = 1 .. Len(ms) /\ DOMAIN rows = 1 .. Len(rows)
      /\ DOMAIN all = 1 .. Len(ms) + Len(rows)
      /\ \A n \in DOMAIN ms : all[n] = ms[n]
      /\ \A n \in DOMAIN rows : all[Len(ms) + n] = rows[n]
  BY RowsAppended
<1> HIDE DEF all
<1>2. PICK k \in DOMAIN rows : BackRows(rows, o, p) = {k} /\ rows[k].delta = 1
  BY DEF GaveOne
<1>3. Len(ms) + k \in DOMAIN all /\ all[Len(ms) + k] = rows[k]
  BY <1>1
<1>4. Len(ms) + k \in BackRows(all, o, p)
  BY <1>2, <1>3 DEF BackRows
<1>5. ASSUME NEW n \in BackRows(all, o, p) PROVE n = Len(ms) + k
  <2>1. n \in DOMAIN all /\ n \notin DOMAIN ms
    BY <1>1 DEF BackRows
  <2>2. n - Len(ms) \in DOMAIN rows /\ Len(ms) + (n - Len(ms)) = n
    BY <1>1, <2>1
  <2>3. all[n] = rows[n - Len(ms)]
    BY <1>1, <2>2
  <2>4. n - Len(ms) \in BackRows(rows, o, p)
    BY <2>2, <2>3 DEF BackRows
  <2>5. n - Len(ms) = k
    BY <1>2, <2>4
  <2> QED
    BY <2>2, <2>5
<1>6. BackRows(all, o, p) = {Len(ms) + k}
  BY <1>4, <1>5
<1> QED
  BY <1>2, <1>3, <1>6 DEF GaveOne, all

-----------------------------------------------------------------------------
(* What a transaction records of them *)

(***************************************************************************)
(* The positions added, if any, are of the lines S, or of none.            *)
(***************************************************************************)
Recorded(ms, ms2, S) ==
  /\ \A l : l \notin S => SameForLine(ms, ms2, l)
  /\ \A o : SameForReturn(ms, ms2, o)
  /\ \A n \in DOMAIN ms2 :
       \/ n \in DOMAIN ms /\ ms2[n] = ms[n]
       \/ /\ ms2[n].reference # "sale_order_cancel"
          /\ ms2[n].reference \in LineReferences => ms2[n].id \in S

(***************************************************************************)
(* Each line of S that had not taken its stock, of product prod[l], does.  *)
(***************************************************************************)
Deducts(ms, ms2, S, prod) ==
  /\ Recorded(ms, ms2, S)
  /\ \A l \in S : LineRows(ms, l) = {} =>
       LineRows(ms2, l) # {} /\ Took(ms2, l, prod[l])

(***************************************************************************)
(* Of the products G, order o gives a unit back if it has not before.      *)
(***************************************************************************)
GivesBack(ms, ms2, o, G) ==
  /\ \A l : SameForLine(ms, ms2, l)
  /\ \A q : q # o => SameForReturn(ms, ms2, q)
  /\ \A p : p \notin G =>
       /\ BackRows(ms2, o, p) = {} <=> BackRows(ms, o, p) = {}
       /\ GaveOne(ms, o, p) => GaveOne(ms2, o, p)
  /\ \A p \in G : BackRows(ms, o, p) = {} =>
       BackRows(ms2, o, p) # {} /\ GaveOne(ms2, o, p)
  /\ \A n \in DOMAIN ms2 :
       \/ n \in DOMAIN ms /\ ms2[n] = ms[n]
       \/ ms2[n].reference = "sale_order_cancel" /\ ms2[n].id = o

LEMMA NothingRecorded ==
  ASSUME NEW ms, NEW prod PROVE Deducts(ms, ms, {}, prod)
  BY DEF Deducts, Recorded, SameForLine, SameForReturn

(***************************************************************************)
(* The rows added are those at the positions after the old ones.           *)
(***************************************************************************)
LEMMA OldOrAdded ==
  ASSUME NEW T, NEW ms \in Seq(T), NEW rows \in Seq(T), NEW n \in DOMAIN (ms \o rows)
  PROVE  \/ n \in DOMAIN ms /\ (ms \o rows)[n] = ms[n]
         \/ \E k \in DOMAIN rows : (ms \o rows)[n] = rows[k]
<1> DEFINE all == ms \o rows
<1>1. /\ Len(ms) \in Nat /\ Len(rows) \in Nat
      /\ DOMAIN ms = 1 .. Len(ms) /\ DOMAIN rows = 1 .. Len(rows)
      /\ DOMAIN all = 1 .. Len(ms) + Len(rows)
      /\ \A k \in DOMAIN ms : all[k] = ms[k]
      /\ \A k \in DOMAIN rows : all[Len(ms) + k] = rows[k]
  BY RowsAppended
<1>2. n \in DOMAIN all
  OBVIOUS
<1> HIDE DEF all
<1>3. CASE n \in DOMAIN ms
  BY <1>1, <1>3 DEF all
<1>4. CASE n \notin DOMAIN ms
  <2>1. n - Len(ms) \in DOMAIN rows /\ Len(ms) + (n - Len(ms)) = n
    BY <1>1, <1>2, <1>4
  <2>2. all[n] = rows[n - Len(ms)]
    BY <1>1, <2>1
  <2> QED
    BY <2>1, <2>2 DEF all
<1> QED
  BY <1>3, <1>4

LEMMA OtherRowsRecorded ==
  ASSUME NEW T, NEW ms \in Seq(T), NEW rows \in Seq(T), NEW prod,
         \A n \in DOMAIN rows : rows[n].reference \notin LineReferences \cup {"sale_order_cancel"}
  PROVE  Deducts(ms, ms \o rows, {}, prod)
<1> DEFINE all == ms \o rows
<1>1. \A l : LineRows(rows, l) = {}
  BY DEF LineRows
<1>2. \A o, p : BackRows(rows, o, p) = {}
  BY DEF BackRows
<1>3. \A l : SameForLine(ms, all, l)
  BY <1>1, NoRowForLine
<1>4. \A o : SameForReturn(ms, all, o)
  BY <1>2, NoRowForReturn DEF SameForReturn
<1>5. \A n \in DOMAIN all :
        \/ n \in DOMAIN ms /\ all[n] = ms[n]
        \/ \E k \in DOMAIN rows : all[n] = rows[k]
  BY OldOrAdded
<1> HIDE DEF all
<1>6. Deducts(ms, all, {}, prod)
  BY <1>3, <1>4, <1>5 DEF Deducts, Recorded
<1> QED
  BY <1>6 DEF all

(***************************************************************************)
(* The deductions of some lines, in the order of their ids, and the rows   *)
(* about them; the same for what order o gives back of some lines.         *)
(***************************************************************************)
DeductionsOf(S, prod) ==
  [n \in DOMAIN InIdOrder(S) |->
     Moves("sale_order_line", InIdOrder(S)[n], prod[InIdOrder(S)[n]], -1)]

OnlyDeductions(rows, S, prod) ==
  /\ \A l \in S : Took(rows, l, prod[l])
  /\ \A l : l \notin S => LineRows(rows, l) = {}
  /\ \A n \in DOMAIN rows : rows[n].reference = "sale_order_line" /\ rows[n].id \in S

ReturnsOf(S, prod, o) ==
  [n \in DOMAIN InIdOrder(S) |->
     Moves("sale_order_cancel", o, prod[InIdOrder(S)[n]], 1)]

OnlyReturns(rows, S, prod, o) ==
  /\ \A l \in S : GaveOne(rows, o, prod[l])
  /\ \A q, p : q # o => BackRows(rows, q, p) = {}
  /\ \A p : (\A l \in S : prod[l] # p) => BackRows(rows, o, p) = {}
  /\ \A n \in DOMAIN rows : rows[n].reference = "sale_order_cancel" /\ rows[n].id = o

LEMMA DeductionRows ==
  ASSUME NEW S, S \subseteq Nat, IsFiniteSet(S), NEW prod
  PROVE  OnlyDeductions(DeductionsOf(S, prod), S, prod)
<1> DEFINE ids == InIdOrder(S)
           N == Cardinality(S)
<1>1. N \in Nat /\ ids \in [1 .. N -> S]
  BY IdsInOrder
<1>2. /\ \A l \in S : \E n \in 1 .. N : ids[n] = l
      /\ \A m, n \in 1 .. N : ids[m] = ids[n] => m = n
  BY EachIdOnce
<1> DEFINE rows == DeductionsOf(S, prod)
<1>3. /\ DOMAIN rows = 1 .. N
      /\ \A n \in 1 .. N : rows[n] = Moves("sale_order_line", ids[n], prod[ids[n]], -1)
  <2>1. DOMAIN ids = 1 .. N /\ rows = [n \in DOMAIN ids |->
                                        Moves("sale_order_line", ids[n], prod[ids[n]], -1)]
    BY <1>1 DEF DeductionsOf
  <2> HIDE DEF ids, N, rows
  <2> QED
    BY <2>1
<1> HIDE DEF ids, N, rows
<1>4. \A n \in 1 .. N : rows[n].reference = "sale_order_line" /\ rows[n].id = ids[n]
                        /\ ids[n] \in S
  BY <1>1, <1>3 DEF Moves
<1>5. ASSUME NEW l \in S PROVE Took(rows, l, prod[l])
  <2>1. PICK n \in 1 .. N : ids[n] = l
    BY <1>2
  <2>2. n \in LineRows(rows, l)
    BY <1>3, <1>4, <2>1 DEF LineRows, LineReferences
  <2>3. \A m \in LineRows(rows, l) : m = n
    BY <1>2, <1>3, <1>4, <2>1 DEF LineRows
  <2>4. LineRows(rows, l) = {n}
    BY <2>2, <2>3
  <2> QED
    BY <1>3, <2>1, <2>4 DEF Took
<1>6. \A l : l \notin S => LineRows(rows, l) = {}
  BY <1>3, <1>4 DEF LineRows
<1> QED
  BY <1>3, <1>4, <1>5, <1>6 DEF OnlyDeductions, rows

LEMMA DeductionsRecorded ==
  ASSUME NEW T, NEW ms \in Seq(T), NEW S, S \subseteq Nat, IsFiniteSet(S), NEW prod,
         NEW rows \in Seq(T), rows = DeductionsOf(S, prod)
  PROVE  Deducts(ms, ms \o rows, S, prod)
<1> DEFINE all == ms \o rows
<1>1. /\ \A l \in S : Took(rows, l, prod[l])
      /\ \A l : l \notin S => LineRows(rows, l) = {}
      /\ \A n \in DOMAIN rows : rows[n].reference = "sale_order_line" /\ rows[n].id \in S
  <2>1. OnlyDeductions(DeductionsOf(S, prod), S, prod)
    BY DeductionRows
  <2>2. OnlyDeductions(rows, S, prod)
    BY <2>1
  <2> QED
    BY <2>2 DEF OnlyDeductions
<1>2. \A o, p : BackRows(rows, o, p) = {}
  BY <1>1 DEF BackRows
<1>3. \A l : l \notin S => SameForLine(ms, all, l)
  BY <1>1, NoRowForLine
<1>4. \A o : SameForReturn(ms, all, o)
  BY <1>2, NoRowForReturn DEF SameForReturn
<1>5. \A n \in DOMAIN all :
        \/ n \in DOMAIN ms /\ all[n] = ms[n]
        \/ \E k \in DOMAIN rows : all[n] = rows[k]
  BY OldOrAdded
<1>6. \A l \in S : LineRows(ms, l) = {} => LineRows(all, l) # {} /\ Took(all, l, prod[l])
  BY <1>1, FirstRowForLine
<1> HIDE DEF all
<1>7. Recorded(ms, all, S)
  BY <1>1, <1>3, <1>4, <1>5 DEF Recorded
<1>8. Deducts(ms, all, S, prod)
  BY <1>6, <1>7 DEF Deducts
<1> QED
  BY <1>8 DEF all

(***************************************************************************)
(* What the order of some lines, of different products, gives back.        *)
(***************************************************************************)
LEMMA ReturnRows ==
  ASSUME NEW S, S \subseteq Nat, IsFiniteSet(S), NEW prod, NEW o,
         \A k, l \in S : prod[k] = prod[l] => k = l
  PROVE  OnlyReturns(ReturnsOf(S, prod, o), S, prod, o)
<1> DEFINE ids == InIdOrder(S)
           N == Cardinality(S)
<1>1. N \in Nat /\ ids \in [1 .. N -> S]
  BY IdsInOrder
<1>2. /\ \A l \in S : \E n \in 1 .. N : ids[n] = l
      /\ \A m, n \in 1 .. N : ids[m] = ids[n] => m = n
  BY EachIdOnce
<1> DEFINE rows == ReturnsOf(S, prod, o)
<1>3. /\ DOMAIN rows = 1 .. N
      /\ \A n \in 1 .. N : rows[n] = Moves("sale_order_cancel", o, prod[ids[n]], 1)
  <2>1. DOMAIN ids = 1 .. N /\ rows = [n \in DOMAIN ids |->
                                        Moves("sale_order_cancel", o, prod[ids[n]], 1)]
    BY <1>1 DEF ReturnsOf
  <2> HIDE DEF ids, N, rows
  <2> QED
    BY <2>1
<1> HIDE DEF ids, N, rows
<1>4. \A n \in 1 .. N :
        /\ rows[n].reference = "sale_order_cancel" /\ rows[n].id = o
        /\ rows[n].product = prod[ids[n]] /\ rows[n].delta = 1 /\ ids[n] \in S
  BY <1>1, <1>3 DEF Moves
<1>5. ASSUME NEW l \in S PROVE GaveOne(rows, o, prod[l])
  <2>1. PICK n \in 1 .. N : ids[n] = l
    BY <1>2
  <2>2. n \in BackRows(rows, o, prod[l])
    BY <1>3, <1>4, <2>1 DEF BackRows
  <2>3. ASSUME NEW m \in BackRows(rows, o, prod[l]) PROVE m = n
    <3>1. m \in 1 .. N /\ prod[ids[m]] = prod[l]
      BY <1>3, <1>4 DEF BackRows
    <3>2. ids[m] = l
      BY <1>4, <3>1
    <3> QED
      BY <1>2, <2>1, <3>1, <3>2
  <2>4. BackRows(rows, o, prod[l]) = {n}
    BY <2>2, <2>3
  <2> QED
    BY <1>3, <1>4, <2>4 DEF GaveOne
<1>6. \A q, p : q # o => BackRows(rows, q, p) = {}
  BY <1>3, <1>4 DEF BackRows
<1>7. ASSUME NEW p, \A l \in S : prod[l] # p PROVE BackRows(rows, o, p) = {}
  <2>1. ASSUME NEW n \in DOMAIN rows PROVE rows[n].product # p
    <3>1. n \in 1 .. N
      BY <1>3
    <3>2. rows[n].product = prod[ids[n]] /\ ids[n] \in S
      BY <1>4, <3>1
    <3> QED
      BY <1>7, <3>2
  <2> QED
    BY <2>1 DEF BackRows
<1> QED
  BY <1>3, <1>4, <1>5, <1>6, <1>7 DEF OnlyReturns, rows

LEMMA ReturnsRecorded ==
  ASSUME NEW T, NEW ms \in Seq(T), NEW S, S \subseteq Nat, IsFiniteSet(S), NEW prod, NEW o,
         NEW rows \in Seq(T),
         \A k, l \in S : prod[k] = prod[l] => k = l, rows = ReturnsOf(S, prod, o),
         NEW G, \A p : p \in G <=> \E l \in S : prod[l] = p
  PROVE  GivesBack(ms, ms \o rows, o, G)
<1> DEFINE all == ms \o rows
<1>1. /\ \A l \in S : GaveOne(rows, o, prod[l])
      /\ \A q, p : q # o => BackRows(rows, q, p) = {}
      /\ \A p : (\A l \in S : prod[l] # p) => BackRows(rows, o, p) = {}
      /\ \A n \in DOMAIN rows : rows[n].reference = "sale_order_cancel" /\ rows[n].id = o
  <2>1. OnlyReturns(ReturnsOf(S, prod, o), S, prod, o)
    BY ReturnRows
  <2>2. OnlyReturns(rows, S, prod, o)
    BY <2>1
  <2> QED
    BY <2>2 DEF OnlyReturns
<1>2. \A l : LineRows(rows, l) = {}
  BY <1>1 DEF LineRows, LineReferences
<1>3. \A l : SameForLine(ms, all, l)
  BY <1>2, NoRowForLine
<1>4. \A q : q # o => SameForReturn(ms, all, q)
  BY <1>1, NoRowForReturn DEF SameForReturn
<1>5. \A p : p \notin G =>
        /\ BackRows(all, o, p) = {} <=> BackRows(ms, o, p) = {}
        /\ GaveOne(ms, o, p) => GaveOne(all, o, p)
  BY <1>1, NoRowForReturn
<1>6. ASSUME NEW p \in G, BackRows(ms, o, p) = {}
      PROVE  BackRows(all, o, p) # {} /\ GaveOne(all, o, p)
  <2>1. GaveOne(rows, o, p)
    BY <1>1
  <2> QED
    BY <1>6, <2>1, FirstRowForReturn
<1>7. \A n \in DOMAIN all :
        \/ n \in DOMAIN ms /\ all[n] = ms[n]
        \/ \E k \in DOMAIN rows : all[n] = rows[k]
  BY OldOrAdded
<1> HIDE DEF all
<1>8. \A n \in DOMAIN all :
        \/ n \in DOMAIN ms /\ all[n] = ms[n]
        \/ all[n].reference = "sale_order_cancel" /\ all[n].id = o
  BY <1>1, <1>7
<1>9. GivesBack(ms, all, o, G)
  BY <1>3, <1>4, <1>5, <1>6, <1>8 DEF GivesBack
<1> QED
  BY <1>9 DEF all

-----------------------------------------------------------------------------
(* Orders whose lines and movements agree *)

(***************************************************************************)
(* A line has at most its one deduction; while the order has given none of *)
(* its product back, it is flagged exactly if it has it.  What an order    *)
(* gave back is one unit, of a product one of its lines took.              *)
(***************************************************************************)
LineSound(ms, lines, l) ==
  /\ LineRows(ms, l) # {} => Took(ms, l, lines[l].product)
  /\ BackRows(ms, lines[l].order, lines[l].product) = {} =>
       (lines[l].applied <=> LineRows(ms, l) # {})

ReturnSound(ms, lines, o, p) ==
  /\ GaveOne(ms, o, p)
  /\ \E l \in DOMAIN lines :
       lines[l].order = o /\ lines[l].product = p /\ LineRows(ms, l) # {}

SaleSound(ms, lines, o) ==
  /\ \A l \in DOMAIN lines : lines[l].order = o => LineSound(ms, lines, l)
  /\ \A p : BackRows(ms, o, p) # {} => ReturnSound(ms, lines, o, p)

(***************************************************************************)
(* What becomes of a line when some take their stock: it stays, is flagged *)
(* because it had its deduction, stays without, or gets one.               *)
(***************************************************************************)
LineStays(lines, lines2, l) == l \in DOMAIN lines /\ lines2[l] = lines[l]

LineFlagged(ms, lines, lines2, l) ==
  /\ l \in DOMAIN lines /\ LineRows(ms, l) # {}
  /\ lines2[l].order = lines[l].order /\ lines2[l].product = lines[l].product
  /\ lines2[l].applied = TRUE

LineDeducted(ms, ms2, lines2, l) ==
  /\ LineRows(ms, l) = {} /\ lines2[l].applied = TRUE
  /\ LineRows(ms2, l) # {} /\ Took(ms2, l, lines2[l].product)

LineWithout(ms, lines2, l) == LineRows(ms, l) = {} /\ lines2[l].applied = FALSE

LineGoesOn(ms, ms2, lines, lines2, l) ==
  \/ SameForLine(ms, ms2, l) /\ LineStays(lines, lines2, l)
  \/ SameForLine(ms, ms2, l) /\ LineFlagged(ms, lines, lines2, l)
  \/ SameForLine(ms, ms2, l) /\ LineWithout(ms, lines2, l)
  \/ LineDeducted(ms, ms2, lines2, l)

LEMMA LineSoundAfter ==
  ASSUME NEW ms, NEW ms2, NEW S, Recorded(ms, ms2, S),
         NEW lines, NEW lines2, NEW l, LineGoesOn(ms, ms2, lines, lines2, l),
         l \in DOMAIN lines => lines[l].order = lines2[l].order,
         l \in DOMAIN lines => LineSound(ms, lines, l)
  PROVE  LineSound(ms2, lines2, l)
<1>2. \A o, p : BackRows(ms2, o, p) = {} <=> BackRows(ms, o, p) = {}
  BY DEF Recorded, SameForReturn
<1>3. CASE SameForLine(ms, ms2, l) /\ LineStays(lines, lines2, l)
  BY <1>2, <1>3 DEF LineStays, LineSound, SameForLine
<1>4. CASE SameForLine(ms, ms2, l) /\ LineFlagged(ms, lines, lines2, l)
  BY <1>2, <1>4 DEF LineFlagged, LineSound, SameForLine
<1>5. CASE LineDeducted(ms, ms2, lines2, l)
  BY <1>5 DEF LineDeducted, LineSound
<1>6. CASE SameForLine(ms, ms2, l) /\ LineWithout(ms, lines2, l)
  BY <1>6 DEF LineWithout, LineSound, SameForLine
<1> QED
  BY <1>3, <1>4, <1>5, <1>6 DEF LineGoesOn

(***************************************************************************)
(* The lines after a deduction: none changes its order, none that had its  *)
(* deduction its product.                                                  *)
(***************************************************************************)
LinesGoOn(ms, ms2, lines, lines2, o) ==
  /\ \A l \in DOMAIN lines :
       /\ l \in DOMAIN lines2 /\ lines2[l].order = lines[l].order
       /\ lines[l].order = o /\ LineRows(ms, l) # {} =>
            lines2[l].product = lines[l].product
  /\ \A l \in DOMAIN lines2 :
       lines2[l].order = o => LineGoesOn(ms, ms2, lines, lines2, l)

LEMMA SaleSoundAfter ==
  ASSUME NEW ms, NEW ms2, NEW S, Recorded(ms, ms2, S),
         NEW lines, NEW lines2, NEW o, SaleSound(ms, lines, o),
         LinesGoOn(ms, ms2, lines, lines2, o)
  PROVE  SaleSound(ms2, lines2, o)
<1>1. ASSUME NEW l \in DOMAIN lines2, lines2[l].order = o PROVE LineSound(ms2, lines2, l)
  <2>1. LineGoesOn(ms, ms2, lines, lines2, l)
    BY <1>1 DEF LinesGoOn
  <2>2. l \in DOMAIN lines => lines[l].order = lines2[l].order
    BY DEF LinesGoOn
  <2>3. l \in DOMAIN lines => LineSound(ms, lines, l)
    BY <1>1, <2>2 DEF SaleSound
  <2> QED
    BY <2>1, <2>2, <2>3, LineSoundAfter
<1>2. ASSUME NEW p, BackRows(ms2, o, p) # {} PROVE ReturnSound(ms2, lines2, o, p)
  <2>1. SameForReturn(ms, ms2, o)
    BY DEF Recorded
  <2>2. BackRows(ms, o, p) # {}
    BY <1>2, <2>1 DEF SameForReturn
  <2>3. ReturnSound(ms, lines, o, p)
    BY <2>2 DEF SaleSound
  <2>4. GaveOne(ms2, o, p)
    BY <2>1, <2>3 DEF SameForReturn, ReturnSound
  <2>5. PICK l \in DOMAIN lines :
          lines[l].order = o /\ lines[l].product = p /\ LineRows(ms, l) # {}
    BY <2>3 DEF ReturnSound
  <2>6. l \in DOMAIN lines2 /\ lines2[l].order = o /\ lines2[l].product = p
    BY <2>5 DEF LinesGoOn
  <2>7. LineRows(ms2, l) # {}
    <3>1. LineGoesOn(ms, ms2, lines, lines2, l)
      BY <2>6 DEF LinesGoOn
    <3> QED
      BY <2>5, <3>1 DEF SameForLine, LineGoesOn, LineDeducted
  <2> QED
    BY <2>4, <2>6, <2>7 DEF ReturnSound
<1> QED
  BY <1>1, <1>2 DEF SaleSound

(***************************************************************************)
(* When order o gives back of G, the products of its flagged lines of      *)
(* which it had given none, it unflags these lines.                        *)
(***************************************************************************)
LinesGivenBack(ms, lines, lines2, o, G) ==
  /\ DOMAIN lines2 = DOMAIN lines
  /\ \A l \in DOMAIN lines :
       /\ lines2[l].order = lines[l].order /\ lines2[l].product = lines[l].product
       /\ lines[l].order # o => lines2[l] = lines[l]
       /\ lines[l].order = o =>
            \/ lines2[l] = lines[l] /\ lines[l].product \notin G
            \/ lines2[l].applied = FALSE
       /\ lines[l].order = o /\ lines[l].product \notin G
            /\ BackRows(ms, o, lines[l].product) = {} => lines2[l] = lines[l]
  /\ \A p \in G : BackRows(ms, o, p) = {} /\
       \E l \in DOMAIN lines :
         lines[l].order = o /\ lines[l].product = p /\ lines[l].applied = TRUE

LEMMA SaleSoundGivenBack ==
  ASSUME NEW ms, NEW ms2, NEW o, NEW G, GivesBack(ms, ms2, o, G),
         NEW lines, NEW lines2, LinesGivenBack(ms, lines, lines2, o, G),
         NEW q, SaleSound(ms, lines, q)
  PROVE  SaleSound(ms2, lines2, q)
<1>1. \A l : SameForLine(ms, ms2, l)
  BY DEF GivesBack
<1>2. /\ DOMAIN lines2 = DOMAIN lines
      /\ \A l \in DOMAIN lines :
           lines2[l].order = lines[l].order /\ lines2[l].product = lines[l].product
  BY DEF LinesGivenBack
<1>3. ASSUME NEW l \in DOMAIN lines2, lines2[l].order = q PROVE LineSound(ms2, lines2, l)
  <2>1. l \in DOMAIN lines /\ lines[l].order = q /\ LineSound(ms, lines, l)
    BY <1>2, <1>3 DEF SaleSound
  <2>2. LineRows(ms2, l) # {} => Took(ms2, l, lines2[l].product)
    BY <1>1, <1>2, <2>1 DEF LineSound, SameForLine
  <2> DEFINE p == lines[l].product
  <2>3. ASSUME BackRows(ms2, q, p) = {}
        PROVE  lines2[l] = lines[l] /\ BackRows(ms, q, p) = {}
    <3>1. CASE q # o
      BY <2>1, <2>3, <3>1 DEF GivesBack, SameForReturn, LinesGivenBack
    <3>2. CASE q = o
      <4>1. p \notin G
        BY <2>3, <3>2 DEF GivesBack, LinesGivenBack
      <4>2. BackRows(ms, q, p) = {}
        BY <2>3, <3>2, <4>1 DEF GivesBack
      <4> QED
        BY <2>1, <3>2, <4>1, <4>2 DEF LinesGivenBack
    <3> QED
      BY <3>1, <3>2
  <2>4. BackRows(ms2, lines2[l].order, lines2[l].product) = {} =>
          (lines2[l].applied <=> LineRows(ms2, l) # {})
    BY <1>1, <1>2, <2>1, <2>3 DEF LineSound, SameForLine
  <2> QED
    BY <2>2, <2>4 DEF LineSound
<1>4. ASSUME NEW p, BackRows(ms2, q, p) # {} PROVE ReturnSound(ms2, lines2, q, p)
  <2>1. ASSUME GaveOne(ms2, q, p), NEW l \in DOMAIN lines, lines[l].order = q,
               lines[l].product = p, LineRows(ms, l) # {}
        PROVE  ReturnSound(ms2, lines2, q, p)
    <3>1. l \in DOMAIN lines2 /\ lines2[l].order = q /\ lines2[l].product = p
      BY <1>2, <2>1
    <3>2. LineRows(ms2, l) # {}
      BY <1>1, <2>1 DEF SameForLine
    <3> QED
      BY <2>1, <3>1, <3>2 DEF ReturnSound
  <2>2. CASE BackRows(ms, q, p) # {}
    <3>1. ReturnSound(ms, lines, q, p)
      BY <2>2 DEF SaleSound
    <3>2. GaveOne(ms2, q, p)
      <4>1. q = o => p \notin G
        BY <2>2 DEF LinesGivenBack
      <4> QED
        BY <3>1, <4>1 DEF GivesBack, SameForReturn, ReturnSound
    <3> QED
      BY <2>1, <3>1, <3>2 DEF ReturnSound
  <2>3. CASE BackRows(ms, q, p) = {}
    <3>1. q = o /\ p \in G
      BY <1>4, <2>3 DEF GivesBack, SameForReturn
    <3>2. GaveOne(ms2, q, p)
      BY <2>3, <3>1 DEF GivesBack
    <3>3. PICK l \in DOMAIN lines :
            lines[l].order = o /\ lines[l].product = p /\ lines[l].applied = TRUE
      BY <3>1 DEF LinesGivenBack
    <3>4. LineRows(ms, l) # {}
      BY <2>3, <3>1, <3>3 DEF SaleSound, LineSound
    <3> QED
      BY <2>1, <3>1, <3>2, <3>3, <3>4
  <2> QED
    BY <2>2, <2>3
<1> QED
  BY <1>3, <1>4 DEF SaleSound

-----------------------------------------------------------------------------
(* The invariant *)

GaveSome(ms, o) ==
  \E n \in DOMAIN ms : ms[n].reference = "sale_order_cancel" /\ ms[n].id = o

SalesSound ==
  \A o \in DOMAIN tkOrders :
    tkOrders[o].ref \notin corrected => SaleSound(movements, tkLines, o)

(***************************************************************************)
(* Movements are recorded for lines and orders that exist.                 *)
(***************************************************************************)
RowsNamed ==
  \A n \in DOMAIN movements :
    /\ movements[n].reference \in LineReferences => movements[n].id \in DOMAIN tkLines
    /\ movements[n].reference = "sale_order_cancel" => movements[n].id \in DOMAIN tkOrders

(***************************************************************************)
(* Only the import of a lot that TikTok cancelled gives a live order's     *)
(* stock back, and the order stays cancelled.                              *)
(***************************************************************************)
LiveEnded ==
  \A o \in DOMAIN tkOrders :
    tkOrders[o].ref \in LotOrders /\ GaveSome(movements, o) =>
      tkOrders[o].state = "cancel" /\ remote[tkOrders[o].ref] = "cancelled"

StockSound == SalesSound /\ RowsNamed /\ LiveEnded

(***************************************************************************)
(* A transaction after which the lines of sound orders other than those of *)
(* the TikTok orders out are sound.                                        *)
(***************************************************************************)
SoundlyTaken(out) ==
  \E S \in SUBSET DOMAIN tkLines' :
    /\ Recorded(movements, movements', S)
    /\ \A o \in DOMAIN tkOrders :
         tkOrders[o].ref \notin out /\ SaleSound(movements, tkLines, o) =>
           LinesGoOn(movements, movements', tkLines, tkLines', o)

LEMMA GaveSomeRow ==
  ASSUME NEW ms, NEW o, ~GaveSome(ms, o)
  PROVE  \A p : BackRows(ms, o, p) = {}
  BY DEF GaveSome, BackRows

LEMMA RecordedGaves ==
  ASSUME NEW ms, NEW ms2, NEW S, Recorded(ms, ms2, S), NEW o, GaveSome(ms2, o)
  PROVE  GaveSome(ms, o)
  BY DEF Recorded, GaveSome

LEMMA SoundAfter ==
  ASSUME TikTokTypeOK, StockSound, RefsKept, DOMAIN tkOrders' = DOMAIN tkOrders,
         corrected \subseteq corrected', SoundlyTaken(corrected')
  PROVE  /\ SalesSound' /\ RowsNamed'
         /\ \A o : GaveSome(movements', o) => GaveSome(movements, o)
<1>1. PICK S \in SUBSET DOMAIN tkLines' :
        /\ Recorded(movements, movements', S)
        /\ \A o \in DOMAIN tkOrders :
             tkOrders[o].ref \notin corrected' /\ SaleSound(movements, tkLines, o) =>
               LinesGoOn(movements, movements', tkLines, tkLines', o)
  BY DEF SoundlyTaken
<1>2. ASSUME NEW o \in DOMAIN tkOrders', tkOrders'[o].ref \notin corrected'
      PROVE  SaleSound(movements', tkLines', o)
  <2>1. o \in DOMAIN tkOrders /\ tkOrders'[o].ref = tkOrders[o].ref
    BY DEF RefsKept
  <2>2. SaleSound(movements, tkLines, o)
    BY <1>2, <2>1 DEF StockSound, SalesSound
  <2>3. LinesGoOn(movements, movements', tkLines, tkLines', o)
    BY <1>1, <1>2, <2>1, <2>2
  <2> QED
    BY <1>1, <2>2, <2>3, SaleSoundAfter
<1>3. SalesSound'
  BY <1>2 DEF SalesSound
<1>4. RowsNamed'
  <2>1. DOMAIN tkLines \subseteq DOMAIN tkLines'
    BY DEF RefsKept
  <2> QED
    BY <1>1, <2>1 DEF Recorded, RowsNamed, StockSound
<1>5. \A o : GaveSome(movements', o) => GaveSome(movements, o)
  BY <1>1, RecordedGaves
<1> QED
  BY <1>3, <1>4, <1>5

(***************************************************************************)
(* Where no line changes and nothing of the TikTok orders is recorded.     *)
(***************************************************************************)
LEMMA SoundlyIdle ==
  ASSUME UNCHANGED tkLines, Recorded(movements, movements', {}), NEW out
  PROVE  SoundlyTaken(out)
<1>1. \A l : SameForLine(movements, movements', l)
  BY DEF Recorded
<1>2. \A o : LinesGoOn(movements, movements', tkLines, tkLines', o)
  BY <1>1 DEF LinesGoOn, LineGoesOn, LineStays
<1> QED
  BY <1>2 DEF SoundlyTaken

-----------------------------------------------------------------------------
(* Taking and giving back an order's stock *)

LEMMA RowsLookedUp ==
  ASSUME NEW o, NEW p
  PROVE  /\ HasMovement("sale_order_cancel", o, p) <=> BackRows(movements, o, p) # {}
         /\ HasMovement("sale_order_line", o, p) => LineRows(movements, o) # {}
         /\ Took(movements, o, p) => HasMovement("sale_order_line", o, p)
<1>1. HasMovement("sale_order_cancel", o, p) <=> BackRows(movements, o, p) # {}
  BY DEF HasMovement, BackRows
<1>2. HasMovement("sale_order_line", o, p) => LineRows(movements, o) # {}
  BY DEF HasMovement, LineRows, LineReferences
<1>3. ASSUME Took(movements, o, p) PROVE HasMovement("sale_order_line", o, p)
  <2>1. PICK n \in DOMAIN movements : movements[n] = Moves("sale_order_line", o, p, -1)
    BY <1>3 DEF Took
  <2> QED
    BY <2>1 DEF HasMovement, Moves
<1> QED
  BY <1>1, <1>2, <1>3

LEMMA NothingTaken ==
  ASSUME NoMovement, UNCHANGED tkLines, NEW out
  PROVE  SoundlyTaken(out)
<1>1. Deducts(movements, movements', {}, {})
  BY NothingRecorded DEF NoMovement
<1> QED
  BY <1>1, SoundlyIdle DEF Deducts

LEMMA UndeductedRows ==
  ASSUME TikTokTypeOK, StockType, NEW o, TakeStock(o), HoldsStock(o)
  PROVE  Deducts(movements, movements', Undeducted(o),
                 [l \in DOMAIN tkLines |-> tkLines[l].product])
<1> DEFINE S == Undeducted(o)
           prod == [l \in DOMAIN tkLines |-> tkLines[l].product]
           ids == InIdOrder(S)
           move == [l \in S |-> Moves("sale_order_line", l, tkLines[l].product, -1)]
           rows == [n \in DOMAIN ids |->
                      Moves("sale_order_line", ids[n], tkLines[ids[n]].product, -1)]
<1>1. RecordMovements(rows)
  BY DEF TakeStock, MapSeq
<1>2. S \subseteq ProductLinesOfSale(o)
  BY DEF Undeducted
<1>3. S \subseteq DOMAIN tkLines /\ S \subseteq Nat /\ IsFiniteSet(S)
  BY <1>2, LineProduct, PositionsFinite DEF TikTokTypeOK
<1>4. \A n \in DOMAIN ids : ids[n] \in S
  BY <1>3, IdsInOrder
<1>5. rows = [n \in DOMAIN ids |-> Moves("sale_order_line", ids[n], prod[ids[n]], -1)]
  BY <1>3, <1>4
<1>6. rows = DeductionsOf(S, prod)
  BY <1>5 DEF DeductionsOf
<1>7. move \in [S -> LineMovementRow]
  <2>1. \A l \in S : Moves("sale_order_line", l, tkLines[l].product, -1) \in LineMovementRow
    BY <1>2, LineProduct, MovesType
  <2> QED
    BY <2>1
<1>8. rows = [n \in DOMAIN ids |-> move[ids[n]]]
  BY <1>4
<1> HIDE DEF S, move, rows, prod
<1>9. rows \in Seq(LineMovementRow)
  BY <1>3, <1>7, <1>8, LineMovesType
<1>10. rows \in Seq(MovementRow) /\ movements \in Seq(MovementRow)
  BY <1>9 DEF LineMovementRow, StockType
<1>11. Deducts(movements, movements \o rows, S, prod)
  BY <1>3, <1>6, <1>10, DeductionsRecorded
<1>12. movements' = movements \o rows
  BY <1>1 DEF RecordMovements
<1> QED
  BY <1>11, <1>12 DEF S, prod

LEMMA TakeStockSoundly ==
  ASSUME TikTokTypeOK, StockType, NEW o, TakeStock(o), NEW out
  PROVE  SoundlyTaken(out)
<1>1. CASE ~HoldsStock(o)
  BY <1>1, NothingTaken DEF TakeStock
<1>2. CASE HoldsStock(o)
  <2> DEFINE S == Undeducted(o)
             prod == [l \in DOMAIN tkLines |-> tkLines[l].product]
  <2>1. Deducts(movements, movements', S, prod)
    BY <1>2, UndeductedRows
  <2>2. tkLines' = Flagged(ProductLinesOfSale(o), TRUE)
    BY <1>2 DEF TakeStock
  <2>3. LinesSame
    BY StockKeepsLines
  <2>4. S \subseteq ProductLinesOfSale(o) /\ S \subseteq DOMAIN tkLines'
    BY <2>3 DEF Undeducted, ProductLinesOfSale, LinesOfSale, LinesSame
  <2>5. ASSUME NEW q, SaleSound(movements, tkLines, q), NEW l \in DOMAIN tkLines,
               tkLines[l].order = q
        PROVE  LineGoesOn(movements, movements', tkLines, tkLines', l)
    <3>1. LineSound(movements, tkLines, l)
      BY <2>5 DEF SaleSound
    <3>0. l \notin S => SameForLine(movements, movements', l)
      BY <2>1 DEF Deducts, Recorded
    <3>2. CASE l \notin ProductLinesOfSale(o)
      <4>1. tkLines'[l] = tkLines[l]
        BY <2>2, <3>2 DEF Flagged
      <4> QED
        BY <2>4, <3>0, <3>2, <4>1 DEF LineGoesOn, LineStays
    <3>3. CASE l \in ProductLinesOfSale(o)
      <4>1. tkLines[l] \in TikTokLine
        BY TikTokRows
      <4>2. tkLines'[l] = [tkLines[l] EXCEPT !.applied = TRUE]
        BY <2>2, <3>3 DEF Flagged
      <4>3. tkLines'[l].applied = TRUE
        BY <4>1, <4>2 DEF TikTokLine
      <4>4. tkLines'[l].order = tkLines[l].order /\ tkLines'[l].product = tkLines[l].product
        BY <2>3 DEF LinesSame
      <4>5. CASE l \in S
        <5>1. ~HasMovement("sale_order_line", l, tkLines[l].product)
          BY <4>5 DEF Undeducted
        <5>2. LineRows(movements, l) = {}
          BY <3>1, <5>1, RowsLookedUp DEF LineSound
        <5>3. prod[l] = tkLines'[l].product
          BY <4>4
        <5> HIDE DEF S, prod
        <5>4. LineRows(movements', l) # {} /\ Took(movements', l, prod[l])
          BY <2>1, <4>5, <5>2 DEF Deducts
        <5> QED
          BY <4>3, <4>5, <5>2, <5>3, <5>4 DEF LineGoesOn, LineDeducted
      <4>6. CASE l \notin S
        <5>1. HasMovement("sale_order_line", l, tkLines[l].product)
          BY <3>3, <4>6 DEF Undeducted
        <5>2. LineRows(movements, l) # {}
          BY <5>1, RowsLookedUp
        <5> QED
          BY <3>0, <4>3, <4>4, <4>6, <5>2 DEF LineGoesOn, LineFlagged
      <4> QED
        BY <4>5, <4>6
    <3> QED
      BY <3>2, <3>3
  <2> HIDE DEF S, prod
  <2>6. ASSUME NEW q, SaleSound(movements, tkLines, q)
        PROVE  LinesGoOn(movements, movements', tkLines, tkLines', q)
    BY <2>3, <2>5, <2>6 DEF LinesSame, LinesGoOn
  <2> QED
    BY <2>1, <2>4, <2>6 DEF SoundlyTaken, Deducts
<1> QED
  BY <1>1, <1>2

(***************************************************************************)
(* reverse_sale_order_inventory gives back of the products of the order's  *)
(* flagged lines of which it had given none.                               *)
(***************************************************************************)
SoundlyGivenBack(o) ==
  \E G : /\ GivesBack(movements, movements', o, G)
         /\ LinesGivenBack(movements, tkLines, tkLines', o, G)

LEMMA GivenBackProducts ==
  ASSUME TikTokTypeOK, NEW o
  PROVE  /\ GivenBack(o) \subseteq AppliedOfSale(o)
         /\ AppliedOfSale(o) \subseteq ProductLinesOfSale(o)
         /\ \A l \in AppliedOfSale(o) :
              /\ l \in DOMAIN tkLines /\ l \in Nat /\ tkLines[l].product \in Products
              /\ tkLines[l].order = o /\ tkLines[l].applied = TRUE
         /\ \A k, l \in GivenBack(o) : tkLines[k].product = tkLines[l].product => k = l
         /\ \A l \in AppliedOfSale(o) :
              ~HasMovement("sale_order_cancel", o, tkLines[l].product) =>
                \E k \in GivenBack(o) : tkLines[k].product = tkLines[l].product
<1>1. /\ GivenBack(o) \subseteq AppliedOfSale(o)
      /\ AppliedOfSale(o) \subseteq ProductLinesOfSale(o)
  BY DEF GivenBack, AppliedOfSale
<1>2. ASSUME NEW l \in AppliedOfSale(o)
      PROVE  /\ l \in DOMAIN tkLines /\ l \in Nat /\ tkLines[l].product \in Products
             /\ tkLines[l].order = o /\ tkLines[l].applied = TRUE
  <2>1. l \in ProductLinesOfSale(o)
    BY <1>1
  <2>2. l \in DOMAIN tkLines /\ l \in Nat /\ tkLines[l].product \in Products
    BY <2>1, LineProduct
  <2>3. tkLines[l] \in TikTokLine
    BY <2>2, TikTokRows
  <2>4. tkLines[l].order = o
    BY <2>1 DEF ProductLinesOfSale, LinesOfSale
  <2> QED
    BY <2>2, <2>3, <2>4 DEF AppliedOfSale, TikTokLine
<1>3. ASSUME NEW k \in GivenBack(o), NEW l \in GivenBack(o),
             tkLines[k].product = tkLines[l].product
      PROVE  k = l
  <2>1. k <= l /\ l <= k
    BY <1>1, <1>3 DEF GivenBack
  <2>2. k \in Nat /\ l \in Nat
    BY <1>1, <1>2
  <2> QED
    BY <2>1, <2>2
<1>4. ASSUME NEW l \in AppliedOfSale(o),
             ~HasMovement("sale_order_cancel", o, tkLines[l].product)
      PROVE  \E k \in GivenBack(o) : tkLines[k].product = tkLines[l].product
  <2> DEFINE K == {k \in AppliedOfSale(o) : tkLines[k].product = tkLines[l].product}
  <2>1. K \subseteq Nat /\ K # {}
    BY <1>2
  <2>2. PICK k \in K : \A j \in K : k <= j
    <3> HIDE DEF K
    <3> QED
      BY <2>1, LeastElement
  <2>3. k \in GivenBack(o)
    BY <1>4, <2>2 DEF GivenBack
  <2> QED
    BY <2>2, <2>3
<1> QED
  BY <1>1, <1>2, <1>3, <1>4

LEMMA GiveStockBackSoundly ==
  ASSUME TikTokTypeOK, StockType, NEW o \in DOMAIN tkOrders, GiveStockBack(o)
  PROVE  SoundlyGivenBack(o)
<1> DEFINE S == GivenBack(o)
           A == AppliedOfSale(o)
           prod == [l \in DOMAIN tkLines |-> tkLines[l].product]
           G == {prod[l] : l \in S}
           ids == InIdOrder(S)
           move == [l \in S |-> Moves("sale_order_cancel", o, tkLines[l].product, 1)]
           rows == [n \in DOMAIN ids |->
                      Moves("sale_order_cancel", o, tkLines[ids[n]].product, 1)]
<1>1. RecordMovements(rows) /\ tkLines' = Flagged(A, FALSE)
  BY DEF GiveStockBack, MapSeq
<1>2. /\ S \subseteq A /\ A \subseteq ProductLinesOfSale(o)
      /\ \A l \in A : /\ l \in DOMAIN tkLines /\ l \in Nat /\ tkLines[l].product \in Products
                      /\ tkLines[l].order = o /\ tkLines[l].applied = TRUE
      /\ \A k, l \in S : tkLines[k].product = tkLines[l].product => k = l
      /\ \A l \in A : ~HasMovement("sale_order_cancel", o, tkLines[l].product) =>
           \E k \in S : tkLines[k].product = tkLines[l].product
  BY GivenBackProducts
<1>3. S \subseteq DOMAIN tkLines /\ S \subseteq Nat /\ IsFiniteSet(S) /\ o \in Nat
  BY <1>2, PositionsFinite, TikTokRows DEF TikTokTypeOK
<1>4. \A n \in DOMAIN ids : ids[n] \in S
  BY <1>3, IdsInOrder
<1>5. rows = [n \in DOMAIN ids |-> Moves("sale_order_cancel", o, prod[ids[n]], 1)]
  BY <1>3, <1>4
<1>6. rows = ReturnsOf(S, prod, o)
  BY <1>5 DEF ReturnsOf
<1>7. move \in [S -> LineMovementRow]
  <2>1. \A l \in S : Moves("sale_order_cancel", o, tkLines[l].product, 1) \in LineMovementRow
    BY <1>2, <1>3, MovesType
  <2> QED
    BY <2>1
<1>8. rows = [n \in DOMAIN ids |-> move[ids[n]]]
  BY <1>4
<1>9. \A l \in DOMAIN tkLines : prod[l] = tkLines[l].product
  OBVIOUS
<1>10. \A p : p \in G <=> \E l \in S : prod[l] = p
  OBVIOUS
<1>11. \A l \in S : ~HasMovement("sale_order_cancel", o, tkLines[l].product)
  BY DEF GivenBack
<1> HIDE DEF S, A, move, rows, prod, G
<1>12. rows \in Seq(LineMovementRow)
  BY <1>3, <1>7, <1>8, LineMovesType
<1>13. rows \in Seq(MovementRow) /\ movements \in Seq(MovementRow)
  BY <1>12 DEF LineMovementRow, StockType
<1>14. \A k, l \in S : prod[k] = prod[l] => k = l
  BY <1>2, <1>3, <1>9
<1>15. GivesBack(movements, movements \o rows, o, G)
  BY <1>3, <1>6, <1>10, <1>13, <1>14, ReturnsRecorded
<1>16. GivesBack(movements, movements', o, G)
  BY <1>1, <1>15 DEF RecordMovements
<1>17. ASSUME NEW l \in DOMAIN tkLines
       PROVE  /\ tkLines'[l].order = tkLines[l].order
              /\ tkLines'[l].product = tkLines[l].product
              /\ l \notin A => tkLines'[l] = tkLines[l]
              /\ l \in A => tkLines'[l].applied = FALSE
  <2>1. tkLines[l] \in TikTokLine
    BY TikTokRows
  <2>2. tkLines'[l] = IF l \in A THEN [tkLines[l] EXCEPT !.applied = FALSE] ELSE tkLines[l]
    BY <1>1 DEF Flagged
  <2> QED
    BY <2>1, <2>2 DEF TikTokLine
<1>18. \A p : p \in G =>
         /\ BackRows(movements, o, p) = {}
         /\ p \in Products
         /\ \E l \in DOMAIN tkLines :
              tkLines[l].order = o /\ tkLines[l].product = p /\ tkLines[l].applied = TRUE
  <2> SUFFICES ASSUME NEW p \in G
               PROVE  /\ BackRows(movements, o, p) = {} /\ p \in Products
                      /\ \E l \in DOMAIN tkLines :
                           /\ tkLines[l].order = o /\ tkLines[l].product = p
                           /\ tkLines[l].applied = TRUE
    OBVIOUS
  <2>1. PICK l \in S : prod[l] = p
    BY <1>10
  <2>2. l \in A /\ l \in DOMAIN tkLines /\ tkLines[l].product = p
    BY <1>2, <1>3, <1>9, <2>1
  <2>3. BackRows(movements, o, p) = {}
    BY <1>11, <2>1, <2>2, RowsLookedUp
  <2> QED
    BY <1>2, <2>2, <2>3
<1>19. ASSUME NEW l \in DOMAIN tkLines, tkLines[l].order = o
       PROVE  \/ tkLines'[l] = tkLines[l] /\ tkLines[l].product \notin G
              \/ tkLines'[l].applied = FALSE
  <2>1. CASE l \in A
    BY <1>17, <2>1
  <2>2. CASE l \notin A /\ tkLines[l].product \in G
    <3>1. tkLines[l] \in TikTokLine
      BY TikTokRows
    <3>2. tkLines[l].product # NoProduct
      BY <1>18, <2>2, TikTokConstants
    <3>3. tkLines[l].applied = FALSE
      BY <1>19, <2>2, <3>1, <3>2
         DEF A, AppliedOfSale, ProductLinesOfSale, LinesOfSale, TikTokLine
    <3> QED
      BY <1>17, <2>2, <3>3
  <2> QED
    BY <1>17, <2>1, <2>2
<1>20. ASSUME NEW l \in DOMAIN tkLines, tkLines[l].order = o, tkLines[l].product \notin G,
              BackRows(movements, o, tkLines[l].product) = {}
       PROVE  tkLines'[l] = tkLines[l]
  <2>1. CASE l \in A
    <3>1. ~HasMovement("sale_order_cancel", o, tkLines[l].product)
      BY <1>20, RowsLookedUp
    <3>2. PICK k \in S : tkLines[k].product = tkLines[l].product
      BY <1>2, <2>1, <3>1
    <3>3. tkLines[l].product \in G
      BY <1>3, <1>9, <1>10, <3>2
    <3> QED
      BY <1>20, <3>3
  <2> QED
    BY <1>17, <2>1
<1>21. ASSUME NEW l \in DOMAIN tkLines, tkLines[l].order # o
       PROVE  tkLines'[l] = tkLines[l]
  BY <1>2, <1>17, <1>21
<1>22. DOMAIN tkLines' = DOMAIN tkLines
  BY <1>1 DEF Flagged
<1>23. LinesGivenBack(movements, tkLines, tkLines', o, G)
  BY <1>17, <1>18, <1>19, <1>20, <1>21, <1>22 DEF LinesGivenBack
<1> QED
  BY <1>16, <1>23 DEF SoundlyGivenBack

LEMMA SoundGivenBack ==
  ASSUME TikTokTypeOK, StockSound, UNCHANGED <<tkOrders, corrected>>,
         NEW q \in DOMAIN tkOrders, SoundlyGivenBack(q)
  PROVE  /\ SalesSound' /\ RowsNamed'
         /\ \A o : GaveSome(movements', o) => GaveSome(movements, o) \/ o = q
<1>1. PICK G : /\ GivesBack(movements, movements', q, G)
               /\ LinesGivenBack(movements, tkLines, tkLines', q, G)
  BY DEF SoundlyGivenBack
<1>2. SalesSound'
  <2>1. ASSUME NEW o \in DOMAIN tkOrders, tkOrders[o].ref \notin corrected
        PROVE  SaleSound(movements', tkLines', o)
    <3>1. SaleSound(movements, tkLines, o)
      BY <2>1 DEF StockSound, SalesSound
    <3> QED
      BY <1>1, <3>1, SaleSoundGivenBack
  <2> QED
    BY <2>1 DEF SalesSound
<1>3. RowsNamed'
  BY <1>1 DEF GivesBack, RowsNamed, StockSound, LinesGivenBack, LineReferences
<1>4. \A o : GaveSome(movements', o) => GaveSome(movements, o) \/ o = q
  BY <1>1 DEF GivesBack, GaveSome
<1> QED
  BY <1>2, <1>3, <1>4

-----------------------------------------------------------------------------
(* Corrections, the application of the session, new lines and orders *)

(***************************************************************************)
(* What a thread has read is still so: of an import, which lots TikTok     *)
(* cancelled; of a correction and of the session's application, the lines. *)
(***************************************************************************)
ImportCurrent(w, rem, orders, ms) ==
  /\ \A n \in DOMAIN w.rows : w.rows[n].status = "cancelled" =>
       rem[w.rows[n].lot] = "cancelled"
  /\ \A n \in DOMAIN w.rows, o \in DOMAIN orders :
       orders[o].ref = w.rows[n].lot /\ GaveSome(ms, o) =>
         w.rows[n].status = "cancelled"
  /\ w.step \in {"sync", "settle"} /\ Head(w.rows).status = "cancelled" =>
       orders[w.order].state = "cancel"

LineCurrent(w, orders, lines) ==
  /\ orders[lines[w.line].order].state # "cancel"
  /\ w.applied = lines[w.line].applied
  /\ lines[w.line].product # NoProduct => w.old = lines[w.line].product

LinesStillRead(w, lines) ==
  \A r \in w.read :
    /\ r.linked <=> lines[r.id].product = NoProduct
    /\ ~r.linked => r.product = lines[r.id].product

StillSo(w, rem, orders, lines, ms) ==
  /\ w.op = "import" => ImportCurrent(w, rem, orders, ms)
  /\ w.op = "correct" /\ w.step = "read" => w.line = 0
  /\ w.op = "correct" /\ w.line # 0 => LineCurrent(w, orders, lines)
  /\ w.op = "session" => LinesStillRead(w, lines)

(***************************************************************************)
(* The rows recorded for one line.                                         *)
(***************************************************************************)
RowsOfLine(l) == {r \in LineMovementRow : r.reference \in LineReferences /\ r.id = l}

LEMMA OneLineRecorded ==
  ASSUME StockType, NEW l, NEW rows \in Seq(RowsOfLine(l)),
         movements' = movements \o rows
  PROVE  Recorded(movements, movements', {l})
<1>1. \A n \in DOMAIN rows : rows[n] \in RowsOfLine(l)
  BY LenProperties, ElementOfSeq
<1>2. rows \in Seq(MovementRow) /\ movements \in Seq(MovementRow)
  BY DEF StockType, RowsOfLine, LineMovementRow
<1>3. /\ \A k : k # l => LineRows(rows, k) = {}
      /\ \A o, p : BackRows(rows, o, p) = {}
      /\ \A n \in DOMAIN rows : rows[n].reference # "sale_order_cancel" /\ rows[n].id = l
  BY <1>1 DEF RowsOfLine, LineRows, BackRows, LineReferences
<1>4. \A k : k # l => SameForLine(movements, movements', k)
  BY <1>2, <1>3, NoRowForLine
<1>5. \A o : SameForReturn(movements, movements', o)
  BY <1>2, <1>3, NoRowForReturn DEF SameForReturn
<1>6. \A n \in DOMAIN movements' :
        \/ n \in DOMAIN movements /\ movements'[n] = movements[n]
        \/ \E k \in DOMAIN rows : movements'[n] = rows[k]
  BY <1>2, OldOrAdded
<1> QED
  BY <1>3, <1>4, <1>5, <1>6 DEF Recorded

LEMMA CorrectionRecorded ==
  ASSUME TikTokTypeOK, StockType, NEW h \in Agents, CorrectLine(h), agent[h].line # 0
  PROVE  /\ Recorded(movements, movements', {agent[h].line})
         /\ agent[h].line \in DOMAIN tkLines
         /\ movements' = movements
              \o (SwapIn(agent[h]) \o SwapOut(agent[h]) \o FirstDeduction(agent[h]))
<1> DEFINE w == agent[h]
           l == w.line
           in == SwapIn(w)
           out == SwapOut(w)
           taken == FirstDeduction(w)
<1>1. At(h, "correct", "write") /\ RecordMovements(in \o out \o taken)
  BY DEF CorrectLine
<1>2. w \in CorrectionWork(DOMAIN tkLines)
  BY <1>1, AtCorrection
<1>3. /\ l \in DOMAIN tkLines /\ l \in Nat /\ w.product \in Products
      /\ w.old \in Products \cup {NoProduct} /\ w.due \in BOOLEAN /\ w.applied \in BOOLEAN
  BY <1>2, TikTokRows DEF CorrectionWork
<1> HIDE DEF w
<1>4. ASSUME NEW reference \in LineReferences, NEW p \in Products, NEW delta \in {1, -1}
      PROVE  <<Moves(reference, l, p, delta)>> \in Seq(RowsOfLine(l))
  <2>1. Moves(reference, l, p, delta) \in LineMovementRow
    BY <1>3, MovesType DEF LineReferences
  <2>2. Moves(reference, l, p, delta) \in RowsOfLine(l)
    BY <2>1 DEF Moves, RowsOfLine
  <2> QED
    BY <2>2
<1>5. in \in Seq(RowsOfLine(l))
  BY <1>3, <1>4, EmptySeq DEF SwapIn, LineReferences
<1>6. out \in Seq(RowsOfLine(l))
  BY <1>3, <1>4, EmptySeq DEF SwapOut, LineReferences
<1>7. taken \in Seq(RowsOfLine(l))
  BY <1>3, <1>4, EmptySeq DEF FirstDeduction, LineReferences
<1> HIDE DEF in, out, taken
<1>8. in \o out \o taken \in Seq(RowsOfLine(l))
  BY <1>5, <1>6, <1>7, ConcatProperties
<1>9. movements' = movements \o (in \o out \o taken)
  BY <1>1 DEF RecordMovements
<1>10. Recorded(movements, movements', {l})
  BY <1>8, <1>9, OneLineRecorded
<1> QED
  BY <1>3, <1>9, <1>10 DEF w, in, out, taken

(***************************************************************************)
(* The corrected line, unless the correction parts the lot from its stock. *)
(***************************************************************************)
LEMMA CorrectedLineGoesOn ==
  ASSUME TikTokTypeOK, StockType, WorkBelongs, StockSound, NEW h \in Agents, CorrectLine(h),
         StillSo(agent[h], remote, tkOrders, tkLines, movements),
         NEW l, l = agent[h].line, l # 0,
         tkOrders[tkLines[l].order].ref \notin corrected',
         SaleSound(movements, tkLines, tkLines[l].order)
  PROVE  /\ LineGoesOn(movements, movements', tkLines, tkLines', l)
         /\ LineRows(movements, l) # {} => tkLines'[l].product = tkLines[l].product
<1> DEFINE w == agent[h]
           o == tkLines[l].order
           in == SwapIn(w)
           out == SwapOut(w)
           taken == FirstDeduction(w)
<1>1. /\ At(h, "correct", "write")
      /\ tkLines' = [tkLines EXCEPT ![l] = Corrected(tkLines[l], w)]
      /\ corrected' = IF (w.applied /\ w.old # w.product) \/ TakesForNone(w)
                        THEN corrected \cup {w.lot} ELSE corrected
  BY DEF CorrectLine
<1>2. w \in CorrectionWork(DOMAIN tkLines)
  BY <1>1, AtCorrection
<1>3. /\ l \in DOMAIN tkLines /\ w.product \in Products
      /\ w.old \in Products \cup {NoProduct} /\ w.due \in BOOLEAN /\ w.applied \in BOOLEAN
      /\ w.op = "correct" /\ w.lot \in LotOrders
  BY <1>2 DEF CorrectionWork
<1>4. tkLines[l] \in TikTokLine /\ o \in DOMAIN tkOrders
  BY <1>3, TikTokRows
<1>5. /\ tkOrders[o].state # "cancel"
      /\ w.applied = tkLines[l].applied
      /\ tkLines[l].product # NoProduct => w.old = tkLines[l].product
  BY <1>3 DEF StillSo, LineCurrent
<1>6. tkOrders[o].ref = w.lot
  BY <1>3 DEF WorkBelongs, About
<1>7. ~(w.applied /\ w.old # w.product) /\ ~TakesForNone(w)
  BY <1>1, <1>6
<1>8. BackRows(movements, o, tkLines[l].product) = {}
  <2>1. ~GaveSome(movements, o)
    BY <1>3, <1>4, <1>5, <1>6 DEF StockSound, LiveEnded
  <2> QED
    BY <2>1, GaveSomeRow
<1>9. w.applied <=> LineRows(movements, l) # {}
  BY <1>3, <1>5, <1>8 DEF SaleSound, LineSound
<1>10. movements' = movements \o (in \o out \o taken)
  BY CorrectionRecorded
<1>11. in = << >> /\ out = << >>
  BY <1>7 DEF SwapIn, SwapOut
<1>12. tkLines'[l] = Corrected(tkLines[l], w)
  BY <1>1, <1>3
<1>13. /\ tkLines'[l].order = o
       /\ tkLines'[l].product = IF w.old = w.product THEN tkLines[l].product ELSE w.product
       /\ tkLines'[l].applied = (w.applied \/ (w.due /\ ~w.applied))
  BY <1>4, <1>5, <1>12 DEF Corrected, TikTokLine
<1>14. taken \in Seq(MovementRow) /\ movements \in Seq(MovementRow)
  <2>1. l \in Nat
    BY <1>3, TikTokRows
  <2>2. Moves("sale_order_line", w.line, w.product, -1) \in MovementRow
    BY <1>3, <2>1, MovesType DEF LineMovementRow
  <2> HIDE DEF w
  <2> QED
    BY <2>2, EmptySeq DEF FirstDeduction, StockType
<1> HIDE DEF in, out, o
<1>15. movements' = movements \o taken
  <2>1. in \o out \o taken = taken
    BY <1>11, <1>14
  <2> QED
    BY <1>10, <2>1
<1>16. taken = << >> => SameForLine(movements, movements', l)
  <2>1. ASSUME taken = << >> PROVE movements' = movements
    BY <1>14, <1>15, <2>1
  <2> QED
    BY <2>1 DEF SameForLine
<1>17. CASE w.applied
  <2>1. taken = << >>
    BY <1>17 DEF FirstDeduction
  <2>2. tkLines'[l].applied = TRUE /\ tkLines'[l].product = tkLines[l].product
    BY <1>7, <1>13, <1>17
  <2>3. LineFlagged(movements, tkLines, tkLines', l)
    BY <1>3, <1>9, <1>13, <1>17, <2>2 DEF LineFlagged, o
  <2> QED
    BY <1>16, <2>1, <2>2, <2>3 DEF LineGoesOn
<1>18. CASE ~w.applied /\ ~w.due
  <2>1. taken = << >>
    BY <1>18 DEF FirstDeduction
  <2>2. tkLines'[l].applied = FALSE
    BY <1>13, <1>18
  <2> QED
    BY <1>9, <1>16, <1>18, <2>1, <2>2 DEF LineGoesOn, LineWithout
<1>19. CASE ~w.applied /\ w.due
  <2>1. LineRows(movements, l) = {}
    BY <1>9, <1>19
  <2>2. ~HasMovement("sale_order_line", l, w.product)
    BY <2>1, RowsLookedUp
  <2>3. taken = <<Moves("sale_order_line", l, w.product, -1)>>
    BY <1>19, <2>2 DEF FirstDeduction
  <2>4. Took(taken, l, w.product)
    <3>1. DOMAIN taken = {1} /\ taken[1] = Moves("sale_order_line", l, w.product, -1)
      BY <2>3
    <3>2. LineRows(taken, l) = {1}
      BY <3>1 DEF LineRows, LineReferences, Moves
    <3> QED
      BY <3>1, <3>2 DEF Took
  <2>5. LineRows(movements', l) # {} /\ Took(movements', l, w.product)
    <3> HIDE DEF taken
    <3> QED
      BY <1>14, <1>15, <2>1, <2>4, FirstRowForLine
  <2>6. tkLines'[l].product = w.product
    <3>1. CASE w.old = w.product
      <4>1. tkLines[l].product # NoProduct
        BY <1>7, <1>19, <3>1 DEF TakesForNone
      <4> QED
        BY <1>5, <1>13, <3>1, <4>1
    <3>2. CASE w.old # w.product
      BY <1>13, <3>2
    <3> QED
      BY <3>1, <3>2
  <2>7. tkLines'[l].applied = TRUE
    BY <1>13, <1>19
  <2> QED
    BY <2>1, <2>5, <2>6, <2>7 DEF LineGoesOn, LineDeducted
<1> QED
  BY <1>3, <1>17, <1>18, <1>19

LEMMA CorrectLineSoundly ==
  ASSUME TikTokTypeOK, StockType, WorkBelongs, StockSound, NEW h \in Agents, CorrectLine(h),
         StillSo(agent[h], remote, tkOrders, tkLines, movements)
  PROVE  SoundlyTaken(corrected') /\ corrected \subseteq corrected'
<1> DEFINE l == agent[h].line
<1>1. corrected \subseteq corrected'
  BY DEF CorrectLine
<1>2. CASE l = 0
  BY <1>1, <1>2, NothingTaken DEF CorrectLine
<1>3. CASE l # 0
  <2>1. Recorded(movements, movements', {l}) /\ l \in DOMAIN tkLines
    BY <1>3, CorrectionRecorded
  <2>2. tkLines' = [tkLines EXCEPT ![l] = Corrected(tkLines[l], agent[h])]
    BY <1>3 DEF CorrectLine
  <2>3. /\ DOMAIN tkLines' = DOMAIN tkLines
        /\ \A k \in DOMAIN tkLines : k # l => tkLines'[k] = tkLines[k]
        /\ tkLines'[l] = Corrected(tkLines[l], agent[h])
    BY <2>1, <2>2
  <2>4. tkLines'[l].order = tkLines[l].order
    <3>1. tkLines[l] \in TikTokLine
      BY <2>1, TikTokRows
    <3> QED
      BY <2>3, <3>1 DEF Corrected, TikTokLine
  <2>5. \A k : k # l => SameForLine(movements, movements', k)
    BY <2>1 DEF Recorded
  <2> HIDE DEF l
  <2>6. ASSUME NEW o \in DOMAIN tkOrders, tkOrders[o].ref \notin corrected',
               SaleSound(movements, tkLines, o)
        PROVE  LinesGoOn(movements, movements', tkLines, tkLines', o)
    <3>1. tkLines[l].order = o =>
            /\ LineGoesOn(movements, movements', tkLines, tkLines', l)
            /\ LineRows(movements, l) # {} => tkLines'[l].product = tkLines[l].product
      BY <1>3, <2>6, CorrectedLineGoesOn DEF l
    <3>2. \A k \in DOMAIN tkLines : k # l =>
            LineGoesOn(movements, movements', tkLines, tkLines', k)
      BY <2>3, <2>5 DEF LineGoesOn, LineStays
    <3> QED
      BY <2>3, <2>4, <3>1, <3>2 DEF LinesGoOn
  <2>7. {l} \in SUBSET DOMAIN tkLines'
    BY <2>1, <2>3
  <2> QED
    BY <1>1, <2>1, <2>6, <2>7 DEF SoundlyTaken
<1> QED
  BY <1>2, <1>3

(***************************************************************************)
(* A line that names no product has taken no stock.                        *)
(***************************************************************************)
LEMMA NoneForNoProduct ==
  ASSUME StockType, NEW l, NEW lines, LineSound(movements, lines, l),
         lines[l].product = NoProduct
  PROVE  LineRows(movements, l) = {}
<1> SUFFICES ASSUME LineRows(movements, l) # {} PROVE FALSE
  OBVIOUS
<1>1. PICK n \in DOMAIN movements : movements[n] = Moves("sale_order_line", l, NoProduct, -1)
  BY DEF LineSound, Took
<1>2. movements[n] \in MovementRow
  BY LenProperties, ElementOfSeq DEF StockType
<1> QED
  BY <1>1, <1>2, TikTokConstants DEF Moves, MovementRow

LEMMA ApplySessionRows ==
  ASSUME TikTokTypeOK, StockType, NEW h \in Agents, ApplySession(h),
         NEW rows, rows = {r \in agent[h].read : r.product # NoProduct},
         NEW lines, lines = {r.id : r \in rows},
         NEW due, due = {l \in lines :
                           ~HasMovement("sale_order_line", l, ReadOf(rows, l).product)}
  PROVE  /\ lines \subseteq DOMAIN tkLines
         /\ Deducts(movements, movements', due, [l \in lines |-> ReadOf(rows, l).product])
         /\ tkLines' = [l \in DOMAIN tkLines |->
              IF l \notin lines THEN tkLines[l]
              ELSE [tkLines[l] EXCEPT !.applied = TRUE,
                      !.product = IF ReadOf(rows, l).linked
                                    THEN ReadOf(rows, l).product ELSE @]]
<1> DEFINE w == agent[h]
           prod == [l \in lines |-> ReadOf(rows, l).product]
           ids == InIdOrder(due)
           move == [l \in due |-> Moves("sale_order_line", l, ReadOf(rows, l).product, -1)]
           moved == [n \in DOMAIN ids |->
                       Moves("sale_order_line", ids[n], ReadOf(rows, ids[n]).product, -1)]
<1>1. /\ At(h, "session", "write") /\ RecordMovements(moved)
      /\ tkLines' = [l \in DOMAIN tkLines |->
              IF l \notin lines THEN tkLines[l]
              ELSE [tkLines[l] EXCEPT !.applied = TRUE,
                      !.product = IF ReadOf(rows, l).linked
                                    THEN ReadOf(rows, l).product ELSE @]]
  BY ZenonT(60) DEF ApplySession, MapSeq
<1>2. w \in ApplicationWork(DOMAIN tkLines)
  BY <1>1, ThreadOf DEF At
<1>3. \A r \in rows : r.id \in DOMAIN tkLines /\ r.product \in Products
  BY <1>2 DEF ApplicationWork
<1>4. lines \subseteq DOMAIN tkLines /\ due \subseteq lines
  BY <1>3
<1>5. due \subseteq DOMAIN tkLines /\ due \subseteq Nat /\ IsFiniteSet(due)
  BY <1>4, PositionsFinite DEF TikTokTypeOK
<1>6. \A n \in DOMAIN ids : ids[n] \in due
  BY <1>5, IdsInOrder, ZenonT(60)
<1>7. moved = [n \in DOMAIN ids |-> Moves("sale_order_line", ids[n], prod[ids[n]], -1)]
  BY <1>4, <1>6
<1>8. moved = DeductionsOf(due, prod)
  BY <1>7 DEF DeductionsOf
<1>9. move \in [due -> LineMovementRow]
  <2>1. ASSUME NEW l \in due
        PROVE  Moves("sale_order_line", l, ReadOf(rows, l).product, -1) \in LineMovementRow
    <3>1. l \in {r.id : r \in rows} /\ l \in Nat
      BY <1>4, <1>5
    <3>2. ReadOf(rows, l) \in rows
      BY <3>1, ReadOfLine
    <3> QED
      BY <1>3, <3>1, <3>2, MovesType
  <2> QED
    BY <2>1
<1>10. moved = [n \in DOMAIN ids |-> move[ids[n]]]
  BY <1>6
<1> HIDE DEF move, moved, prod
<1>15. [n \in DOMAIN InIdOrder(due) |-> move[InIdOrder(due)[n]]] \in Seq(LineMovementRow)
  BY ONLY TikTokTypeOK, <1>5, <1>9, LineMovesType
<1>11. moved \in Seq(LineMovementRow)
  BY <1>10, <1>15
<1>12. moved \in Seq(MovementRow) /\ movements \in Seq(MovementRow)
  BY <1>11 DEF LineMovementRow, StockType
<1>13. Deducts(movements, movements \o moved, due, prod)
  BY <1>5, <1>8, <1>12, DeductionsRecorded
<1>14. Deducts(movements, movements', due, prod)
  BY <1>1, <1>13 DEF RecordMovements
<1> QED
  BY <1>1, <1>4, <1>14, ZenonT(60) DEF prod

LEMMA ApplySessionSoundly ==
  ASSUME TikTokTypeOK, StockType, NEW h \in Agents, ApplySession(h),
         StillSo(agent[h], remote, tkOrders, tkLines, movements), NEW out
  PROVE  SoundlyTaken(out)
<1> DEFINE rows == {r \in agent[h].read : r.product # NoProduct}
           lines == {r.id : r \in rows}
           due == {l \in lines :
                     ~HasMovement("sale_order_line", l, ReadOf(rows, l).product)}
           prod == [l \in lines |-> ReadOf(rows, l).product]
<1>1. /\ lines \subseteq DOMAIN tkLines
      /\ Deducts(movements, movements', due, prod)
      /\ tkLines' = [l \in DOMAIN tkLines |->
              IF l \notin lines THEN tkLines[l]
              ELSE [tkLines[l] EXCEPT !.applied = TRUE,
                      !.product = IF ReadOf(rows, l).linked
                                    THEN ReadOf(rows, l).product ELSE @]]
  BY ApplySessionRows, ZenonT(60)
<1>2. agent[h].op = "session"
  BY DEF ApplySession, At
<1>3. \A r \in rows :
        /\ r.linked <=> tkLines[r.id].product = NoProduct
        /\ ~r.linked => r.product = tkLines[r.id].product
  BY <1>2 DEF StillSo, LinesStillRead
<1>4. \A l \in lines : l \in due <=>
        ~HasMovement("sale_order_line", l, ReadOf(rows, l).product)
  OBVIOUS
<1>5. \A l \in lines : ReadOf(rows, l) \in rows /\ ReadOf(rows, l).id = l
  BY ReadOfLine
<1>6. due \subseteq lines /\ \A l \in lines : prod[l] = ReadOf(rows, l).product
  OBVIOUS
<1> HIDE DEF rows, lines, due, prod
<1>7. DOMAIN tkLines' = DOMAIN tkLines
  BY <1>1
<1>8. ASSUME NEW l \in DOMAIN tkLines
      PROVE  /\ l \notin lines => tkLines'[l] = tkLines[l]
             /\ tkLines'[l].order = tkLines[l].order
             /\ l \in lines =>
                  /\ tkLines'[l].applied = TRUE
                  /\ tkLines'[l].product = ReadOf(rows, l).product
                  /\ tkLines[l].product # NoProduct =>
                       tkLines'[l].product = tkLines[l].product
  <2>1. tkLines[l] \in TikTokLine
    BY TikTokRows
  <2>2. CASE l \notin lines
    BY <1>1, <2>2
  <2>3. CASE l \in lines
    <3> DEFINE r == ReadOf(rows, l)
    <3>1. /\ r.linked <=> tkLines[l].product = NoProduct
          /\ ~r.linked => r.product = tkLines[l].product
      BY <1>3, <1>5, <2>3
    <3>2. tkLines'[l] = [tkLines[l] EXCEPT !.applied = TRUE,
                           !.product = IF r.linked THEN r.product ELSE @]
      BY <1>1, <2>3
    <3> HIDE DEF r
    <3>3. /\ tkLines'[l].order = tkLines[l].order /\ tkLines'[l].applied = TRUE
          /\ tkLines'[l].product = IF r.linked THEN r.product ELSE tkLines[l].product
      BY <2>1, <3>2 DEF TikTokLine
    <3> QED
      BY <2>3, <3>1, <3>3 DEF r
  <2> QED
    BY <2>2, <2>3
<1>9. ASSUME NEW o \in DOMAIN tkOrders, SaleSound(movements, tkLines, o)
      PROVE  LinesGoOn(movements, movements', tkLines, tkLines', o)
  <2>1. ASSUME NEW l \in DOMAIN tkLines, tkLines[l].order = o
        PROVE  /\ LineGoesOn(movements, movements', tkLines, tkLines', l)
               /\ LineRows(movements, l) # {} => tkLines'[l].product = tkLines[l].product
    <3>1. l \notin due => SameForLine(movements, movements', l)
      BY <1>1 DEF Deducts, Recorded
    <3>2. LineSound(movements, tkLines, l)
      BY <1>9, <2>1 DEF SaleSound
    <3>3. tkLines[l].product = NoProduct => LineRows(movements, l) = {}
      BY <3>2, NoneForNoProduct
    <3>4. LineRows(movements, l) # {} => tkLines'[l].product = tkLines[l].product
      BY <1>8, <3>3
    <3>5. CASE l \notin lines
      <4>1. l \notin due /\ tkLines'[l] = tkLines[l]
        BY <1>6, <1>8, <3>5
      <4> QED
        BY <3>1, <4>1 DEF LineGoesOn, LineStays
    <3>6. CASE l \in lines /\ LineRows(movements, l) = {}
      <4>1. l \in due
        BY <1>4, <3>6, RowsLookedUp
      <4>2. LineRows(movements', l) # {} /\ Took(movements', l, prod[l])
        BY <1>1, <3>6, <4>1 DEF Deducts
      <4>3. prod[l] = tkLines'[l].product /\ tkLines'[l].applied = TRUE
        BY <1>6, <1>8, <3>6
      <4>4. LineDeducted(movements, movements', tkLines', l)
        BY <3>6, <4>2, <4>3 DEF LineDeducted
      <4> QED
        BY <3>6, <4>4 DEF LineGoesOn
    <3>7. CASE l \in lines /\ LineRows(movements, l) # {}
      <4>1. Took(movements, l, tkLines[l].product)
        BY <3>2, <3>7 DEF LineSound
      <4>2. HasMovement("sale_order_line", l, tkLines[l].product)
        BY <4>1, RowsLookedUp
      <4>3. ReadOf(rows, l).product = tkLines[l].product
        BY <1>8, <3>4, <3>7
      <4>4. l \notin due
        BY <1>4, <3>7, <4>2, <4>3
      <4>5. LineFlagged(movements, tkLines, tkLines', l)
        BY <1>8, <2>1, <3>4, <3>7 DEF LineFlagged
      <4> QED
        BY <3>1, <3>4, <4>4, <4>5 DEF LineGoesOn
    <3> QED
      BY <3>4, <3>5, <3>6, <3>7
  <2> QED
    BY <1>7, <1>8, <2>1 DEF LinesGoOn
<1>10. due \in SUBSET DOMAIN tkLines'
  BY <1>1, <1>6, <1>7
<1> QED
  BY <1>1, <1>9, <1>10 DEF SoundlyTaken, Deducts

(***************************************************************************)
(* A new line has taken no stock, and no order of TikTok's is recorded     *)
(* about before it is created.                                             *)
(***************************************************************************)
LEMMA NewLineSoundly ==
  ASSUME TikTokTypeOK, StockSound, NEW row, tkLines' = Append(tkLines, row),
         row.applied = FALSE, NoMovement, NEW out
  PROVE  SoundlyTaken(out)
<1>1. /\ DOMAIN tkLines' = DOMAIN tkLines \cup {Len(tkLines) + 1}
      /\ Len(tkLines) + 1 \notin DOMAIN tkLines
      /\ tkLines'[Len(tkLines) + 1] = row
      /\ \A n \in DOMAIN tkLines : tkLines'[n] = tkLines[n]
  BY AppendedRow DEF TikTokTypeOK
<1>2. Recorded(movements, movements', {})
  BY NothingRecorded DEF NoMovement, Deducts
<1>3. LineRows(movements, Len(tkLines) + 1) = {}
  BY <1>1 DEF StockSound, RowsNamed, LineRows
<1>4. \A l : SameForLine(movements, movements', l)
  BY <1>2 DEF Recorded
<1>5. \A l \in DOMAIN tkLines' : LineGoesOn(movements, movements', tkLines, tkLines', l)
  BY <1>1, <1>3, <1>4 DEF LineGoesOn, LineStays, LineWithout
<1>6. \A o : LinesGoOn(movements, movements', tkLines, tkLines', o)
  BY <1>1, <1>5 DEF LinesGoOn
<1> QED
  BY <1>2, <1>6 DEF SoundlyTaken

LEMMA NewSaleSound ==
  ASSUME TikTokTypeOK, StockSound, NEW row, tkOrders' = Append(tkOrders, row),
         NoMovement, UNCHANGED <<tkLines, corrected>>
  PROVE  SalesSound' /\ RowsNamed' /\ \A o : GaveSome(movements', o) => GaveSome(movements, o)
<1>1. /\ DOMAIN tkOrders' = DOMAIN tkOrders \cup {Len(tkOrders) + 1}
      /\ Len(tkOrders) + 1 \notin DOMAIN tkOrders
      /\ \A n \in DOMAIN tkOrders : tkOrders'[n] = tkOrders[n]
  BY AppendedRow DEF TikTokTypeOK
<1>2. ASSUME NEW o, o \notin DOMAIN tkOrders PROVE SaleSound(movements, tkLines, o)
  <2>1. \A l \in DOMAIN tkLines : tkLines[l].order # o
    BY <1>2, TikTokRows
  <2>2. \A p : BackRows(movements, o, p) = {}
    BY <1>2 DEF StockSound, RowsNamed, BackRows
  <2> QED
    BY <2>1, <2>2 DEF SaleSound
<1>3. \A o \in DOMAIN tkOrders' : tkOrders'[o].ref \notin corrected' =>
        SaleSound(movements', tkLines', o)
  BY <1>1, <1>2 DEF StockSound, SalesSound, NoMovement
<1> QED
  BY <1>1, <1>3 DEF SalesSound, RowsNamed, StockSound, NoMovement

-----------------------------------------------------------------------------
(* What a thread has read stays so *)

(***************************************************************************)
(* Steps of other threads leave the orders, the lines and the returns of   *)
(* what a thread is at work on alone.                                      *)
(***************************************************************************)
LEMMA StillSoKept ==
  ASSUME NEW w, NEW orders, NEW lines, NEW ms, NEW rem,
         NEW orders2, NEW lines2, NEW ms2, NEW rem2,
         IsWork(w, DOMAIN orders, DOMAIN lines), About(w, orders, lines),
         StillSo(w, rem, orders, lines, ms),
         \A l \in DOMAIN lines : lines[l].order \in DOMAIN orders,
         \A o \in DOMAIN orders :
           orders[o].ref \in Concerns(w) => orders2[o] = orders[o],
         \A l \in DOMAIN lines :
           orders[lines[l].order].ref \in Concerns(w) => lines2[l] = lines[l],
         \A o \in DOMAIN orders2 :
           orders2[o].ref \in Concerns(w) /\ GaveSome(ms2, o) =>
             o \in DOMAIN orders /\ orders[o].ref = orders2[o].ref /\ GaveSome(ms, o),
         \A t \in LotOrders : rem[t] = "cancelled" => rem2[t] = "cancelled"
  PROVE  StillSo(w, rem2, orders2, lines2, ms2)
<1> DEFINE O == DOMAIN orders
           L == DOMAIN lines
<1>1. CASE w = Free
  BY <1>1 DEF Free, StillSo
<1>2. CASE IsImport(w, O)
  <2>1. /\ w \in ImportWork(O) /\ w.op = "import" /\ w.rows # << >>
        /\ w.step \in {"sync", "settle"} => w.order \in O
    BY <1>2 DEF IsImport, ImportWork
  <2>2. \A n \in DOMAIN w.rows : w.rows[n].lot \in Concerns(w)
    BY <2>1 DEF Concerns
  <2>3. Head(w.rows).lot \in Concerns(w)
    <3> HIDE DEF O
    <3> QED
      BY <2>1, HeadConcerns
  <2>4. w.step \in {"sync", "settle"} => orders[w.order].ref = Head(w.rows).lot
    BY <2>1 DEF About
  <2>5. w.step \in {"sync", "settle"} => orders2[w.order] = orders[w.order]
    BY <2>1, <2>3, <2>4
  <2>6. ImportCurrent(w, rem, orders, ms)
    BY <2>1 DEF StillSo
  <2>11. \A n \in DOMAIN w.rows : w.rows[n].lot \in LotOrders
    <3>1. w.rows \in Seq(ImportRow)
      BY <2>1 DEF ImportWork
    <3>2. \A n \in DOMAIN w.rows : w.rows[n] \in ImportRow
      BY ONLY <3>1, ElementOfSeq, LenProperties
    <3> QED
      BY <3>2 DEF ImportRow
  <2>7. \A n \in DOMAIN w.rows : w.rows[n].status = "cancelled" =>
          rem2[w.rows[n].lot] = "cancelled"
    BY <2>6, <2>11 DEF ImportCurrent
  <2>8. \A n \in DOMAIN w.rows, o \in DOMAIN orders2 :
          orders2[o].ref = w.rows[n].lot /\ GaveSome(ms2, o) =>
            w.rows[n].status = "cancelled"
    BY <2>2, <2>6 DEF ImportCurrent
  <2>9. w.step \in {"sync", "settle"} /\ Head(w.rows).status = "cancelled" =>
          orders2[w.order].state = "cancel"
    BY <2>5, <2>6 DEF ImportCurrent
  <2>10. ImportCurrent(w, rem2, orders2, ms2)
    BY <2>7, <2>8, <2>9 DEF ImportCurrent
  <2> QED
    BY <2>1, <2>10 DEF StillSo
<1>3. CASE w \in CorrectionWork(L)
  <2>1. w.op = "correct" /\ w.line \in L \cup {0} /\ w.lot \in Concerns(w)
    BY <1>3 DEF CorrectionWork, Concerns
  <2>2. ASSUME w.line # 0 PROVE LineCurrent(w, orders2, lines2)
    <3>1. w.line \in L /\ orders[lines[w.line].order].ref = w.lot
      BY <2>1, <2>2 DEF About
    <3>2. lines2[w.line] = lines[w.line]
      BY <2>1, <3>1
    <3>3. orders2[lines[w.line].order] = orders[lines[w.line].order]
      BY <2>1, <3>1
    <3>4. LineCurrent(w, orders, lines)
      BY <2>1, <2>2 DEF StillSo
    <3> QED
      BY <3>2, <3>3, <3>4 DEF LineCurrent
  <2>3. w.step = "read" => w.line = 0
    BY <2>1 DEF StillSo
  <2> QED
    BY <2>1, <2>2, <2>3 DEF StillSo
<1>4. CASE w \in ApplicationWork(L)
  <2>1. w.op = "session" /\ Concerns(w) = LotOrders /\ \A r \in w.read : r.id \in L
    BY <1>4 DEF ApplicationWork, Concerns
  <2>2. \A r \in w.read : lines2[r.id] = lines[r.id]
    BY <2>1 DEF About
  <2>3. LinesStillRead(w, lines)
    BY <2>1 DEF StillSo
  <2>4. LinesStillRead(w, lines2)
    BY <2>2, <2>3 DEF LinesStillRead
  <2> QED
    BY <2>1, <2>4 DEF StillSo
<1>5. CASE IsShopImport(w, O)
  BY <1>5 DEF IsShopImport, ShopImportWork, StillSo
<1>6. CASE w \in ReturnWork(O)
  BY <1>6 DEF ReturnWork, StillSo
<1> QED
  BY <1>1, <1>2, <1>3, <1>4, <1>5, <1>6 DEF IsWork, IsLiveWork, IsShopWork

(***************************************************************************)
(* An import goes on with rows it has: the orders its step gave stock back *)
(* of are of rows TikTok cancelled.                                        *)
(***************************************************************************)
RowsFrom(v, w) ==
  \A n \in DOMAIN v.rows : \E m \in DOMAIN w.rows : v.rows[n] = w.rows[m]

Continues(v, w, orders) ==
  /\ v.op = "import" /\ RowsFrom(v, w)
  /\ v.step \in {"sync", "settle"} /\ Head(v.rows).status = "cancelled" =>
       orders[v.order].state = "cancel"

GaveOnlyFor(w) ==
  \A o : GaveSome(movements', o) =>
    \/ GaveSome(movements, o)
    \/ \A n \in DOMAIN w.rows :
         w.rows[n].lot = tkOrders[o].ref => w.rows[n].status = "cancelled"

LEMMA ImportContinues ==
  ASSUME RowsNamed, RefsKept, UNCHANGED remote, NEW w, w.op = "import",
         StillSo(w, remote, tkOrders, tkLines, movements), GaveOnlyFor(w),
         \A o \in DOMAIN tkOrders' \ DOMAIN tkOrders : ~GaveSome(movements', o),
         NEW v, Continues(v, w, tkOrders') \/ v = Free
  PROVE  StillSo(v, remote', tkOrders', tkLines', movements')
<1>1. CASE v = Free
  BY <1>1 DEF Free, StillSo
<1>2. CASE Continues(v, w, tkOrders')
  <2>1. ImportCurrent(w, remote, tkOrders, movements)
    BY DEF StillSo
  <2>2. \A n \in DOMAIN v.rows : v.rows[n].status = "cancelled" =>
          remote'[v.rows[n].lot] = "cancelled"
    BY <1>2, <2>1 DEF Continues, RowsFrom, ImportCurrent
  <2>3. ASSUME NEW n \in DOMAIN v.rows, NEW o \in DOMAIN tkOrders',
               tkOrders'[o].ref = v.rows[n].lot, GaveSome(movements', o)
        PROVE  v.rows[n].status = "cancelled"
    <3>1. o \in DOMAIN tkOrders /\ tkOrders'[o].ref = tkOrders[o].ref
      BY <2>3 DEF RefsKept
    <3>2. PICK m \in DOMAIN w.rows : v.rows[n] = w.rows[m]
      BY <1>2 DEF Continues, RowsFrom
    <3> QED
      BY <2>1, <2>3, <3>1, <3>2 DEF GaveOnlyFor, ImportCurrent
  <2>4. ImportCurrent(v, remote', tkOrders', movements')
    BY <1>2, <2>2, <2>3 DEF ImportCurrent, Continues
  <2> QED
    BY <1>2, <2>4 DEF StillSo, Continues
<1> QED
  BY <1>1, <1>2

LEMMA ToRowContinues ==
  ASSUME NEW S, NEW w \in ImportWork(S), NEW u, RowsFrom(w, u), NEW orders
  PROVE  Continues(ToRow(w), u, orders) \/ ToRow(w) = Free
<1> DEFINE old == w.found[Head(w.rows).lot]
           step == IF old = {} THEN "create" ELSE "update"
           v == [w EXCEPT !.step = step, !.left = old]
<1>1. ToRow(w) = Free \/ ToRow(w) = v
  BY DEF ToRow
<1>2. step \in {"create", "update"}
  OBVIOUS
<1> HIDE DEF old, step
<1>3. v.op = "import" /\ v.rows = w.rows /\ v.step = step
  BY DEF ImportWork
<1> HIDE DEF v
<1>4. Continues(v, u, orders)
  BY <1>2, <1>3 DEF Continues, RowsFrom
<1> QED
  BY <1>1, <1>4

LEMMA NextRowContinues ==
  ASSUME NEW S, NEW w \in ImportWork(S), w.rows # << >>, NEW u, w.rows = u.rows, NEW orders
  PROVE  Continues(NextRow(w), u, orders) \/ NextRow(w) = Free
<1> DEFINE v == [w EXCEPT !.rows = Tail(w.rows)]
<1>1. /\ v \in ImportWork(S)
      /\ \A n \in DOMAIN v.rows : n + 1 \in DOMAIN w.rows /\ v.rows[n] = w.rows[n + 1]
  BY RowsAfter, ZenonT(60)
<1>2. NextRow(w) = ToRow(v)
  BY DEF NextRow, ImportWork
<1> HIDE DEF v
<1>3. RowsFrom(v, u)
  BY <1>1 DEF RowsFrom
<1>4. Continues(ToRow(v), u, orders) \/ ToRow(v) = Free
  BY <1>1, <1>3, ToRowContinues
<1> QED
  BY <1>2, <1>4

LEMMA StepContinues ==
  ASSUME NEW S, NEW w \in ImportWork(S), NEW step, NEW orders,
         step \in {"sync", "settle"} /\ Head(w.rows).status = "cancelled" =>
           orders[w.order].state = "cancel"
  PROVE  Continues([w EXCEPT !.step = step], w, orders)
<1> DEFINE v == [w EXCEPT !.step = step]
<1>1. v.op = "import" /\ v.rows = w.rows /\ v.step = step /\ v.order = w.order
  BY DEF ImportWork
<1> HIDE DEF v
<1>2. Continues(v, w, orders)
  BY <1>1 DEF Continues, RowsFrom
<1> QED
  BY <1>2 DEF v

-----------------------------------------------------------------------------
(* The steps of a thread *)

GivesOnlyIts(h) ==
  \A o : GaveSome(movements', o) =>
    \/ GaveSome(movements, o)
    \/ o \in DOMAIN tkOrders /\ tkOrders[o].ref \in Concerns(agent[h])

(***************************************************************************)
(* A sound step: the stock stays soundly taken, what the thread has read   *)
(* stays so, and only orders it is at work on give stock back.             *)
(***************************************************************************)
SoundStep(h) ==
  /\ StockSound' /\ GivesOnlyIts(h)
  /\ StillSo(agent'[h], remote', tkOrders', tkLines', movements')

SoundBefore(h) ==
  /\ TikTokTypeOK /\ StockType /\ WorkBelongs /\ StockSound
  /\ StillSo(agent[h], remote, tkOrders, tkLines, movements)

LEMMA EndedStays ==
  ASSUME StockSound, RefsKept, UNCHANGED remote,
         \A o \in DOMAIN tkOrders' \ DOMAIN tkOrders : ~GaveSome(movements', o),
         \A o \in DOMAIN tkOrders : tkOrders[o].ref \in LotOrders /\ GaveSome(movements', o) =>
           /\ tkOrders'[o].state = "cancel"
           /\ GaveSome(movements, o) \/ remote[tkOrders[o].ref] = "cancelled"
  PROVE  LiveEnded'
<1> SUFFICES ASSUME NEW o \in DOMAIN tkOrders', tkOrders'[o].ref \in LotOrders,
                    GaveSome(movements', o)
             PROVE  tkOrders'[o].state = "cancel" /\ remote'[tkOrders'[o].ref] = "cancelled"
  BY DEF LiveEnded
<1>1. o \in DOMAIN tkOrders /\ tkOrders'[o].ref = tkOrders[o].ref
  BY DEF RefsKept
<1>2. GaveSome(movements, o) => remote[tkOrders[o].ref] = "cancelled"
  BY <1>1 DEF StockSound, LiveEnded
<1> QED
  BY <1>1, <1>2

(***************************************************************************)
(* A step that changes no row.                                             *)
(***************************************************************************)
LEMMA SoundIdle ==
  ASSUME StockSound, NoMovement, UNCHANGED <<saleTables, corrected, remote>>, NEW h
  PROVE  StockSound' /\ GivesOnlyIts(h) /\ GaveOnlyFor(agent[h])
<1>1. UNCHANGED <<tkOrders, tkLines, corrected, remote, movements>>
  BY DEF saleTables, NoMovement
<1> QED
  BY <1>1 DEF StockSound, SalesSound, RowsNamed, LiveEnded, GivesOnlyIts, GaveOnlyFor

(***************************************************************************)
(* A step that takes stock: no order gives any back.                       *)
(***************************************************************************)
LEMMA SoundTaking ==
  ASSUME TikTokTypeOK, StockSound, RefsKept, UNCHANGED <<tkOrders, remote>>,
         corrected \subseteq corrected', SoundlyTaken(corrected'), NEW h
  PROVE  /\ StockSound' /\ GivesOnlyIts(h) /\ GaveOnlyFor(agent[h])
<1>1. /\ SalesSound' /\ RowsNamed'
      /\ \A o : GaveSome(movements', o) => GaveSome(movements, o)
  BY SoundAfter
<1>2. LiveEnded'
  BY <1>1, EndedStays DEF StockSound, LiveEnded
<1> QED
  BY <1>1, <1>2 DEF StockSound, GivesOnlyIts, GaveOnlyFor

(***************************************************************************)
(* An order's state is written, and no stock moves; a live order that has  *)
(* given stock back is cancelled again.                                    *)
(***************************************************************************)
LEMMA SoundRewriting ==
  ASSUME TikTokTypeOK, StockSound, WorkBelongs, NoMovement, UNCHANGED <<tkLines, corrected, remote>>,
         NEW o \in DOMAIN tkOrders, NEW state, NEW payment, tkOrders' = Rewritten(o, state, payment),
         tkOrders[o].ref \in LotOrders /\ GaveSome(movements, o) => state = "cancel", NEW h
  PROVE  /\ StockSound' /\ GivesOnlyIts(h) /\ GaveOnlyFor(agent[h])
         /\ RefsKept /\ DOMAIN tkOrders' = DOMAIN tkOrders /\ tkOrders'[o].state = state
<1>1. RefsKept
  BY RewrittenRefs
<1>2. /\ DOMAIN tkOrders' = DOMAIN tkOrders
      /\ \A q \in DOMAIN tkOrders : q # o => tkOrders'[q] = tkOrders[q]
      /\ tkOrders'[o] = [tkOrders[o] EXCEPT !.state = state, !.payment = payment]
  BY TikTokRows DEF Rewritten
<1>3. tkOrders'[o].state = state
  <2>1. tkOrders[o] \in TikTokRow
    BY TikTokRows
  <2> QED
    BY <1>2, <2>1 DEF TikTokRow
<1>4. movements' = movements
  BY DEF NoMovement
<1>5. SalesSound' /\ RowsNamed'
  BY <1>1, <1>2, <1>4 DEF StockSound, SalesSound, RowsNamed, RefsKept
<1>6. LiveEnded'
  <2>1. ASSUME NEW q \in DOMAIN tkOrders, tkOrders[q].ref \in LotOrders,
               GaveSome(movements', q)
        PROVE  tkOrders'[q].state = "cancel" /\ GaveSome(movements, q)
    BY <1>2, <1>3, <1>4, <2>1 DEF StockSound, LiveEnded
  <2> QED
    BY <1>1, <1>2, <2>1, EndedStays
<1> QED
  BY <1>1, <1>2, <1>3, <1>4, <1>5, <1>6 DEF StockSound, GivesOnlyIts, GaveOnlyFor

LEMMA SoundCreating ==
  ASSUME TikTokTypeOK, StockSound, WorkBelongs, NoMovement, UNCHANGED <<tkLines, corrected, remote>>,
         NEW row, tkOrders' = Append(tkOrders, row), NEW h
  PROVE  /\ StockSound' /\ GivesOnlyIts(h) /\ GaveOnlyFor(agent[h]) /\ RefsKept
         /\ \A o \in DOMAIN tkOrders' \ DOMAIN tkOrders : ~GaveSome(movements', o)
<1>1. RefsKept
  BY CreatedRefs
<1>2. /\ DOMAIN tkOrders' = DOMAIN tkOrders \cup {Len(tkOrders) + 1}
      /\ \A n \in DOMAIN tkOrders : tkOrders'[n] = tkOrders[n]
  BY AppendedRow DEF TikTokTypeOK
<1>3. SalesSound' /\ RowsNamed' /\ \A o : GaveSome(movements', o) => GaveSome(movements, o)
  BY NewSaleSound
<1>4. \A o \in DOMAIN tkOrders' \ DOMAIN tkOrders : ~GaveSome(movements', o)
  BY <1>3 DEF StockSound, RowsNamed, GaveSome
<1>5. LiveEnded'
  BY <1>1, <1>2, <1>3, <1>4, EndedStays DEF StockSound, LiveEnded
<1> QED
  BY <1>1, <1>3, <1>4, <1>5 DEF StockSound, GivesOnlyIts, GaveOnlyFor

LEMMA SoundImportStep ==
  ASSUME NEW h \in Agents, SoundBefore(h), agent[h].op = "import",
         StockSound', GivesOnlyIts(h), GaveOnlyFor(agent[h]), RefsKept, UNCHANGED remote,
         \A o \in DOMAIN tkOrders' \ DOMAIN tkOrders : ~GaveSome(movements', o),
         NEW v, Becomes(h, v), Continues(v, agent[h], tkOrders') \/ v = Free
  PROVE  SoundStep(h)
<1>1. StillSo(v, remote', tkOrders', tkLines', movements')
  BY ImportContinues DEF SoundBefore, StockSound
<1>2. agent'[h] = v
  BY ThreadSet DEF SoundBefore
<1> QED
  BY <1>1, <1>2 DEF SoundStep

LEMMA ListSalesSound ==
  ASSUME NEW h \in Agents, SoundBefore(h), ListSales(h), UNCHANGED remote
  PROVE  SoundStep(h)
<1> DEFINE w == agent[h]
           S == DOMAIN tkOrders
           v == [w EXCEPT !.found = FoundSales]
           orders == tkOrders'
<1>1. /\ NoMovement /\ UNCHANGED <<saleTables, corrected, remote>> /\ Becomes(h, ToRow(v))
      /\ At(h, "import", "list")
  BY DEF ListSales, liveVars
<1>2. w \in ImportWork(S)
  BY <1>1, AtImport DEF SoundBefore
<1>3. FoundSales \in [LotOrders -> SUBSET S]
  BY DEF FoundSales, SalesOf
<1>4. w.op = "import"
  BY <1>1 DEF At
<1>5. Continues(ToRow(v), w, orders) \/ ToRow(v) = Free
  <2> HIDE DEF w, S, orders
  <2>1. v \in ImportWork(S) /\ v.rows = w.rows
    BY <1>2, <1>3 DEF ImportWork
  <2> HIDE DEF v
  <2>2. RowsFrom(v, w)
    BY <2>1 DEF RowsFrom
  <2> QED
    BY <2>1, <2>2, ToRowContinues
<1>6. StockSound' /\ GivesOnlyIts(h) /\ GaveOnlyFor(w)
  BY <1>1, SoundIdle DEF SoundBefore
<1>7. RefsKept /\ DOMAIN tkOrders' = DOMAIN tkOrders
  BY <1>1, SalesUnchanged DEF SoundBefore, saleTables
<1> HIDE DEF v
<1> QED
  BY <1>1, <1>4, <1>5, <1>6, <1>7, SoundImportStep

LEMMA UpdateLiveSaleSound ==
  ASSUME NEW h \in Agents, SoundBefore(h), UpdateLiveSale(h), UNCHANGED remote
  PROVE  SoundStep(h)
<1> DEFINE w == agent[h]
           S == DOMAIN tkOrders
           status == Head(w.rows).status
           state == IF status = "cancelled" THEN "cancel" ELSE "sale"
           payment == IF status = "cancelled" THEN "unpaid" ELSE "paid"
           orders == tkOrders'
<1>1. /\ NoMovement /\ UNCHANGED <<tkLines, corrected, remote>> /\ At(h, "import", "update")
  BY SMTT(40) DEF UpdateLiveSale, liveVars
<1>2. PICK o \in w.left :
        /\ tkOrders' = Rewritten(o, state, payment)
        /\ Becomes(h, [w EXCEPT !.step = "sync", !.order = o, !.left = w.left \ {o}])
  BY DEF UpdateLiveSale, RowStatus
<1> DEFINE v == [w EXCEPT !.step = "sync", !.order = o, !.left = w.left \ {o}]
<1>3. w \in ImportWork(S) /\ w.rows # << >> /\ w.op = "import"
  BY <1>1, AtImport DEF SoundBefore, At
<1>4. o \in DOMAIN tkOrders /\ tkOrders[o].ref = Head(w.rows).lot
  BY <1>3, ImportBelongs DEF SoundBefore
<1>5. ASSUME GaveSome(movements, o) PROVE status = "cancelled"
  <2>1. ImportCurrent(w, remote, tkOrders, movements)
    BY <1>3 DEF SoundBefore, StillSo
  <2>2. 1 \in DOMAIN w.rows /\ Head(w.rows) = w.rows[1]
    BY <1>3, HeadTailProperties, LenProperties DEF ImportWork
  <2> QED
    BY <1>4, <1>5, <2>1, <2>2 DEF ImportCurrent
<1>6. /\ StockSound' /\ GivesOnlyIts(h) /\ GaveOnlyFor(w) /\ RefsKept
      /\ DOMAIN tkOrders' = DOMAIN tkOrders /\ tkOrders'[o].state = state
  <2> HIDE DEF status
  <2>1. GaveSome(movements, o) => state = "cancel"
    BY <1>5
  <2> HIDE DEF state, payment, w
  <2>2. StockSound' /\ GivesOnlyIts(h) /\ GaveOnlyFor(agent[h]) /\ RefsKept
        /\ DOMAIN tkOrders' = DOMAIN tkOrders /\ tkOrders'[o].state = state
    BY <1>1, <1>2, <1>4, <2>1, SoundRewriting DEF SoundBefore
  <2> QED
    BY <2>2 DEF w
<1>7. Becomes(h, v)
  BY <1>2
<1>8. Continues(v, w, orders)
  <2>1. orders[o].state = state
    BY <1>6
  <2> HIDE DEF w, S, orders
  <2>2. v.op = "import" /\ v.rows = w.rows /\ v.order = o
    BY <1>3 DEF ImportWork
  <2> HIDE DEF v
  <2> QED
    BY <2>1, <2>2 DEF Continues, RowsFrom
<1> HIDE DEF v
<1> QED
  BY <1>1, <1>3, <1>6, <1>7, <1>8, SoundImportStep

(***************************************************************************)
(* The import's stock steps: only one that settles a lot TikTok cancelled  *)
(* gives stock back.                                                       *)
(***************************************************************************)
LEMMA LiveStockGoesOn ==
  ASSUME NEW h \in Agents, SoundBefore(h), UNCHANGED <<tkOrders, remote>>,
         SyncLiveSale(h) \/ SettleLiveSale(h) \/ ApplyLiveSale(h)
  PROVE  \E v : Becomes(h, v) /\ (Continues(v, agent[h], tkOrders') \/ v = Free)
<1> DEFINE w == agent[h]
           S == DOMAIN tkOrders
           orders == tkOrders
<1>1. w \in ImportWork(S) /\ w.rows # << >> /\ w.op = "import"
  BY AtImport DEF SoundBefore, SyncLiveSale, SettleLiveSale, ApplyLiveSale, At
<1>2. Continues(NextRow(w), w, orders) \/ NextRow(w) = Free
  <2> HIDE DEF w, S, orders
  <2> QED
    BY <1>1, NextRowContinues
<1>3. Continues([w EXCEPT !.step = "update"], w, orders)
  <2> HIDE DEF w, S, orders
  <2> QED
    BY <1>1, StepContinues
<1>4. CASE SyncLiveSale(h)
  <2>1. At(h, "import", "sync") /\ Becomes(h, [w EXCEPT !.step = "settle"])
    BY <1>4 DEF SyncLiveSale
  <2>2. ImportCurrent(w, remote, orders, movements)
    BY <1>1 DEF SoundBefore, StillSo
  <2>3. Head(w.rows).status = "cancelled" => orders[w.order].state = "cancel"
    BY <2>1, <2>2 DEF ImportCurrent, At
  <2>4. Continues([w EXCEPT !.step = "settle"], w, orders)
    <3> HIDE DEF w, S, orders
    <3> QED
      BY <1>1, <2>3, StepContinues
  <2> QED
    BY <2>1, <2>4
<1>5. CASE SettleLiveSale(h) \/ ApplyLiveSale(h)
  <2>1. Becomes(h, NextRow(w)) \/ Becomes(h, [w EXCEPT !.step = "update"])
    BY <1>5 DEF SettleLiveSale, ApplyLiveSale
  <2> QED
    BY <1>2, <1>3, <2>1
<1> QED
  BY <1>4, <1>5

LEMMA HeadRow ==
  ASSUME NEW S, NEW w \in ImportWork(S), w.rows # << >>
  PROVE  1 \in DOMAIN w.rows /\ Head(w.rows) = w.rows[1]
<1>1. w.rows \in Seq(ImportRow)
  BY DEF ImportWork
<1> QED
  BY <1>1, HeadTailProperties, LenProperties

LEMMA SettleCancelledSound ==
  ASSUME NEW h \in Agents, SoundBefore(h), SettleLiveSale(h), RowStatus(h) = "cancelled",
         UNCHANGED remote
  PROVE  StockSound' /\ GivesOnlyIts(h) /\ GaveOnlyFor(agent[h]) /\ RefsKept
<1> DEFINE w == agent[h]
           o == w.order
<1>1. /\ UNCHANGED <<tkOrders, corrected, remote>> /\ At(h, "import", "settle")
      /\ GiveStockBack(o)
  BY DEF SettleLiveSale, liveVars
<1>2. /\ w.op = "import" /\ w.step = "settle" /\ w \in ImportWork(DOMAIN tkOrders)
      /\ w.rows # << >> /\ Head(w.rows) \in ImportRow /\ FoundForLots(w, tkOrders)
      /\ o \in DOMAIN tkOrders /\ tkOrders[o].ref = Head(w.rows).lot
      /\ Head(w.rows).status = "cancelled"
  BY <1>1, ImportBelongs DEF SoundBefore, At, RowStatus
<1>3. 1 \in DOMAIN w.rows /\ Head(w.rows) = w.rows[1]
  <2> HIDE DEF w
  <2> QED
    BY <1>2, HeadRow
<1>4. ImportCurrent(w, remote, tkOrders, movements)
  BY <1>2 DEF SoundBefore, StillSo
<1>5. tkOrders[o].state = "cancel" /\ remote[tkOrders[o].ref] = "cancelled"
  BY <1>2, <1>3, <1>4 DEF ImportCurrent
<1>6. \A n \in DOMAIN w.rows : w.rows[n].lot = tkOrders[o].ref =>
         w.rows[n].status = "cancelled"
  BY <1>2, <1>3 DEF FoundForLots
<1>7. tkOrders[o].ref \in Concerns(w)
  BY <1>1, ImportAtItsOwn DEF SoundBefore
<1> HIDE DEF o, w
<1>8. SoundlyGivenBack(o)
  BY <1>1, <1>2, GiveStockBackSoundly DEF SoundBefore
<1>9. /\ SalesSound' /\ RowsNamed'
      /\ \A q : GaveSome(movements', q) => GaveSome(movements, q) \/ q = o
  BY <1>1, <1>2, <1>8, SoundGivenBack DEF SoundBefore
<1>10. RefsKept
  <2>1. LinesSame
    BY <1>1, StockKeepsLines DEF SoundBefore
  <2> QED
    BY <1>1, <2>1 DEF RefsKept, LinesSame
<1>11. LiveEnded'
  <2>1. ASSUME NEW q \in DOMAIN tkOrders, tkOrders[q].ref \in LotOrders,
               GaveSome(movements', q)
        PROVE  /\ tkOrders'[q].state = "cancel"
               /\ GaveSome(movements, q) \/ remote[tkOrders[q].ref] = "cancelled"
    BY <1>1, <1>5, <1>9, <2>1 DEF SoundBefore, StockSound, LiveEnded
  <2> QED
    BY <1>1, <1>10, <2>1, EndedStays DEF SoundBefore
<1> QED
  BY <1>2, <1>6, <1>7, <1>9, <1>10, <1>11 DEF StockSound, GivesOnlyIts, GaveOnlyFor, w

LEMMA LiveStockSound ==
  ASSUME NEW h \in Agents, SoundBefore(h), UNCHANGED remote,
         SyncLiveSale(h) \/ SettleLiveSale(h) \/ ApplyLiveSale(h)
  PROVE  SoundStep(h)
<1>1. UNCHANGED <<tkOrders, corrected>> /\ agent[h].op = "import"
  BY DEF SyncLiveSale, SettleLiveSale, ApplyLiveSale, At, liveVars
<1>2. StockSound' /\ GivesOnlyIts(h) /\ GaveOnlyFor(agent[h]) /\ RefsKept
  <2>1. CASE SettleLiveSale(h) /\ RowStatus(h) = "cancelled"
    BY <2>1, SettleCancelledSound
  <2>2. CASE ~(SettleLiveSale(h) /\ RowStatus(h) = "cancelled")
    <3> DEFINE o == agent[h].order
    <3>1. agent[h].step \in {"sync", "settle", "apply"}
      BY DEF SyncLiveSale, SettleLiveSale, ApplyLiveSale, At
    <3>2. IsLive(o)
      BY <1>1, <3>1, ImportBelongs DEF SoundBefore, IsLive, ImportRow
    <3>3. TakeStock(o)
      BY <2>2, <3>2 DEF SyncLiveSale, SettleLiveSale, ApplyLiveSale, BringInLine
    <3> HIDE DEF o
    <3>4. SoundlyTaken(corrected')
      BY <3>3, TakeStockSoundly DEF SoundBefore
    <3>5. LinesSame
      BY <3>3, StockKeepsLines DEF SoundBefore
    <3>6. RefsKept
      BY <1>1, <3>5 DEF RefsKept, LinesSame
    <3> QED
      BY <1>1, <3>4, <3>6, SoundTaking DEF SoundBefore
  <2> QED
    BY <2>1, <2>2
<1>3. PICK v : Becomes(h, v) /\ (Continues(v, agent[h], tkOrders') \/ v = Free)
  BY <1>1, LiveStockGoesOn
<1> QED
  BY <1>1, <1>2, <1>3, SoundImportStep

LEMMA CreateLiveSaleSound ==
  ASSUME NEW h \in Agents, SoundBefore(h), CreateLiveSale(h), UNCHANGED remote
  PROVE  SoundStep(h)
<1> DEFINE w == agent[h]
           row == NewLiveSale(Head(w.rows))
           orders == tkOrders'
<1>1. /\ NoMovement /\ UNCHANGED <<tkLines, corrected, remote>> /\ At(h, "import", "create")
      /\ tkOrders' = Append(tkOrders, row)
  BY DEF CreateLiveSale, liveVars
<1>2. PICK o, products :
        Becomes(h, [w EXCEPT !.step = "line", !.order = o, !.products = products])
  BY DEF CreateLiveSale
<1> DEFINE v == [w EXCEPT !.step = "line", !.order = o, !.products = products]
<1>3. w \in ImportWork(DOMAIN tkOrders) /\ w.op = "import"
  BY <1>1, AtImport DEF SoundBefore, At
<1>4. Continues(v, w, orders)
  <2> HIDE DEF w, orders
  <2>1. v.op = "import" /\ v.rows = w.rows /\ v.step = "line"
    BY <1>3 DEF ImportWork
  <2> HIDE DEF v
  <2> QED
    BY <2>1 DEF Continues, RowsFrom
<1> HIDE DEF row, v
<1>5. /\ StockSound' /\ GivesOnlyIts(h) /\ GaveOnlyFor(agent[h]) /\ RefsKept
      /\ \A q \in DOMAIN tkOrders' \ DOMAIN tkOrders : ~GaveSome(movements', q)
  BY <1>1, SoundCreating DEF SoundBefore
<1> QED
  BY <1>1, <1>2, <1>3, <1>4, <1>5, SoundImportStep DEF v

(***************************************************************************)
(* A line is added to an order of TikTok's.                                *)
(***************************************************************************)
LEMMA SoundAdding ==
  ASSUME TikTokTypeOK, StockSound, NoMovement, UNCHANGED <<tkOrders, corrected, remote>>,
         NEW row, tkLines' = Append(tkLines, row), row.applied = FALSE, NEW h
  PROVE  StockSound' /\ GivesOnlyIts(h) /\ GaveOnlyFor(agent[h]) /\ RefsKept
<1>1. /\ DOMAIN tkLines' = DOMAIN tkLines \cup {Len(tkLines) + 1}
      /\ \A n \in DOMAIN tkLines : tkLines'[n] = tkLines[n]
  BY AppendedRow DEF TikTokTypeOK
<1>2. RefsKept
  BY <1>1 DEF RefsKept
<1>3. SoundlyTaken(corrected')
  BY NewLineSoundly
<1> QED
  BY <1>2, <1>3, SoundTaking

LEMMA AddLiveLineSound ==
  ASSUME NEW h \in Agents, SoundBefore(h), AddLiveLine(h), UNCHANGED remote
  PROVE  SoundStep(h)
<1> DEFINE w == agent[h]
           S == DOMAIN tkOrders
           row == [order |-> w.order, product |-> Head(w.products), applied |-> FALSE]
           tail == Tail(w.products)
           rest == [w EXCEPT !.products = tail]
           v == IF rest.products # << >> THEN rest
                ELSE IF RowStatus(h) = "cancelled" THEN NextRow(rest)
                     ELSE [rest EXCEPT !.step = "apply"]
           orders == tkOrders'
<1>1. /\ NoMovement /\ UNCHANGED <<tkOrders, corrected, remote>> /\ At(h, "import", "line")
      /\ tkLines' = Append(tkLines, row) /\ Becomes(h, v)
  BY DEF AddLiveLine, liveVars
<1>2. /\ w \in ImportWork(S) /\ w.rows # << >> /\ w.op = "import" /\ w.step = "line"
      /\ w.products # << >>
  BY <1>1, AtImport DEF SoundBefore, At, IsImport
<1>3. tail \in Seq(Products \cup {NoProduct})
  BY <1>2, HeadTailProperties DEF ImportWork
<1>4. Continues(v, w, orders) \/ v = Free
  <2> HIDE DEF w, S, tail, orders
  <2>1. /\ rest \in ImportWork(S) /\ rest.rows = w.rows /\ rest.op = "import"
        /\ rest.step = "line"
    BY <1>2, <1>3 DEF ImportWork
  <2> HIDE DEF rest
  <2>2. Continues(rest, w, orders)
    BY <2>1 DEF Continues, RowsFrom
  <2>3. Continues(NextRow(rest), w, orders) \/ NextRow(rest) = Free
    BY <1>2, <2>1, NextRowContinues
  <2>4. Continues([rest EXCEPT !.step = "apply"], rest, orders)
    BY <2>1, StepContinues
  <2>5. Continues([rest EXCEPT !.step = "apply"], w, orders)
    BY <2>1, <2>4 DEF Continues, RowsFrom
  <2> QED
    BY <2>2, <2>3, <2>5
<1>5. row.applied = FALSE
  OBVIOUS
<1> HIDE DEF row, v
<1>6. StockSound' /\ GivesOnlyIts(h) /\ GaveOnlyFor(agent[h]) /\ RefsKept
  BY <1>1, <1>5, SoundAdding DEF SoundBefore
<1> QED
  BY <1>1, <1>2, <1>4, <1>6, SoundImportStep

LEMMA LiveFailsSound ==
  ASSUME NEW h \in Agents, SoundBefore(h), LiveFails(h), UNCHANGED remote
  PROVE  SoundStep(h)
<1> DEFINE w == agent[h]
           S == DOMAIN tkOrders
           orders == tkOrders'
<1>1. /\ NoMovement /\ UNCHANGED <<saleTables, corrected, remote>>
      /\ \/ Becomes(h, Free)
         \/ w.op = "import" /\ Becomes(h, NextRow(w))
  BY DEF LiveFails, liveVars
<1>2. StockSound' /\ GivesOnlyIts(h) /\ GaveOnlyFor(w)
  BY <1>1, SoundIdle DEF SoundBefore
<1>3. RefsKept /\ DOMAIN tkOrders' = DOMAIN tkOrders
  BY <1>1, SalesUnchanged DEF SoundBefore, saleTables
<1>4. CASE Becomes(h, Free)
  <2>1. agent'[h] = Free
    BY <1>4, ThreadSet DEF SoundBefore
  <2> QED
    BY <1>2, <2>1 DEF SoundStep, StillSo, Free
<1>5. CASE w.op = "import" /\ Becomes(h, NextRow(w))
  <2>1. w \in ImportWork(S) /\ w.rows # << >>
    BY <1>5, ImportBelongs DEF SoundBefore
  <2>2. Continues(NextRow(w), w, orders) \/ NextRow(w) = Free
    <3> HIDE DEF w, S, orders
    <3> QED
      BY <2>1, NextRowContinues
  <2> QED
    BY <1>1, <1>2, <1>3, <1>5, <2>2, SoundImportStep
<1> QED
  BY <1>1, <1>4, <1>5

LEMMA ReadLotLineSound ==
  ASSUME NEW h \in Agents, SoundBefore(h), ReadLotLine(h), UNCHANGED remote
  PROVE  SoundStep(h)
<1> DEFINE w == agent[h]
           all == SoldLines(w.lot)
           first == CHOOSE k \in all : \A j \in all : k <= j
           lot == ProductOnLot(w.lot)
           old == IF tkLines[first].product # NoProduct THEN tkLines[first].product ELSE lot
           applied == tkLines[first].applied
           due == HoldsStock(tkLines[first].order)
           none == [w EXCEPT !.step = "write", !.old = lot]
           some == [w EXCEPT !.step = "write", !.line = first, !.old = old,
                             !.applied = applied, !.due = due]
           v == IF all = {} THEN none ELSE some
           orders == tkOrders
           lines == tkLines
<1>1. /\ NoMovement /\ UNCHANGED <<saleTables, corrected, remote>>
      /\ At(h, "correct", "read") /\ Becomes(h, v)
  BY DEF ReadLotLine, liveVars
<1>2. w \in CorrectionWork(DOMAIN tkLines) /\ w.op = "correct"
  BY <1>1, AtCorrection, SMTT(40) DEF SoundBefore, At
<1>3. w.line = 0
  BY <1>1, <1>2 DEF SoundBefore, StillSo, At
<1>4. /\ applied = lines[first].applied
      /\ lines[first].product # NoProduct => old = lines[first].product
  OBVIOUS
<1>5. ASSUME all # {} PROVE orders[lines[first].order].state # "cancel"
  <2>1. all \subseteq DOMAIN tkLines
    BY DEF SoldLines
  <2>2. first \in all
    BY <1>5, <2>1, FirstLine, SMTT(40) DEF SoundBefore
  <2> HIDE DEF first
  <2> QED
    BY <2>2 DEF SoldLines
<1>6. StockSound' /\ GivesOnlyIts(h)
  BY <1>1, SoundIdle DEF SoundBefore
<1> HIDE DEF w, all, first, lot, old, applied, due, orders, lines
<1>7. none.op = "correct" /\ none.step = "write" /\ none.line = 0
  BY <1>2, <1>3 DEF CorrectionWork
<1>8. /\ some.op = "correct" /\ some.step = "write" /\ some.line = first
      /\ some.old = old /\ some.applied = applied
  BY <1>2 DEF CorrectionWork
<1> HIDE DEF none, some
<1>9. CASE all = {}
  <2>1. v = none
    BY <1>9
  <2> HIDE DEF v
  <2>2. StillSo(v, remote', tkOrders', tkLines', movements')
    BY <1>7, <2>1 DEF StillSo
  <2> QED
    BY <1>1, <1>6, <2>2, ThreadSet DEF SoundStep, SoundBefore
<1>10. CASE all # {}
  <2>1. v = some /\ tkOrders' = orders /\ tkLines' = lines
    BY <1>1, <1>10 DEF orders, lines, saleTables
  <2> HIDE DEF v
  <2>2. LineCurrent(v, orders, lines)
    BY <1>4, <1>5, <1>8, <1>10, <2>1 DEF LineCurrent
  <2>3. StillSo(v, remote', tkOrders', tkLines', movements')
    BY <1>8, <2>1, <2>2 DEF StillSo
  <2> QED
    BY <1>1, <1>6, <2>3, ThreadSet DEF SoundStep, SoundBefore
<1> QED
  BY <1>9, <1>10, SMTT(40)

LEMMA LiveWritesSound ==
  ASSUME NEW h \in Agents, SoundBefore(h), UNCHANGED remote,
         CorrectLine(h) \/ ApplySession(h)
  PROVE  SoundStep(h)
<1>1. UNCHANGED <<tkOrders, remote>> /\ Becomes(h, Free)
  BY DEF CorrectLine, ApplySession
<1>2. SoundlyTaken(corrected') /\ corrected \subseteq corrected'
  <2>1. CASE CorrectLine(h)
    BY <2>1, CorrectLineSoundly, SMTT(40) DEF SoundBefore
  <2>2. CASE ApplySession(h)
    BY <2>2, ApplySessionSoundly DEF SoundBefore, ApplySession, liveVars
  <2> QED
    BY <2>1, <2>2
<1>3. RefsKept
  BY CorrectLineBelongs, ApplySessionBelongs DEF SoundBefore, BelongStep
<1>4. StockSound' /\ GivesOnlyIts(h)
  BY <1>1, <1>2, <1>3, SoundTaking DEF SoundBefore
<1>5. agent'[h] = Free
  BY <1>1, ThreadSet DEF SoundBefore
<1> QED
  BY <1>4, <1>5, SMTT(40) DEF SoundStep, StillSo, Free

LEMMA LiveWorkSound ==
  ASSUME NEW h \in Agents, SoundBefore(h), LiveGoesOn(h), UNCHANGED remote
  PROVE  SoundStep(h)
  BY ListSalesSound, UpdateLiveSaleSound, LiveStockSound, CreateLiveSaleSound,
     AddLiveLineSound, ReadLotLineSound, LiveWritesSound, LiveFailsSound DEF LiveGoesOn

LEMMA LiveRequestsSound ==
  ASSUME NEW h \in Agents, SoundBefore(h), LiveArrives(h), UNCHANGED remote
  PROVE  SoundStep(h)
<1>1. NoMovement /\ UNCHANGED <<saleTables, corrected, remote>>
  BY DEF LiveArrives, ImportRequest, CorrectRequest, SessionRequest, liveVars
<1>2. StockSound' /\ GivesOnlyIts(h)
  BY <1>1, SoundIdle DEF SoundBefore
<1>3. /\ tkOrders' = tkOrders /\ tkLines' = tkLines /\ remote' = remote
      /\ movements' = movements
  BY <1>1 DEF saleTables, NoMovement
<1>4. CASE ImportRequest(h)
  <2>1. PICK lots \in {OnSale} \cup {{l} : l \in OnSale} :
          Becomes(h, [op |-> "import", step |-> "list", rows |-> RowsOf(lots),
                      found |-> [l \in LotOrders |-> {}], order |-> 0,
                      left |-> {}, products |-> << >>])
    BY <1>4 DEF ImportRequest
  <2> DEFINE rows == RowsOf(lots)
             ids == InIdOrder(lots)
             w == [op |-> "import", step |-> "list", rows |-> rows,
                   found |-> [l \in LotOrders |-> {}], order |-> 0,
                   left |-> {}, products |-> << >>]
  <2>2. rows = [n \in DOMAIN ids |-> [lot |-> ids[n], status |-> remote[ids[n]],
                                       products |-> lotItems[ids[n]]]]
    BY DEF RowsOf, MapSeq
  <2>3. lots \subseteq LotOrders
    BY DEF OnSale
  <2>8. \A n \in DOMAIN ids : ids[n] \in LotOrders
    <3>1. IsFiniteSet(lots) /\ lots \subseteq Nat
      BY <2>3, LotsFinite
    <3> QED
      BY <2>3, <3>1, IdsInOrder
  <2> HIDE DEF ids
  <2>4. \A n \in DOMAIN rows : /\ rows[n].status = remote[rows[n].lot]
                              /\ rows[n].lot \in LotOrders
    <3> HIDE DEF rows
    <3> QED
      BY <2>2, <2>8
  <2> HIDE DEF rows
  <2>5. w.op = "import" /\ w.step = "list" /\ w.rows = rows
    OBVIOUS
  <2>6. Becomes(h, w)
    BY <2>1 DEF rows
  <2> HIDE DEF w
  <2>9. LiveEnded
    BY DEF SoundBefore, StockSound
  <2>7. ImportCurrent(w, remote, tkOrders, movements)
    BY <2>4, <2>5, <2>9 DEF ImportCurrent, LiveEnded
  <2> QED
    BY <1>2, <1>3, <2>5, <2>6, <2>7, ThreadSet DEF SoundStep, SoundBefore, StillSo
<1>5. CASE CorrectRequest(h)
  <2>1. PICK l, p :
          Becomes(h, [op |-> "correct", step |-> "read", lot |-> l, product |-> p,
                      line |-> 0, old |-> NoProduct, applied |-> FALSE, due |-> FALSE])
    BY <1>5 DEF CorrectRequest
  <2>2. agent'[h] = [op |-> "correct", step |-> "read", lot |-> l, product |-> p,
                     line |-> 0, old |-> NoProduct, applied |-> FALSE, due |-> FALSE]
    BY <2>1, ThreadSet DEF SoundBefore
  <2>3. agent'[h].op = "correct" /\ agent'[h].line = 0
    BY <2>2
  <2> QED
    BY <1>2, <2>3 DEF SoundStep, StillSo
<1>6. CASE SessionRequest(h)
  <2> DEFINE due == {k \in DOMAIN tkLines :
                       /\ IsLive(tkLines[k].order)
                       /\ tkOrders[tkLines[k].order].state # "cancel"
                       /\ tkOrders[tkLines[k].order].payment = "paid"}
             row(l) == [id |-> l, linked |-> tkLines[l].product = NoProduct,
                        product |-> IF tkLines[l].product # NoProduct
                                      THEN tkLines[l].product
                                      ELSE ProductOnLot(tkOrders[tkLines[l].order].ref)]
             read == {row(l) : l \in due}
             w == [op |-> "session", step |-> "write", read |-> read]
  <2>1. Becomes(h, w)
    BY <1>6 DEF SessionRequest
  <2>2. \A r \in read : /\ r.linked <=> tkLines[r.id].product = NoProduct
                        /\ ~r.linked => r.product = tkLines[r.id].product
    <3>1. ASSUME NEW l \in due
          PROVE  /\ row(l).linked <=> tkLines[row(l).id].product = NoProduct
                 /\ ~row(l).linked => row(l).product = tkLines[row(l).id].product
      OBVIOUS
    <3> HIDE DEF row, due
    <3> QED
      BY <3>1
  <2> HIDE DEF read
  <2>3. w.op = "session" /\ w.read = read
    OBVIOUS
  <2> HIDE DEF w
  <2>4. LinesStillRead(w, tkLines)
    BY <2>2, <2>3 DEF LinesStillRead
  <2> QED
    BY <1>2, <1>3, <2>1, <2>3, <2>4, ThreadSet DEF SoundStep, SoundBefore, StillSo
<1> QED
  BY <1>4, <1>5, <1>6 DEF LiveArrives

(***************************************************************************)
(* A thread of the shop keeps nothing that could become wrong.             *)
(***************************************************************************)
LEMMA ShopKeepsNothing ==
  ASSUME TikTokTypeOK, NEW h \in Agents, ShopArrives(h) \/ ShopGoesOn(h),
         NEW rem, NEW orders, NEW lines, NEW ms
  PROVE  StillSo(agent'[h], rem, orders, lines, ms)
<1>1. CASE SyncRequest(h) \/ WebhookRequest(h)
  <2>1. PICK t, status, items : Becomes(h, ImportOf(t, status, items))
    BY <1>1 DEF SyncRequest, WebhookRequest
  <2>2. ImportOf(t, status, items).op = "shop"
    BY DEF ImportOf
  <2> QED
    BY <2>1, <2>2, ThreadSet DEF StillSo
<1>2. CASE ReturnRequest(h)
  <2>1. PICK t, o : Becomes(h, [op |-> "return", step |-> "store", ref |-> t, order |-> o])
    BY <1>2 DEF ReturnRequest
  <2>2. agent'[h].op = "return"
    BY <2>1, ThreadSet
  <2> QED
    BY <2>2 DEF StillSo
<1>3. CASE FindSale(h) \/ UpdateShopSale(h) \/ CreateShopSale(h) \/ AddShopLine(h)
  BY <1>3, OpOfShopImport DEF StillSo, Free
<1>4. CASE SyncShopSale(h) \/ ApplyShopSale(h) \/ ToBeReviewed(h) \/ MarkProcessed(h)
           \/ ShopFails(h)
  <2>1. agent'[h] = Free
    BY <1>4, ThreadSet DEF SyncShopSale, ApplyShopSale, ToBeReviewed, MarkProcessed, ShopFails
  <2> QED
    BY <2>1 DEF StillSo, Free
<1>5. CASE StoreReturn(h) \/ CancelReturned(h) \/ SyncReturned(h)
  <2> DEFINE w == agent[h]
  <2>1. w \in ReturnWork(DOMAIN tkOrders)
    BY <1>5, AtReturn DEF StoreReturn, CancelReturned, SyncReturned
  <2>2. Becomes(h, Free) \/ \E step : Becomes(h, [w EXCEPT !.step = step])
    BY <1>5 DEF StoreReturn, CancelReturned, SyncReturned
  <2> HIDE DEF w
  <2>3. \A step : [w EXCEPT !.step = step].op = "return"
    BY <2>1 DEF ReturnWork
  <2>4. agent'[h] = Free \/ agent'[h].op = "return"
    BY <2>2, <2>3, ThreadSet
  <2> QED
    BY <2>4 DEF StillSo, Free
<1> QED
  BY <1>1, <1>2, <1>3, <1>4, <1>5 DEF ShopArrives, ShopGoesOn

(***************************************************************************)
(* An order of the shop is brought in line with its state.                 *)
(***************************************************************************)
LEMMA SoundInLine ==
  ASSUME TikTokTypeOK, StockType, StockSound, UNCHANGED <<tkOrders, corrected, remote>>,
         NEW o \in DOMAIN tkOrders, NEW h, tkOrders[o].ref \in Concerns(agent[h]),
         TakeStock(o) \/ BringInLine(o)
  PROVE  StockSound' /\ GivesOnlyIts(h)
<1>1. LinesSame
  BY StockKeepsLines
<1>2. RefsKept
  BY <1>1 DEF RefsKept, LinesSame
<1>3. CASE TakeStock(o)
  <2>1. SoundlyTaken(corrected')
    BY <1>3, TakeStockSoundly
  <2> QED
    BY <1>2, <2>1, SoundTaking
<1>4. CASE ~TakeStock(o)
  <2>1. GiveStockBack(o) /\ tkOrders[o].ref \notin LotOrders
    BY <1>4 DEF BringInLine, IsLive
  <2>2. SoundlyGivenBack(o)
    BY <2>1, GiveStockBackSoundly
  <2>3. /\ SalesSound' /\ RowsNamed'
        /\ \A q : GaveSome(movements', q) => GaveSome(movements, q) \/ q = o
    BY <2>2, SoundGivenBack
  <2>4. LiveEnded'
    <3>1. ASSUME NEW q \in DOMAIN tkOrders, tkOrders[q].ref \in LotOrders,
                 GaveSome(movements', q)
          PROVE  tkOrders'[q].state = "cancel" /\ GaveSome(movements, q)
      BY <2>1, <2>3, <3>1 DEF StockSound, LiveEnded
    <3> QED
      BY <1>2, <3>1, EndedStays
  <2> QED
    BY <2>3, <2>4 DEF StockSound, GivesOnlyIts
<1> QED
  BY <1>3, <1>4

LEMMA ShopSound ==
  ASSUME NEW h \in Agents, SoundBefore(h), ShopArrives(h) \/ ShopGoesOn(h),
         UNCHANGED <<remote, liveVars>>
  PROVE  SoundStep(h)
<1>1. StillSo(agent'[h], remote', tkOrders', tkLines', movements')
  <2> DEFINE rem == remote'
             orders == tkOrders'
             lines == tkLines'
             ms == movements'
  <2> HIDE DEF rem, orders, lines, ms
  <2>1. StillSo(agent'[h], rem, orders, lines, ms)
    BY ShopKeepsNothing DEF SoundBefore
  <2> QED
    BY <2>1 DEF rem, orders, lines, ms
<1>2. UNCHANGED corrected
  BY DEF liveVars
<1>3. CASE NoMovement /\ UNCHANGED saleTables
  BY <1>1, <1>2, <1>3, SoundIdle DEF SoundBefore, SoundStep
<1>4. CASE UpdateShopSale(h) \/ CancelReturned(h)
  <2> DEFINE o == agent[h].order
  <2>1. /\ NoMovement /\ UNCHANGED tkLines
        /\ At(h, "shop", "update") \/ At(h, "return", "update")
        /\ \E state, payment :
             /\ tkOrders' = Rewritten(o, state, payment)
             /\ state = "cancel" \/ At(h, "shop", "update")
    BY <1>4 DEF UpdateShopSale, CancelReturned
  <2>2. o \in DOMAIN tkOrders /\ tkOrders[o].ref = agent[h].ref
    BY <2>1, ShopAtItsOwn DEF SoundBefore
  <2>3. At(h, "shop", "update") => agent[h].ref \notin LotOrders
    BY AtShop, LotsAndShopDiffer DEF SoundBefore, ShopImportWork
  <2>4. PICK state, payment :
             /\ tkOrders' = Rewritten(o, state, payment)
             /\ state = "cancel" \/ At(h, "shop", "update")
    BY <2>1
  <2> HIDE DEF o
  <2>5. StockSound' /\ GivesOnlyIts(h)
    BY <1>2, <2>1, <2>2, <2>3, <2>4, SoundRewriting DEF SoundBefore
  <2> QED
    BY <1>1, <2>5 DEF SoundStep
<1>5. CASE SyncShopSale(h) \/ ApplyShopSale(h) \/ SyncReturned(h)
  <2> DEFINE o == agent[h].order
  <2>1. /\ UNCHANGED tkOrders
        /\ TakeStock(o) \/ BringInLine(o)
        /\ At(h, "shop", "sync") \/ At(h, "shop", "apply") \/ At(h, "return", "sync")
    BY <1>5 DEF SyncShopSale, ApplyShopSale, SyncReturned
  <2>2. o \in DOMAIN tkOrders /\ tkOrders[o].ref \in Concerns(agent[h])
    BY <2>1, ShopAtItsOwn DEF SoundBefore
  <2> HIDE DEF o
  <2>3. StockSound' /\ GivesOnlyIts(h)
    BY <1>2, <2>1, <2>2, SoundInLine DEF SoundBefore
  <2> QED
    BY <1>1, <2>3 DEF SoundStep
<1>6. CASE CreateShopSale(h)
  <2>1. NoMovement /\ UNCHANGED tkLines /\ \E row : tkOrders' = Append(tkOrders, row)
    BY <1>6 DEF CreateShopSale
  <2>2. StockSound' /\ GivesOnlyIts(h)
    BY <1>2, <2>1, SoundCreating DEF SoundBefore
  <2> QED
    BY <1>1, <2>2 DEF SoundStep
<1>7. CASE AddShopLine(h)
  <2> DEFINE row == [order |-> agent[h].order, product |-> Head(agent[h].products),
                     applied |-> FALSE]
  <2>1. NoMovement /\ UNCHANGED tkOrders /\ tkLines' = Append(tkLines, row)
    BY <1>7 DEF AddShopLine
  <2>2. row.applied = FALSE
    OBVIOUS
  <2> HIDE DEF row
  <2>3. StockSound' /\ GivesOnlyIts(h)
    BY <1>2, <2>1, <2>2, SoundAdding DEF SoundBefore
  <2> QED
    BY <1>1, <2>3 DEF SoundStep
<1>8. \/ NoMovement /\ UNCHANGED saleTables
      \/ UpdateShopSale(h) \/ CancelReturned(h) \/ SyncShopSale(h) \/ ApplyShopSale(h)
      \/ SyncReturned(h) \/ CreateShopSale(h) \/ AddShopLine(h)
  BY DEF ShopArrives, ShopGoesOn, SyncRequest, WebhookRequest, ReturnRequest, FindSale,
     StoreReturn, ToBeReviewed, MarkProcessed, ShopFails
<1> QED
  BY <1>3, <1>4, <1>5, <1>6, <1>7, <1>8

LEMMA AgentsSound ==
  ASSUME NEW h \in Agents, SoundBefore(h), LiveArrival(h) \/ ShopArrival(h) \/ AgentWork(h)
  PROVE  SoundStep(h)
  BY LiveRequestsSound, LiveWorkSound, ShopSound DEF LiveArrival, ShopArrival, AgentWork

-----------------------------------------------------------------------------
(* Steps of the whole *)

(***************************************************************************)
(* What the counter, the purchases and TikTok do records nothing for its   *)
(* orders' lines and returns, and a lot once cancelled stays so.           *)
(***************************************************************************)
ElsewhereStep ==
  /\ UNCHANGED <<saleTables, agent, corrected>>
  /\ Recorded(movements, movements', {})
  /\ \A t \in LotOrders : remote[t] = "cancelled" => remote'[t] = "cancelled"

LEMMA OthersRecord ==
  ASSUME StockType, CounterStep \/ ArrivalStep
  PROVE  Recorded(movements, movements', {})
<1>1. CASE NoMovement
  BY <1>1, NothingRecorded DEF NoMovement, Deducts
<1>2. CASE ~NoMovement
  <2>1. PICK rows \in Seq(MovementRow) :
          /\ movements' = movements \o rows
          /\ \/ rows \in Seq(CounterRow) \/ rows \in Seq(ArrivalRow)
    <3>1. Seq(CounterRow) \subseteq Seq(MovementRow) /\ Seq(ArrivalRow) \subseteq Seq(MovementRow)
      BY DEF CounterRow, ArrivalRow
    <3> QED
      BY <1>2, <3>1 DEF CounterStep, ArrivalStep, RecordMovements
  <2>2. \A n \in DOMAIN rows : rows[n] \in CounterRow \cup ArrivalRow
    BY <2>1, LenProperties, ElementOfSeq
  <2>3. \A n \in DOMAIN rows :
          rows[n].reference \notin LineReferences \cup {"sale_order_cancel"}
    BY <2>2 DEF CounterRow, ArrivalRow, LineReferences
  <2>4. movements \in Seq(MovementRow)
    BY DEF StockType
  <2> QED
    BY <2>1, <2>3, <2>4, OtherRowsRecorded DEF Deducts
<1> QED
  BY <1>1, <1>2

LEMMA WhoMovesStock ==
  ASSUME WarehouseTypeOK, [WarehouseNext]_warehouseVars
  PROVE  \/ ElsewhereStep
         \/ \E h \in Agents : LiveArrival(h) \/ ShopArrival(h) \/ AgentWork(h)
<1>1. CASE UNCHANGED warehouseVars
  BY <1>1, NothingRecorded
     DEF warehouseVars, tiktokVars, liveVars, ElsewhereStep, Deducts
<1>2. CASE WarehouseNext
  <2>1. \/ SellStep /\ CounterStep
        \/ BuyStep /\ ArrivalStep
        \/ TikTokStep
    BY <1>2, WarehouseStepTypes
  <2>2. CASE (SellStep /\ CounterStep) \/ (BuyStep /\ ArrivalStep)
    BY <2>2, OthersRecord
       DEF SellStep, BuyStep, tiktokVars, liveVars, ElsewhereStep, WarehouseTypeOK
  <2>3. CASE TikTokStep
    <3>1. workload.agents \subseteq Agents
      BY DEF WarehouseTypeOK, Workload
    <3>2. CASE \E t : Changes(t)
      <4>1. PICK t : Changes(t)
        BY <3>2
      <4>2. PICK status \in FollowingStatus(remote[t]) : remote' = [remote EXCEPT ![t] = status]
        BY <4>1 DEF Changes
      <4>3. remote[t] # "cancelled"
        BY <4>2 DEF FollowingStatus
      <4>4. DOMAIN remote = TikTokOrders
        BY DEF WarehouseTypeOK, TikTokTypeOK
      <4>5. ASSUME NEW u \in LotOrders, remote[u] = "cancelled"
            PROVE  remote'[u] = "cancelled"
        BY <4>2, <4>3, <4>4, <4>5, LotsFinite
      <4> QED
        BY <4>1, <4>5, NothingRecorded
           DEF Changes, liveVars, NoMovement, ElsewhereStep, Deducts
    <3>3. CASE \E t : Returns(t)
      BY <3>3, NothingRecorded
         DEF Returns, liveVars, NoMovement, ElsewhereStep, Deducts
    <3> QED
      BY <2>3, <3>1, <3>2, <3>3 DEF TikTokStep, TikTokActs
  <2> QED
    BY <2>1, <2>2, <2>3
<1> QED
  BY <1>1, <1>2

(***************************************************************************)
(* While no two requests on one TikTok order have overlapped, the stock is *)
(* soundly taken, and what each thread has read is still so.               *)
(***************************************************************************)
TakenSoundly ==
  Uncrossed =>
    /\ StockSound
    /\ \A h \in Agents : StillSo(agent[h], remote, tkOrders, tkLines, movements)

LEMMA OthersStillSo ==
  ASSUME TikTokTypeOK, WorkBelongs, StockSound, RefsKept, NEW h \in Agents, OnlyItsOwn(h),
         GivesOnlyIts(h), UNCHANGED remote, NEW g \in Agents,
         Concerns(agent[g]) \cap Concerns(agent[h]) = {},
         StillSo(agent[g], remote, tkOrders, tkLines, movements)
  PROVE  StillSo(agent[g], remote', tkOrders', tkLines', movements')
<1> DEFINE w == agent[g]
           orders == tkOrders
           lines == tkLines
           ms == movements
           rem == remote
           orders2 == tkOrders'
           lines2 == tkLines'
           ms2 == movements'
           rem2 == remote'
<1>1. /\ IsWork(w, DOMAIN orders, DOMAIN lines) /\ About(w, orders, lines)
      /\ StillSo(w, rem, orders, lines, ms)
  BY TikTokParts DEF WorkBelongs
<1>2. \A l \in DOMAIN lines : lines[l].order \in DOMAIN orders
  BY TikTokRows
<1>3. \A o \in DOMAIN orders : orders[o].ref \in Concerns(w) => orders2[o] = orders[o]
  BY DEF OnlyItsOwn
<1>4. \A l \in DOMAIN lines :
        orders[lines[l].order].ref \in Concerns(w) => lines2[l] = lines[l]
  BY DEF OnlyItsOwn, RefsKept
<1>5. ASSUME NEW o \in DOMAIN orders2, orders2[o].ref \in Concerns(w), GaveSome(ms2, o)
      PROVE  o \in DOMAIN orders /\ orders[o].ref = orders2[o].ref /\ GaveSome(ms, o)
  <2>1. CASE GaveSome(ms, o)
    <3>1. o \in DOMAIN orders
      BY <2>1 DEF StockSound, RowsNamed, GaveSome
    <3> QED
      BY <2>1, <3>1 DEF RefsKept
  <2>2. CASE ~GaveSome(ms, o)
    <3>1. o \in DOMAIN orders /\ orders[o].ref \in Concerns(agent[h])
      BY <1>5, <2>2 DEF GivesOnlyIts
    <3>2. orders2[o].ref = orders[o].ref
      BY <3>1 DEF RefsKept
    <3> QED
      BY <1>5, <3>1, <3>2
  <2> QED
    BY <2>1, <2>2
<1>6. \A t \in LotOrders : rem[t] = "cancelled" => rem2[t] = "cancelled"
  OBVIOUS
<1> HIDE DEF w, orders, lines, ms, rem, orders2, lines2, ms2, rem2
<1>7. StillSo(w, rem2, orders2, lines2, ms2)
  BY <1>1, <1>2, <1>3, <1>4, <1>5, <1>6, StillSoKept
<1> QED
  BY <1>7 DEF w, orders2, lines2, ms2, rem2

LEMMA TakenSoundlyElsewhere ==
  ASSUME WarehouseTypeOK, WorkBelongs, StockSound, ElsewhereStep,
         \A h \in Agents : StillSo(agent[h], remote, tkOrders, tkLines, movements)
  PROVE  /\ StockSound'
         /\ \A h \in Agents : StillSo(agent'[h], remote', tkOrders', tkLines', movements')
<1>1. TikTokTypeOK /\ StockType
  BY DEF WarehouseTypeOK
<1>2. /\ UNCHANGED <<tkOrders, tkLines, agent, corrected>>
      /\ Recorded(movements, movements', {})
      /\ \A t \in LotOrders : remote[t] = "cancelled" => remote'[t] = "cancelled"
  BY DEF ElsewhereStep, saleTables
<1>3. SoundlyTaken(corrected')
  BY <1>2, SoundlyIdle
<1>4. RefsKept
  BY <1>2 DEF RefsKept
<1>5. /\ SalesSound' /\ RowsNamed'
      /\ \A o : GaveSome(movements', o) => GaveSome(movements, o)
  BY <1>1, <1>2, <1>3, <1>4, SoundAfter
<1>6. LiveEnded'
  BY <1>2, <1>5 DEF StockSound, LiveEnded
<1>7. ASSUME NEW g \in Agents
      PROVE  StillSo(agent'[g], remote', tkOrders', tkLines', movements')
  <2> DEFINE w == agent[g]
             orders == tkOrders
             lines == tkLines
             ms == movements
             rem == remote
             ms2 == movements'
             rem2 == remote'
  <2>1. /\ IsWork(w, DOMAIN orders, DOMAIN lines) /\ About(w, orders, lines)
        /\ StillSo(w, rem, orders, lines, ms)
    BY <1>1, TikTokParts DEF WorkBelongs
  <2>2. \A l \in DOMAIN lines : lines[l].order \in DOMAIN orders
    BY <1>1, TikTokRows
  <2>3. \A o \in DOMAIN orders : GaveSome(ms2, o) => GaveSome(ms, o)
    BY <1>5
  <2>4. \A t \in LotOrders : rem[t] = "cancelled" => rem2[t] = "cancelled"
    BY <1>2
  <2> HIDE DEF w, orders, lines, ms, rem, ms2, rem2
  <2>5. StillSo(w, rem2, orders, lines, ms2)
    BY <2>1, <2>2, <2>3, <2>4, StillSoKept
  <2> QED
    BY <1>2, <2>5 DEF w, orders, lines, ms2, rem2
<1> QED
  BY <1>5, <1>6, <1>7 DEF StockSound

LEMMA TakenSoundlyStep ==
  ASSUME WarehouseTypeOK, WorkBelongs, SalesLookedUp, TakenSoundly,
         [WarehouseNext]_warehouseVars
  PROVE  TakenSoundly'
<1>1. TikTokTypeOK /\ StockType
  BY DEF WarehouseTypeOK
<1>2. Uncrossed' => Uncrossed
  BY DEF WarehouseNext, warehouseVars, Uncrossed
<1> SUFFICES ASSUME Uncrossed'
             PROVE  /\ StockSound'
                    /\ \A h \in Agents :
                         StillSo(agent'[h], remote', tkOrders', tkLines', movements')
  BY DEF TakenSoundly
<1>3. /\ StockSound /\ ~TikTokCrossed
      /\ \A h \in Agents : StillSo(agent[h], remote, tkOrders, tkLines, movements)
  BY <1>2 DEF TakenSoundly, SalesLookedUp
<1>4. CASE ElsewhereStep
  BY <1>3, <1>4, TakenSoundlyElsewhere
<1>5. CASE \E h \in Agents : LiveArrival(h) \/ ShopArrival(h) \/ AgentWork(h)
  <2>1. PICK h \in Agents : LiveArrival(h) \/ ShopArrival(h) \/ AgentWork(h)
    BY <1>5
  <2>2. SoundStep(h)
    BY <1>1, <1>3, <2>1, AgentsSound DEF SoundBefore
  <2>3. /\ RefsKept /\ OnlyItsOwn(h)
        /\ \A g \in Agents \ {h} : agent'[g] = agent[g]
    BY <1>1, <2>1, AgentsBelong, AgentsTouchTheirOwn DEF BelongStep
  <2>4. UNCHANGED remote
    BY <2>1 DEF LiveArrival, ShopArrival, AgentWork
  <2>5. ASSUME NEW g \in Agents
        PROVE  StillSo(agent'[g], remote', tkOrders', tkLines', movements')
    <3>1. CASE g = h
      BY <2>2, <3>1 DEF SoundStep
    <3>2. CASE g # h
      <4>1. Concerns(agent[g]) \cap Concerns(agent[h]) = {}
        BY <1>3, <3>2 DEF TikTokCrossed
      <4>2. StillSo(agent[g], remote', tkOrders', tkLines', movements')
        BY <1>1, <1>3, <2>2, <2>3, <2>4, <4>1, OthersStillSo DEF SoundStep
      <4> QED
        BY <2>3, <3>2, <4>2
    <3> QED
      BY <3>1, <3>2
  <2> QED
    BY <2>2, <2>5 DEF SoundStep
<1> QED
  BY <1>4, <1>5, WhoMovesStock

LEMMA AlwaysTakenSoundly == WarehouseSpec => []TakenSoundly
<1>1. WarehouseInit => TakenSoundly
  <2> SUFFICES ASSUME WarehouseInit PROVE TakenSoundly
    OBVIOUS
  <2>1. \A h \in Agents : agent[h] = Free
    BY DEF WarehouseInit, TikTokInit
  <2>2. \A h \in Agents : StillSo(agent[h], remote, tkOrders, tkLines, movements)
    BY <2>1 DEF StillSo, Free
  <2>3. tkOrders = << >> /\ tkLines = << >> /\ movements = << >>
    BY DEF WarehouseInit, TikTokInit, StockInit
  <2>4. StockSound
    BY <2>3 DEF StockSound, SalesSound, RowsNamed, LiveEnded
  <2> QED
    BY <2>2, <2>4 DEF TakenSoundly
<1>2. WarehouseTypeOK /\ WorkBelongs /\ SalesLookedUp /\ TakenSoundly
        /\ [WarehouseNext]_warehouseVars => TakenSoundly'
  BY TakenSoundlyStep
<1> QED
  BY <1>1, <1>2, WarehouseTypes, WorkAlwaysBelongs, SalesAlwaysLookedUp, PTL
     DEF WarehouseSpec

-----------------------------------------------------------------------------
(* What the movements add up to *)

LEMMA SumOfUnits ==
  ASSUME NEW f, NEW S, IsFiniteSet(S), \A x \in S : f[x] = -1
  PROVE  SumFunctionOnSet(f, S) = -Cardinality(S)
<1> DEFINE good == {R \in SUBSET S : SumFunctionOnSet(f, R) = -Cardinality(R)}
<1>1. {} \in good
  BY SumOfNone, FS_EmptySet
<1>2. ASSUME NEW R \in SUBSET S, NEW a \in R, R \ {a} \in good
      PROVE  R \in good
  <2>1. IsFiniteSet(R) /\ \A x \in R : f[x] \in Int
    BY FS_Subset
  <2>2. SumFunctionOnSet(f, R) = f[a] + SumFunctionOnSet(f, R \ {a})
    BY <2>1, SumWithout
  <2>3. Cardinality(R \ {a}) = Cardinality(R) - 1 /\ Cardinality(R) \in Nat
    BY <2>1, FS_RemoveElement, FS_CardinalityType
  <2>4. SumFunctionOnSet(f, R \ {a}) = -Cardinality(R \ {a}) /\ f[a] = -1
    BY <1>2
  <2>5. SumFunctionOnSet(f, R) = -Cardinality(R)
    BY <2>2, <2>3, <2>4
  <2> QED
    BY <2>5
<1> HIDE DEF good
<1>3. S \in good
  BY <1>1, <1>2, FromSmaller
<1> QED
  BY <1>3 DEF good

LEMMA NetOfOne ==
  ASSUME NEW rows \in Seq(MovementRow), NEW n \in DOMAIN rows
  PROVE  Ledger!NetOfRows(rows, {n}) = rows[n].delta
<1> DEFINE f == [i \in DOMAIN rows |-> rows[i].delta]
<1>1. rows[n] \in MovementRow
  BY LenProperties, ElementOfSeq
<1>2. f[n] = rows[n].delta /\ f[n] \in Int
  BY <1>1 DEF MovementRow
<1>3. Ledger!NetOfRows(rows, {n}) = SumFunctionOnSet(f, {n})
  BY LedgerSum DEF Ledger!NetOfRows
<1> HIDE DEF f
<1>4. SumFunctionOnSet(f, {n}) = f[n] + SumFunctionOnSet(f, {n} \ {n})
  <2>1. IsFiniteSet({n}) /\ \A x \in {n} : f[x] \in Int
    BY <1>2, FS_Singleton
  <2> QED
    BY <2>1, SumWithout
<1>5. SumFunctionOnSet(f, {n} \ {n}) = 0
  <2>1. {n} \ {n} = {}
    OBVIOUS
  <2> QED
    BY <2>1, SumOfNone
<1> QED
  BY <1>2, <1>3, <1>4, <1>5

LEMMA NetOfNoRow ==
  ASSUME NEW rows
  PROVE  Ledger!NetOfRows(rows, {}) = 0
  BY LedgerSum, SumOfNone DEF Ledger!NetOfRows

(***************************************************************************)
(* A sound line's movements come to its one deduction.                     *)
(***************************************************************************)
LEMMA LineComesTo ==
  ASSUME StockType, NEW l, NEW lines, LineSound(movements, lines, l), NEW p
  PROVE  /\ HasMovement("sale_order_line", l, p) <=>
              LineRows(movements, l) # {} /\ lines[l].product = p
         /\ LineNet(l, p) = IF HasMovement("sale_order_line", l, p) THEN -1 ELSE 0
<1> DEFINE rows == RowsFor(LineReferences, l, p)
<1>1. rows = {n \in LineRows(movements, l) : movements[n].product = p}
  BY DEF RowsFor, LineRows
<1>2. HasMovement("sale_order_line", l, p) => LineRows(movements, l) # {}
  BY RowsLookedUp
<1>3. CASE LineRows(movements, l) = {}
  <2>1. rows = {}
    BY <1>1, <1>3
  <2>2. LineNet(l, p) = 0
    BY <2>1, NetOfNoRow DEF LineNet
  <2> QED
    BY <1>2, <1>3, <2>2
<1>4. CASE LineRows(movements, l) # {}
  <2>1. PICK n \in DOMAIN movements :
          /\ LineRows(movements, l) = {n}
          /\ movements[n] = Moves("sale_order_line", l, lines[l].product, -1)
    BY <1>4 DEF LineSound, Took
  <2>2. /\ movements[n].reference = "sale_order_line" /\ movements[n].id = l
        /\ movements[n].product = lines[l].product /\ movements[n].delta = -1
    BY <2>1 DEF Moves
  <2>3. HasMovement("sale_order_line", l, p) => lines[l].product = p
    <3> SUFFICES ASSUME HasMovement("sale_order_line", l, p) PROVE lines[l].product = p
      OBVIOUS
    <3>1. PICK k \in DOMAIN movements :
            /\ movements[k].reference = "sale_order_line"
            /\ movements[k].id = l /\ movements[k].product = p
      BY DEF HasMovement
    <3>2. k \in LineRows(movements, l)
      BY <3>1 DEF LineRows, LineReferences
    <3> QED
      BY <2>1, <2>2, <3>1, <3>2
  <2>4. lines[l].product = p => HasMovement("sale_order_line", l, p)
    BY <2>2 DEF HasMovement
  <2>5. lines[l].product = p => rows = {n}
    BY <1>1, <2>1, <2>2
  <2>6. lines[l].product # p => rows = {}
    BY <1>1, <2>1, <2>2
  <2>7. movements \in Seq(MovementRow)
    BY DEF StockType
  <2>8. Ledger!NetOfRows(movements, {n}) = -1 /\ Ledger!NetOfRows(movements, {}) = 0
    BY <2>2, <2>7, NetOfOne, NetOfNoRow
  <2>9. LineNet(l, p) = Ledger!NetOfRows(movements, rows)
    BY DEF LineNet
  <2> HIDE DEF rows
  <2> QED
    BY <1>4, <2>3, <2>4, <2>5, <2>6, <2>8, <2>9
<1> QED
  BY <1>3, <1>4

LEMMA BackComesTo ==
  ASSUME StockType, NEW o, NEW p,
         BackRows(movements, o, p) # {} => GaveOne(movements, o, p)
  PROVE  BackNet(o, p) = IF WasGivenBack(o, p) THEN 1 ELSE 0
<1>1. RowsFor({"sale_order_cancel"}, o, p) = BackRows(movements, o, p)
  BY DEF RowsFor, BackRows
<1>2. WasGivenBack(o, p) <=> BackRows(movements, o, p) # {}
  BY RowsLookedUp DEF WasGivenBack
<1>3. CASE BackRows(movements, o, p) = {}
  BY <1>1, <1>2, <1>3, NetOfNoRow DEF BackNet
<1>4. CASE BackRows(movements, o, p) # {}
  <2>1. PICK n \in DOMAIN movements :
          BackRows(movements, o, p) = {n} /\ movements[n].delta = 1
    BY <1>4 DEF GaveOne
  <2>2. movements \in Seq(MovementRow)
    BY DEF StockType
  <2>3. Ledger!NetOfRows(movements, {n}) = 1
    BY <2>1, <2>2, NetOfOne
  <2> QED
    BY <1>1, <1>2, <1>4, <2>1, <2>3 DEF BackNet
<1> QED
  BY <1>3, <1>4

(***************************************************************************)
(* A sound order has taken a unit for each line deducted, and given back   *)
(* one of the products it gave back of.                                    *)
(***************************************************************************)
LEMMA SoundSaleComesTo ==
  ASSUME TikTokTypeOK, StockType, NEW o, SaleSound(movements, tkLines, o), NEW p
  PROVE  /\ SaleNet(o, p) = (IF WasGivenBack(o, p) THEN 1 ELSE 0)
                              - Cardinality(DeductedOf(o, p))
         /\ WasGivenBack(o, p) => DeductedOf(o, p) # {}
         /\ ~WasGivenBack(o, p) => AppliedOf(o, p) = DeductedOf(o, p)
         /\ Cardinality(DeductedOf(o, p)) \in Nat
<1> DEFINE f == [l \in DOMAIN tkLines |-> LineNet(l, p)]
           L == LinesOfSale(o)
           D == DeductedOf(o, p)
<1>1. ASSUME NEW l \in L
      PROVE  /\ l \in DOMAIN tkLines /\ LineSound(movements, tkLines, l)
             /\ tkLines[l].order = o
             /\ l \in D <=> LineRows(movements, l) # {} /\ tkLines[l].product = p
             /\ f[l] = IF l \in D THEN -1 ELSE 0
  <2>1. l \in DOMAIN tkLines /\ tkLines[l].order = o
    BY DEF LinesOfSale
  <2>2. LineSound(movements, tkLines, l)
    BY <2>1 DEF SaleSound
  <2>3. l \in D <=> HasMovement("sale_order_line", l, p)
    BY DEF DeductedOf
  <2>4. f[l] = LineNet(l, p)
    BY <2>1
  <2> HIDE DEF f, D
  <2> QED
    BY <2>1, <2>2, <2>3, <2>4, LineComesTo
<1>2. L \subseteq DOMAIN tkLines /\ D \subseteq L
  BY DEF LinesOfSale, DeductedOf
<1>3. IsFiniteSet(L)
  BY <1>2, PositionsFinite DEF TikTokTypeOK
<1>4. IsFiniteSet(D) /\ Cardinality(D) \in Nat
  BY <1>2, <1>3, FS_Subset, FS_CardinalityType
<1>5. WasGivenBack(o, p) <=> BackRows(movements, o, p) # {}
  BY RowsLookedUp DEF WasGivenBack
<1>6. BackRows(movements, o, p) # {} => ReturnSound(movements, tkLines, o, p)
  BY DEF SaleSound
<1>7. BackNet(o, p) = IF WasGivenBack(o, p) THEN 1 ELSE 0
  BY <1>6, BackComesTo DEF ReturnSound
<1>8. Ledger!SumFunctionOnSet(f, L) = SumFunctionOnSet(f, L)
  <2> HIDE DEF f, L
  <2> QED
    BY LedgerSum
<1>9. SaleNet(o, p) = BackNet(o, p) + SumFunctionOnSet(f, L)
  BY <1>8 DEF SaleNet
<1> HIDE DEF f, L, D
<1>10. SumFunctionOnSet(f, L) = -Cardinality(D)
  <2>1. SumFunctionOnSet(f, L) = SumFunctionOnSet(f, D)
    BY <1>1, <1>2, <1>3, SumOfPart
  <2>2. \A l \in D : f[l] = -1
    BY <1>1, <1>2
  <2> QED
    BY <1>4, <2>1, <2>2, SumOfUnits
<1>11. SaleNet(o, p) = (IF WasGivenBack(o, p) THEN 1 ELSE 0) - Cardinality(D)
  BY <1>4, <1>7, <1>9, <1>10
<1>12. ASSUME WasGivenBack(o, p) PROVE D # {}
  <2>1. PICK l \in DOMAIN tkLines :
          tkLines[l].order = o /\ tkLines[l].product = p /\ LineRows(movements, l) # {}
    BY <1>5, <1>6, <1>12 DEF ReturnSound
  <2>2. l \in L
    BY <2>1 DEF L, LinesOfSale
  <2> QED
    BY <1>1, <2>1, <2>2
<1>13. ASSUME ~WasGivenBack(o, p) PROVE AppliedOf(o, p) = D
  <2>1. BackRows(movements, o, p) = {}
    BY <1>5, <1>13
  <2>2. ASSUME NEW l \in L, tkLines[l].product = p
        PROVE  tkLines[l].applied <=> l \in D
    BY <1>1, <2>1, <2>2 DEF LineSound
  <2>3. \A l : l \in AppliedOf(o, p) <=> l \in D
    BY <1>1, <1>2, <2>2 DEF AppliedOf, L
  <2> QED
    BY <2>3
<1> QED
  BY <1>4, <1>11, <1>12, <1>13 DEF D

(***************************************************************************)
(* As long as no two requests on one TikTok order overlap: of a product of *)
(* which an order has given nothing back, its movements come to a unit out *)
(* for each flagged line, whichever of apply_sale_order_inventory,         *)
(* replace_tiktok_live_lot_product and apply_tiktok_live_session_inventory *)
(* took it; of one that reverse_sale_order_inventory has given back, to a  *)
(* unit out for each line that took its stock, of which there is one, and  *)
(* the one unit returned. The corrections that part a lot from its line's  *)
(* stock are left out (corrected).                                         *)
(***************************************************************************)
THEOREM TikTokTakesOnce == WarehouseSpec => []TikTokStockTakenOnce
<1>1. WarehouseTypeOK /\ TakenSoundly => TikTokStockTakenOnce
  <2> SUFFICES ASSUME WarehouseTypeOK, TakenSoundly, Uncrossed
               PROVE  StockTakenOnce
    BY DEF TikTokStockTakenOnce, Uncrossed
  <2> SUFFICES ASSUME NEW o \in DOMAIN tkOrders, tkOrders[o].ref \notin corrected,
                      NEW p \in Products
               PROVE  IF WasGivenBack(o, p)
                        THEN /\ DeductedOf(o, p) # {}
                             /\ SaleNet(o, p) = 1 - Cardinality(DeductedOf(o, p))
                        ELSE SaleNet(o, p) = -Cardinality(AppliedOf(o, p))
    BY DEF StockTakenOnce
  <2>1. TikTokTypeOK /\ StockType
    BY DEF WarehouseTypeOK
  <2>2. SaleSound(movements, tkLines, o)
    BY DEF TakenSoundly, StockSound, SalesSound
  <2>3. /\ SaleNet(o, p) = (IF WasGivenBack(o, p) THEN 1 ELSE 0)
                             - Cardinality(DeductedOf(o, p))
        /\ WasGivenBack(o, p) => DeductedOf(o, p) # {}
        /\ ~WasGivenBack(o, p) => AppliedOf(o, p) = DeductedOf(o, p)
        /\ Cardinality(DeductedOf(o, p)) \in Nat
    BY <2>1, <2>2, SoundSaleComesTo
  <2>4. CASE WasGivenBack(o, p)
    BY <2>3, <2>4
  <2>5. CASE ~WasGivenBack(o, p)
    BY <2>3, <2>5
  <2> QED
    BY <2>4, <2>5
<1> QED
  BY <1>1, WarehouseTypes, AlwaysTakenSoundly, PTL
-----------------------------------------------------------------------------
(* What TikTok posted is followed *)

(***************************************************************************)
(* The status of an order and those it has had.                            *)
(***************************************************************************)
Reached(status) ==
  CASE status = "pending" -> {"pending"}
    [] status = "confirmed" -> {"pending", "confirmed"}
    [] status = "cancelled" -> {"pending", "confirmed", "cancelled"}
    [] OTHER -> {}

(***************************************************************************)
(* An event is of a status that its order has reached, its id is recorded  *)
(* only once it has been posted, and what is processed as a return is one. *)
(***************************************************************************)
EventsKnown ==
  /\ \A e \in events : e.status \in Reached(remote[e.order])
  /\ seenEvents \subseteq {EventId(e) : e \in events}
  /\ \A h \in Agents : agent[h].op = "return" => agent[h].ref \in returned

(***************************************************************************)
(* The sale orders of a TikTok order are there and in the state that       *)
(* follows from its status.                                                *)
(***************************************************************************)
Agrees(t) ==
  /\ posting.items /\ Contents[t] # << >> => t \in Taken
  /\ \A o \in DOMAIN tkOrders :
       tkOrders[o].ref = t => tkOrders[o].state = StateFor(remote[t])

Imports(h, t) == agent[h].op = "shop" /\ agent[h].ref = t

(***************************************************************************)
(* An import of the status the order now has: it will find or create its   *)
(* sale order, or has brought it in line already.                          *)
(***************************************************************************)
IsCurrent(w) ==
  /\ w.status = remote[w.ref]
  /\ w.step = "find" => /\ w.products = Contents[w.ref]
                        /\ posting.items => w.items
  /\ w.step \in {"sync", "line", "apply"} => Agrees(w.ref)

(***************************************************************************)
(* An order whose last event was taken up in time is being imported as it  *)
(* now is, or its sale order agrees.                                       *)
(***************************************************************************)
FollowedFor(t) ==
  /\ \A h \in Agents : Imports(h, t) => IsCurrent(agent[h])
  /\ (\A h \in Agents : ~Imports(h, t)) => Agrees(t)

Followed == Uncrossed /\ posting.named => \A t \in UpToDate : FollowedFor(t)

LEMMA FollowingIsNew ==
  ASSUME NEW old, NEW status \in FollowingStatus(old)
  PROVE  status \notin Reached(old) /\ Reached(old) \subseteq Reached(status)
         /\ status \in Reached(status)
  BY DEF FollowingStatus, Reached

(***************************************************************************)
(* What TikTok does to its orders and events.                              *)
(***************************************************************************)
LEMMA ChangesKnown ==
  ASSUME TikTokTypeOK, EventsKnown, NEW t \in TikTokOrders, Changes(t)
  PROVE  /\ EventsKnown'
         /\ posting.named => t \notin UpToDate'
         /\ UpToDate' \ {t} \subseteq UpToDate
         /\ \A u : u # t /\ u \in TikTokOrders => remote'[u] = remote[u]
<1>1. PICK status \in FollowingStatus(remote[t]) :
        /\ remote' = [remote EXCEPT ![t] = status]
        /\ events' = IF t \in ShopOrders
                       THEN events \cup {[order |-> t, status |-> status]}
                       ELSE events
  BY DEF Changes
<1>2. /\ remote'[t] = status
      /\ \A u \in TikTokOrders : u # t => remote'[u] = remote[u]
  BY <1>1 DEF TikTokTypeOK
<1>3. /\ status \notin Reached(remote[t]) /\ Reached(remote[t]) \subseteq Reached(status)
      /\ status \in Reached(status)
  BY <1>1, FollowingIsNew
<1>4. UNCHANGED <<posting, seenEvents, astray, returned, agent>>
  BY DEF Changes
<1>5. /\ \A e \in events : e.order \in TikTokOrders
      /\ events \subseteq events'
  BY <1>1 DEF TikTokTypeOK, TikTokOrders
<1>6. \A e \in events' : e.status \in Reached(remote'[e.order])
  <2> TAKE e \in events'
  <2>1. CASE e \in events
    BY <1>2, <1>3, <1>5, <2>1 DEF EventsKnown
  <2>2. CASE e \notin events
    <3>1. e = [order |-> t, status |-> status]
      BY <1>1, <2>2
    <3> QED
      BY <1>2, <1>3, <3>1
  <2> QED
    BY <2>1, <2>2
<1>7. seenEvents' \subseteq {EventId(e)' : e \in events'}
  BY <1>4, <1>5 DEF EventsKnown, EventId
<1>8. EventsKnown'
  BY <1>4, <1>6, <1>7 DEF EventsKnown
<1>9. posting.named => t \notin UpToDate'
  <2> SUFFICES ASSUME posting.named, t \in UpToDate' PROVE FALSE
    OBVIOUS
  <2> DEFINE last == [order |-> t, status |-> status]
  <2>1. <<t, status>> \in seenEvents
    BY <1>2, <1>4 DEF UpToDate, EventId
  <2>2. PICK e \in events : EventId(e) = <<t, status>>
    BY <2>1 DEF EventsKnown
  <2>3. e.order = t /\ e.status = status
    BY <2>2 DEF EventId
  <2> QED
    BY <1>3, <2>3 DEF EventsKnown
<1>10. UpToDate' \ {t} \subseteq UpToDate
  <2> SUFFICES ASSUME NEW u \in UpToDate', u # t PROVE u \in UpToDate
    OBVIOUS
  <2>1. u \in ShopOrders \ (astray \cup returned) /\ u \in TikTokOrders
    BY <1>4 DEF UpToDate, TikTokOrders
  <2>2. /\ [order |-> u, status |-> remote[u]] \in events'
        /\ EventId([order |-> u, status |-> remote[u]]) \in seenEvents
    BY <1>2, <1>4, <2>1 DEF UpToDate, EventId
  <2>3. [order |-> u, status |-> remote[u]] # [order |-> t, status |-> status]
    OBVIOUS
  <2>4. [order |-> u, status |-> remote[u]] \in events
    BY <1>1, <2>2, <2>3
  <2> QED
    BY <2>1, <2>2, <2>4 DEF UpToDate
<1> QED
  BY <1>2, <1>8, <1>9, <1>10

(***************************************************************************)
(* A thread that does not import the order has nothing to do with it, and  *)
(* leaves it as it is.                                                     *)
(***************************************************************************)
LEMMA OthersConcern ==
  ASSUME TikTokTypeOK, EventsKnown, NEW h \in Agents, NEW t \in ShopOrders \ returned,
         ~Imports(h, t)
  PROVE  t \notin Concerns(agent[h])
<1> DEFINE w == agent[h]
<1>1. t \notin LotOrders
  BY LotsAndShopDiffer
<1>2. CASE w.op = "import"
  <2>1. w.rows \in Seq(ImportRow)
    BY <1>2, ThreadOf DEF IsImport, ImportWork
  <2>2. \A n \in DOMAIN w.rows : w.rows[n].lot \in LotOrders
    <3> DEFINE rows == w.rows
    <3> SUFFICES ASSUME NEW n \in DOMAIN rows PROVE rows[n].lot \in LotOrders
      OBVIOUS
    <3> HIDE DEF rows
    <3>1. rows[n] \in ImportRow
      BY <2>1, ElementOfSeq, LenProperties DEF rows
    <3> QED
      BY <3>1 DEF ImportRow
  <2> QED
    BY <1>1, <1>2, <2>2 DEF Concerns
<1>3. CASE w.op = "correct"
  BY <1>1, <1>3, ThreadOf DEF CorrectionWork, Concerns
<1>4. CASE w.op = "session"
  BY <1>1, <1>4 DEF Concerns
<1>5. CASE w.op = "shop"
  BY <1>5 DEF Imports, Concerns
<1>6. CASE w.op = "return"
  BY <1>6 DEF EventsKnown, Concerns
<1> QED
  BY <1>2, <1>3, <1>4, <1>5, <1>6 DEF Concerns

LEMMA AgreesElsewhere ==
  ASSUME TikTokTypeOK, NEW h \in Agents, NEW t, t \notin Concerns(agent[h]),
         OnlyItsOwn(h), RefsKept, LookedUpStep(h), UNCHANGED <<remote, posting>>,
         Agrees(t)
  PROVE  Agrees(t)'
<1>1. t \in Taken => t \in Taken'
  BY DEF Taken, RefsKept
<1>2. ASSUME NEW o \in DOMAIN tkOrders', tkOrders'[o].ref = t
      PROVE  tkOrders'[o].state = StateFor(remote[t])
  <2>1. t \in Taken'
    BY <1>2 DEF Taken
  <2>2. t \in Taken
    BY <2>1 DEF LookedUpStep
  <2>3. PICK p \in DOMAIN tkOrders : tkOrders[p].ref = t
    BY <2>2 DEF Taken
  <2>4. p \in DOMAIN tkOrders' /\ tkOrders'[p].ref = t
    BY <2>3 DEF RefsKept
  <2>5. o = p
    BY <1>2, <2>4 DEF LookedUpStep, RefsUnique
  <2>6. tkOrders'[p] = tkOrders[p]
    BY <2>3 DEF OnlyItsOwn
  <2> QED
    BY <2>3, <2>5, <2>6 DEF Agrees
<1> QED
  BY <1>1, <1>2 DEF Agrees

LEMMA FollowedElsewhere ==
  ASSUME TikTokTypeOK, EventsKnown, NEW h \in Agents, NEW t \in ShopOrders \ returned,
         ~Imports(h, t), ~Imports(h, t)', \A g \in Agents \ {h} : agent'[g] = agent[g],
         OnlyItsOwn(h), RefsKept, LookedUpStep(h), UNCHANGED <<remote, posting>>,
         FollowedFor(t)
  PROVE  FollowedFor(t)'
<1>1. Agrees(t) => Agrees(t)'
  BY OthersConcern, AgreesElsewhere
<1>2. ASSUME NEW g \in Agents, Imports(g, t)'
      PROVE  Imports(g, t) /\ IsCurrent(agent[g])'
  <2>1. g # h /\ agent'[g] = agent[g]
    BY <1>2
  <2>2. Imports(g, t)
    BY <1>2, <2>1 DEF Imports
  <2>3. IsCurrent(agent[g]) /\ agent[g].ref = t
    BY <2>2 DEF FollowedFor, Imports
  <2> QED
    BY <1>1, <2>1, <2>2, <2>3 DEF IsCurrent
<1>3. ASSUME \A g \in Agents : ~Imports(g, t)'
      PROVE  Agrees(t)'
  <2>1. \A g \in Agents : ~Imports(g, t)
    <3> TAKE g \in Agents
    <3>1. CASE g = h
      BY <3>1
    <3>2. CASE g # h
      <4>1. agent'[g] = agent[g] /\ ~Imports(g, t)'
        BY <1>3, <3>2
      <4> QED
        BY <4>1 DEF Imports
    <3> QED
      BY <3>1, <3>2
  <2> QED
    BY <1>1, <2>1 DEF FollowedFor
<1> QED
  BY <1>2, <1>3 DEF FollowedFor

(***************************************************************************)
(* The import that an order is in: what it writes agrees with what TikTok  *)
(* says of the order now.                                                  *)
(***************************************************************************)
OwnFollows(h, t) ==
  /\ Imports(h, t)' => IsCurrent(agent[h])'
  /\ ~Imports(h, t)' => Agrees(t)'

LEMMA EndsAgreeing ==
  ASSUME TikTokTypeOK, NEW h \in Agents, NEW t, Becomes(h, Free), Agrees(t)'
  PROVE  OwnFollows(h, t)
<1>1. agent'[h] = Free
  BY ThreadSet
<1>2. ~Imports(h, t)'
  BY <1>1 DEF Imports, Free
<1> QED
  BY <1>2 DEF OwnFollows

LEMMA GoesOnAgreeing ==
  ASSUME TikTokTypeOK, NEW h \in Agents, NEW t, NEW v, Becomes(h, v),
         v.op = "shop", v.ref = t, v.status = remote[t], v.step # "find",
         UNCHANGED remote, v.step \in {"sync", "line", "apply"} => Agrees(t)'
  PROVE  OwnFollows(h, t)
<1>1. agent'[h] = v
  BY ThreadSet
<1>2. Imports(h, t)'
  BY <1>1 DEF Imports
<1>3. IsCurrent(agent[h])'
  BY <1>1 DEF IsCurrent
<1> QED
  BY <1>2, <1>3 DEF OwnFollows

LEMMA AgreesUnwritten ==
  ASSUME UNCHANGED <<tkOrders, remote, posting>>, NEW t, Agrees(t)
  PROVE  Agrees(t)'
  BY DEF Agrees, Taken

LEMMA FindSaleFollows ==
  ASSUME TikTokTypeOK, NEW h \in Agents, FindSale(h), UNCHANGED remote,
         NEW t, Imports(h, t), IsCurrent(agent[h])
  PROVE  OwnFollows(h, t)
<1> DEFINE w == agent[h]
           S == SalesOf(w.ref)
           newest == CHOOSE o \in S : \A p \in S : p <= o
           payment == tkOrders[newest].payment
           found == [w EXCEPT !.step = "update", !.order = newest, !.payment = payment]
           create == [w EXCEPT !.step = "create"]
<1>1. /\ UNCHANGED <<saleTables, posting>> /\ At(h, "shop", "find")
      /\ Becomes(h, IF S # {} THEN found
                    ELSE IF w.items /\ w.products # << >> THEN create ELSE Free)
  BY DEF FindSale, shopVars
<1>2. w \in ShopImportWork /\ w.step = "find"
  BY <1>1, AtShop
<1>3. /\ w.ref = t /\ w.status = remote[t] /\ w.products = Contents[t]
      /\ posting.items => w.items
  BY <1>2 DEF Imports, IsCurrent
<1>4. CASE S = {} /\ ~(w.items /\ w.products # << >>)
  <2>1. t \notin Taken
    BY <1>3, <1>4, NoneOf
  <2>2. Agrees(t)
    BY <1>3, <1>4, <2>1 DEF Agrees, Taken
  <2>3. Agrees(t)'
    BY <1>1, <2>2, AgreesUnwritten DEF saleTables
  <2> QED
    BY <1>1, <1>4, <2>3, EndsAgreeing
<1>5. CASE S # {}
  <2> HIDE DEF w, newest, payment
  <2>1. /\ found.op = "shop" /\ found.ref = w.ref /\ found.status = w.status
        /\ found.step = "update"
    BY <1>2 DEF ShopImportWork
  <2> HIDE DEF found, S
  <2> QED
    BY <1>1, <1>3, <1>5, <2>1, GoesOnAgreeing
<1>6. CASE S = {} /\ w.items /\ w.products # << >>
  <2> HIDE DEF w, newest, payment
  <2>1. /\ create.op = "shop" /\ create.ref = w.ref /\ create.status = w.status
        /\ create.step = "create"
    BY <1>2 DEF ShopImportWork
  <2> HIDE DEF create, found, S
  <2> QED
    BY <1>1, <1>3, <1>6, <2>1, GoesOnAgreeing
<1> QED
  BY <1>4, <1>5, <1>6

LEMMA UpdateShopSaleFollows ==
  ASSUME TikTokTypeOK, WorkBelongs, RefsUnique, NEW h \in Agents, UpdateShopSale(h),
         UNCHANGED remote, NEW t, Imports(h, t), IsCurrent(agent[h])
  PROVE  OwnFollows(h, t)
<1> DEFINE w == agent[h]
           state == StateFor(w.status)
           payment == PaymentFor(w.status, w.payment)
           v == [w EXCEPT !.step = "sync"]
<1>1. /\ At(h, "shop", "update") /\ Becomes(h, v) /\ UNCHANGED posting
      /\ tkOrders' = Rewritten(w.order, state, payment)
  BY DEF UpdateShopSale, shopVars
<1>2. w \in ShopImportWork /\ w.ref = t /\ w.status = remote[t]
  BY <1>1, AtShop DEF Imports, IsCurrent
<1>3. w.order \in DOMAIN tkOrders /\ tkOrders[w.order].ref = t
  BY <1>1, <1>2, ShopAtItsOwn
<1> HIDE DEF w, state, payment
<1>4. /\ v.op = "shop" /\ v.ref = w.ref /\ v.status = w.status /\ v.step = "sync"
  BY <1>2 DEF ShopImportWork
<1> HIDE DEF v
<1>5. /\ DOMAIN tkOrders' = DOMAIN tkOrders
      /\ \A o \in DOMAIN tkOrders : o # w.order => tkOrders'[o] = tkOrders[o]
      /\ tkOrders'[w.order] = [tkOrders[w.order] EXCEPT !.state = state, !.payment = payment]
  BY <1>1, <1>3 DEF Rewritten
<1>6. tkOrders[w.order] \in TikTokRow
  BY <1>3, TikTokRows
<1>7. tkOrders'[w.order].state = state /\ tkOrders'[w.order].ref = t
  BY <1>3, <1>5, <1>6 DEF TikTokRow
<1>8. Agrees(t)'
  <2>1. t \in Taken'
    BY <1>3, <1>5, <1>7 DEF Taken
  <2>2. ASSUME NEW o \in DOMAIN tkOrders', tkOrders'[o].ref = t
        PROVE  o = w.order
    BY <1>3, <1>5, <2>2 DEF RefsUnique
  <2>3. state = StateFor(remote[t])
    BY <1>2 DEF state
  <2> QED
    BY <1>7, <2>1, <2>2, <2>3 DEF Agrees
<1> QED
  BY <1>1, <1>2, <1>4, <1>8, GoesOnAgreeing

LEMMA CreateShopSaleFollows ==
  ASSUME TikTokTypeOK, RefsUnique, NEW h \in Agents, LookedUp(agent[h], Taken),
         CreateShopSale(h), UNCHANGED remote, NEW t, Imports(h, t), IsCurrent(agent[h])
  PROVE  OwnFollows(h, t)
<1> DEFINE w == agent[h]
           sale == [ref |-> w.ref, state |-> StateFor(w.status),
                    payment |-> PaymentFor(w.status, "unpaid")]
           o == Len(tkOrders) + 1
           v == [w EXCEPT !.step = "line", !.order = o]
<1>1. /\ At(h, "shop", "create") /\ Becomes(h, v) /\ UNCHANGED posting
      /\ tkOrders' = Append(tkOrders, sale)
  BY DEF CreateShopSale, shopVars
<1>2. /\ w \in ShopImportWork /\ w.step = "create" /\ w.op = "shop"
      /\ w.ref = t /\ w.status = remote[t]
  BY <1>1, AtShop DEF Imports, IsCurrent
<1>3. t \notin Taken
  BY <1>2 DEF LookedUp
<1>4. /\ DOMAIN tkOrders' = DOMAIN tkOrders \cup {o} /\ tkOrders'[o] = sale
      /\ \A n \in DOMAIN tkOrders : tkOrders'[n] = tkOrders[n]
  BY <1>1, AppendedRow DEF TikTokTypeOK
<1>5. sale.ref = t /\ sale.state = StateFor(remote[t])
  BY <1>2
<1> HIDE DEF w, sale, o
<1>6. /\ v.op = "shop" /\ v.ref = w.ref /\ v.status = w.status /\ v.step = "line"
  BY <1>2 DEF ShopImportWork
<1> HIDE DEF v
<1>7. Agrees(t)'
  <2>1. t \in Taken'
    BY <1>4, <1>5 DEF Taken
  <2>2. ASSUME NEW n \in DOMAIN tkOrders', tkOrders'[n].ref = t
        PROVE  tkOrders'[n].state = StateFor(remote[t])
    <3>1. CASE n = o
      BY <1>4, <1>5, <3>1
    <3>2. CASE n # o
      BY <1>3, <1>4, <2>2, <3>2 DEF Taken
    <3> QED
      BY <3>1, <3>2
  <2> QED
    BY <2>1, <2>2 DEF Agrees
<1> QED
  BY <1>1, <1>2, <1>6, <1>7, GoesOnAgreeing

LEMMA AddShopLineFollows ==
  ASSUME TikTokTypeOK, NEW h \in Agents, AddShopLine(h), UNCHANGED remote,
         NEW t, Imports(h, t), IsCurrent(agent[h])
  PROVE  OwnFollows(h, t)
<1> DEFINE w == agent[h]
           tail == Tail(w.products)
           rest == [w EXCEPT !.products = tail]
           apply == [rest EXCEPT !.step = "apply"]
<1>1. /\ At(h, "shop", "line") /\ UNCHANGED <<tkOrders, posting>>
      /\ Becomes(h, rest) \/ Becomes(h, apply) \/ Becomes(h, Free)
  BY DEF AddShopLine, shopVars
<1>2. w \in ShopImportWork /\ w.step = "line" /\ w.ref = t /\ w.status = remote[t]
  BY <1>1, AtShop DEF Imports, IsCurrent
<1>3. Agrees(t)
  BY <1>2 DEF IsCurrent
<1>4. Agrees(t)'
  BY <1>1, <1>3, AgreesUnwritten
<1> HIDE DEF w, tail
<1>5. rest.op = "shop" /\ rest.ref = t /\ rest.status = remote[t] /\ rest.step = "line"
  BY <1>2 DEF ShopImportWork
<1>6. apply.op = "shop" /\ apply.ref = t /\ apply.status = remote[t] /\ apply.step = "apply"
  BY <1>2 DEF ShopImportWork
<1> HIDE DEF rest, apply
<1>7. CASE Becomes(h, rest)
  BY <1>4, <1>5, <1>7, GoesOnAgreeing
<1>8. CASE Becomes(h, apply)
  BY <1>4, <1>6, <1>8, GoesOnAgreeing
<1>9. CASE Becomes(h, Free)
  BY <1>4, <1>9, EndsAgreeing
<1> QED
  BY <1>1, <1>7, <1>8, <1>9

LEMMA ShopImportFollows ==
  ASSUME TikTokTypeOK, WorkBelongs, RefsUnique, NEW h \in Agents,
         LookedUp(agent[h], Taken), UNCHANGED remote,
         FindSale(h) \/ UpdateShopSale(h) \/ SyncShopSale(h) \/ CreateShopSale(h)
           \/ AddShopLine(h) \/ ApplyShopSale(h),
         NEW t, Imports(h, t), IsCurrent(agent[h])
  PROVE  OwnFollows(h, t)
<1>1. CASE SyncShopSale(h) \/ ApplyShopSale(h)
  <2>1. /\ agent[h].step \in {"sync", "apply"} /\ UNCHANGED <<tkOrders, posting>>
        /\ Becomes(h, Free)
    BY <1>1 DEF SyncShopSale, ApplyShopSale, At, shopVars
  <2>2. Agrees(t)
    BY <2>1 DEF IsCurrent, Imports
  <2> QED
    BY <2>1, <2>2, AgreesUnwritten, EndsAgreeing
<1> QED
  BY <1>1, FindSaleFollows, UpdateShopSaleFollows, CreateShopSaleFollows, AddShopLineFollows

(***************************************************************************)
(* A step that neither is nor becomes an import of the shop's.             *)
(***************************************************************************)
LEMMA NoImport ==
  ASSUME TikTokTypeOK, WorkBelongs, NEW h \in Agents, NEW t,
         \/ LiveArrives(h) \/ LiveGoesOn(h) \/ ReturnRequest(h) \/ StoreReturn(h)
         \/ ToBeReviewed(h) \/ CancelReturned(h) \/ SyncReturned(h) \/ MarkProcessed(h)
  PROVE  ~Imports(h, t) /\ ~Imports(h, t)'
<1> DEFINE w == agent[h]
<1>1. agent'[h] = Free => ~Imports(h, t)'
  BY DEF Imports, Free
<1>2. CASE LiveArrives(h)
  <2>1. agent[h] = Free
    BY <1>2 DEF LiveArrives, ImportRequest, CorrectRequest, SessionRequest
  <2>2. agent'[h].op # "shop"
    BY <1>2, OpOfLiveRequest
  <2> QED
    BY <2>1, <2>2 DEF Imports, Free
<1>3. CASE LiveGoesOn(h)
  <2>1. agent[h].op # "shop"
    BY <1>3 DEF LiveGoesOn, ListSales, UpdateLiveSale, SyncLiveSale, SettleLiveSale,
       CreateLiveSale, AddLiveLine, ApplyLiveSale, ReadLotLine, CorrectLine, ApplySession,
       LiveFails, At
  <2>2. agent'[h] = Free \/ agent'[h].op # "shop"
    BY <1>3, OpOfLiveWork
  <2> QED
    BY <1>1, <2>1, <2>2, SMTT(40) DEF Imports
<1>4. CASE ReturnRequest(h)
  <2>1. PICK u, o : Becomes(h, [op |-> "return", step |-> "store", ref |-> u, order |-> o])
    BY <1>4 DEF ReturnRequest
  <2>2. agent[h] = Free /\ agent'[h].op = "return"
    BY <1>4, <2>1, ThreadSet DEF ReturnRequest
  <2> QED
    BY <2>2 DEF Imports, Free
<1>5. CASE \/ StoreReturn(h) \/ ToBeReviewed(h) \/ CancelReturned(h)
           \/ SyncReturned(h) \/ MarkProcessed(h)
  <2>1. \E step : At(h, "return", step)
    BY <1>5 DEF StoreReturn, ToBeReviewed, CancelReturned, SyncReturned, MarkProcessed
  <2>2. w \in ReturnWork(DOMAIN tkOrders)
    BY <2>1, AtReturn
  <2>3. Becomes(h, Free) \/ \E step : Becomes(h, [w EXCEPT !.step = step])
    BY <1>5 DEF StoreReturn, ToBeReviewed, CancelReturned, SyncReturned, MarkProcessed
  <2>4. w.op = "return"
    BY <2>2 DEF ReturnWork
  <2> HIDE DEF w
  <2>5. \A step : [w EXCEPT !.step = step].op = "return"
    BY <2>2 DEF ReturnWork
  <2>6. agent'[h] = Free \/ agent'[h].op = "return"
    BY <2>3, <2>5, ThreadSet
  <2> QED
    BY <1>1, <2>4, <2>6 DEF Imports, w
<1> QED
  BY <1>2, <1>3, <1>4, <1>5

(***************************************************************************)
(* What a thread's step does to the events: a new one is recorded by the   *)
(* request that takes it up.                                               *)
(***************************************************************************)
LEMMA EventsSeen ==
  ASSUME NEW h, LiveArrival(h) \/ ShopArrival(h) \/ AgentWork(h)
  PROVE  /\ UNCHANGED <<remote, returned, posting, events>> /\ astray \subseteq astray'
         /\ \/ WebhookRequest(h)
            \/ UNCHANGED seenEvents
  BY DEF LiveArrival, ShopArrival, AgentWork, ShopArrives, ShopGoesOn, shopVars,
     SyncRequest, WebhookRequest, ReturnRequest, FindSale, UpdateShopSale, SyncShopSale,
     CreateShopSale, AddShopLine, ApplyShopSale, StoreReturn, ToBeReviewed,
     CancelReturned, SyncReturned, MarkProcessed, ShopFails

LEMMA ReturnsKnown ==
  ASSUME TikTokTypeOK, EventsKnown, WorkBelongs, NEW h \in Agents,
         LiveArrival(h) \/ ShopArrival(h) \/ AgentWork(h)
  PROVE  agent'[h].op = "return" => agent'[h].ref \in returned
<1> DEFINE w == agent[h]
<1>1. Becomes(h, Free) => agent'[h].op # "return"
  BY ThreadSet DEF Free
<1>2. CASE LiveArrives(h)
  BY <1>2, OpOfLiveRequest
<1>3. CASE LiveGoesOn(h)
  BY <1>3, OpOfLiveWork DEF Free
<1>4. CASE SyncRequest(h) \/ WebhookRequest(h)
  <2>1. PICK t, status, items : Becomes(h, ImportOf(t, status, items))
    BY <1>4 DEF SyncRequest, WebhookRequest
  <2>2. ImportOf(t, status, items).op = "shop"
    BY DEF ImportOf
  <2> QED
    BY <2>1, <2>2, ThreadSet
<1>5. CASE ReturnRequest(h)
  <2>1. PICK t \in returned :
          \E o : Becomes(h, [op |-> "return", step |-> "store", ref |-> t, order |-> o])
    BY <1>5 DEF ReturnRequest
  <2> QED
    BY <2>1, ThreadSet
<1>6. CASE FindSale(h) \/ UpdateShopSale(h) \/ CreateShopSale(h) \/ AddShopLine(h)
  BY <1>6, OpOfShopImport DEF Free
<1>7. CASE SyncShopSale(h) \/ ApplyShopSale(h) \/ ToBeReviewed(h) \/ MarkProcessed(h)
           \/ ShopFails(h)
  BY <1>1, <1>7 DEF SyncShopSale, ApplyShopSale, ToBeReviewed, MarkProcessed, ShopFails
<1>8. CASE StoreReturn(h) \/ CancelReturned(h) \/ SyncReturned(h)
  <2>1. \E step : At(h, "return", step)
    BY <1>8 DEF StoreReturn, CancelReturned, SyncReturned
  <2>2. w \in ReturnWork(DOMAIN tkOrders) /\ w.op = "return" /\ w.ref \in returned
    BY <2>1, AtReturn DEF At, EventsKnown
  <2>3. Becomes(h, Free) \/ \E step : Becomes(h, [w EXCEPT !.step = step])
    BY <1>8 DEF StoreReturn, CancelReturned, SyncReturned
  <2> HIDE DEF w
  <2>4. \A step : [w EXCEPT !.step = step].ref = w.ref
    BY <2>2 DEF ReturnWork
  <2>5. CASE Becomes(h, Free)
    BY <1>1, <2>5
  <2>6. ASSUME NEW step, Becomes(h, [w EXCEPT !.step = step])
        PROVE  agent'[h].op = "return" => agent'[h].ref \in returned
    <3>1. agent'[h] = [w EXCEPT !.step = step]
      BY <2>6, ThreadSet
    <3>2. [w EXCEPT !.step = step].ref = w.ref
      BY <2>4
    <3> QED
      BY <2>2, <3>1, <3>2
  <2> QED
    BY <2>3, <2>5, <2>6
<1> QED
  BY <1>2, <1>3, <1>4, <1>5, <1>6, <1>7, <1>8
     DEF LiveArrival, ShopArrival, AgentWork, ShopArrives, ShopGoesOn

LEMMA AgentsKnow ==
  ASSUME TikTokTypeOK, EventsKnown, WorkBelongs, NEW h \in Agents,
         LiveArrival(h) \/ ShopArrival(h) \/ AgentWork(h)
  PROVE  EventsKnown'
<1>1. /\ UNCHANGED <<remote, returned, posting, events>>
      /\ WebhookRequest(h) \/ UNCHANGED seenEvents
  BY EventsSeen
<1>2. seenEvents' \subseteq {EventId(e)' : e \in events'}
  <2>1. CASE WebhookRequest(h)
    <3>1. PICK e \in events : seenEvents' = seenEvents \cup {EventId(e)}
      BY <2>1 DEF WebhookRequest
    <3> QED
      BY <1>1, <3>1 DEF EventsKnown, EventId
  <2>2. CASE UNCHANGED seenEvents
    BY <1>1, <2>2 DEF EventsKnown, EventId
  <2> QED
    BY <1>1, <2>1, <2>2
<1>3. \A g \in Agents \ {h} : agent'[g] = agent[g]
  BY AgentsBelong DEF BelongStep
<1>4. \A g \in Agents : agent'[g].op = "return" => agent'[g].ref \in returned'
  <2> TAKE g \in Agents
  <2>1. CASE g = h
    BY <1>1, <2>1, ReturnsKnown
  <2>2. CASE g # h
    <3>1. agent'[g] = agent[g]
      BY <1>3, <2>2
    <3> QED
      BY <1>1, <3>1 DEF EventsKnown
  <2> QED
    BY <2>1, <2>2
<1> QED
  BY <1>1, <1>2, <1>4 DEF EventsKnown

LEMMA UpToDateBefore ==
  ASSUME NEW h, LiveArrival(h) \/ ShopArrival(h) \/ AgentWork(h),
         ~WebhookRequest(h), NEW t \in UpToDate'
  PROVE  t \in UpToDate
  BY EventsSeen DEF UpToDate, EventId

(***************************************************************************)
(* A request that comes in is of the order's status now, or it is noted as *)
(* outdated; what is up to date after it was so before, but for its order. *)
(***************************************************************************)
LEMMA RequestsImport ==
  ASSUME TikTokTypeOK, posting.named, NEW h \in Agents,
         SyncRequest(h) \/ WebhookRequest(h), UNCHANGED <<remote, returned>>
  PROVE  \E u \in ShopOrders : \E status, items :
           /\ agent[h] = Free /\ agent'[h] = ImportOf(u, status, items)
           /\ status = remote[u] \/ u \in astray'
           /\ posting.items => items
           /\ UpToDate' \ {u} \subseteq UpToDate
<1>1. CASE SyncRequest(h)
  <2>1. PICK u \in ShopOrders : Becomes(h, ImportOf(u, remote[u], TRUE))
    BY <1>1 DEF SyncRequest
  <2>2. agent'[h] = ImportOf(u, remote[u], TRUE)
    BY <2>1, ThreadSet
  <2>3. UNCHANGED shopVars /\ agent[h] = Free
    BY <1>1 DEF SyncRequest
  <2>4. UpToDate' = UpToDate
    BY <2>3 DEF UpToDate, shopVars, EventId
  <2> QED
    BY <2>2, <2>3, <2>4
<1>2. CASE WebhookRequest(h)
  <2>1. PICK e \in events :
          /\ seenEvents' = seenEvents \cup {EventId(e)}
          /\ Becomes(h, ImportOf(e.order, e.status, posting.items))
          /\ astray' = IF e.status = remote[e.order] THEN astray
                       ELSE astray \cup {e.order}
    BY <1>2 DEF WebhookRequest
  <2>2. agent'[h] = ImportOf(e.order, e.status, posting.items) /\ agent[h] = Free
    BY <1>2, <2>1, ThreadSet DEF WebhookRequest
  <2>3. e.order \in ShopOrders
    BY DEF TikTokTypeOK
  <2>4. UNCHANGED <<posting, events>> /\ astray \subseteq astray'
    BY <1>2, <2>1 DEF WebhookRequest
  <2>5. ASSUME NEW v \in UpToDate', v # e.order
        PROVE  v \in UpToDate
    <3>1. <<v, remote[v]>> \in seenEvents \cup {<<e.order, e.status>>}
      BY <2>1, <2>4, <2>5 DEF UpToDate, EventId
    <3>2. <<v, remote[v]>> # <<e.order, e.status>>
      BY <2>5
    <3>3. <<v, remote[v]>> \in seenEvents
      BY <3>1, <3>2
    <3> QED
      BY <2>4, <2>5, <3>3 DEF UpToDate, EventId
  <2>6. e.status = remote[e.order] \/ e.order \in astray'
    BY <2>1
  <2>7. UpToDate' \ {e.order} \subseteq UpToDate
    BY <2>5
  <2> QED
    BY <2>2, <2>3, <2>6, <2>7
<1> QED
  BY <1>1, <1>2

LEMMA NewImportFollows ==
  ASSUME TikTokTypeOK, NEW h \in Agents, NEW t \in ShopOrders, NEW items,
         agent'[h] = ImportOf(t, remote[t], items), posting.items => items,
         UNCHANGED <<remote, posting>>, ~TikTokCrossed'
  PROVE  FollowedFor(t)'
<1>1. Imports(h, t)' /\ IsCurrent(agent[h])'
  BY DEF Imports, IsCurrent, ImportOf
<1>2. ASSUME NEW g \in Agents, Imports(g, t)' PROVE g = h
  <2>1. t \in Concerns(agent'[g]) /\ t \in Concerns(agent'[h])
    BY <1>1, <1>2 DEF Imports, Concerns
  <2> QED
    BY <2>1 DEF TikTokCrossed
<1> QED
  BY <1>1, <1>2 DEF FollowedFor

LEMMA ImportKeepsRef ==
  ASSUME TikTokTypeOK, NEW h \in Agents,
         FindSale(h) \/ UpdateShopSale(h) \/ SyncShopSale(h) \/ CreateShopSale(h)
           \/ AddShopLine(h) \/ ApplyShopSale(h)
  PROVE  agent'[h] = Free \/ agent'[h].ref = agent[h].ref
<1> DEFINE w == agent[h]
<1>1. w \in ShopImportWork
  BY AtShop DEF FindSale, UpdateShopSale, SyncShopSale, CreateShopSale, AddShopLine,
     ApplyShopSale
<1>2. \/ Becomes(h, Free)
      \/ \E v : Becomes(h, v) /\ v.ref = w.ref
  <2>1. CASE FindSale(h)
    <3>1. PICK o, payment :
            \/ Becomes(h, Free) \/ Becomes(h, [w EXCEPT !.step = "create"])
            \/ Becomes(h, [w EXCEPT !.step = "update", !.order = o, !.payment = payment])
      BY <2>1 DEF FindSale
    <3> HIDE DEF w
    <3>2. /\ [w EXCEPT !.step = "create"].ref = w.ref
          /\ [w EXCEPT !.step = "update", !.order = o, !.payment = payment].ref = w.ref
      BY <1>1 DEF ShopImportWork
    <3> QED
      BY <3>1, <3>2
  <2>2. CASE UpdateShopSale(h)
    <3>1. Becomes(h, [w EXCEPT !.step = "sync"])
      BY <2>2 DEF UpdateShopSale
    <3> HIDE DEF w
    <3>2. [w EXCEPT !.step = "sync"].ref = w.ref
      BY <1>1 DEF ShopImportWork
    <3> QED
      BY <3>1, <3>2
  <2>3. CASE CreateShopSale(h)
    <3>1. PICK o : Becomes(h, [w EXCEPT !.step = "line", !.order = o])
      BY <2>3 DEF CreateShopSale
    <3> HIDE DEF w
    <3>2. [w EXCEPT !.step = "line", !.order = o].ref = w.ref
      BY <1>1 DEF ShopImportWork
    <3> QED
      BY <3>1, <3>2
  <2>4. CASE AddShopLine(h)
    <3> DEFINE tail == Tail(w.products)
               rest == [w EXCEPT !.products = tail]
               apply == [rest EXCEPT !.step = "apply"]
    <3>1. Becomes(h, rest) \/ Becomes(h, apply) \/ Becomes(h, Free)
      BY <2>4 DEF AddShopLine
    <3> HIDE DEF w, tail
    <3>2. rest.ref = w.ref /\ apply.ref = w.ref
      BY <1>1 DEF ShopImportWork
    <3> HIDE DEF rest, apply
    <3> QED
      BY <3>1, <3>2
  <2>5. CASE SyncShopSale(h) \/ ApplyShopSale(h)
    BY <2>5 DEF SyncShopSale, ApplyShopSale
  <2> QED
    BY <2>1, <2>2, <2>3, <2>4, <2>5
<1> QED
  BY <1>2, ThreadSet

LEMMA AgentsFollow ==
  ASSUME TikTokTypeOK, EventsKnown, WorkBelongs, SalesLookedUp, SalesLookedUp',
         Uncrossed, Uncrossed', posting.named, Followed, NEW h \in Agents,
         LiveArrival(h) \/ ShopArrival(h) \/ AgentWork(h), NEW t \in UpToDate'
  PROVE  FollowedFor(t)'
<1>1. /\ UNCHANGED <<remote, returned, posting, events>> /\ astray \subseteq astray'
      /\ t \in ShopOrders \ returned /\ t \notin astray'
  BY EventsSeen DEF UpToDate
<1>2. /\ RefsKept /\ OnlyItsOwn(h) /\ LookedUpStep(h)
      /\ \A g \in Agents \ {h} : agent'[g] = agent[g]
  BY AgentsBelong, AgentsTouchTheirOwn, AgentsLookUp DEF BelongStep, SalesLookedUp
<1>3. ASSUME t \in UpToDate, ~Imports(h, t), ~Imports(h, t)'
      PROVE  FollowedFor(t)'
  <2>1. FollowedFor(t)
    BY <1>3 DEF Followed
  <2> QED
    BY <1>1, <1>2, <1>3, <2>1, FollowedElsewhere
<1>4. CASE SyncRequest(h) \/ WebhookRequest(h)
  <2>1. PICK u \in ShopOrders :
          \E status, items :
            /\ agent[h] = Free /\ agent'[h] = ImportOf(u, status, items)
            /\ status = remote[u] \/ u \in astray'
            /\ posting.items => items
            /\ UpToDate' \ {u} \subseteq UpToDate
    BY <1>1, <1>4, RequestsImport
  <2>2. CASE t = u
    <3>1. PICK items :
            agent'[h] = ImportOf(t, remote[t], items) /\ (posting.items => items)
      BY <1>1, <2>1, <2>2
    <3>2. ~TikTokCrossed'
      BY DEF SalesLookedUp
    <3> QED
      BY <1>1, <3>1, <3>2, NewImportFollows
  <2>3. CASE t # u
    <3>1. t \in UpToDate
      BY <2>1, <2>3
    <3>2. ~Imports(h, t) /\ ~Imports(h, t)'
      BY <2>1, <2>3 DEF Imports, Free, ImportOf
    <3> QED
      BY <1>3, <3>1, <3>2
  <2> QED
    BY <2>2, <2>3
<1>5. CASE \/ LiveArrives(h) \/ LiveGoesOn(h) \/ ReturnRequest(h) \/ StoreReturn(h)
           \/ ToBeReviewed(h) \/ CancelReturned(h) \/ SyncReturned(h) \/ MarkProcessed(h)
  <2>1. ~WebhookRequest(h) => t \in UpToDate
    BY UpToDateBefore
  <2> QED
    BY <1>3, <1>4, <1>5, <2>1, NoImport
<1>6. CASE ShopFails(h)
  <2>1. t \in UpToDate \/ WebhookRequest(h)
    BY UpToDateBefore
  <2>2. /\ t # agent[h].ref /\ agent'[h] = Free
    BY <1>1, <1>6, ThreadSet DEF ShopFails
  <2>3. ~Imports(h, t) /\ ~Imports(h, t)'
    BY <2>2 DEF Imports, Free
  <2> QED
    BY <1>3, <1>4, <2>1, <2>3
<1>7. CASE FindSale(h) \/ UpdateShopSale(h) \/ SyncShopSale(h) \/ CreateShopSale(h)
           \/ AddShopLine(h) \/ ApplyShopSale(h)
  <2>1. t \in UpToDate \/ WebhookRequest(h)
    BY UpToDateBefore
  <2>2. CASE t \in UpToDate /\ Imports(h, t)
    <3>1. FollowedFor(t) /\ IsCurrent(agent[h])
      BY <2>2 DEF Followed, FollowedFor
    <3>2. OwnFollows(h, t)
      BY <1>1, <1>7, <2>2, <3>1, ShopImportFollows DEF SalesLookedUp
    <3>3. ASSUME NEW g \in Agents, Imports(g, t)'
          PROVE  g = h
      <4>1. CASE g # h
        <5>1. Imports(g, t)
          BY <1>2, <3>3, <4>1 DEF Imports
        <5>2. t \in Concerns(agent[g]) /\ t \in Concerns(agent[h])
          BY <2>2, <5>1 DEF Imports, Concerns
        <5> QED
          BY <4>1, <5>2 DEF SalesLookedUp, TikTokCrossed
      <4> QED
        BY <4>1
    <3> QED
      BY <3>2, <3>3 DEF OwnFollows, FollowedFor
  <2>3. CASE t \in UpToDate /\ ~Imports(h, t)
    <3>1. agent'[h] = Free \/ agent'[h].ref = agent[h].ref
      BY <1>7, ImportKeepsRef
    <3>2. agent[h].op = "shop"
      BY <1>7 DEF FindSale, UpdateShopSale, SyncShopSale, CreateShopSale, AddShopLine,
         ApplyShopSale, At
    <3>3. ~Imports(h, t)'
      BY <2>3, <3>1, <3>2 DEF Imports, Free
    <3> QED
      BY <1>3, <2>3, <3>3
  <2> QED
    BY <1>4, <2>1, <2>2, <2>3
<1> QED
  BY <1>4, <1>5, <1>6, <1>7 DEF LiveArrival, ShopArrival, AgentWork, ShopArrives, ShopGoesOn

(***************************************************************************)
(* A step of the whole that is not a thread's.                             *)
(***************************************************************************)
LEMMA WhoFollows ==
  ASSUME WarehouseTypeOK, [WarehouseNext]_warehouseVars
  PROVE  \/ UNCHANGED <<remote, returned, saleTables, agent, shopVars>>
         \/ \E t \in TikTokOrders : Changes(t) \/ Returns(t)
         \/ \E h \in Agents : LiveArrival(h) \/ ShopArrival(h) \/ AgentWork(h)
<1>1. CASE UNCHANGED warehouseVars
  BY <1>1 DEF warehouseVars, tiktokVars
<1>2. CASE SellStep \/ BuyStep
  BY <1>2 DEF SellStep, BuyStep, tiktokVars
<1>3. CASE TikTokStep
  <2>1. \/ \E t \in workload.orders : Changes(t) \/ Returns(t)
        \/ \E h \in workload.agents : LiveArrival(h) \/ ShopArrival(h) \/ AgentWork(h)
    BY <1>3 DEF TikTokStep, TikTokActs
  <2>2. workload.agents \subseteq Agents /\ workload.orders \subseteq TikTokOrders
    BY DEF WarehouseTypeOK, Workload
  <2> QED
    BY <2>1, <2>2
<1> QED
  BY <1>1, <1>2, <1>3 DEF WarehouseNext

LEMMA FollowedStep ==
  ASSUME WarehouseTypeOK, WorkBelongs, SalesLookedUp, SalesLookedUp', EventsKnown,
         Followed, [WarehouseNext]_warehouseVars
  PROVE  EventsKnown' /\ Followed'
<1>1. TikTokTypeOK
  BY DEF WarehouseTypeOK
<1>2. Uncrossed' => Uncrossed
  BY DEF WarehouseNext, warehouseVars, Uncrossed
<1>3. CASE UNCHANGED <<remote, returned, saleTables, agent, shopVars>>
  <2>1. EventsKnown'
    BY <1>3 DEF EventsKnown, shopVars, EventId
  <2>2. UpToDate' = UpToDate
    BY <1>3 DEF UpToDate, shopVars, EventId
  <2>3. \A t : FollowedFor(t) => FollowedFor(t)'
    BY <1>3 DEF FollowedFor, Imports, IsCurrent, Agrees, Taken, saleTables, shopVars
  <2> QED
    BY <1>2, <1>3, <2>1, <2>2, <2>3 DEF Followed, shopVars
<1>4. CASE \E t \in TikTokOrders : Changes(t)
  <2>1. PICK t \in TikTokOrders : Changes(t)
    BY <1>4
  <2>2. /\ EventsKnown'
        /\ posting.named => t \notin UpToDate'
        /\ UpToDate' \ {t} \subseteq UpToDate
        /\ \A u : u # t /\ u \in TikTokOrders => remote'[u] = remote[u]
    BY <1>1, <2>1, ChangesKnown
  <2>3. UNCHANGED <<saleTables, agent, posting>>
    BY <2>1 DEF Changes
  <2>4. ASSUME NEW u \in TikTokOrders, u # t, FollowedFor(u)
        PROVE  FollowedFor(u)'
    <3>1. remote'[u] = remote[u]
      BY <2>2, <2>4
    <3>2. Agrees(u) => Agrees(u)'
      BY <2>3, <3>1 DEF Agrees, Taken, saleTables
    <3>3. \A g : Imports(g, u)' => Imports(g, u)
      BY <2>3 DEF Imports
    <3>4. ASSUME NEW g \in Agents, Imports(g, u)
          PROVE  IsCurrent(agent[g])'
      BY <2>3, <2>4, <3>1, <3>2, <3>4 DEF IsCurrent, Imports, FollowedFor
    <3>5. \A g : Imports(g, u) => Imports(g, u)'
      BY <2>3 DEF Imports
    <3> QED
      BY <2>4, <3>2, <3>3, <3>4, <3>5 DEF FollowedFor
  <2>5. ASSUME Uncrossed', posting.named, NEW u \in UpToDate'
        PROVE  FollowedFor(u)'
    <3>1. u # t /\ u \in UpToDate
      BY <2>2, <2>5
    <3>2. u \in TikTokOrders /\ FollowedFor(u)
      BY <1>2, <2>5, <3>1 DEF Followed, UpToDate, TikTokOrders
    <3> QED
      BY <2>4, <3>1, <3>2
  <2>6. posting' = posting
    BY <2>3
  <2>7. Followed'
    BY <2>5, <2>6 DEF Followed
  <2> QED
    BY <2>2, <2>7
<1>5. CASE \E t \in TikTokOrders : Returns(t)
  <2>1. /\ returned \subseteq returned'
        /\ UNCHANGED <<remote, saleTables, agent, shopVars>>
    BY <1>5 DEF Returns
  <2>2. EventsKnown'
    BY <2>1 DEF EventsKnown, shopVars, EventId
  <2>3. UpToDate' \subseteq UpToDate
    BY <2>1 DEF UpToDate, shopVars, EventId
  <2>4. \A t : FollowedFor(t) => FollowedFor(t)'
    BY <2>1 DEF FollowedFor, Imports, IsCurrent, Agrees, Taken, saleTables, shopVars
  <2> QED
    BY <1>2, <2>1, <2>2, <2>3, <2>4 DEF Followed, shopVars
<1>6. CASE \E h \in Agents : LiveArrival(h) \/ ShopArrival(h) \/ AgentWork(h)
  <2>1. PICK h \in Agents : LiveArrival(h) \/ ShopArrival(h) \/ AgentWork(h)
    BY <1>6
  <2>2. EventsKnown'
    BY <1>1, <2>1, AgentsKnow
  <2>3. posting' = posting
    BY <2>1, EventsSeen
  <2>4. Uncrossed' /\ posting.named => \A t \in UpToDate' : FollowedFor(t)'
    BY <1>1, <1>2, <2>1, AgentsFollow
  <2> QED
    BY <2>2, <2>3, <2>4 DEF Followed
<1> QED
  BY <1>3, <1>4, <1>5, <1>6, WhoFollows

LEMMA AlwaysFollowed == WarehouseSpec => [](EventsKnown /\ Followed)
<1>1. WarehouseInit => EventsKnown /\ Followed
  <2> SUFFICES ASSUME WarehouseInit PROVE EventsKnown /\ Followed
    OBVIOUS
  <2>1. \A h \in Agents : agent[h] = Free
    BY DEF WarehouseInit, TikTokInit
  <2>2. events = {} /\ seenEvents = {}
    BY DEF WarehouseInit, ShopInit
  <2>3. EventsKnown
    BY <2>1, <2>2 DEF EventsKnown, Free
  <2>4. UpToDate = {}
    BY <2>2 DEF UpToDate
  <2> QED
    BY <2>3, <2>4 DEF Followed
<1>2. WarehouseTypeOK /\ WorkBelongs /\ SalesLookedUp /\ SalesLookedUp' /\ EventsKnown
        /\ Followed /\ [WarehouseNext]_warehouseVars => EventsKnown' /\ Followed'
  BY FollowedStep
<1> QED
  BY <1>1, <1>2, WarehouseTypes, WorkAlwaysBelongs, SalesAlwaysLookedUp, PTL
     DEF WarehouseSpec

(***************************************************************************)
(* Unless two requests on one TikTok order overlapped, and if events have  *)
(* ids of their own: handle_tiktok_webhook answers a repeated event as a   *)
(* duplicate, and what it takes for one is never the news of a change.  At *)
(* rest, a shop order of which the last event was taken up in time, whose  *)
(* requests did not fail and that was not returned has its sale order in   *)
(* the state that follows from what TikTok posted; and it has one if the   *)
(* events name items.                                                      *)
(***************************************************************************)
THEOREM TikTokFollowed == WarehouseSpec => []EventsFollowed
<1>1. Followed => EventsFollowed
  <2> SUFFICES ASSUME Followed, Uncrossed, posting.named,
                      \A h \in Agents : agent[h] = Free, NEW t \in UpToDate
               PROVE  /\ posting.items /\ Contents[t] # << >> => SalesOf(t) # {}
                      /\ \A o \in SalesOf(t) : tkOrders[o].state = StateFor(remote[t])
    BY DEF EventsFollowed, SalesFollowTikTok, Uncrossed
  <2>1. \A h \in Agents : ~Imports(h, t)
    BY DEF Imports, Free
  <2>2. Agrees(t)
    BY <2>1 DEF Followed, FollowedFor
  <2> QED
    BY <2>2, NoneOf DEF Agrees, SalesOf
<1> QED
  BY <1>1, AlwaysFollowed, PTL
=============================================================================
