---------------------------- MODULE TikTokOrders ----------------------------
(***************************************************************************)
(* The live session and the shop together, with TikTok itself: it sells,   *)
(* confirms, cancels and takes back orders at any time.                    *)
(***************************************************************************)
EXTENDS TikTokLive, TikTokShop

tiktokVars == <<remote, returned, saleTables, agent, liveVars, shopVars>>

FollowingStatus(status) ==
  CASE status = "none" -> {"pending", "confirmed"}
    [] status = "pending" -> {"confirmed", "cancelled"}
    [] status = "confirmed" -> {"cancelled"}
    [] OTHER -> {}

(***************************************************************************)
(* An order changes at TikTok, which posts an event if it is the shop's.   *)
(***************************************************************************)
Changes(t) ==
  /\ \E status \in FollowingStatus(remote[t]) :
       /\ remote' = [remote EXCEPT ![t] = status]
       /\ events' = IF t \in ShopOrders
                      THEN events \cup {[order |-> t, status |-> status]}
                      ELSE events
  /\ NoMovement
  /\ UNCHANGED <<returned, saleTables, agent, liveVars, posting, seenEvents,
                 returnsDone, astray>>

Returns(t) ==
  /\ remote[t] = "confirmed" /\ t \notin returned
  /\ returned' = returned \cup {t}
  /\ NoMovement
  /\ UNCHANGED <<remote, saleTables, agent, liveVars, shopVars>>

TikTokActs(orders) == \E t \in orders : Changes(t) \/ Returns(t)

LiveArrival(h) == LiveArrives(h) /\ UNCHANGED <<remote, returned, shopVars>>

ShopArrival(h) == ShopArrives(h) /\ UNCHANGED <<remote, returned, liveVars>>

AgentWork(h) ==
  \/ LiveGoesOn(h) /\ UNCHANGED <<remote, returned, shopVars>>
  \/ ShopGoesOn(h) /\ UNCHANGED <<remote, returned, liveVars>>

-----------------------------------------------------------------------------
(* Overlaps and types *)

(***************************************************************************)
(* The TikTok orders a thread is at work on.                               *)
(***************************************************************************)
Concerns(w) ==
  CASE w.op = "import" -> {r.lot : r \in {w.rows[n] : n \in DOMAIN w.rows}}
    [] w.op = "correct" -> {w.lot}
    [] w.op = "session" -> LotOrders
    [] w.op \in {"shop", "return"} -> {w.ref}
    [] OTHER -> {}

TikTokCrossed ==
  \E g, h \in Agents :
    g # h /\ Concerns(agent[g]) \cap Concerns(agent[h]) # {}

IsWork(w, orders, lines) ==
  w = Free \/ IsLiveWork(w, orders, lines) \/ IsShopWork(w, orders)

(***************************************************************************)
(* Type correctness: rows keep their shape, a line belongs to an order     *)
(* that exists, and a thread is about an order that does.                  *)
(***************************************************************************)
TikTokTypeOK ==
  /\ remote \in [TikTokOrders -> RemoteStatus] /\ returned \subseteq TikTokOrders
  /\ tkOrders \in Seq(TikTokRow) /\ tkLines \in Seq(TikTokLine)
  /\ \A l \in DOMAIN tkLines : tkLines[l].order \in DOMAIN tkOrders
  /\ lotItems \in [LotOrders -> Seq(Products)] /\ corrected \subseteq LotOrders
  /\ posting \in Postings
  /\ events \subseteq [order : ShopOrders, status : RemoteStatus \ {"none"}]
  /\ returnsDone \subseteq TikTokOrders /\ astray \subseteq TikTokOrders
  /\ DOMAIN agent = Agents
  /\ \A h \in Agents :
       IsWork(agent[h], DOMAIN tkOrders, DOMAIN tkLines)

-----------------------------------------------------------------------------
(* What holds of the sale orders *)

LineReferences ==
  {"sale_order_line", "sale_order_line_swap_in", "sale_order_line_swap_out"}

(***************************************************************************)
(* The units of a product moved for a line, and for an order's return.     *)
(***************************************************************************)
RowsFor(references, id, p) ==
  {n \in DOMAIN movements :
     /\ movements[n].reference \in references
     /\ movements[n].id = id /\ movements[n].product = p}

LineNet(l, p) == Ledger!NetOfRows(movements, RowsFor(LineReferences, l, p))

BackNet(o, p) ==
  Ledger!NetOfRows(movements, RowsFor({"sale_order_cancel"}, o, p))

SaleNet(o, p) ==
  BackNet(o, p)
    + Ledger!SumFunctionOnSet([l \in DOMAIN tkLines |-> LineNet(l, p)],
                              LinesOfSale(o))

WasGivenBack(o, p) == HasMovement("sale_order_cancel", o, p)

AppliedOf(o, p) ==
  {l \in LinesOfSale(o) : tkLines[l].applied /\ tkLines[l].product = p}

OneSalePerReference == \A t \in TikTokOrders : Cardinality(SalesOf(t)) <= 1

DeductedOf(o, p) == {l \in LinesOfSale(o) : HasMovement("sale_order_line", l, p)}

(***************************************************************************)
(* reverse_sale_order_inventory gives back one unit of a product, however  *)
(* many lines of it took theirs.                                           *)
(***************************************************************************)
StockTakenOnce ==
  \A o \in DOMAIN tkOrders : tkOrders[o].ref \notin corrected =>
    \A p \in Products :
      IF WasGivenBack(o, p)
        THEN /\ DeductedOf(o, p) # {}
             /\ SaleNet(o, p) = 1 - Cardinality(DeductedOf(o, p))
        ELSE SaleNet(o, p) = -Cardinality(AppliedOf(o, p))

(***************************************************************************)
(* The shop orders of which TikTok's last event has been answered, none of *)
(* their requests failed or came too late, and no return interfered.       *)
(***************************************************************************)
UpToDate ==
  {t \in ShopOrders \ (astray \cup returned) :
     LET last == [order |-> t, status |-> remote[t]]
     IN last \in events /\ EventId(last) \in seenEvents}

SalesFollowTikTok ==
  (\A h \in Agents : agent[h] = Free) =>
    \A t \in UpToDate :
      /\ posting.items /\ Contents[t] # << >> => SalesOf(t) # {}
      /\ \A o \in SalesOf(t) : tkOrders[o].state = StateFor(remote[t])

StockOfReturned(t) ==
  UNION {{l \in LinesOfSale(o) : tkLines[l].applied} : o \in SalesOf(t)}

(***************************************************************************)
(* A correction deducts the replacement once: however often a lot's        *)
(* product has been corrected and the stock of the session applied, no     *)
(* line holds more than one unit of a product.                             *)
(***************************************************************************)
UnitsHeldOnce ==
  \A l \in DOMAIN tkLines, p \in Products : LineNet(l, p) >= -1
=============================================================================
