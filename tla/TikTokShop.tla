----------------------------- MODULE TikTokShop -----------------------------
(***************************************************************************)
(* The orders of the TikTok shop: imported when they are synchronised and  *)
(* when TikTok posts an event about them, which it may do late, out of     *)
(* order and again; and the returns, which cancel what was imported.       *)
(***************************************************************************)
EXTENDS TikTokSales

CONSTANT Postings   \* how TikTok posts its events, see PostingsType

VARIABLES
  posting,      \* whether events have an id of their own and name the items
  events,       \* the events TikTok has posted, each about a shop order
  seenEvents,   \* tiktok_webhook_events.event_id
  returnsDone,  \* tiktok_returns.processed
  astray        \* history: orders of which a request failed or was outdated

shopVars == <<posting, events, seenEvents, returnsDone, astray>>

ASSUME PostingsType == Postings \subseteq [named : BOOLEAN, items : BOOLEAN]

ShopImportWork ==
  [op : {"shop"}, ref : ShopOrders, status : RemoteStatus \ {"none"},
   step : {"find", "update", "sync", "create", "line", "apply"}, items : BOOLEAN,
   order : Nat, payment : {"unpaid", "paid", "refunded"}, products : Seq(Products)]

IsShopImport(w, orders) ==
  /\ w \in ShopImportWork
  /\ w.step \in {"update", "sync", "line", "apply"} => w.order \in orders
  /\ w.step \in {"create", "line"} => w.products # << >>

ReturnWork(orders) ==
  [op : {"return"}, ref : TikTokOrders, order : orders,
   step : {"store", "manual", "update", "sync", "mark"}]

IsShopWork(w, orders) == IsShopImport(w, orders) \/ w \in ReturnWork(orders)

-----------------------------------------------------------------------------
(* import_tiktok_order *)

ImportOf(t, status, items) ==
  [op |-> "shop", step |-> "find", ref |-> t, status |-> status, items |-> items,
   order |-> 0, payment |-> "unpaid", products |-> Contents[t]]

(***************************************************************************)
(* sync_tiktok_orders fetches the orders and imports one after the other.  *)
(***************************************************************************)
SyncRequest(h) ==
  /\ agent[h] = Free
  /\ \E t \in ShopOrders :
       /\ remote[t] # "none"
       /\ Becomes(h, ImportOf(t, remote[t], TRUE))
  /\ NoMovement /\ UNCHANGED <<saleTables, shopVars>>

(***************************************************************************)
(* The newest of the orders with this reference; without one, an order is  *)
(* created if the payload names its items.                                 *)
(***************************************************************************)
FindSale(h) ==
  /\ At(h, "shop", "find")
  /\ LET w == agent[h]
         sales == SalesOf(w.ref)
         newest == CHOOSE o \in sales : \A p \in sales : p <= o
     IN Becomes(h,
          IF sales # {} THEN [w EXCEPT !.step = "update", !.order = newest,
                                !.payment = tkOrders[newest].payment]
          ELSE IF w.items /\ w.products # << >> THEN [w EXCEPT !.step = "create"]
               ELSE Free)
  /\ NoMovement /\ UNCHANGED <<saleTables, shopVars>>

StateFor(status) ==
  CASE status = "cancelled" -> "cancel"
    [] status = "confirmed" -> "sale"
    [] OTHER -> "draft"

PaymentFor(status, otherwise) ==
  CASE status = "cancelled" -> "refunded"
    [] status = "confirmed" -> "paid"
    [] OTHER -> otherwise

UpdateShopSale(h) ==
  /\ At(h, "shop", "update")
  /\ LET w == agent[h]
     IN /\ tkOrders' = Rewritten(w.order, StateFor(w.status),
                                 PaymentFor(w.status, w.payment))
        /\ Becomes(h, [w EXCEPT !.step = "sync"])
  /\ NoMovement /\ UNCHANGED <<tkLines, shopVars>>

SyncShopSale(h) ==
  /\ At(h, "shop", "sync")
  /\ BringInLine(agent[h].order)
  /\ Becomes(h, Free)
  /\ UNCHANGED <<tkOrders, shopVars>>

CreateShopSale(h) ==
  /\ At(h, "shop", "create")
  /\ LET w == agent[h]
     IN /\ tkOrders' = Append(tkOrders,
             [ref |-> w.ref, state |-> StateFor(w.status),
              payment |-> PaymentFor(w.status, "unpaid")])
        /\ Becomes(h, [w EXCEPT !.step = "line", !.order = Len(tkOrders) + 1])
  /\ NoMovement /\ UNCHANGED <<tkLines, shopVars>>

AddShopLine(h) ==
  /\ At(h, "shop", "line")
  /\ LET w == agent[h]
         rest == [w EXCEPT !.products = Tail(@)]
     IN /\ tkLines' = Append(tkLines,
             [order |-> w.order, product |-> Head(w.products), applied |-> FALSE])
        /\ Becomes(h, IF rest.products # << >> THEN rest
                      ELSE IF w.status = "confirmed" THEN [rest EXCEPT !.step = "apply"]
                           ELSE Free)
  /\ NoMovement /\ UNCHANGED <<tkOrders, shopVars>>

ApplyShopSale(h) ==
  /\ At(h, "shop", "apply")
  /\ TakeStock(agent[h].order)
  /\ Becomes(h, Free)
  /\ UNCHANGED <<tkOrders, shopVars>>

-----------------------------------------------------------------------------
(* handle_tiktok_webhook *)

(***************************************************************************)
(* An event without an id of its own goes by the id of its order.          *)
(***************************************************************************)
OrderAsEventId(e) == <<e.order>>

EventId(e) == IF posting.named THEN <<e.order, e.status>> ELSE <<e.order>>

(***************************************************************************)
(* A new event is recorded, and its payload imported.  An event whose id   *)
(* is there already is answered as a duplicate and changes nothing,        *)
(* whatever became of the first one.                                       *)
(***************************************************************************)
WebhookRequest(h) ==
  /\ agent[h] = Free
  /\ \E e \in events :
       /\ EventId(e) \notin seenEvents
       /\ seenEvents' = seenEvents \cup {EventId(e)}
       /\ Becomes(h, ImportOf(e.order, e.status, posting.items))
       /\ astray' = IF e.status = remote[e.order] THEN astray
                    ELSE astray \cup {e.order}
  /\ NoMovement /\ UNCHANGED <<saleTables, posting, events, returnsDone>>

-----------------------------------------------------------------------------
(* sync_tiktok_returns *)

(***************************************************************************)
(* Of a final return, the newest order of ours is looked up first; one     *)
(* that is not ours yet is only noted.                                     *)
(***************************************************************************)
ReturnRequest(h) ==
  /\ agent[h] = Free
  /\ \E t \in returned :
       /\ SalesOf(t) # {}
       /\ Becomes(h, [op |-> "return", step |-> "store", ref |-> t,
            order |-> CHOOSE o \in SalesOf(t) : \A p \in SalesOf(t) : p <= o])
  /\ NoMovement /\ UNCHANGED <<saleTables, shopVars>>

IsWhole(o) == Cardinality(LinesOfSale(o)) = 1

(***************************************************************************)
(* The return's row is written; it keeps that it was processed.  Only an   *)
(* order of one line is processed without a person.                        *)
(***************************************************************************)
StoreReturn(h) ==
  /\ At(h, "return", "store")
  /\ LET w == agent[h]
         done == w.ref \in returnsDone
     IN Becomes(h, IF IsWhole(w.order) /\ ~done THEN [w EXCEPT !.step = "update"]
                   ELSE IF ~IsWhole(w.order) /\ done THEN [w EXCEPT !.step = "manual"]
                        ELSE Free)
  /\ NoMovement /\ UNCHANGED <<saleTables, shopVars>>

ToBeReviewed(h) ==
  /\ At(h, "return", "manual")
  /\ returnsDone' = returnsDone \ {agent[h].ref}
  /\ Becomes(h, Free)
  /\ NoMovement /\ UNCHANGED <<saleTables, posting, events, seenEvents, astray>>

CancelReturned(h) ==
  /\ At(h, "return", "update")
  /\ tkOrders' = Rewritten(agent[h].order, "cancel", "refunded")
  /\ Becomes(h, [agent[h] EXCEPT !.step = "sync"])
  /\ NoMovement /\ UNCHANGED <<tkLines, shopVars>>

ReturnBeforeStock(h) ==
  /\ At(h, "return", "sync")
  /\ NoMovement
  /\ Becomes(h, [agent[h] EXCEPT !.step = "mark"])
  /\ UNCHANGED <<saleTables, shopVars>>

SyncReturned(h) ==
  /\ At(h, "return", "sync")
  /\ BringInLine(agent[h].order)
  /\ Becomes(h, [agent[h] EXCEPT !.step = "mark"])
  /\ UNCHANGED <<tkOrders, shopVars>>

MarkProcessed(h) ==
  /\ At(h, "return", "mark")
  /\ returnsDone' = returnsDone \cup {agent[h].ref}
  /\ Becomes(h, Free)
  /\ NoMovement /\ UNCHANGED <<saleTables, posting, events, seenEvents, astray>>

-----------------------------------------------------------------------------
(* Failures, and the whole *)

(***************************************************************************)
(* A transaction fails, or the request ends with its thread: the event     *)
(* stays recorded.                                                         *)
(***************************************************************************)
ShopFails(h) ==
  /\ agent[h].op \in {"shop", "return"}
  /\ Becomes(h, Free)
  /\ astray' = astray \cup {agent[h].ref}
  /\ NoMovement
  /\ UNCHANGED <<saleTables, posting, events, seenEvents, returnsDone>>

ShopInit ==
  /\ posting \in Postings
  /\ events = {} /\ seenEvents = {} /\ returnsDone = {} /\ astray = {}

ShopArrives(h) == SyncRequest(h) \/ WebhookRequest(h) \/ ReturnRequest(h)

ShopGoesOn(h) ==
  \/ FindSale(h) \/ UpdateShopSale(h) \/ SyncShopSale(h)
  \/ CreateShopSale(h) \/ AddShopLine(h) \/ ApplyShopSale(h)
  \/ StoreReturn(h) \/ ToBeReviewed(h) \/ CancelReturned(h) \/ SyncReturned(h)
  \/ MarkProcessed(h) \/ ShopFails(h)
=============================================================================
