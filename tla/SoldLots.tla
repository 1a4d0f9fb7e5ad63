------------------------------ MODULE SoldLots ------------------------------
(***************************************************************************)
(* The history of sold lots as server/events_db.py rebuilds it from the    *)
(* events of a stream (_reconstruct_sold_lots).  Functions of a sequence   *)
(* of events; times are abstract, so are the windows within which two      *)
(* records are taken for one sale.                                         *)
(***************************************************************************)
EXTENDS StreamTables, SequencesExt

CONSTANTS
  CarryWindow,    \* 20 seconds: a title is carried over to a winner
  SightWindow,    \* 45 seconds: two sightings of one sale
  RepeatWindow,   \* 120 seconds: a winner repeated without lot or product
  LateWindow      \* 600 seconds: the winner of a lot that was closed without

ASSUME WindowsGrow ==
  /\ {CarryWindow, SightWindow, RepeatWindow, LateWindow} \subseteq Nat
  /\ CarryWindow <= SightWindow /\ SightWindow <= RepeatWindow /\ RepeatWindow <= LateWindow

NoActive == [lot |-> -1]

Given(new, old, none) == IF new # none THEN new ELSE old

NewLot(e) ==
  [lot |-> e.lot, product |-> e.product, winner |-> NoOne, price |-> 0, at |-> e.at]

\* Something is known of the lot (close_active: has_signal).
HasSignal(r) == r.winner # NoOne \/ r.price # 0 \/ r.product # "" \/ r.lot # 0

\* A lot is closed at the time of the event that closes it.
Closed(acc, at) ==
  [acc EXCEPT !.active = NoActive,
     !.sold = IF acc.active # NoActive /\ HasSignal(acc.active)
              THEN Append(@, [acc.active EXCEPT !.at = at]) ELSE @]

Opened(acc, e) ==
  IF acc.active = NoActive THEN [acc EXCEPT !.active = NewLot(e)] ELSE acc

\* What an event tells of the active lot replaces what was known.
Told(r, e) ==
  [r EXCEPT !.lot = Given(e.lot, @, 0), !.product = Given(e.product, @, ""),
            !.winner = Given(e.winner, @, NoOne), !.price = Given(e.price, @, 0),
            !.at = e.at]

AnotherLot(r, e) ==
  \/ e.lot \notin {0, r.lot}
  \/ e.product # "" /\ r.product \notin {"", e.product}

AfterTitle(acc, e) == [Opened(acc, e) EXCEPT !.active = Told(@, e)]

AfterLotUpdate(acc, e) ==
  LET known == IF e.product = "" THEN acc
               ELSE [acc EXCEPT !.title = e.product, !.since = e.at]
      free  == IF acc.active # NoActive /\ AnotherLot(acc.active, e)
               THEN Closed(known, e.at) ELSE known
  IN [Opened(free, e) EXCEPT !.active = Told(@, e)]

AfterBid(acc, e) == [Opened(acc, e) EXCEPT !.active = Told(@, e)]

AfterWinner(acc, e) ==
  LET told == [Opened(acc, e) EXCEPT !.active = Told(@, e)]
  IN IF told.active.product = "" /\ acc.title # "" /\ e.at - acc.since <= CarryWindow
     THEN [told EXCEPT !.active.product = acc.title] ELSE told

\* The page has gone on to the next item.
AfterState(acc, e) ==
  IF /\ acc.active # NoActive /\ e.state = "awaiting_next_item"
     /\ acc.active.winner # NoOne \/ acc.active.price # 0
  THEN Closed(acc, e.at) ELSE acc

After(acc, e) ==
  CASE e.type = "lot_update"     -> AfterLotUpdate(acc, e)
    [] e.type = "bid_update"     -> AfterBid(acc, e)
    [] e.type = "auction_winner" -> AfterWinner(acc, e)
    [] e.type = "auction_state"  -> AfterState(acc, e)
    [] OTHER                     -> acc

NothingKnown == [sold |-> << >>, active |-> NoActive, title |-> "", since |-> 0]

Stitched(events) ==
  LET acc == FoldLeft(After, NothingKnown, events)
  IN IF acc.active = NoActive THEN acc.sold ELSE Closed(acc, acc.active.at).sold

\* Pass 1: of the records of one lot number the first one is kept.
SameRecord(r, s) ==
  IF r.lot # 0 \/ s.lot # 0 THEN r.lot = s.lot
  ELSE r.price = s.price /\ r.product = s.product /\ r.at = s.at

WithRecord(kept, r) ==
  IF \E i \in DOMAIN kept : SameRecord(kept[i], r) THEN kept ELSE Append(kept, r)

Deduplicated(sold) == FoldLeft(WithRecord, << >>, sold)

\* Pass 2: a record is folded into an earlier one of the same sale.
Apart(r, s) == IF r.at < s.at THEN s.at - r.at ELSE r.at - s.at

RepeatsWinner(r, s) ==
  /\ Apart(r, s) <= RepeatWindow
  /\ r.winner # NoOne /\ r.winner = s.winner /\ r.price > 0 /\ r.price = s.price
  /\ r.lot = 0 \/ r.product = ""
  /\ s.lot # 0 \/ s.product # ""

SeenTwice(r, s) ==
  /\ r.product # "" /\ r.product = s.product
  /\ \/ /\ Apart(r, s) <= SightWindow
        /\ r.price = s.price \/ r.winner = NoOne \/ s.winner = NoOne
     \/ /\ Apart(r, s) <= LateWindow /\ r.price = s.price
        /\ (r.winner = NoOne) # (s.winner = NoOne)

OneSale(r, s) == (r.lot # 0 /\ r.lot = s.lot) \/ RepeatsWinner(r, s) \/ SeenTwice(r, s)

Richer(s, r) ==
  [lot     |-> Given(s.lot, r.lot, 0),
   product |-> Given(s.product, r.product, ""),
   winner  |-> Given(s.winner, r.winner, NoOne),
   price   |-> IF r.price > s.price THEN r.price ELSE s.price,
   at      |-> IF r.winner # NoOne THEN r.at ELSE s.at]

SaleIn(kept, r) == SelectLastInSeq(kept, LAMBDA s : OneSale(r, s))

WithSale(kept, r) ==
  LET i == SaleIn(kept, r)
  IN IF i = 0 THEN Append(kept, r) ELSE [kept EXCEPT ![i] = Richer(@, r)]

Merged(sold) == FoldLeft(WithSale, << >>, sold)

History(events) == Merged(Deduplicated(Stitched(events)))
=============================================================================
