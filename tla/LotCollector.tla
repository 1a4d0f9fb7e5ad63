---------------------------- MODULE LotCollector ----------------------------
(***************************************************************************)
(* The loop of the collector (src/collector/main.py, run): it looks at the *)
(* page of a live auction again and again, remembers what it has seen, and *)
(* stores what is new as events and as rows of lots.  Every write is a     *)
(* transaction of its own; one that fails is logged and the loop goes on.  *)
(* The page is the environment.  Who may write is CollectorHA's subject:   *)
(* here one process writes, and another one may take its place.            *)
(***************************************************************************)
EXTENDS StreamTables

CONSTANTS
  Buyers,
  Prices,      \* positive
  Workloads    \* what is auctioned and what goes wrong

(***************************************************************************)
(* A workload: the titles of the show, the prices bid, whether the button  *)
(* may come with the banner, whether prices are misread, and how often     *)
(* what goes wrong.  losses and started are lost and restarts at first.    *)
(***************************************************************************)
Workload ==
  [show : Seq([product : STRING, number : Nat]), bids : SUBSET Prices,
   waits : SUBSET BOOLEAN, misread : BOOLEAN, lost : Nat, losses : Nat,
   skips : Nat, restarts : Nat, started : Nat, backfills : Nat, ticks : Nat]

ASSUME CollectorConstants ==
  /\ Prices \subseteq Nat \ {0} /\ NoOne \notin Buyers
  /\ \A w \in Workloads :
       w \in Workload /\ w.losses = w.lost /\ w.started = w.restarts

\* The number of a lot is read in its title.
ASSUME NumbersAreInTitles ==
  \A w \in Workloads : \A i, j \in DOMAIN w.show :
    /\ w.show[i].product = "" => w.show[i].number = 0
    /\ w.show[i].product = w.show[j].product => w.show[i].number = w.show[j].number

VARIABLES
  workload,    \* what is left of it
  page,        \* what the page shows
  sales,       \* history: what has been sold
  now,
  collector,   \* the local variables of run
  events,      \* the table events, in order
  rows         \* the table lots, in order of id

pageVars == <<workload, page, sales, now>>
collectorVars == <<pageVars, collector, events, rows>>

\* The product of a lot is its whole title, "Rose #12"; 0 is no number in it.
NoTitle == [product |-> "", number |-> 0]

Title(i) == IF i = 0 THEN NoTitle ELSE workload.show[i]

-----------------------------------------------------------------------------
(***************************************************************************)
(* The page.  A lot is put up, bids rise, it is sold to a buyer whose      *)
(* banner stays for a while, or it is passed; the button "Awaiting next    *)
(* item" comes with the banner or after it.  A price by the label "Sold"   *)
(* may be another one of the page (misread).                               *)
(***************************************************************************)
BlankPage ==
  [item |-> 0, phase |-> "over", bid |-> 0, winner |-> NoOne, label |-> 0, waiting |-> FALSE]

PutUp ==
  /\ page.phase \in {"open", "over"} /\ page.item < Len(workload.show)
  /\ page' = [BlankPage EXCEPT !.item = page.item + 1, !.phase = "open"]
  /\ UNCHANGED <<workload, sales, now>>

RaiseBid ==
  /\ page.phase = "open"
  /\ \E p \in workload.bids : p > page.bid /\ page' = [page EXCEPT !.bid = p]
  /\ UNCHANGED <<workload, sales, now>>

\* An auction lasts longer than an iteration of the loop.
AuctionOutlastsIteration ==
  collector.step # "look" => collector.seen.item = page.item

Sell ==
  /\ page.phase = "open" /\ page.bid > 0 /\ AuctionOutlastsIteration
  /\ \E b \in Buyers, w \in workload.waits :
       /\ page' = [page EXCEPT !.phase = "sold", !.winner = b, !.waiting = w]
       /\ sales' = Append(sales, [item |-> page.item, buyer |-> b, price |-> page.bid])
  /\ UNCHANGED <<workload, now>>

ShowSoldPrice ==
  /\ page.phase = "sold" /\ page.label = 0
  /\ \E p \in IF workload.misread THEN Prices ELSE {page.bid} :
       page' = [page EXCEPT !.label = p]
  /\ UNCHANGED <<workload, sales, now>>

BannerGoes ==
  /\ page.phase = "sold"
  /\ page' = [page EXCEPT !.phase = "over", !.winner = NoOne, !.label = 0, !.waiting = TRUE]
  /\ UNCHANGED <<workload, sales, now>>

TimePasses ==
  /\ workload.ticks > 0
  /\ now' = now + 1
  /\ workload' = [workload EXCEPT !.ticks = @ - 1]
  /\ UNCHANGED <<page, sales>>

PageMoves ==
  /\ PutUp \/ RaiseBid \/ Sell \/ ShowSoldPrice \/ BannerGoes \/ TimePasses
  /\ UNCHANGED <<collector, events, rows>>

-----------------------------------------------------------------------------
(***************************************************************************)
(* One iteration: look at the page, then compare with what was seen last.  *)
(***************************************************************************)
Started ==
  [step |-> "look", seen |-> BlankPage, title |-> 0, number |-> 0, shown |-> 0,
   price |-> 0, fresh |-> TRUE, state |-> "", winner |-> NoOne, key |-> << >>, row |-> 0]

CollectorInit ==
  /\ workload \in Workloads
  /\ page = BlankPage /\ sales = << >> /\ now = 0
  /\ collector = Started /\ events = << >> /\ rows = << >>

Look ==
  /\ collector.step = "look"
  /\ collector' = [collector EXCEPT !.step = "title", !.seen = page]
  /\ UNCHANGED <<pageVars, events, rows>>

(***************************************************************************)
(* A write is stored, or it fails and the loop goes on as if it had been.  *)
(***************************************************************************)
Stores(e) == events' = Append(events, e) /\ UNCHANGED workload

Fails ==
  /\ workload.lost > 0
  /\ workload' = [workload EXCEPT !.lost = @ - 1]

StoresOrNot(e) == Stores(e) \/ (Fails /\ UNCHANGED events)

TitleIsNew ==
  Title(collector.seen.item) \notin {NoTitle, Title(collector.title)}

NumberKept ==
  IF collector.number # 0 THEN collector.number ELSE Title(collector.seen.item).number

\* A title without a number keeps the number of the lot before.
NumberOfTitle ==
  LET n == Title(collector.seen.item).number
  IN IF n # 0 THEN n ELSE collector.number

LotUpdate ==
  /\ collector.step = "title" /\ TitleIsNew
  /\ StoresOrNot(Event("lot_update", NumberOfTitle, Title(collector.seen.item).product, NoOne, 0, "", now))
  /\ collector' = [collector EXCEPT !.step = "open", !.title = collector.seen.item,
                     !.number = NumberOfTitle, !.fresh = FALSE, !.price = 0, !.shown = 0,
                     !.key = << >>]
  /\ UNCHANGED <<page, sales, now, rows>>

SameTitle ==
  /\ collector.step = "title" /\ ~TitleIsNew
  /\ collector' = [collector EXCEPT !.step = "state"]
  /\ UNCHANGED <<pageVars, events, rows>>

OpenLot ==
  /\ collector.step = "open"
  /\ LET product == Title(collector.title).product
     IN \/ /\ rows' = WithOpenLot(rows, collector.number, product)
           /\ collector' = [collector EXCEPT !.step = "state",
                              !.row = OpenedLot(rows, collector.number, product)]
           /\ UNCHANGED workload
        \/ /\ Fails /\ UNCHANGED rows
           /\ collector' = [collector EXCEPT !.step = "state", !.row = 0]
  /\ UNCHANGED <<page, sales, now, events>>

AuctionState ==
  IF collector.seen.waiting THEN "awaiting_next_item"
  ELSE IF collector.number # 0
            /\ (collector.price # 0 \/ collector.seen.bid # 0 \/ collector.seen.winner # NoOne)
       THEN "awaiting_auction"
  ELSE ""

StateUpdate ==
  /\ collector.step = "state"
  /\ IF AuctionState \notin {"", collector.state}
     THEN /\ StoresOrNot(Event("auction_state", collector.number, "", NoOne, 0, AuctionState, now))
          /\ collector' = [collector EXCEPT !.step = "bid", !.state = AuctionState]
     ELSE /\ collector' = [collector EXCEPT !.step = "bid"]
          /\ UNCHANGED <<workload, events>>
  /\ UNCHANGED <<page, sales, now, rows>>

BidUpdate ==
  /\ collector.step = "bid"
  /\ LET bid == collector.seen.bid
     IN IF bid \notin {0, collector.shown}
        THEN /\ StoresOrNot(Event("bid_update", collector.number, "", NoOne, bid, "", now))
             /\ collector' = [collector EXCEPT !.step = "winner", !.shown = bid,
                                !.price = bid, !.fresh = TRUE]
        ELSE /\ collector' = [collector EXCEPT !.step = "winner"]
             /\ UNCHANGED <<workload, events>>
  /\ UNCHANGED <<page, sales, now, rows>>

(***************************************************************************)
(* The winner was read with the rest; whether it is final and the price of *)
(* the sale are read from the page as it is by now.  A sold price that is  *)
(* far from the live price is taken for a misreading.                      *)
(***************************************************************************)
WinnerIsFinal == page.winner # NoOne \/ page.label # 0

LivePrice ==
  IF page.label # 0 THEN page.label
  ELSE IF collector.price = 0 \/ ~collector.fresh THEN page.bid
  ELSE collector.price

FinalPrice ==
  LET sold == page.label  live == LivePrice
  IN IF live # 0 /\ (sold = 0 \/ 2 * sold > 3 * live \/ 2 * sold < live) THEN live
     ELSE IF sold # 0 THEN sold ELSE live

WinnerKey == <<collector.number, collector.seen.winner, FinalPrice>>

WinnerUpdate ==
  /\ collector.step = "winner"
  /\ collector.seen.winner # NoOne /\ WinnerIsFinal /\ WinnerKey # collector.key
  /\ StoresOrNot(Event("auction_winner", collector.number, Title(collector.title).product,
                       collector.seen.winner, FinalPrice, "", now))
  /\ collector' = [collector EXCEPT !.step = "close", !.price = FinalPrice]
  /\ UNCHANGED <<page, sales, now, rows>>

ForgetsWinner ==
  /\ collector.step = "winner"
  /\ ~(collector.seen.winner # NoOne /\ WinnerIsFinal /\ WinnerKey # collector.key)
  /\ collector' = [collector EXCEPT !.step = "look", !.winner = NoOne, !.key = << >>]
  /\ UNCHANGED <<pageVars, events, rows>>

NoNewWinner ==
  /\ collector.step = "winner"
  /\ ~(collector.seen.winner # NoOne /\ WinnerIsFinal /\ WinnerKey # collector.key)
  /\ collector' =
       IF collector.seen.winner = NoOne
       THEN [collector EXCEPT !.step = "look", !.winner = NoOne,
               !.key = IF collector.winner # NoOne THEN << >> ELSE @]
       ELSE [collector EXCEPT !.step = "look", !.price = IF WinnerIsFinal THEN FinalPrice ELSE @]
  /\ UNCHANGED <<pageVars, events, rows>>

\* The row is kept for another try when closing it fails.
CloseLot ==
  /\ collector.step = "close"
  /\ LET won == [collector EXCEPT !.step = "look", !.winner = collector.seen.winner,
                   !.key = <<collector.number, collector.seen.winner, collector.price>>]
     IN \/ /\ collector.row = 0 /\ collector' = won /\ UNCHANGED <<workload, rows>>
        \/ /\ collector.row # 0 /\ collector' = [won EXCEPT !.row = 0]
           /\ rows' = WithClosedLot(rows, collector.row, collector.seen.winner, collector.price, now)
           /\ UNCHANGED workload
        \/ /\ collector.row # 0 /\ Fails
           /\ collector' = won /\ UNCHANGED rows
  /\ UNCHANGED <<page, sales, now, events>>

Collect ==
  \/ Look \/ LotUpdate \/ SameTitle \/ OpenLot \/ StateUpdate
  \/ BidUpdate \/ WinnerUpdate \/ NoNewWinner \/ CloseLot

\* The process ends, or its lease does; the next one has seen nothing yet.
Restart ==
  /\ workload.restarts > 0
  /\ workload' = [workload EXCEPT !.restarts = @ - 1]
  /\ collector' = Started
  /\ UNCHANGED <<page, sales, now, events, rows>>

\* The page navigates while the loop reads it: the rest of the tick is skipped.
SkipTick ==
  /\ workload.skips > 0 /\ collector.step \in {"title", "winner"}
  /\ workload' = [workload EXCEPT !.skips = @ - 1]
  /\ collector' = [collector EXCEPT !.step = "look"]
  /\ UNCHANGED <<page, sales, now, events, rows>>

CollectorNext == PageMoves \/ Collect \/ Restart \/ SkipTick
=============================================================================
