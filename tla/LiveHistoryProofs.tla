------------------------- MODULE LiveHistoryProofs -------------------------
(***************************************************************************)
(* What the collector posts about a live auction, for every show, every    *)
(* number of buyers and everything that may go wrong: a winner that it     *)
(* posts was sold to at that price, a process posts a sale once, and the   *)
(* tables, the history and the backfill keep their types.                  *)
(***************************************************************************)
EXTENDS LiveHistory, SumProofs, FiniteSetTheorems, SequenceTheorems, TLAPS

(***************************************************************************)
(* Types                                                                   *)
(***************************************************************************)
Amounts == Prices \cup {0}

Page ==
  [item : Nat, phase : {"open", "sold", "over"}, bid : Amounts,
   winner : Buyers \cup {NoOne}, label : Amounts, waiting : BOOLEAN]

Sale == [item : Nat, buyer : Buyers, price : Prices]

IsSeq(s) == \E S : s \in Seq(S)

CollectorOK ==
  LET c == collector
  IN /\ DOMAIN c = DOMAIN Started
     /\ c.step \in {"look", "title", "open", "state", "bid", "winner", "close"}
     /\ c.seen \in Page /\ c.seen.item \in 0 .. Len(workload.show)
     /\ c.title \in 0 .. Len(workload.show) /\ c.number \in Nat
     /\ c.shown \in Amounts /\ c.price \in Amounts /\ c.fresh \in BOOLEAN

WorkloadOK ==
  LET w == workload
  IN /\ DOMAIN w = {"show", "bids", "waits", "misread", "lost", "losses", "skips",
                    "restarts", "started", "backfills", "ticks"}
     /\ w.show \in Seq([product : STRING, number : Nat])
     /\ w.bids \subseteq Prices /\ w.waits \subseteq BOOLEAN
     /\ w.restarts \in Nat /\ w.started \in Nat /\ w.restarts <= w.started

TypeInv ==
  /\ WorkloadOK /\ now \in Nat
  /\ page \in Page /\ page.item \in 0 .. Len(workload.show)
  /\ sales \in Seq(Sale) /\ IsSeq(events)
  /\ CollectorOK

\* What is auctioned, and how many processes there may be, is settled at first.
ShowStands ==
  /\ WorkloadOK'
  /\ workload'.show = workload.show /\ workload'.misread = workload.misread
  /\ workload'.started = workload.started

LEMMA AmountsType == Amounts \subseteq Nat /\ 0 \in Amounts /\ Prices \subseteq Amounts
BY CollectorConstants DEF Amounts

LEMMA BlankIsPage == BlankPage \in Page
BY DEF BlankPage, Page, Amounts

LEMMA FailsOnce ==
  ASSUME TypeInv, Fails
  PROVE  ShowStands /\ workload'.restarts = workload.restarts
BY DEF Fails, TypeInv, WorkloadOK, ShowStands

LEMMA WorkloadStands ==
  ASSUME TypeInv, UNCHANGED workload
  PROVE  ShowStands /\ workload'.restarts = workload.restarts
BY DEF TypeInv, WorkloadOK, ShowStands

LEMMA AppendAny ==
  ASSUME NEW s, IsSeq(s), NEW e
  PROVE  /\ IsSeq(Append(s, e)) /\ Len(s) \in Nat /\ DOMAIN s = 1 .. Len(s)
         /\ DOMAIN Append(s, e) = 1 .. Len(s) + 1
         /\ \A i \in 1 .. Len(s) : Append(s, e)[i] = s[i]
         /\ Append(s, e)[Len(s) + 1] = e
<1>1. PICK S : s \in Seq(S)
  BY DEF IsSeq
<1>2. s \in Seq(S \cup {e}) /\ e \in S \cup {e}
  BY <1>1
<1> HIDE DEF IsSeq
<1>3. Append(s, e) \in Seq(S \cup {e})
  BY <1>2
<1> QED
  BY <1>2, <1>3 DEF IsSeq

LEMMA StoreOrNot ==
  ASSUME TypeInv, NEW e, StoresOrNot(e)
  PROVE  /\ ShowStands /\ workload'.restarts = workload.restarts
         /\ events' = events \/ events' = Append(events, e)
         /\ IsSeq(events)'
<1>1. CASE Stores(e)
  BY <1>1, WorkloadStands, AppendAny DEF Stores, TypeInv
<1>2. CASE Fails /\ UNCHANGED events
  BY <1>2, FailsOnce DEF TypeInv
<1> QED
  BY <1>1, <1>2 DEF StoresOrNot

LEMMA TitleType ==
  ASSUME TypeInv, NEW i \in 0 .. Len(workload.show)
  PROVE  Title(i).number \in Nat
<1>1. CASE i = 0
  BY <1>1 DEF Title, NoTitle
<1>2. CASE i # 0
  <2>1. workload.show \in Seq([product : STRING, number : Nat])
    BY DEF TypeInv, WorkloadOK
  <2>2. Len(workload.show) \in Nat /\ i \in 1 .. Len(workload.show)
    BY <1>2, <2>1
  <2>3. workload.show[i] \in [product : STRING, number : Nat]
    BY <2>1, <2>2, ElementOfSeq
  <2> QED
    BY <1>2, <2>3 DEF Title
<1> QED
  BY <1>1, <1>2

LEMMA FinalPriceType ==
  ASSUME TypeInv
  PROVE  FinalPrice \in Amounts
<1>1. /\ page.label \in Amounts /\ page.bid \in Amounts /\ collector.price \in Amounts
  BY DEF TypeInv, CollectorOK, Page
<1>2. LivePrice \in Amounts
  BY <1>1 DEF LivePrice
<1> QED
  BY <1>1, <1>2 DEF FinalPrice

-----------------------------------------------------------------------------
(* The page moves *)

LEMMA TypePage ==
  ASSUME TypeInv, PageMoves
  PROVE  TypeInv' /\ ShowStands /\ workload'.restarts = workload.restarts
<1>1. UNCHANGED <<collector, events>>
  BY DEF PageMoves
<1>2. ASSUME UNCHANGED <<workload, now>>, page' \in Page,
             page'.item \in 0 .. Len(workload.show), sales' \in Seq(Sale)
      PROVE  TypeInv' /\ ShowStands /\ workload'.restarts = workload.restarts
  BY <1>1, <1>2, WorkloadStands DEF TypeInv, CollectorOK, ShowStands
<1>3. CASE PutUp
  <2>1. page' \in Page /\ page'.item = page.item + 1
    <3>1. /\ page.item + 1 \in Nat
          /\ page' = [BlankPage EXCEPT !.item = page.item + 1, !.phase = "open"]
      BY <1>3 DEF PutUp, TypeInv, Page
    <3> QED
      BY <3>1, BlankIsPage DEF Page
  <2>2. Len(workload.show) \in Nat
    BY DEF TypeInv, WorkloadOK
  <2> QED
    BY <1>2, <1>3, <2>1, <2>2 DEF PutUp, TypeInv
<1>4. CASE RaiseBid
  <2>1. workload.bids \subseteq Prices
    BY DEF TypeInv, WorkloadOK
  <2> QED
    BY <1>2, <1>4, <2>1, AmountsType DEF RaiseBid, TypeInv, Page
<1>5. CASE Sell
  <2>1. PICK b \in Buyers, w \in workload.waits :
          /\ page' = [page EXCEPT !.phase = "sold", !.winner = b, !.waiting = w]
          /\ sales' = Append(sales, [item |-> page.item, buyer |-> b, price |-> page.bid])
    BY <1>5 DEF Sell
  <2>2. [item |-> page.item, buyer |-> b, price |-> page.bid] \in Sale
    BY <1>5 DEF Sell, Sale, TypeInv, Page, Amounts
  <2>3. w \in BOOLEAN
    BY DEF TypeInv, WorkloadOK
  <2>4. page' \in Page /\ page'.item = page.item
    BY <2>1, <2>3 DEF TypeInv, Page
  <2>5. sales' \in Seq(Sale)
    BY <2>1, <2>2 DEF TypeInv
  <2> QED
    BY <1>2, <1>5, <2>4, <2>5 DEF Sell, TypeInv
<1>6. CASE ShowSoldPrice
  <2>1. PICK p \in Amounts : page' = [page EXCEPT !.label = p]
    BY <1>6, AmountsType DEF ShowSoldPrice, TypeInv, Page
  <2> QED
    BY <1>2, <1>6, <2>1 DEF ShowSoldPrice, TypeInv, Page
<1>7. CASE BannerGoes
  BY <1>2, <1>7, AmountsType DEF BannerGoes, TypeInv, Page
<1>8. CASE TimePasses
  <2>1. /\ UNCHANGED <<page, sales>> /\ now' = now + 1 /\ ShowStands
        /\ workload'.restarts = workload.restarts
    BY <1>8 DEF TimePasses, TypeInv, WorkloadOK, ShowStands
  <2> QED
    BY <1>1, <2>1 DEF TypeInv, CollectorOK, ShowStands
<1> QED
  BY <1>3, <1>4, <1>5, <1>6, <1>7, <1>8 DEF PageMoves

-----------------------------------------------------------------------------
(* The collector's steps *)

(***************************************************************************)
(* A step of the collector that stores an event or fails to leaves the     *)
(* page and the sales alone.                                               *)
(***************************************************************************)
LEMMA TypeStep ==
  ASSUME TypeInv, ShowStands, UNCHANGED <<page, sales, now>>,
         IsSeq(events)', DOMAIN collector' = DOMAIN Started,
         collector'.step \in {"look", "title", "open", "state", "bid", "winner", "close"},
         collector'.seen \in Page, collector'.seen.item \in 0 .. Len(workload.show),
         collector'.title \in 0 .. Len(workload.show), collector'.number \in Nat,
         collector'.shown \in Amounts, collector'.price \in Amounts,
         collector'.fresh \in BOOLEAN
  PROVE  TypeInv'
BY DEF TypeInv, CollectorOK, ShowStands

LEMMA TypeStores ==
  ASSUME TypeInv, LotUpdate \/ StateUpdate \/ BidUpdate \/ WinnerUpdate
  PROVE  /\ TypeInv' /\ ShowStands /\ workload'.restarts = workload.restarts
<1>1. CollectorOK /\ IsSeq(events) /\ page \in Page
  BY DEF TypeInv
<1>2. CASE LotUpdate
  <2>1. PICK e : StoresOrNot(e)
    BY <1>2 DEF LotUpdate
  <2>2. NumberOfTitle \in Nat
    BY <1>1, TitleType DEF NumberOfTitle, CollectorOK
  <2> QED
    BY <1>1, <1>2, <2>1, <2>2, StoreOrNot, TypeStep, AmountsType DEF LotUpdate, CollectorOK, Started
<1>3. CASE StateUpdate
  <2>1. ShowStands /\ workload'.restarts = workload.restarts /\ IsSeq(events)'
    <3>1. CASE AuctionState \notin {"", collector.state}
      <4>1. PICK e : StoresOrNot(e)
        BY <1>3, <3>1 DEF StateUpdate
      <4> QED
        BY <4>1, StoreOrNot
    <3>2. CASE ~(AuctionState \notin {"", collector.state})
      BY <1>1, <1>3, <3>2, WorkloadStands DEF StateUpdate
    <3> QED
      BY <3>1, <3>2
  <2> QED
    BY <1>1, <1>3, <2>1, TypeStep DEF StateUpdate, CollectorOK, Started
<1>4. CASE BidUpdate
  <2>1. ShowStands /\ workload'.restarts = workload.restarts /\ IsSeq(events)'
    <3>1. CASE collector.seen.bid \notin {0, collector.shown}
      <4>1. PICK e : StoresOrNot(e)
        BY <1>4, <3>1 DEF BidUpdate
      <4> QED
        BY <4>1, StoreOrNot
    <3>2. CASE ~(collector.seen.bid \notin {0, collector.shown})
      BY <1>1, <1>4, <3>2, WorkloadStands DEF BidUpdate
    <3> QED
      BY <3>1, <3>2
  <2>2. collector.seen.bid \in Amounts
    BY <1>1 DEF CollectorOK, Page
  <2>3. /\ DOMAIN collector' = DOMAIN Started /\ collector'.step = "winner"
        /\ collector'.seen = collector.seen /\ collector'.title = collector.title
        /\ collector'.number = collector.number
        /\ collector'.shown \in Amounts /\ collector'.price \in Amounts
        /\ collector'.fresh \in BOOLEAN
    <3>1. CASE collector' = [collector EXCEPT !.step = "winner"]
      BY <1>1, <3>1 DEF CollectorOK, Started
    <3>2. CASE collector' = [collector EXCEPT !.step = "winner", !.shown = collector.seen.bid,
                               !.price = collector.seen.bid, !.fresh = TRUE]
      BY <1>1, <2>2, <3>2 DEF CollectorOK, Started
    <3> QED
      BY <1>4, <3>1, <3>2 DEF BidUpdate
  <2>4. UNCHANGED <<page, sales, now>>
    BY <1>4 DEF BidUpdate
  <2> QED
    BY <1>1, <2>1, <2>3, <2>4, TypeStep DEF CollectorOK
<1>5. CASE WinnerUpdate
  <2>1. PICK e : StoresOrNot(e)
    BY <1>5 DEF WinnerUpdate
  <2>2. FinalPrice \in Amounts
    BY FinalPriceType
  <2> QED
    BY <1>1, <1>5, <2>1, <2>2, StoreOrNot, TypeStep DEF WinnerUpdate, CollectorOK, Started
<1> QED
  BY <1>2, <1>3, <1>4, <1>5

LEMMA TypeMoves ==
  ASSUME TypeInv, Look \/ SameTitle \/ OpenLot \/ NoNewWinner \/ CloseLot \/ SkipTick
  PROVE  /\ TypeInv' /\ ShowStands /\ workload'.restarts = workload.restarts
         /\ events' = events
<1>1. /\ CollectorOK /\ IsSeq(events) /\ page \in Page
      /\ page.item \in 0 .. Len(workload.show)
  BY DEF TypeInv
<1>2. /\ events' = events
      /\ ShowStands /\ workload'.restarts = workload.restarts
  <2>1. events' = events /\ (UNCHANGED workload \/ Fails \/ SkipTick)
    BY DEF Look, SameTitle, OpenLot, NoNewWinner, CloseLot, SkipTick, pageVars
  <2>2. SkipTick => ShowStands /\ workload'.restarts = workload.restarts
    BY DEF SkipTick, TypeInv, WorkloadOK, ShowStands
  <2> QED
    BY <2>1, <2>2, FailsOnce, WorkloadStands
<1>3. CASE Look
  BY <1>1, <1>2, <1>3, TypeStep DEF Look, CollectorOK, Started, pageVars
<1>4. CASE SameTitle
  BY <1>1, <1>2, <1>4, TypeStep DEF SameTitle, CollectorOK, Started, pageVars
<1>5. CASE OpenLot
  <2>1. PICK r : collector' = [collector EXCEPT !.step = "state", !.row = r]
    BY <1>5 DEF OpenLot
  <2> QED
    BY <1>1, <1>2, <1>5, <2>1, TypeStep DEF OpenLot, CollectorOK, Started
<1>6. CASE NoNewWinner
  <2>1. FinalPrice \in Amounts
    BY FinalPriceType
  <2>2. CASE collector.seen.winner = NoOne
    BY <1>1, <1>2, <1>6, <2>2, TypeStep DEF NoNewWinner, CollectorOK, Started, pageVars
  <2>3. CASE collector.seen.winner # NoOne
    BY <1>1, <1>2, <1>6, <2>1, <2>3, TypeStep DEF NoNewWinner, CollectorOK, Started, pageVars
  <2> QED
    BY <2>2, <2>3
<1>7. CASE CloseLot
  <2>1. PICK k, r : collector' = [collector EXCEPT !.step = "look",
                       !.winner = collector.seen.winner, !.key = k, !.row = r]
    <3> DEFINE k == <<collector.number, collector.seen.winner, collector.price>>
               won == [collector EXCEPT !.step = "look", !.winner = collector.seen.winner,
                         !.key = k]
    <3>1. collector' = won \/ collector' = [won EXCEPT !.row = 0]
      BY <1>7 DEF CloseLot
    <3>2. \/ collector' = [collector EXCEPT !.step = "look",
                             !.winner = collector.seen.winner, !.key = k, !.row = collector.row]
          \/ collector' = [collector EXCEPT !.step = "look",
                             !.winner = collector.seen.winner, !.key = k, !.row = 0]
      BY <1>1, <3>1 DEF CollectorOK, Started
    <3> HIDE DEF k
    <3> QED
      BY <3>2
  <2> QED
    BY <1>1, <1>2, <1>7, <2>1, TypeStep DEF CloseLot, CollectorOK, Started
<1>8. CASE SkipTick
  BY <1>1, <1>2, <1>8, TypeStep DEF SkipTick, CollectorOK, Started
<1> QED
  BY <1>2, <1>3, <1>4, <1>5, <1>6, <1>7, <1>8

LEMMA TypeRestart ==
  ASSUME TypeInv, Restart
  PROVE  /\ TypeInv' /\ ShowStands /\ workload'.restarts = workload.restarts - 1
         /\ collector' = Started /\ events' = events
<1>1. ShowStands /\ workload'.restarts = workload.restarts - 1
  BY DEF Restart, TypeInv, WorkloadOK, ShowStands
<1>2. 0 \in 0 .. Len(workload.show)
  BY DEF TypeInv, WorkloadOK
<1> QED
  BY <1>1, <1>2, TypeStep, BlankIsPage, AmountsType DEF Restart, Started, BlankPage, TypeInv

LEMMA TypeBackfill ==
  ASSUME TypeInv, BackfillBegins \/ BackfillWrites \/ UNCHANGED historyVars
  PROVE  /\ TypeInv' /\ ShowStands /\ workload'.restarts = workload.restarts
         /\ UNCHANGED <<page, sales, collector, events, now>>
<1>1. UNCHANGED <<page, sales, collector, events, now>>
  BY DEF BackfillBegins, BackfillWrites, historyVars, collectorVars, pageVars
<1>2. ShowStands /\ workload'.restarts = workload.restarts
  <2>1. BackfillBegins => ShowStands /\ workload'.restarts = workload.restarts
    BY DEF BackfillBegins, TypeInv, WorkloadOK, ShowStands
  <2>2. ~BackfillBegins => UNCHANGED workload
    BY DEF BackfillWrites, historyVars, collectorVars, pageVars
  <2> QED
    BY <2>1, <2>2, WorkloadStands
<1> QED
  BY <1>1, <1>2, TypeStep DEF TypeInv, CollectorOK

LEMMA TypeNext ==
  ASSUME TypeInv, [HistoryNext]_historyVars
  PROVE  TypeInv' /\ ShowStands
BY TypePage, TypeStores, TypeMoves, TypeRestart, TypeBackfill
   DEF HistoryNext, CollectorNext, Collect

-----------------------------------------------------------------------------
(* What the page and the collector's look at it have to do with the sales *)

Clean == Numbered /\ ~workload.misread

Sold(past, item, buyer, price) ==
  \E i \in DOMAIN past : past[i] = [item |-> item, buyer |-> buyer, price |-> price]

PageInv ==
  /\ page.phase # "over" => page.item # 0
  /\ page.phase = "sold" <=> page.winner # NoOne
  /\ page.label # 0 => page.phase = "sold"
  /\ ~workload.misread => page.label \in {0, page.bid}
  /\ page.phase = "sold" => page.bid # 0 /\ Sold(sales, page.item, page.winner, page.bid)

Busy == collector.step # "look"

(***************************************************************************)
(* The page goes on while the collector works on what it has seen, but no  *)
(* later item is sold meanwhile.                                           *)
(***************************************************************************)
SeenInv ==
  LET seen == collector.seen
  IN /\ seen.item <= page.item
     /\ seen.winner # NoOne =>
          seen.item # 0 /\ seen.bid # 0 /\ Sold(sales, seen.item, seen.winner, seen.bid)
     /\ Busy /\ page.phase = "sold" => page.item = seen.item
     /\ Busy /\ seen.winner # NoOne /\ page.item = seen.item =>
          /\ page.phase # "open" /\ page.bid = seen.bid
          /\ page.phase = "sold" => page.winner = seen.winner

(***************************************************************************)
(* An item is sold once, and is past or on the page.                       *)
(***************************************************************************)
SalesInv ==
  /\ \A i \in DOMAIN sales :
       /\ sales[i].item # 0 /\ sales[i].item <= page.item
       /\ sales[i].item = page.item => page.phase # "open"
  /\ \A i, j \in DOMAIN sales : sales[i].item = sales[j].item => i = j

LEMMA Stands ==
  ASSUME TypeInv, ShowStands
  PROVE  /\ Clean' <=> Clean
         /\ \A i \in 0 .. Len(workload.show) : Title(i)' = Title(i)
<1>1. \A i : Title(i)' = Title(i)
  BY DEF ShowStands, Title
<1>2. Numbered' <=> Numbered
  BY <1>1 DEF Numbered, ShowStands
<1> QED
  BY <1>1, <1>2 DEF Clean, ShowStands

LEMMA SalesGrow ==
  ASSUME TypeInv, PageMoves
  PROVE  /\ \A i \in DOMAIN sales : i \in DOMAIN sales' /\ sales'[i] = sales[i]
         /\ \A i \in DOMAIN sales' : i \in DOMAIN sales \/ (Sell /\ i = Len(sales) + 1)
         /\ \A i, b, p : Sold(sales, i, b, p) => Sold(sales', i, b, p)
<1>1. sales \in Seq(Sale)
  BY DEF TypeInv
<1>2. CASE UNCHANGED sales
  BY <1>2 DEF Sold
<1>3. CASE Sell
  <2>1. PICK e : sales' = Append(sales, e) /\ e \in Sale
    BY <1>3, AmountsType DEF Sell, Sale, TypeInv, Page, Amounts
  <2>2. /\ \A i \in DOMAIN sales : i \in DOMAIN sales' /\ sales'[i] = sales[i]
        /\ \A i \in DOMAIN sales' : i \in DOMAIN sales \/ i = Len(sales) + 1
    BY <1>1, <2>1
  <2> QED
    BY <1>3, <2>2 DEF Sold
<1> QED
  BY <1>2, <1>3 DEF PageMoves, PutUp, RaiseBid, ShowSoldPrice, BannerGoes, TimePasses

LEMMA Selling ==
  ASSUME TypeInv, Sell
  PROVE  /\ page'.item = page.item /\ page'.bid = page.bid /\ page'.label = page.label
         /\ page.bid # 0 /\ page.phase = "open" /\ page'.phase = "sold"
         /\ page'.winner \in Buyers /\ Sold(sales', page.item, page'.winner, page.bid)
         /\ sales'[Len(sales) + 1].item = page.item
<1>1. page \in Page /\ sales \in Seq(Sale)
  BY DEF TypeInv
<1>2. PICK b \in Buyers, w \in workload.waits :
        /\ page' = [page EXCEPT !.phase = "sold", !.winner = b, !.waiting = w]
        /\ sales' = Append(sales, [item |-> page.item, buyer |-> b, price |-> page.bid])
  BY DEF Sell
<1>3. [item |-> page.item, buyer |-> b, price |-> page.bid] \in Sale
  BY DEF Sell, Sale, TypeInv, Page, Amounts
<1>4. /\ sales'[Len(sales) + 1] = [item |-> page.item, buyer |-> b, price |-> page.bid]
      /\ Len(sales) + 1 \in DOMAIN sales'
  BY <1>1, <1>2, <1>3
<1>5. Sold(sales', page.item, b, page.bid)
  BY <1>4 DEF Sold
<1>6. /\ page'.item = page.item /\ page'.bid = page.bid /\ page'.label = page.label
      /\ page'.phase = "sold" /\ page'.winner = b
  BY <1>1, <1>2 DEF Page
<1>7. page.phase = "open" /\ page.bid # 0
  BY <1>1 DEF Sell, Page
<1>8. sales'[Len(sales) + 1].item = page.item
  BY <1>4
<1> QED
  BY <1>5, <1>6, <1>7, <1>8

\* What a page move does to the page.
LEMMA MovesOfPage ==
  ASSUME TypeInv, PageInv, PageMoves
  PROVE  \/ /\ page'.item = page.item + 1 /\ page'.phase = "open" /\ page'.winner = NoOne
            /\ page'.label = 0 /\ page'.bid = 0 /\ page.phase # "sold"
         \/ /\ page'.item = page.item /\ page'.winner = page.winner
            /\ page'.label = page.label /\ page'.phase = "open" /\ page.phase = "open"
         \/ /\ Sell /\ page'.item = page.item /\ page'.bid = page.bid /\ page'.label = page.label
            /\ page.bid # 0 /\ page.phase = "open" /\ page'.phase = "sold"
            /\ page'.winner \in Buyers /\ Sold(sales', page.item, page'.winner, page.bid)
            /\ sales'[Len(sales) + 1].item = page.item
         \/ /\ page'.item = page.item /\ page'.bid = page.bid /\ page'.winner = page.winner
            /\ page'.phase = "sold" /\ page.phase = "sold"
            /\ ~workload.misread => page'.label = page.bid
         \/ /\ page'.item = page.item /\ page'.bid = page.bid /\ page'.winner = NoOne
            /\ page'.label = 0 /\ page.phase = "sold" /\ page'.phase = "over"
         \/ page' = page
<1>1. page \in Page /\ sales \in Seq(Sale)
  BY DEF TypeInv
<1>2. CASE PutUp
  BY <1>1, <1>2 DEF PutUp, BlankPage, Page
<1>3. CASE RaiseBid
  BY <1>1, <1>3 DEF RaiseBid, Page
<1>4. CASE Sell
  BY <1>4, Selling
<1>5. CASE ShowSoldPrice
  BY <1>1, <1>5 DEF ShowSoldPrice, Page
<1>6. CASE BannerGoes
  BY <1>1, <1>6 DEF BannerGoes, Page
<1>7. CASE TimePasses
  BY <1>7 DEF TimePasses
<1> QED
  BY <1>2, <1>3, <1>4, <1>5, <1>6, <1>7 DEF PageMoves

LEMMA PageInvMoves ==
  ASSUME TypeInv, PageInv, PageMoves
  PROVE  PageInv'
<1>1. page \in Page /\ page' \in Page /\ NoOne \notin Buyers /\ ShowStands
  BY TypePage, CollectorConstants DEF TypeInv
<1>2. /\ page.phase # "over" => page.item # 0
      /\ page.phase = "sold" <=> page.winner # NoOne
      /\ page.label # 0 => page.phase = "sold"
      /\ ~workload.misread => page.label \in {0, page.bid}
      /\ page.phase = "sold" => page.bid # 0 /\ Sold(sales', page.item, page.winner, page.bid)
  BY SalesGrow DEF PageInv
<1>3. page.item \in Nat /\ page.bid \in Nat
  BY <1>1, AmountsType DEF Page
<1> QED
  BY <1>1, <1>2, <1>3, MovesOfPage DEF PageInv, ShowStands

LEMMA SalesInvMoves ==
  ASSUME TypeInv, PageInv, SalesInv, PageMoves
  PROVE  SalesInv'
<1>1. /\ sales \in Seq(Sale) /\ sales' \in Seq(Sale) /\ page.item \in Nat
      /\ page'.item \in Nat
  BY TypePage DEF TypeInv, Page
<1>2. \A i \in DOMAIN sales : sales[i].item \in Nat
  <2>1. \A i \in DOMAIN sales : sales[i] \in Sale
    BY <1>1, ElementOfSeq
  <2> QED
    BY <2>1 DEF Sale
<1>3. /\ \A i \in DOMAIN sales : i \in DOMAIN sales' /\ sales'[i] = sales[i]
      /\ \A i \in DOMAIN sales' : i \in DOMAIN sales \/ (Sell /\ i = Len(sales) + 1)
  BY SalesGrow
<1>4. \A i \in DOMAIN sales : sales'[i].item <= page.item /\ sales'[i].item # 0
        /\ (sales'[i].item = page.item => page.phase # "open")
  BY <1>3 DEF SalesInv
<1>5. CASE Sell
  <2>1. /\ page'.item = page.item /\ page.phase = "open" /\ page'.phase = "sold"
        /\ sales'[Len(sales) + 1].item = page.item /\ page.item # 0
    BY <1>5, Selling DEF PageInv
  <2> QED
    BY <1>1, <1>2, <1>3, <1>4, <2>1 DEF SalesInv
<1>6. CASE ~Sell
  <2>1. \/ page'.item = page.item + 1
        \/ page'.item = page.item /\ (page'.phase = "open" => page.phase = "open")
    BY <1>6, MovesOfPage
  <2>2. \A i \in DOMAIN sales' : i \in DOMAIN sales /\ sales'[i] = sales[i]
    BY <1>3, <1>6
  <2>3. \A i \in DOMAIN sales' :
          /\ sales'[i].item # 0 /\ sales'[i].item <= page'.item
          /\ sales'[i].item = page'.item => page'.phase # "open"
    BY <1>1, <1>2, <1>4, <2>1, <2>2
  <2> QED
    BY <2>2, <2>3 DEF SalesInv
<1> QED
  BY <1>5, <1>6

LEMMA SeenInvMoves ==
  ASSUME TypeInv, PageInv, SeenInv, PageMoves
  PROVE  SeenInv'
<1>1. /\ collector' = collector /\ collector.seen \in Page
      /\ page \in Page /\ page' \in Page
  BY TypePage DEF TypeInv, CollectorOK, PageMoves
<1>2. /\ page.item \in Nat /\ page'.item \in Nat /\ collector.seen.item \in Nat
  BY <1>1 DEF Page
<1>3. collector.seen.winner # NoOne =>
        Sold(sales', collector.seen.item, collector.seen.winner, collector.seen.bid)
  BY SalesGrow DEF SeenInv
<1>4. Sell => (Busy => collector.seen.item = page.item)
  BY DEF Sell, AuctionOutlastsIteration, Busy
<1> QED
  BY <1>1, <1>2, <1>3, <1>4, MovesOfPage DEF SeenInv, Busy

\* Steps that leave the page, the sales and what was seen alone.
LEMMA LookKept ==
  ASSUME TypeInv, ShowStands, PageInv, SeenInv, SalesInv, UNCHANGED <<page, sales>>
  PROVE  /\ PageInv' /\ SalesInv'
         /\ collector'.seen = collector.seen /\ (Busy' => Busy) => SeenInv'
BY DEF PageInv, SalesInv, SeenInv, ShowStands, Busy

-----------------------------------------------------------------------------
(* What the collector knows *)

(***************************************************************************)
(* Where every title has a number of its own and prices are read right:    *)
(* number and title are those of the item seen, the price is its last bid. *)
(***************************************************************************)
KnowsInv ==
  LET c == collector
  IN Clean =>
       /\ c.title <= page.item /\ (Busy => c.title <= c.seen.item)
       /\ c.title # 0 => c.number = Title(c.title).number
       /\ c.step \notin {"look", "title"} /\ c.seen.item # 0 => c.title = c.seen.item
       /\ c.shown # 0 => c.fresh /\ c.price = c.shown
       /\ c.step \in {"winner", "close"} /\ c.seen.bid # 0 => c.shown = c.seen.bid
       /\ c.step = "close" => c.seen.winner # NoOne

(***************************************************************************)
(* The key of the last winner belongs to the lot that is open; its item is *)
(* sold, and no more without a winner than when the banner is gone.        *)
(***************************************************************************)
KeyInv ==
  LET c == collector
  IN Clean /\ c.key # << >> =>
       /\ c.title # 0 /\ c.key[1] = c.number
       /\ c.title = page.item => page.phase # "open"
       /\ Busy /\ c.seen.item = c.title /\ c.seen.winner = NoOne /\ page.item = c.title
            => page.phase = "over"

SightInv == TypeInv /\ PageInv /\ SeenInv /\ SalesInv /\ KnowsInv /\ KeyInv

(***************************************************************************)
(* A winner is final only while its item is still the one on the page, and *)
(* the final price is then the price of the sale.                          *)
(***************************************************************************)
LEMMA WinnerAsSold ==
  ASSUME SightInv, Clean, collector.step = "winner",
         collector.seen.winner # NoOne, WinnerIsFinal
  PROVE  /\ FinalPrice = collector.seen.bid /\ collector.shown = collector.seen.bid
         /\ collector.seen.bid # 0 /\ collector.fresh
         /\ page.phase = "sold" /\ page.item = collector.seen.item
         /\ page.winner = collector.seen.winner /\ page.bid = collector.seen.bid
         /\ collector.seen.item # 0 /\ collector.title = collector.seen.item
         /\ collector.number = Title(collector.title).number
<1>1. Busy /\ collector.seen.item # 0 /\ collector.seen.bid # 0
  BY DEF SightInv, SeenInv, Busy
<1>2. page.phase = "sold"
  BY DEF SightInv, PageInv, WinnerIsFinal
<1>3. /\ page.item = collector.seen.item /\ page.winner = collector.seen.winner
      /\ page.bid = collector.seen.bid
  BY <1>1, <1>2 DEF SightInv, SeenInv
<1>4. /\ collector.title = collector.seen.item
      /\ collector.number = Title(collector.title).number
      /\ collector.fresh /\ collector.price = collector.shown
      /\ collector.shown = collector.seen.bid
  BY <1>1 DEF SightInv, KnowsInv
<1>5. page.label \in {0, page.bid} /\ page.bid \in Nat
  BY AmountsType DEF SightInv, PageInv, Clean, TypeInv, Page
<1>6. FinalPrice = page.bid
  <2>1. LivePrice = page.bid
    BY <1>1, <1>3, <1>4, <1>5 DEF LivePrice
  <2>2. page.bid # 0 /\ ~(2 * page.bid > 3 * page.bid) /\ ~(2 * page.bid < page.bid)
    BY <1>1, <1>3, <1>5
  <2> QED
    BY <1>5, <2>1, <2>2 DEF FinalPrice
<1> QED
  BY <1>1, <1>2, <1>3, <1>4, <1>6

LEMMA KnowsMoves ==
  ASSUME SightInv, PageMoves
  PROVE  KnowsInv' /\ KeyInv'
<1>1. /\ collector' = collector /\ ShowStands /\ TypeInv'
  BY TypePage DEF SightInv, PageMoves
<1>2. page'.item \in Nat /\ page.item \in Nat /\ collector.title \in Nat
  <2>1. collector.title \in 0 .. Len(workload.show)
    BY DEF SightInv, TypeInv, CollectorOK
  <2> QED
    BY <1>1, <2>1 DEF SightInv, TypeInv, Page
<1>3. /\ Clean' <=> Clean
      /\ Title(collector.title)' = Title(collector.title)
  BY <1>1, Stands DEF SightInv, TypeInv, CollectorOK
<1>4. page'.item = page.item \/ page'.item = page.item + 1
  BY MovesOfPage DEF SightInv
<1>5. KnowsInv'
  BY <1>1, <1>2, <1>3, <1>4 DEF SightInv, KnowsInv, Busy
<1>6. KeyInv'
  BY <1>1, <1>2, <1>3, MovesOfPage DEF SightInv, KnowsInv, KeyInv, Busy
<1> QED
  BY <1>5, <1>6

LEMMA SameNumber ==
  ASSUME TypeInv, Numbered, NEW i \in 1 .. Len(workload.show),
         NEW j \in 0 .. Len(workload.show)
  PROVE  /\ Title(i) \notin {NoTitle} /\ Title(i).number # 0
         /\ Title(i) = Title(j) \/ Title(i).number = Title(j).number => i = j
<1>1. DOMAIN workload.show = 1 .. Len(workload.show)
  BY DEF TypeInv, WorkloadOK
<1>2. Title(i).number # 0
  BY <1>1 DEF Numbered
<1>3. Title(0).number = 0 /\ NoTitle.number = 0
  BY DEF Title, NoTitle
<1>4. j # 0 /\ Title(i).number = Title(j).number => i = j
  BY <1>1 DEF Numbered
<1> QED
  BY <1>2, <1>3, <1>4

\* The fields of the collector's state and the steps that leave most of them.
LEMMA CollectorFields ==
  ASSUME TypeInv
  PROVE  /\ {"step", "seen", "title", "number", "shown", "price", "fresh", "state",
             "winner", "key", "row"} = DOMAIN collector
         /\ collector.title \in 0 .. Len(workload.show)
         /\ collector.seen.item \in 0 .. Len(workload.show)
         /\ collector.seen.bid \in Nat /\ page.item \in Nat
         /\ Len(workload.show) \in Nat
<1>1. Len(workload.show) \in Nat
  BY DEF TypeInv, WorkloadOK
<1> QED
  BY <1>1, AmountsType DEF TypeInv, CollectorOK, Started, Page

LEMMA KnowsLook ==
  ASSUME SightInv, Look
  PROVE  SeenInv' /\ KnowsInv' /\ KeyInv'
<1>1. /\ collector' = [collector EXCEPT !.step = "title", !.seen = page]
      /\ UNCHANGED <<page, sales>> /\ ShowStands /\ collector.step = "look"
  BY TypeMoves DEF SightInv, Look, pageVars
<1>2. TypeInv
  BY DEF SightInv
<1>3. /\ Clean' <=> Clean
      /\ Title(collector.title)' = Title(collector.title)
  BY <1>1, <1>2, Stands, CollectorFields
<1>4. /\ collector'.step = "title" /\ collector'.seen = page
      /\ collector'.title = collector.title /\ collector'.number = collector.number
      /\ collector'.shown = collector.shown /\ collector'.price = collector.price
      /\ collector'.fresh = collector.fresh /\ collector'.key = collector.key
  BY <1>1, <1>2, CollectorFields
<1>5. SeenInv'
  BY <1>1, <1>2, <1>4, CollectorFields DEF SightInv, PageInv, SeenInv, Busy
<1>6. KnowsInv'
  BY <1>1, <1>3, <1>4 DEF SightInv, KnowsInv, Busy
<1>7. KeyInv'
  <2>1. collector'.title = page.item /\ page.phase # "open" /\ page.winner = NoOne
          => page.phase = "over"
    BY <1>2 DEF SightInv, PageInv, TypeInv, Page
  <2> QED
    BY <1>1, <1>3, <1>4, <2>1 DEF SightInv, KeyInv, Busy
<1> QED
  BY <1>5, <1>6, <1>7

LEMMA KnowsLotUpdate ==
  ASSUME SightInv, LotUpdate
  PROVE  KnowsInv' /\ KeyInv'
<1>1. /\ UNCHANGED <<page, sales>> /\ ShowStands /\ collector.step = "title" /\ TypeInv
  BY TypeStores DEF SightInv, LotUpdate
<1>2. collector' = [collector EXCEPT !.step = "open", !.title = collector.seen.item,
                      !.number = NumberOfTitle, !.fresh = FALSE, !.price = 0, !.shown = 0,
                      !.key = << >>]
  BY DEF LotUpdate
<1>3. /\ collector'.step = "open" /\ collector'.seen = collector.seen
      /\ collector'.title = collector.seen.item /\ collector'.number = NumberOfTitle
      /\ collector'.shown = 0 /\ collector'.key = << >>
  BY <1>1, <1>2, CollectorFields
<1>4. /\ Clean' <=> Clean
      /\ \A i \in 0 .. Len(workload.show) : Title(i)' = Title(i)
  BY <1>1, Stands
<1>5. Clean /\ collector.seen.item # 0 => NumberOfTitle = Title(collector.seen.item).number
  <2>1. Clean /\ collector.seen.item # 0 => Title(collector.seen.item).number # 0
    BY <1>1, SameNumber, CollectorFields DEF Clean
  <2> QED
    BY <2>1 DEF NumberOfTitle
<1>6. KnowsInv'
  <2>1. collector.seen.item <= page.item /\ collector.seen.item <= collector.seen.item
    BY <1>1, CollectorFields DEF SightInv, SeenInv
  <2> QED
    BY <1>1, <1>3, <1>4, <1>5, <2>1, CollectorFields DEF KnowsInv, Busy
<1>7. KeyInv'
  BY <1>3 DEF KeyInv
<1> QED
  BY <1>6, <1>7

\* A step that keeps what is known goes on or ends the iteration.
LEMMA KnowsGoesOn ==
  ASSUME SightInv, ShowStands, UNCHANGED page, Busy,
         collector'.seen = collector.seen, collector'.title = collector.title,
         collector'.number = collector.number, collector'.shown = collector.shown,
         collector'.price = collector.price, collector'.fresh = collector.fresh,
         collector'.key \in {collector.key, << >>},
         \/ collector'.step = "look"
         \/ collector'.step \in {"state", "bid"} /\ collector.step \in {"open", "state"}
  PROVE  KnowsInv' /\ KeyInv'
<1>1. /\ Clean' <=> Clean
      /\ \A i \in 0 .. Len(workload.show) : Title(i)' = Title(i)
  BY Stands, CollectorFields DEF SightInv
<1> QED
  BY <1>1, CollectorFields DEF SightInv, KnowsInv, KeyInv, Busy

LEMMA KnowsSameTitle ==
  ASSUME SightInv, SameTitle
  PROVE  KnowsInv' /\ KeyInv'
<1>1. /\ UNCHANGED <<page, sales>> /\ ShowStands /\ collector.step = "title" /\ TypeInv
      /\ ~TitleIsNew /\ collector' = [collector EXCEPT !.step = "state"]
  BY TypeMoves DEF SightInv, SameTitle, pageVars
<1>2. /\ collector'.step = "state" /\ collector'.seen = collector.seen
      /\ collector'.title = collector.title /\ collector'.number = collector.number
      /\ collector'.shown = collector.shown /\ collector'.price = collector.price
      /\ collector'.fresh = collector.fresh /\ collector'.key = collector.key
  BY <1>1, CollectorFields
<1>3. /\ Clean' <=> Clean
      /\ \A i \in 0 .. Len(workload.show) : Title(i)' = Title(i)
  BY <1>1, Stands, CollectorFields
<1>4. Clean /\ collector.seen.item # 0 => collector.title = collector.seen.item
  <2> SUFFICES ASSUME Clean, collector.seen.item # 0
               PROVE  collector.title = collector.seen.item
    OBVIOUS
  <2>1. collector.seen.item \in 1 .. Len(workload.show)
    BY <1>1, CollectorFields
  <2>2. Title(collector.seen.item) = Title(collector.title)
    BY <1>1, <2>1, SameNumber, CollectorFields DEF Clean, TitleIsNew
  <2> QED
    BY <1>1, <2>1, <2>2, SameNumber, CollectorFields DEF Clean
<1> QED
  BY <1>1, <1>2, <1>3, <1>4, CollectorFields DEF SightInv, KnowsInv, KeyInv, Busy

LEMMA KnowsBid ==
  ASSUME SightInv, BidUpdate
  PROVE  KnowsInv' /\ KeyInv'
<1>1. /\ UNCHANGED <<page, sales>> /\ ShowStands /\ collector.step = "bid" /\ TypeInv
  BY TypeStores DEF SightInv, BidUpdate
<1>2. /\ Clean' <=> Clean
      /\ \A i \in 0 .. Len(workload.show) : Title(i)' = Title(i)
  BY <1>1, Stands, CollectorFields
<1>3. CASE collector.seen.bid \notin {0, collector.shown}
  <2>1. collector' = [collector EXCEPT !.step = "winner", !.shown = collector.seen.bid,
                        !.price = collector.seen.bid, !.fresh = TRUE]
    BY <1>3 DEF BidUpdate
  <2>2. /\ collector'.step = "winner" /\ collector'.seen = collector.seen
        /\ collector'.title = collector.title /\ collector'.number = collector.number
        /\ collector'.shown = collector.seen.bid /\ collector'.price = collector.seen.bid
        /\ collector'.fresh /\ collector'.key = collector.key
    BY <1>1, <2>1, CollectorFields
  <2> QED
    BY <1>1, <1>2, <2>2, CollectorFields DEF SightInv, KnowsInv, KeyInv, Busy
<1>4. CASE collector.seen.bid \in {0, collector.shown}
  <2>1. collector' = [collector EXCEPT !.step = "winner"]
    BY <1>4 DEF BidUpdate
  <2>2. /\ collector'.step = "winner" /\ collector'.seen = collector.seen
        /\ collector'.title = collector.title /\ collector'.number = collector.number
        /\ collector'.shown = collector.shown /\ collector'.price = collector.price
        /\ collector'.fresh = collector.fresh /\ collector'.key = collector.key
    BY <1>1, <2>1, CollectorFields
  <2> QED
    BY <1>1, <1>2, <1>4, <2>2, CollectorFields DEF SightInv, KnowsInv, KeyInv, Busy
<1> QED
  BY <1>3, <1>4

LEMMA KnowsWinner ==
  ASSUME SightInv, WinnerUpdate
  PROVE  KnowsInv' /\ KeyInv'
<1>1. /\ UNCHANGED <<page, sales>> /\ ShowStands /\ collector.step = "winner" /\ TypeInv
      /\ collector.seen.winner # NoOne /\ WinnerIsFinal
      /\ collector' = [collector EXCEPT !.step = "close", !.price = FinalPrice]
  BY TypeStores DEF SightInv, WinnerUpdate
<1>2. /\ Clean' <=> Clean
      /\ \A i \in 0 .. Len(workload.show) : Title(i)' = Title(i)
  BY <1>1, Stands, CollectorFields
<1>3. /\ collector'.step = "close" /\ collector'.seen = collector.seen
      /\ collector'.title = collector.title /\ collector'.number = collector.number
      /\ collector'.shown = collector.shown /\ collector'.price = FinalPrice
      /\ collector'.fresh = collector.fresh /\ collector'.key = collector.key
  BY <1>1, CollectorFields
<1>4. Clean => FinalPrice = collector.shown
  BY <1>1, WinnerAsSold
<1> QED
  BY <1>1, <1>2, <1>3, <1>4, CollectorFields DEF SightInv, KnowsInv, KeyInv, Busy

LEMMA KnowsNoWinner ==
  ASSUME SightInv, NoNewWinner
  PROVE  KnowsInv' /\ KeyInv'
<1>1. UNCHANGED page /\ ShowStands /\ collector.step = "winner" /\ TypeInv
  BY TypeMoves DEF SightInv, NoNewWinner, pageVars
<1>2. CASE collector.seen.winner = NoOne
  <2>1. PICK k \in {collector.key, << >>} :
          collector' = [collector EXCEPT !.step = "look", !.winner = NoOne, !.key = k]
    BY <1>2 DEF NoNewWinner
  <2>2. /\ collector'.step = "look" /\ collector'.seen = collector.seen
        /\ collector'.title = collector.title /\ collector'.number = collector.number
        /\ collector'.shown = collector.shown /\ collector'.price = collector.price
        /\ collector'.fresh = collector.fresh /\ collector'.key = k
    BY <1>1, <2>1, CollectorFields
  <2> QED
    BY <1>1, <2>2, KnowsGoesOn DEF Busy
<1>3. CASE collector.seen.winner # NoOne
  <2>1. PICK p : /\ p = (IF WinnerIsFinal THEN FinalPrice ELSE collector.price)
                 /\ collector' = [collector EXCEPT !.step = "look", !.price = p]
    BY <1>3 DEF NoNewWinner
  <2>2. /\ collector'.step = "look" /\ collector'.seen = collector.seen
        /\ collector'.title = collector.title /\ collector'.number = collector.number
        /\ collector'.shown = collector.shown /\ collector'.price = p
        /\ collector'.fresh = collector.fresh /\ collector'.key = collector.key
    BY <1>1, <2>1, CollectorFields
  <2>3. /\ Clean' <=> Clean
        /\ \A i \in 0 .. Len(workload.show) : Title(i)' = Title(i)
    BY <1>1, Stands, CollectorFields
  <2>4. Clean /\ WinnerIsFinal => FinalPrice = collector.shown
    BY <1>1, <1>3, WinnerAsSold
  <2> QED
    BY <1>1, <2>1, <2>2, <2>3, <2>4, CollectorFields DEF SightInv, KnowsInv, KeyInv, Busy
<1> QED
  BY <1>2, <1>3

LEMMA KnowsRowsAndState ==
  ASSUME SightInv, OpenLot \/ StateUpdate \/ SkipTick
  PROVE  KnowsInv' /\ KeyInv'
<1>1. /\ UNCHANGED page /\ ShowStands /\ TypeInv /\ Busy
  BY TypeMoves, TypeStores DEF SightInv, OpenLot, StateUpdate, SkipTick, Busy
<1>2. CASE OpenLot
  <2>1. PICK r : collector' = [collector EXCEPT !.step = "state", !.row = r]
    BY <1>2 DEF OpenLot
  <2>2. /\ collector'.step = "state" /\ collector'.seen = collector.seen
        /\ collector'.title = collector.title /\ collector'.number = collector.number
        /\ collector'.shown = collector.shown /\ collector'.price = collector.price
        /\ collector'.fresh = collector.fresh /\ collector'.key = collector.key
    BY <1>1, <2>1, CollectorFields
  <2> QED
    BY <1>1, <1>2, <2>2, KnowsGoesOn DEF OpenLot
<1>3. CASE StateUpdate
  <2>1. PICK s : collector' = [collector EXCEPT !.step = "bid", !.state = s]
    <3>1. \/ collector' = [collector EXCEPT !.step = "bid", !.state = AuctionState]
          \/ collector' = [collector EXCEPT !.step = "bid"]
      BY <1>3 DEF StateUpdate
    <3>2. [collector EXCEPT !.step = "bid"]
            = [collector EXCEPT !.step = "bid", !.state = collector.state]
      BY <1>1, CollectorFields
    <3> QED
      BY <3>1, <3>2
  <2>2. /\ collector'.step = "bid" /\ collector'.seen = collector.seen
        /\ collector'.title = collector.title /\ collector'.number = collector.number
        /\ collector'.shown = collector.shown /\ collector'.price = collector.price
        /\ collector'.fresh = collector.fresh /\ collector'.key = collector.key
    BY <1>1, <2>1, CollectorFields
  <2> QED
    BY <1>1, <1>3, <2>2, KnowsGoesOn DEF StateUpdate
<1>4. CASE SkipTick
  <2>1. collector' = [collector EXCEPT !.step = "look"]
    BY <1>4 DEF SkipTick
  <2>2. /\ collector'.step = "look" /\ collector'.seen = collector.seen
        /\ collector'.title = collector.title /\ collector'.number = collector.number
        /\ collector'.shown = collector.shown /\ collector'.price = collector.price
        /\ collector'.fresh = collector.fresh /\ collector'.key = collector.key
    BY <1>1, <2>1, CollectorFields
  <2> QED
    BY <1>1, <2>2, KnowsGoesOn
<1> QED
  BY <1>2, <1>3, <1>4

\* What closing the lot of a winner leaves in the collector's state.
LEMMA ClosedFields ==
  ASSUME TypeInv, CloseLot
  PROVE  /\ collector'.step = "look" /\ collector'.seen = collector.seen
         /\ collector'.title = collector.title /\ collector'.number = collector.number
         /\ collector'.shown = collector.shown /\ collector'.price = collector.price
         /\ collector'.fresh = collector.fresh
         /\ collector'.key = <<collector.number, collector.seen.winner, collector.price>>
         /\ collector'.row \in {0, collector.row}
<1> DEFINE k == <<collector.number, collector.seen.winner, collector.price>>
           won == [collector EXCEPT !.step = "look", !.winner = collector.seen.winner,
                     !.key = k]
<1>1. collector' = won \/ collector' = [won EXCEPT !.row = 0]
  BY DEF CloseLot
<1>2. PICK r \in {0, collector.row} :
        collector' = [collector EXCEPT !.step = "look", !.winner = collector.seen.winner,
                        !.key = k, !.row = r]
  <2>1. \/ collector' = [collector EXCEPT !.step = "look",
                           !.winner = collector.seen.winner, !.key = k, !.row = collector.row]
        \/ collector' = [collector EXCEPT !.step = "look",
                           !.winner = collector.seen.winner, !.key = k, !.row = 0]
    BY <1>1, CollectorFields
  <2> HIDE DEF k
  <2> QED
    BY <2>1
<1> HIDE DEF k
<1>3. /\ collector'.step = "look" /\ collector'.seen = collector.seen
      /\ collector'.title = collector.title /\ collector'.number = collector.number
      /\ collector'.shown = collector.shown /\ collector'.price = collector.price
      /\ collector'.fresh = collector.fresh /\ collector'.key = k /\ collector'.row = r
  BY <1>2, CollectorFields
<1> QED
  BY <1>3 DEF k

LEMMA KnowsClose ==
  ASSUME SightInv, CloseLot
  PROVE  KnowsInv' /\ KeyInv'
<1>1. /\ UNCHANGED page /\ ShowStands /\ TypeInv /\ Busy /\ collector.step = "close"
  BY TypeMoves DEF SightInv, CloseLot, Busy
<1>2. /\ Clean' <=> Clean
      /\ \A i \in 0 .. Len(workload.show) : Title(i)' = Title(i)
  BY <1>1, Stands
<1>3. Clean => /\ collector.seen.winner # NoOne /\ collector.seen.item # 0
               /\ collector.title = collector.seen.item
               /\ collector.title = page.item => page.phase # "open"
  BY <1>1 DEF SightInv, KnowsInv, SeenInv
<1>4. KnowsInv'
  BY <1>1, <1>2, ClosedFields, CollectorFields DEF SightInv, KnowsInv, Busy
<1>5. KeyInv'
  BY <1>1, <1>2, <1>3, ClosedFields DEF KeyInv, Busy
<1> QED
  BY <1>4, <1>5

\* A process that starts has seen nothing.
LEMMA StartedFields ==
  /\ Started.step = "look" /\ Started.title = 0 /\ Started.shown = 0
  /\ Started.key = << >> /\ Started.seen = BlankPage
  /\ BlankPage.item = 0 /\ BlankPage.winner = NoOne /\ BlankPage.bid = 0
  /\ BlankPage.label = 0 /\ BlankPage.phase = "over"
  /\ Started.seen.item = 0 /\ Started.seen.winner = NoOne
BY DEF Started, BlankPage

LEMMA KnowsRestart ==
  ASSUME SightInv, Restart
  PROVE  SeenInv' /\ KnowsInv' /\ KeyInv'
<1>1. collector' = Started /\ page' = page /\ TypeInv
  BY TypeRestart DEF SightInv, Restart
<1>2. page.item \in Nat
  BY <1>1, CollectorFields
<1>3. /\ collector'.step = "look" /\ collector'.title = 0 /\ collector'.shown = 0
      /\ collector'.key = << >> /\ collector'.seen.item = 0 /\ collector'.seen.winner = NoOne
  BY <1>1, StartedFields
<1>4. SeenInv'
  BY <1>1, <1>2, <1>3 DEF SeenInv, Busy
<1>5. KnowsInv'
  BY <1>1, <1>2, <1>3 DEF KnowsInv, Busy
<1>6. KeyInv'
  BY <1>3 DEF KeyInv
<1> QED
  BY <1>4, <1>5, <1>6

LEMMA KnowsElse ==
  ASSUME SightInv, BackfillBegins \/ BackfillWrites \/ UNCHANGED historyVars
  PROVE  SightInv'
<1>1. /\ TypeInv' /\ ShowStands /\ UNCHANGED <<page, sales, collector>> /\ TypeInv
  BY TypeBackfill DEF SightInv
<1>2. /\ Clean' <=> Clean
      /\ \A i \in 0 .. Len(workload.show) : Title(i)' = Title(i)
  BY <1>1, Stands
<1>3. PageInv' /\ SalesInv' /\ SeenInv'
  BY <1>1, LookKept DEF SightInv, Busy
<1>4. KnowsInv' /\ KeyInv'
  BY <1>1, <1>2, CollectorFields DEF SightInv, KnowsInv, KeyInv, Busy
<1> QED
  BY <1>1, <1>3, <1>4 DEF SightInv

LEMMA SightNext ==
  ASSUME SightInv, [HistoryNext]_historyVars
  PROVE  SightInv' /\ ShowStands
<1>1. TypeInv' /\ ShowStands /\ TypeInv
  BY TypeNext DEF SightInv
<1>2. CASE PageMoves
  BY <1>1, <1>2, PageInvMoves, SalesInvMoves, SeenInvMoves, KnowsMoves DEF SightInv
<1>3. CASE Look \/ Restart
  <2>1. UNCHANGED <<page, sales>>
    BY <1>3 DEF Look, Restart, pageVars
  <2>2. PageInv' /\ SalesInv'
    BY <1>1, <2>1, LookKept DEF SightInv
  <2> QED
    BY <1>1, <1>3, <2>2, KnowsLook, KnowsRestart DEF SightInv
<1>4. CASE \/ LotUpdate \/ SameTitle \/ OpenLot \/ StateUpdate
           \/ BidUpdate \/ WinnerUpdate \/ NoNewWinner \/ CloseLot \/ SkipTick
  <2>1. UNCHANGED <<page, sales>> /\ Busy
    BY <1>4 DEF LotUpdate, SameTitle, OpenLot, StateUpdate, BidUpdate, WinnerUpdate,
       NoNewWinner, CloseLot, SkipTick, pageVars, Busy
  <2>2. collector'.seen = collector.seen
    <3>1. CASE CloseLot
      BY <1>1, <3>1, ClosedFields
    <3>2. CASE NoNewWinner
      BY <1>1, <3>2, CollectorFields DEF NoNewWinner
    <3>3. CASE \/ LotUpdate \/ SameTitle \/ OpenLot \/ StateUpdate
               \/ BidUpdate \/ WinnerUpdate \/ SkipTick
      BY <1>1, <3>3, CollectorFields DEF LotUpdate, SameTitle, OpenLot, StateUpdate,
         BidUpdate, WinnerUpdate, SkipTick
    <3> QED
      BY <1>4, <3>1, <3>2, <3>3
  <2>3. PageInv' /\ SalesInv' /\ SeenInv'
    BY <1>1, <2>1, <2>2, LookKept DEF SightInv
  <2>4. KnowsInv' /\ KeyInv'
    BY <1>4, KnowsLotUpdate, KnowsSameTitle, KnowsRowsAndState, KnowsBid, KnowsWinner,
       KnowsNoWinner, KnowsClose
  <2> QED
    BY <1>1, <2>3, <2>4 DEF SightInv
<1>5. CASE BackfillBegins \/ BackfillWrites \/ UNCHANGED historyVars
  BY <1>1, <1>5, KnowsElse
<1> QED
  BY <1>2, <1>3, <1>4, <1>5 DEF HistoryNext, CollectorNext, Collect

LEMMA SightInit == HistoryInit => SightInv
<1> SUFFICES ASSUME HistoryInit
             PROVE  SightInv
  OBVIOUS
<1>1. /\ workload \in Workloads /\ page = BlankPage /\ sales = << >> /\ now = 0
      /\ collector = Started /\ events = << >>
  BY DEF HistoryInit, CollectorInit
<1>2. WorkloadOK
  <2>1. workload \in Workload /\ workload.started = workload.restarts
    BY <1>1, CollectorConstants
  <2> QED
    BY <2>1 DEF Workload, WorkloadOK
<1>3. 0 \in 0 .. Len(workload.show) /\ IsSeq(events) /\ sales \in Seq(Sale)
  <2>1. events \in Seq({}) /\ sales \in Seq(Sale)
    BY <1>1
  <2>2. Len(workload.show) \in Nat
    BY <1>2 DEF WorkloadOK
  <2> QED
    BY <2>1, <2>2 DEF IsSeq
<1>4. TypeInv
  BY <1>1, <1>2, <1>3, BlankIsPage, AmountsType DEF TypeInv, CollectorOK, Started, BlankPage
<1>5. PageInv
  BY <1>1, StartedFields DEF PageInv
<1>6. SeenInv
  BY <1>1, StartedFields DEF SeenInv, Busy
<1>7. SalesInv
  BY <1>1 DEF SalesInv
<1>8. KnowsInv /\ KeyInv
  BY <1>1, StartedFields DEF KnowsInv, KeyInv, Busy
<1> QED
  BY <1>4, <1>5, <1>6, <1>7, <1>8 DEF SightInv

LEMMA SightAlways == HistorySpec => []SightInv
<1>1. SightInv /\ [HistoryNext]_historyVars => SightInv'
  BY SightNext
<1> QED
  BY <1>1, SightInit, PTL DEF HistorySpec

-----------------------------------------------------------------------------
(* What is logged *)

Posting ==
  Event("auction_winner", collector.number, Title(collector.title).product,
        collector.seen.winner, FinalPrice, "", now)

\* A step logs a winner only if it is WinnerUpdate.
LogsNoWinner ==
  events' = events \/ \E e : events' = Append(events, e) /\ e.type # "auction_winner"

LEMMA Logged ==
  ASSUME TypeInv, [HistoryNext]_historyVars
  PROVE  LogsNoWinner \/ (WinnerUpdate /\ events' = Append(events, Posting))
<1>1. CASE PageMoves \/ Restart \/ SkipTick
  BY <1>1 DEF PageMoves, Restart, SkipTick, LogsNoWinner
<1>2. CASE LotUpdate
  <2> DEFINE e == Event("lot_update", NumberOfTitle, Title(collector.seen.item).product,
                        NoOne, 0, "", now)
  <2>1. StoresOrNot(e)
    BY <1>2 DEF LotUpdate
  <2>2. e.type # "auction_winner"
    BY DEF Event
  <2> HIDE DEF e
  <2> QED
    BY <2>1, <2>2, StoreOrNot DEF LogsNoWinner
<1>3. CASE StateUpdate
  <2> DEFINE e == Event("auction_state", collector.number, "", NoOne, 0, AuctionState, now)
  <2>1. events' = events \/ StoresOrNot(e)
    BY <1>3 DEF StateUpdate
  <2>2. e.type # "auction_winner"
    BY DEF Event
  <2> HIDE DEF e
  <2> QED
    BY <2>1, <2>2, StoreOrNot DEF LogsNoWinner
<1>4. CASE BidUpdate
  <2> DEFINE e == Event("bid_update", collector.number, "", NoOne, collector.seen.bid, "", now)
  <2>1. events' = events \/ StoresOrNot(e)
    BY <1>4 DEF BidUpdate
  <2>2. e.type # "auction_winner"
    BY DEF Event
  <2> HIDE DEF e
  <2> QED
    BY <2>1, <2>2, StoreOrNot DEF LogsNoWinner
<1>5. CASE WinnerUpdate
  <2>1. StoresOrNot(Posting)
    BY <1>5 DEF WinnerUpdate, Posting
  <2> QED
    BY <1>5, <2>1, StoreOrNot DEF LogsNoWinner
<1>6. CASE Look \/ SameTitle \/ OpenLot \/ NoNewWinner \/ CloseLot
  BY <1>6, TypeMoves DEF LogsNoWinner
<1>7. CASE BackfillBegins \/ BackfillWrites \/ UNCHANGED historyVars
  BY <1>7, TypeBackfill DEF LogsNoWinner
<1> QED
  BY <1>1, <1>2, <1>3, <1>4, <1>5, <1>6, <1>7 DEF HistoryNext, CollectorNext, Collect

\* Sales are kept, and only a sale on the page adds one.
LEMMA SalesKept ==
  ASSUME TypeInv, [HistoryNext]_historyVars
  PROVE  /\ \A i \in DOMAIN sales : i \in DOMAIN sales' /\ sales'[i] = sales[i]
         /\ \A i \in DOMAIN sales' :
              i \in DOMAIN sales \/ (PageMoves /\ Sell /\ i = Len(sales) + 1)
<1>1. CASE PageMoves
  BY <1>1, SalesGrow
<1>2. CASE ~PageMoves
  <2>1. sales' = sales
    BY <1>2 DEF HistoryNext, CollectorNext, Collect, Look, LotUpdate, SameTitle, OpenLot,
       StateUpdate, BidUpdate, WinnerUpdate, NoNewWinner, CloseLot, Restart, SkipTick,
       BackfillBegins, BackfillWrites, historyVars, collectorVars, pageVars
  <2> QED
    BY <2>1
<1> QED
  BY <1>1, <1>2

LEMMA SaleFields ==
  ASSUME TypeInv, SalesInv, NEW i \in DOMAIN sales
  PROVE  sales[i].item \in 1 .. Len(workload.show) /\ sales[i].item <= page.item
<1>1. sales[i] \in Sale
  BY ElementOfSeq DEF TypeInv
<1>2. /\ sales[i].item \in Nat /\ page.item \in 0 .. Len(workload.show)
      /\ Len(workload.show) \in Nat
  BY <1>1, CollectorFields DEF Sale, TypeInv
<1> QED
  BY <1>2 DEF SalesInv

LEMMA SoldAsGrows ==
  ASSUME SightInv, [HistoryNext]_historyVars
  PROVE  \A n, b, p : SoldAs(n, b, p) # {} => SoldAs(n, b, p)' # {}
<1>1. TypeInv /\ ShowStands
  BY SightNext DEF SightInv
<1>2. \A k \in 0 .. Len(workload.show) : Title(k)' = Title(k)
  BY <1>1, Stands
<1>3. \A i \in DOMAIN sales :
        i \in DOMAIN sales' /\ sales'[i] = sales[i]
        /\ sales[i].item \in 0 .. Len(workload.show)
  BY <1>1, SaleFields, SalesKept DEF SightInv
<1> QED
  BY <1>2, <1>3 DEF SoldAs

(***************************************************************************)
(* A posted winner names a lot, its buyer and its price as it was sold.    *)
(***************************************************************************)
LEMMA PostingAsSold ==
  ASSUME SightInv, Clean, WinnerUpdate
  PROVE  SoldAs(Posting.lot, Posting.winner, Posting.price) # {}
<1>1. /\ FinalPrice = collector.seen.bid
      /\ collector.title = collector.seen.item
      /\ collector.number = Title(collector.title).number
  BY WinnerAsSold DEF WinnerUpdate
<1>2. PICK i \in DOMAIN sales :
        sales[i] = [item |-> collector.seen.item, buyer |-> collector.seen.winner,
                    price |-> collector.seen.bid]
  BY DEF SightInv, SeenInv, Sold, WinnerUpdate
<1>3. /\ Posting.lot = collector.number /\ Posting.winner = collector.seen.winner
      /\ Posting.price = FinalPrice
  BY DEF Posting, Event
<1>4. i \in SoldAs(Posting.lot, Posting.winner, Posting.price)
  <2>1. /\ sales[i].item = collector.seen.item /\ sales[i].buyer = collector.seen.winner
        /\ sales[i].price = collector.seen.bid
    BY <1>2
  <2> QED
    BY <1>1, <1>3, <2>1 DEF SoldAs
<1> QED
  BY <1>4

\* A winner is among the posted ones.
Names(log, number, buyer, price) ==
  \E i \in DOMAIN log :
    /\ log[i].type = "auction_winner"
    /\ log[i].lot = number /\ log[i].winner = buyer /\ log[i].price = price

LEMMA ToldNext ==
  ASSUME SightInv, WinnersTold, [HistoryNext]_historyVars
  PROVE  WinnersTold'
<1>1. TypeInv /\ ShowStands /\ (Clean' <=> Clean) /\ IsSeq(events)
  BY SightNext, Stands DEF SightInv, TypeInv
<1>2. ASSUME Clean,
             \A n, b, p : Names(events', n, b, p) => SoldAs(n, b, p)' # {}
      PROVE  WinnersTold'
  BY <1>2 DEF WinnersTold, Names, SoldAs
<1>3. Clean => \A n, b, p : Names(events, n, b, p) => SoldAs(n, b, p) # {}
  BY DEF WinnersTold, Clean, Names
<1>4. ASSUME Clean
      PROVE  \A n, b, p : Names(events', n, b, p) => SoldAs(n, b, p)' # {}
  <2>1. CASE events' = events
    BY <1>3, <1>4, <2>1, SoldAsGrows
  <2>2. CASE events' # events
    <3>1. PICK e : /\ events' = Append(events, e)
                   /\ e.type = "auction_winner" => WinnerUpdate /\ e = Posting
      BY <1>1, <2>2, Logged DEF LogsNoWinner
    <3>2. e.type = "auction_winner" => SoldAs(e.lot, e.winner, e.price) # {}
      BY <1>4, <3>1, PostingAsSold
    <3>3. \A n, b, p : Names(events', n, b, p) =>
            Names(events, n, b, p)
            \/ (e.type = "auction_winner" /\ n = e.lot /\ b = e.winner /\ p = e.price)
      BY <1>1, <3>1, AppendAny DEF Names
    <3> QED
      BY <1>3, <1>4, <3>2, <3>3, SoldAsGrows
  <2> QED
    BY <2>1, <2>2
<1>5. ~Clean => WinnersTold'
  BY <1>1 DEF WinnersTold, Clean
<1> QED
  BY <1>2, <1>4, <1>5

THEOREM WinnersAsSold == HistorySpec => []WinnersTold
<1>1. HistoryInit => WinnersTold
  BY DEF HistoryInit, CollectorInit, WinnersTold
<1>2. SightInv /\ WinnersTold /\ [HistoryNext]_historyVars => WinnersTold'
  BY ToldNext
<1> QED
  BY <1>1, <1>2, SightAlways, PTL DEF HistorySpec

-----------------------------------------------------------------------------
(* How often a sale is posted *)

SaleKey(i) == <<Title(sales[i].item).number, sales[i].buyer, sales[i].price>>

PostedIn(log, key) ==
  {i \in DOMAIN log : /\ log[i].type = "auction_winner"
                      /\ log[i].lot = key[1] /\ log[i].winner = key[2] /\ log[i].price = key[3]}

Posts(i) == Cardinality(PostedIn(events, SaleKey(i)))

\* The banner of the sale is gone, and so is every look at it.
Past(i) ==
  \/ sales[i].item < page.item
  \/ /\ sales[i].item = page.item /\ page.phase = "over"
     /\ Busy => ~(collector.seen.item = sales[i].item /\ collector.seen.winner # NoOne)

ClosingKey == <<collector.number, collector.seen.winner, collector.price>>

Settled(i) ==
  \/ collector.key = SaleKey(i)
  \/ collector.step = "close" /\ ClosingKey = SaleKey(i)
  \/ Past(i)

(***************************************************************************)
(* A process that starts may post a sale once more; who has posted it      *)
(* knows its key until the sale is past.                                   *)
(***************************************************************************)
OnceInv ==
  Clean =>
    \A i \in DOMAIN sales :
      /\ Posts(i) + workload.restarts <= workload.started + 1
      /\ Posts(i) + workload.restarts = workload.started + 1 => Settled(i)

\* The sale of a lot is the only one of its number.
LEMMA OneSaleOfNumber ==
  ASSUME SightInv, Clean, NEW i \in DOMAIN sales, NEW k \in 0 .. Len(workload.show),
         Title(k).number = Title(sales[i].item).number
  PROVE  k = sales[i].item
<1>1. sales[i].item \in 1 .. Len(workload.show) /\ TypeInv /\ Numbered
  BY SaleFields DEF SightInv, Clean
<1> QED
  BY <1>1, SameNumber

LEMMA PostedFinite ==
  ASSUME TypeInv, NEW key
  PROVE  /\ IsFiniteSet(PostedIn(events, key))
         /\ Cardinality(PostedIn(events, key)) \in Nat
<1>1. IsSeq(events) /\ DOMAIN events = 1 .. Len(events) /\ Len(events) \in Nat
  BY AppendAny DEF TypeInv
<1>2. IsFiniteSet(1 .. Len(events))
  BY <1>1, FS_Interval
<1>3. PostedIn(events, key) \subseteq 1 .. Len(events)
  BY <1>1 DEF PostedIn
<1> QED
  BY <1>2, <1>3, FS_Subset, FS_CardinalityType

\* A step that logs no winner posts no sale; one that logs a winner posts one.
LEMMA PostsKept ==
  ASSUME TypeInv, LogsNoWinner, NEW key
  PROVE  PostedIn(events', key) = PostedIn(events, key)
<1>1. CASE events' = events
  BY <1>1
<1>2. CASE events' # events
  <2>1. PICK e : events' = Append(events, e) /\ e.type # "auction_winner"
    BY <1>2 DEF LogsNoWinner
  <2>2. /\ DOMAIN events = 1 .. Len(events) /\ DOMAIN events' = 1 .. Len(events) + 1
        /\ Len(events) \in Nat /\ \A k \in 1 .. Len(events) : events'[k] = events[k]
        /\ events'[Len(events) + 1] = e
    BY <2>1, AppendAny DEF TypeInv
  <2>3. \A k \in DOMAIN events' : k \in DOMAIN events \/ k = Len(events) + 1
    BY <2>2
  <2>4. DOMAIN events \subseteq DOMAIN events'
    BY <2>2
  <2> QED
    BY <2>1, <2>2, <2>3, <2>4 DEF PostedIn
<1> QED
  BY <1>1, <1>2

LEMMA PostsOneMore ==
  ASSUME TypeInv, events' = Append(events, Posting), NEW n, NEW b, NEW p
  PROVE  IF n = Posting.lot /\ b = Posting.winner /\ p = Posting.price
         THEN Cardinality(PostedIn(events', <<n, b, p>>))
                = Cardinality(PostedIn(events, <<n, b, p>>)) + 1
         ELSE PostedIn(events', <<n, b, p>>) = PostedIn(events, <<n, b, p>>)
<1> DEFINE last == Len(events) + 1
<1>1. /\ DOMAIN events = 1 .. Len(events) /\ DOMAIN events' = 1 .. last
      /\ Len(events) \in Nat /\ \A k \in 1 .. Len(events) : events'[k] = events[k]
      /\ events'[last] = Posting
  BY AppendAny DEF TypeInv
<1>2. Posting.type = "auction_winner"
  BY DEF Posting, Event
<1>3. /\ \A k \in DOMAIN events' : k \in DOMAIN events \/ k = last
      /\ DOMAIN events \subseteq DOMAIN events' /\ last \in DOMAIN events'
      /\ last \notin DOMAIN events
  BY <1>1
<1> HIDE DEF last
<1>4. CASE n = Posting.lot /\ b = Posting.winner /\ p = Posting.price
  <2>1. PostedIn(events', <<n, b, p>>) = PostedIn(events, <<n, b, p>>) \cup {last}
    BY <1>1, <1>2, <1>3, <1>4 DEF PostedIn
  <2>2. last \notin PostedIn(events, <<n, b, p>>)
    BY <1>3 DEF PostedIn
  <2>3. IsFiniteSet(PostedIn(events, <<n, b, p>>))
    BY PostedFinite
  <2>4. Cardinality(PostedIn(events, <<n, b, p>>) \cup {last})
          = Cardinality(PostedIn(events, <<n, b, p>>)) + 1
    BY <2>2, <2>3, FS_AddElement
  <2> QED
    BY <1>4, <2>1, <2>4
<1>5. CASE ~(n = Posting.lot /\ b = Posting.winner /\ p = Posting.price)
  BY <1>1, <1>2, <1>3, <1>5 DEF PostedIn
<1> QED
  BY <1>4, <1>5

\* The sales that were there keep their fields and keys.
LEMMA KeysStand ==
  ASSUME SightInv, [HistoryNext]_historyVars, NEW i \in DOMAIN sales
  PROVE  /\ i \in DOMAIN sales' /\ sales'[i] = sales[i] /\ SaleKey(i)' = SaleKey(i)
         /\ Title(sales[i].item)' = Title(sales[i].item)
         /\ sales[i].item \in Nat /\ page.item \in Nat /\ page'.item \in Nat
<1>1. TypeInv /\ TypeInv' /\ ShowStands
  BY SightNext, TypeNext DEF SightInv
<1>2. /\ i \in DOMAIN sales' /\ sales'[i] = sales[i]
      /\ sales[i].item \in 0 .. Len(workload.show)
  BY <1>1, SalesKept, SaleFields DEF SightInv
<1>3. Title(sales[i].item)' = Title(sales[i].item)
  BY <1>1, <1>2 DEF ShowStands, Title
<1>4. sales[i].item \in Nat /\ page.item \in Nat /\ page'.item \in Nat
  BY <1>1, <1>2 DEF TypeInv, Page
<1>5. SaleKey(i)' = SaleKey(i)
  BY <1>2, <1>3 DEF SaleKey
<1> QED
  BY <1>2, <1>3, <1>4, <1>5

\* What is past stays past, whatever the collector does.
LEMMA PastStays ==
  ASSUME SightInv, [HistoryNext]_historyVars, NEW i \in DOMAIN sales, Past(i)
  PROVE  Past(i)'
<1>1. /\ sales'[i] = sales[i] /\ sales[i].item \in Nat /\ page.item \in Nat
      /\ page'.item \in Nat /\ TypeInv
  BY KeysStand DEF SightInv
<1>2. CASE PageMoves
  BY <1>1, <1>2, MovesOfPage DEF Past, Busy, SightInv, PageMoves
<1>3. CASE Look
  <2>1. page' = page /\ collector'.seen = page
    BY <1>1, <1>3, CollectorFields DEF Look, pageVars
  <2> QED
    BY <1>1, <2>1 DEF Past, SightInv, PageInv
<1>4. CASE ~PageMoves /\ ~Look
  <2>1. page' = page /\ (Busy' => Busy /\ collector'.seen = collector.seen)
    <3>1. CASE Restart
      BY <1>1, <3>1, StartedFields DEF Restart, Busy
    <3>2. CASE CloseLot
      BY <1>1, <3>2, ClosedFields DEF Busy, CloseLot
    <3>3. CASE NoNewWinner
      BY <1>1, <3>3, CollectorFields DEF Busy, NoNewWinner, pageVars
    <3>4. CASE \/ LotUpdate \/ SameTitle \/ OpenLot \/ StateUpdate
               \/ BidUpdate \/ WinnerUpdate \/ SkipTick
      BY <1>1, <3>4, CollectorFields DEF LotUpdate, SameTitle, OpenLot, StateUpdate,
         BidUpdate, WinnerUpdate, SkipTick, Busy, pageVars
    <3>5. CASE BackfillBegins \/ BackfillWrites \/ UNCHANGED historyVars
      BY <1>1, <3>5, TypeBackfill DEF Busy
    <3> QED
      BY <1>4, <3>1, <3>2, <3>3, <3>4, <3>5 DEF HistoryNext, CollectorNext, Collect
  <2> QED
    BY <1>1, <2>1 DEF Past
<1> QED
  BY <1>2, <1>3, <1>4

\* Only steps named here touch the key of the last winner or the step "close".
LEMMA KeyKept ==
  ASSUME TypeInv, [HistoryNext]_historyVars,
         ~(LotUpdate \/ NoNewWinner \/ CloseLot \/ Restart)
  PROVE  /\ collector'.key = collector.key
         /\ collector.step = "close" => collector' = collector
<1>1. CASE PageMoves
  BY <1>1 DEF PageMoves
<1>2. CASE BackfillBegins \/ BackfillWrites \/ UNCHANGED historyVars
  BY <1>2, TypeBackfill
<1>3. CASE \/ Look \/ SameTitle \/ BidUpdate \/ WinnerUpdate \/ SkipTick
  BY <1>3, CollectorFields DEF Look, SameTitle, BidUpdate, WinnerUpdate, SkipTick
<1>4. CASE OpenLot
  <2>1. PICK r : collector' = [collector EXCEPT !.step = "state", !.row = r]
    BY <1>4 DEF OpenLot
  <2> QED
    BY <1>4, <2>1, CollectorFields DEF OpenLot
<1>5. CASE StateUpdate
  BY <1>5, CollectorFields DEF StateUpdate
<1> QED
  BY <1>1, <1>2, <1>3, <1>4, <1>5 DEF HistoryNext, CollectorNext, Collect

\* A key of a sale belongs to its lot, which is the one the collector has open.
LEMMA KeyOfSale ==
  ASSUME SightInv, Clean, NEW i \in DOMAIN sales, collector.key = SaleKey(i)
  PROVE  /\ collector.title = sales[i].item /\ collector.title # 0
         /\ collector.title = page.item => page.phase # "open"
<1>1. /\ collector.title # 0 /\ collector.key[1] = collector.number
      /\ collector.title = page.item => page.phase # "open"
  BY DEF SightInv, KeyInv, SaleKey
<1>2. collector.number = Title(collector.title).number
  BY <1>1 DEF SightInv, KnowsInv
<1>3. collector.title \in 0 .. Len(workload.show)
  BY CollectorFields DEF SightInv
<1>4. Title(collector.title).number = Title(sales[i].item).number
  BY <1>1, <1>2 DEF SaleKey
<1> QED
  BY <1>1, <1>3, <1>4, OneSaleOfNumber

LEMMA SettledStays ==
  ASSUME SightInv, Clean, [HistoryNext]_historyVars, ~Restart,
         NEW i \in DOMAIN sales, Settled(i)
  PROVE  Settled(i)'
<1>1. /\ SaleKey(i)' = SaleKey(i) /\ sales'[i] = sales[i]
      /\ sales[i].item \in Nat /\ page.item \in Nat /\ TypeInv
      /\ collector.title \in 0 .. Len(workload.show)
      /\ collector.seen.item \in 0 .. Len(workload.show) /\ Len(workload.show) \in Nat
  BY KeysStand, CollectorFields DEF SightInv
<1>2. CASE Past(i)
  BY <1>2, PastStays DEF Settled
<1>3. CASE ~(LotUpdate \/ NoNewWinner \/ CloseLot)
  <2>1. /\ collector'.key = collector.key
        /\ collector.step = "close" => collector' = collector
    BY <1>1, <1>3, KeyKept
  <2>2. collector.step = "close" => ClosingKey' = ClosingKey
    BY <2>1 DEF ClosingKey
  <2> QED
    BY <1>1, <1>2, <2>1, <2>2 DEF Settled
<1>4. CASE LotUpdate /\ ~Past(i)
  <2>1. collector.key = SaleKey(i) /\ collector.step = "title"
    BY <1>4 DEF Settled, LotUpdate
  <2>2. collector.title = sales[i].item
    BY <2>1, KeyOfSale
  <2>3. collector.title <= collector.seen.item /\ collector.seen.item <= page.item
    BY <2>1 DEF SightInv, KnowsInv, SeenInv, Busy
  <2>4. collector.seen.item # collector.title
    BY <1>4 DEF LotUpdate, TitleIsNew
  <2>5. sales[i].item < page.item
    BY <1>1, <2>2, <2>3, <2>4
  <2> QED
    BY <1>4, <2>5 DEF Past
<1>5. CASE NoNewWinner /\ ~Past(i)
  <2>1. collector.key = SaleKey(i) /\ collector.step = "winner" /\ page' = page
    BY <1>5 DEF Settled, NoNewWinner, pageVars
  <2>2. collector.title = sales[i].item /\ collector.title # 0
    BY <2>1, KeyOfSale
  <2>3. CASE collector.seen.winner # NoOne
    <3>1. collector'.key = collector.key
      BY <1>1, <1>5, <2>3, CollectorFields DEF NoNewWinner
    <3> QED
      BY <1>1, <2>1, <3>1 DEF Settled
  <2>4. CASE collector.seen.winner = NoOne
    <3>1. collector.title <= collector.seen.item /\ collector.seen.item <= page.item
      BY <2>1 DEF SightInv, KnowsInv, SeenInv, Busy
    <3>2. collector.seen.item # 0
      BY <1>1, <2>2, <3>1
    <3>3. collector.title = collector.seen.item
      BY <2>1, <3>2 DEF SightInv, KnowsInv
    <3>4. collector.title = page.item => page.phase = "over"
      BY <1>1, <2>1, <2>2, <2>4, <3>3 DEF SightInv, KeyInv, SaleKey, Busy
    <3>5. Past(i)
      BY <1>1, <2>2, <2>4, <3>1, <3>3, <3>4 DEF Past
    <3> QED
      BY <1>5, <3>5
  <2> QED
    BY <2>3, <2>4
<1>6. CASE CloseLot /\ ~Past(i)
  <2>1. /\ collector.step = "close" /\ collector'.key = ClosingKey
        /\ collector.key = SaleKey(i) \/ ClosingKey = SaleKey(i)
    BY <1>1, <1>6, ClosedFields DEF Settled, CloseLot, ClosingKey
  <2>2. ASSUME collector.key = SaleKey(i)
        PROVE  ClosingKey = SaleKey(i)
    <3>1. /\ collector.title = sales[i].item /\ collector.title # 0
          /\ collector.number = Title(sales[i].item).number
      BY <2>2, KeyOfSale DEF SightInv, KnowsInv
    <3>2. collector.seen.winner # NoOne
      BY <2>1 DEF SightInv, KnowsInv
    <3>3. /\ collector.seen.item # 0 /\ collector.seen.bid # 0
          /\ Sold(sales, collector.seen.item, collector.seen.winner, collector.seen.bid)
      BY <3>2 DEF SightInv, SeenInv
    <3>4. collector.title = collector.seen.item /\ collector.price = collector.seen.bid
      BY <2>1, <3>3 DEF SightInv, KnowsInv
    <3>5. PICK j \in DOMAIN sales :
            sales[j] = [item |-> collector.seen.item, buyer |-> collector.seen.winner,
                        price |-> collector.seen.bid]
      BY <3>3 DEF Sold
    <3>6. j = i
      <4>1. sales[j].item = sales[i].item
        BY <3>1, <3>4, <3>5
      <4> QED
        BY <4>1 DEF SightInv, SalesInv
    <3>7. sales[i].buyer = collector.seen.winner /\ sales[i].price = collector.seen.bid
      BY <3>5, <3>6
    <3> QED
      BY <3>1, <3>4, <3>7 DEF ClosingKey, SaleKey
  <2> QED
    BY <1>1, <2>1, <2>2 DEF Settled
<1> QED
  BY <1>2, <1>3, <1>4, <1>5, <1>6

LEMMA RestartsStand ==
  ASSUME TypeInv, [HistoryNext]_historyVars, ~Restart
  PROVE  workload'.restarts = workload.restarts
BY TypePage, TypeStores, TypeMoves, TypeBackfill DEF HistoryNext, CollectorNext, Collect

\* A winner is posted for a sale that is not settled, which settles it.
LEMMA PostingSettles ==
  ASSUME SightInv, Clean, [HistoryNext]_historyVars, WinnerUpdate,
         NEW i \in DOMAIN sales,
         SaleKey(i) = <<Posting.lot, Posting.winner, Posting.price>>
  PROVE  ~Settled(i) /\ Settled(i)'
<1>1. /\ collector.step = "winner" /\ WinnerKey # collector.key
      /\ collector' = [collector EXCEPT !.step = "close", !.price = FinalPrice]
      /\ collector.seen.winner # NoOne /\ TypeInv /\ WinnerIsFinal
  BY DEF WinnerUpdate, SightInv
<1>2. WinnerKey = SaleKey(i)
  BY DEF WinnerKey, Posting, Event
<1>3. /\ page.phase = "sold" /\ page.item = collector.seen.item
      /\ collector.title = collector.seen.item
      /\ collector.number = Title(collector.title).number
  BY <1>1, WinnerAsSold
<1>4. sales[i].item = page.item
  <2>1. collector.number = Title(sales[i].item).number
    BY DEF SaleKey, Posting, Event
  <2> QED
    BY <1>1, <1>3, <2>1, OneSaleOfNumber, CollectorFields
<1>5. ~Settled(i)
  BY <1>1, <1>2, <1>3, <1>4, CollectorFields DEF Settled, Past
<1>6. /\ collector'.step = "close" /\ collector'.price = FinalPrice
      /\ collector'.number = collector.number /\ collector'.seen = collector.seen
  BY <1>1, CollectorFields
<1>7. ClosingKey' = SaleKey(i)
  BY <1>2, <1>6 DEF ClosingKey, WinnerKey
<1>8. SaleKey(i)' = SaleKey(i)
  BY KeysStand
<1> QED
  BY <1>5, <1>6, <1>7, <1>8 DEF Settled

\* A lot that is sold only now has not been posted yet.
LEMMA NewSaleNotPosted ==
  ASSUME SightInv, WinnersTold, Clean, PageMoves, Sell, [HistoryNext]_historyVars,
         NEW k, k = Len(sales) + 1
  PROVE  Posts(k)' = 0
<1>1. /\ sales'[k].item = page.item /\ page.phase = "open"
      /\ page.item \in 0 .. Len(workload.show) /\ TypeInv /\ ShowStands
  BY Selling, SightNext DEF SightInv, TypeInv
<1>2. Title(sales[k].item)' = Title(page.item)
  BY <1>1 DEF ShowStands, Title
<1>3. events' = events
  BY DEF PageMoves
<1>4. SaleKey(k)'[1] = Title(page.item).number
  BY <1>2 DEF SaleKey
<1>5. ASSUME NEW e \in DOMAIN events, events[e].type = "auction_winner",
             events[e].lot = Title(page.item).number
      PROVE  FALSE
  <2>1. SoldAs(events[e].lot, events[e].winner, events[e].price) # {}
    BY <1>5 DEF WinnersTold, Clean
  <2>2. PICK i \in DOMAIN sales : Title(sales[i].item).number = events[e].lot
    BY <2>1 DEF SoldAs
  <2>3. page.item = sales[i].item
    BY <1>1, <1>5, <2>2, OneSaleOfNumber
  <2> QED
    BY <1>1, <2>3 DEF SightInv, SalesInv
<1>6. PostedIn(events', SaleKey(k)') = {}
  BY <1>3, <1>4, <1>5 DEF PostedIn
<1> QED
  BY <1>6, FS_EmptySet DEF Posts

LEMMA OnceNext ==
  ASSUME SightInv, WinnersTold, OnceInv, [HistoryNext]_historyVars
  PROVE  OnceInv'
<1>1. /\ TypeInv /\ TypeInv' /\ ShowStands /\ (Clean' <=> Clean)
      /\ workload'.started = workload.started
  BY SightNext, TypeNext, Stands DEF SightInv, ShowStands
<1>2. /\ workload.restarts \in Nat /\ workload.started \in Nat
      /\ workload'.restarts \in Nat /\ workload'.restarts <= workload'.started
  BY <1>1 DEF TypeInv, WorkloadOK
<1> SUFFICES ASSUME Clean, NEW i \in DOMAIN sales'
             PROVE  /\ Posts(i)' + workload'.restarts <= workload'.started + 1
                    /\ Posts(i)' + workload'.restarts = workload'.started + 1 => Settled(i)'
  BY <1>1 DEF OnceInv
<1>3. CASE i \notin DOMAIN sales
  <2>1. PageMoves /\ Sell /\ i = Len(sales) + 1
    BY <1>1, <1>3, SalesKept
  <2>2. Posts(i)' = 0
    BY <2>1, NewSaleNotPosted
  <2> QED
    BY <1>1, <1>2, <2>2
<1>4. CASE i \in DOMAIN sales
  <2>1. /\ Posts(i) + workload.restarts <= workload.started + 1
        /\ Posts(i) + workload.restarts = workload.started + 1 => Settled(i)
    BY <1>4 DEF OnceInv
  <2>2. /\ SaleKey(i)' = SaleKey(i) /\ Posts(i) \in Nat
        /\ Posts(i)' = Cardinality(PostedIn(events', SaleKey(i)))
        /\ Posts(i) = Cardinality(PostedIn(events, SaleKey(i)))
    BY <1>1, <1>4, KeysStand, PostedFinite DEF Posts
  <2>3. CASE Restart
    <3>1. workload'.restarts = workload.restarts - 1 /\ events' = events
      BY <1>1, <2>3, TypeRestart
    <3> QED
      BY <1>1, <1>2, <2>1, <2>2, <3>1
  <2>4. CASE ~Restart /\ Posts(i)' = Posts(i)
    <3>1. workload'.restarts = workload.restarts
      BY <1>1, <2>4, RestartsStand
    <3> QED
      BY <1>1, <1>4, <2>1, <2>4, <3>1, SettledStays
  <2>5. CASE ~Restart /\ Posts(i)' # Posts(i)
    <3>1. WinnerUpdate /\ events' = Append(events, Posting)
      BY <1>1, <2>2, <2>5, Logged, PostsKept
    <3>2. /\ SaleKey(i) = <<Posting.lot, Posting.winner, Posting.price>>
          /\ Posts(i)' = Posts(i) + 1
      BY <1>1, <2>2, <2>5, <3>1, PostsOneMore DEF SaleKey
    <3>3. ~Settled(i) /\ Settled(i)'
      BY <1>4, <3>1, <3>2, PostingSettles
    <3>4. workload'.restarts = workload.restarts
      BY <1>1, <2>5, RestartsStand
    <3> QED
      BY <1>1, <1>2, <2>1, <2>2, <3>2, <3>3, <3>4
  <2> QED
    BY <2>3, <2>4, <2>5
<1> QED
  BY <1>3, <1>4

LEMMA OnceMeans ==
  ASSUME SightInv, WinnersTold, OnceInv
  PROVE  WinnerPostedOnce
<1> SUFFICES ASSUME Clean, NEW k \in DOMAIN events, events[k].type = "auction_winner"
             PROVE  Cardinality(PostedAs(events[k].lot, events[k].winner, events[k].price))
                      + workload.restarts
                    <= Cardinality(SoldAs(events[k].lot, events[k].winner, events[k].price))
                      + workload.started
  BY DEF WinnerPostedOnce, Clean
<1> DEFINE sold == SoldAs(events[k].lot, events[k].winner, events[k].price)
           posted == PostedAs(events[k].lot, events[k].winner, events[k].price)
<1>1. PICK i : i \in sold
  BY DEF WinnersTold, Clean
<1>2. i \in DOMAIN sales /\ SaleKey(i) = <<events[k].lot, events[k].winner, events[k].price>>
  BY <1>1 DEF SoldAs, SaleKey
<1>3. posted = PostedIn(events, SaleKey(i))
  BY <1>2 DEF PostedAs, PostedIn
<1>4. Cardinality(posted) + workload.restarts <= workload.started + 1
  BY <1>2, <1>3 DEF OnceInv, Posts
<1>5. Cardinality(sold) \in Nat /\ Cardinality(sold) # 0
  <2>1. sales \in Seq(Sale)
    BY DEF SightInv, TypeInv
  <2>2. Len(sales) \in Nat /\ sold \subseteq 1 .. Len(sales)
    BY <2>1 DEF SoldAs
  <2>3. IsFiniteSet(1 .. Len(sales))
    BY <2>2, FS_Interval
  <2> HIDE DEF sold
  <2>4. IsFiniteSet(sold)
    BY <2>2, <2>3, FS_Subset
  <2> QED
    BY <1>1, <2>4, FS_CardinalityType, FS_EmptySet
<1>6. Cardinality(posted) \in Nat /\ workload.restarts \in Nat /\ workload.started \in Nat
  BY <1>3, PostedFinite DEF SightInv, TypeInv, WorkloadOK
<1> HIDE DEF sold, posted
<1>7. Cardinality(posted) + workload.restarts <= Cardinality(sold) + workload.started
  BY <1>4, <1>5, <1>6
<1> QED
  BY <1>7 DEF sold, posted

(***************************************************************************)
(* A process posts a sale once, and each process that starts under the     *)
(* banner at most once more.                                               *)
(***************************************************************************)
THEOREM WinnersPostedOnce == HistorySpec => []WinnerPostedOnce
<1>1. HistoryInit => OnceInv
  BY DEF HistoryInit, CollectorInit, OnceInv
<1>2. SightInv /\ WinnersTold /\ OnceInv /\ [HistoryNext]_historyVars => OnceInv'
  BY OnceNext
<1>3. SightInv /\ WinnersTold /\ OnceInv => WinnerPostedOnce
  BY OnceMeans
<1> QED
  BY <1>1, <1>2, <1>3, SightAlways, WinnersAsSold, PTL DEF HistorySpec

-----------------------------------------------------------------------------
(* Folds over a sequence, one element after the other *)

(***************************************************************************)
(* What holds of 0 and of a number's successor holds up to n.              *)
(***************************************************************************)
LEMMA UpFromZero ==
  ASSUME NEW n \in Nat, NEW T, 0 \in T, \A m \in 0 .. n - 1 : m \in T => m + 1 \in T
  PROVE  \A m \in 0 .. n : m \in T
<1> DEFINE bad == {m \in 0 .. n : m \notin T}
<1>1. bad = {}
  <2> SUFFICES ASSUME bad # {} PROVE FALSE
    OBVIOUS
  <2>1. PICK m \in bad : \A k \in bad : m <= k
    <3>1. bad \subseteq Nat
      OBVIOUS
    <3> QED
      BY <3>1, LeastElement
  <2>2. m # 0 /\ m - 1 \in 0 .. n - 1 /\ m - 1 \notin bad
    BY <2>1
  <2>3. (m - 1) + 1 \in T
    BY <2>2
  <2> QED
    BY <2>1, <2>2, <2>3
<1> QED
  BY <1>1

LEMMA LargestElement ==
  ASSUME NEW n \in Nat, NEW S, S \subseteq 1 .. n, S # {}
  PROVE  Max(S) \in S /\ \A x \in S : x <= Max(S)
<1> DEFINE T == {n - x : x \in S}
<1>9. \A x \in S : x \in 1 .. n
  OBVIOUS
<1>1. T \subseteq Nat /\ T # {}
  <2>1. \A x \in S : n - x \in Nat
    BY <1>9
  <2> QED
    BY <2>1
<1>2. PICK m \in T : \A k \in T : m <= k
  BY <1>1, LeastElement
<1>3. PICK y \in S : m = n - y
  OBVIOUS
<1>4. \A x \in S : y >= x
  <2> TAKE x \in S
  <2>1. n - y <= n - x
    BY <1>2, <1>3
  <2> QED
    BY <2>1
<1>5. Max(S) \in S /\ \A x \in S : Max(S) >= x
  BY <1>3, <1>4 DEF Max
<1>6. \A x \in S : x \in Int
  BY <1>9
<1> QED
  BY <1>5, <1>6

LEMMA LargestUpTo ==
  ASSUME NEW m \in Nat
  PROVE  Max(1 .. m + 1) = m + 1 /\ (1 .. m + 1) \ {Max(1 .. m + 1)} = 1 .. m
<1> DEFINE S == 1 .. m + 1
<1>1. S \subseteq 1 .. m + 1 /\ S # {} /\ m + 1 \in S /\ m + 1 \in Nat
  OBVIOUS
<1> HIDE DEF S
<1>2. Max(S) \in S /\ m + 1 <= Max(S)
  BY <1>1, LargestElement
<1> QED
  BY <1>2 DEF S

(***************************************************************************)
(* The step of each of the three folds of a history, and a function that   *)
(* has, for each of the sets of positions, what the fold makes of them.    *)
(***************************************************************************)
Step(fold, acc, e) ==
  IF fold = "stitch" THEN After(acc, e)
  ELSE IF fold = "keep" THEN WithRecord(acc, e) ELSE WithSale(acc, e)

IsFoldOver(g, fold, b, s, Sets) ==
  g = [S \in Sets |-> IF S = {} THEN b ELSE Step(fold, g[S \ {Max(S)}], s[Max(S)])]

LEMMA FoldNextSize ==
  ASSUME NEW fold, NEW b, NEW s, NEW k \in Nat, NEW U, U = 1 .. k, NEW n \in Nat,
         NEW g, IsFoldOver(g, fold, b, s, UpTo(U, n))
  PROVE  \E h : IsFoldOver(h, fold, b, s, UpTo(U, n + 1))
<1> DEFINE h == [S \in UpTo(U, n + 1) |->
                   IF S = {} THEN b ELSE Step(fold, g[S \ {Max(S)}], s[Max(S)])]
<1>1. ASSUME NEW S \in UpTo(U, n + 1), S # {}
      PROVE  g[S \ {Max(S)}] = h[S \ {Max(S)}]
  <2> DEFINE R == S \ {Max(S)}
  <2>1. IsFiniteSet(S) /\ Cardinality(S) \in Nat /\ Max(S) \in S
    <3>1. IsFiniteSet(U)
      BY FS_Interval
    <3>2. S \subseteq 1 .. k
      BY DEF UpTo
    <3> QED
      BY <1>1, <3>1, <3>2, FS_Subset, FS_CardinalityType, LargestElement
  <2>2. Cardinality(R) = Cardinality(S) - 1 /\ R \subseteq U
    BY <2>1, FS_RemoveElement DEF UpTo
  <2>3. R \in UpTo(U, n) /\ R \in UpTo(U, n + 1)
    BY <2>1, <2>2 DEF UpTo
  <2> HIDE DEF R
  <2>4. g[R] = IF R = {} THEN b ELSE Step(fold, g[R \ {Max(R)}], s[Max(R)])
    BY <2>3 DEF IsFoldOver
  <2>5. h[R] = IF R = {} THEN b ELSE Step(fold, g[R \ {Max(R)}], s[Max(R)])
    BY <2>3
  <2>6. g[R] = h[R]
    BY <2>4, <2>5
  <2> QED
    BY <2>6 DEF R
<1>2. h = [S \in UpTo(U, n + 1) |->
             IF S = {} THEN b ELSE Step(fold, h[S \ {Max(S)}], s[Max(S)])]
  BY <1>1
<1> HIDE DEF h
<1> QED
  BY <1>2 DEF IsFoldOver

IsFold(g, fold, b, s) == IsFoldOver(g, fold, b, s, SUBSET DOMAIN s)

LEMMA FoldExists ==
  ASSUME NEW fold, NEW b, NEW s, NEW k \in Nat, DOMAIN s = 1 .. k
  PROVE  \E g : IsFold(g, fold, b, s)
<1> DEFINE U == 1 .. k
           T == {n \in Nat : \E g : IsFoldOver(g, fold, b, s, UpTo(U, n))}
<1>1. IsFiniteSet(U) /\ Cardinality(U) = k
  BY FS_Interval
<1>2. 0 \in T
  <2> DEFINE g == [S \in UpTo(U, 0) |-> b]
  <2>1. \A S \in UpTo(U, 0) : S = {}
    <3> TAKE S \in UpTo(U, 0)
    <3>1. IsFiniteSet(S) /\ Cardinality(S) \in Nat /\ Cardinality(S) <= 0
      BY <1>1, FS_Subset, FS_CardinalityType DEF UpTo
    <3> QED
      BY <3>1, FS_EmptySet
  <2>2. IsFoldOver(g, fold, b, s, UpTo(U, 0))
    BY <2>1 DEF IsFoldOver
  <2> HIDE DEF g
  <2> QED
    BY <2>2
<1>3. ASSUME NEW m \in 0 .. k - 1, m \in T
      PROVE  m + 1 \in T
  BY <1>3, FoldNextSize
<1> HIDE DEF T
<1>4. k \in T
  <2>1. \A m \in 0 .. k : m \in T
    BY <1>2, <1>3, UpFromZero
  <2> QED
    BY <2>1
<1>5. UpTo(U, k) = SUBSET DOMAIN s
  <2> HIDE DEF U
  <2>1. \A S \in SUBSET U : Cardinality(S) <= k
    BY <1>1, FS_Subset
  <2>2. UpTo(U, k) = SUBSET U
    BY <2>1 DEF UpTo
  <2> QED
    BY <2>2 DEF U
<1> QED
  BY <1>4, <1>5 DEF T, IsFold

(***************************************************************************)
(* So a fold is what the last of a sequence of accumulators is, each of    *)
(* which comes from the one before.                                        *)
(***************************************************************************)
FoldsTo(p, fold, b, s, n) ==
  p[0] = b /\ \A m \in 0 .. n - 1 : p[m + 1] = Step(fold, p[m], s[m + 1])

PrefixesOf(g, n) == [m \in 0 .. n |-> g[1 .. m]]

LEMMA FoldOfPrefixes ==
  ASSUME NEW fold, NEW b, NEW s, NEW n \in Nat, DOMAIN s = 1 .. n,
         NEW g, IsFold(g, fold, b, s)
  PROVE  FoldsTo(PrefixesOf(g, n), fold, b, s, n) /\ PrefixesOf(g, n)[n] = g[DOMAIN s]
<1> DEFINE p == [m \in 0 .. n |-> g[1 .. m]]
<1>1. \A S \in SUBSET (1 .. n) :
        g[S] = IF S = {} THEN b ELSE Step(fold, g[S \ {Max(S)}], s[Max(S)])
  BY DEF IsFold, IsFoldOver
<1>2. p[0] = b
  <2>1. 1 .. 0 = {} /\ 0 \in 0 .. n
    OBVIOUS
  <2>2. g[{}] = b
    BY <1>1
  <2> QED
    BY <2>1, <2>2
<1>3. ASSUME NEW m \in 0 .. n - 1
      PROVE  p[m + 1] = Step(fold, p[m], s[m + 1])
  <2>1. m \in Nat /\ m \in 0 .. n /\ m + 1 \in 0 .. n
    OBVIOUS
  <2>2. 1 .. m + 1 \in SUBSET (1 .. n) /\ 1 .. m + 1 # {}
    <3>1. m + 1 \in 1 .. m + 1 /\ m + 1 <= n
      BY <2>1
    <3> QED
      BY ONLY <2>1, <3>1, n \in Nat
  <2> DEFINE S == 1 .. m + 1
  <2>3. Max(S) = m + 1 /\ S \ {Max(S)} = 1 .. m
    BY <2>1, LargestUpTo
  <2> HIDE DEF S
  <2>4. S \in SUBSET (1 .. n) /\ S # {}
    BY <2>2 DEF S
  <2>5. g[S] = Step(fold, g[1 .. m], s[m + 1])
    BY <1>1, <2>3, <2>4
  <2> QED
    BY <2>1, <2>5 DEF S
<1>4. p[n] = g[DOMAIN s]
  OBVIOUS
<1>5. PrefixesOf(g, n) = p
  BY DEF PrefixesOf
<1> HIDE DEF p
<1> QED
  BY <1>2, <1>3, <1>4, <1>5 DEF FoldsTo

LEMMA StitchFolds ==
  ASSUME NEW b, NEW s, NEW n \in Nat, DOMAIN s = 1 .. n
  PROVE  \E p : FoldsTo(p, "stitch", b, s, n) /\ FoldLeft(After, b, s) = p[n]
<1> DEFINE Q(it) == it = [S \in SUBSET DOMAIN s |->
                            IF S = {} THEN b ELSE After(it[S \ {Max(S)}], s[Max(S)])]
           it == CHOOSE x : Q(x)
<1>1. FoldLeft(After, b, s) = it[DOMAIN s]
  BY DEF FoldLeft, MapThenFoldSet
<1>2. \A x : IsFold(x, "stitch", b, s) <=> Q(x)
  BY DEF IsFold, IsFoldOver, Step
<1>3. \E x : Q(x)
  BY <1>2, FoldExists
<1>4. Q(it)
  BY <1>3
<1> HIDE DEF it
<1>5. IsFold(it, "stitch", b, s)
  BY <1>2, <1>4
<1> HIDE DEF Q
<1>6. /\ FoldsTo(PrefixesOf(it, n), "stitch", b, s, n)
      /\ PrefixesOf(it, n)[n] = it[DOMAIN s]
  BY <1>5, FoldOfPrefixes
<1> QED
  BY <1>1, <1>6

LEMMA KeepFolds ==
  ASSUME NEW b, NEW s, NEW n \in Nat, DOMAIN s = 1 .. n
  PROVE  \E p : FoldsTo(p, "keep", b, s, n) /\ FoldLeft(WithRecord, b, s) = p[n]
<1> DEFINE Q(it) == it = [S \in SUBSET DOMAIN s |->
                            IF S = {} THEN b ELSE WithRecord(it[S \ {Max(S)}], s[Max(S)])]
           it == CHOOSE x : Q(x)
<1>1. FoldLeft(WithRecord, b, s) = it[DOMAIN s]
  BY DEF FoldLeft, MapThenFoldSet
<1>2. \A x : IsFold(x, "keep", b, s) <=> Q(x)
  BY DEF IsFold, IsFoldOver, Step
<1>3. \E x : Q(x)
  BY <1>2, FoldExists
<1>4. Q(it)
  BY <1>3
<1> HIDE DEF it
<1>5. IsFold(it, "keep", b, s)
  BY <1>2, <1>4
<1> HIDE DEF Q
<1>6. /\ FoldsTo(PrefixesOf(it, n), "keep", b, s, n)
      /\ PrefixesOf(it, n)[n] = it[DOMAIN s]
  BY <1>5, FoldOfPrefixes
<1> QED
  BY <1>1, <1>6

LEMMA MergeFolds ==
  ASSUME NEW b, NEW s, NEW n \in Nat, DOMAIN s = 1 .. n
  PROVE  \E p : FoldsTo(p, "merge", b, s, n) /\ FoldLeft(WithSale, b, s) = p[n]
<1> DEFINE Q(it) == it = [S \in SUBSET DOMAIN s |->
                            IF S = {} THEN b ELSE WithSale(it[S \ {Max(S)}], s[Max(S)])]
           it == CHOOSE x : Q(x)
<1>1. FoldLeft(WithSale, b, s) = it[DOMAIN s]
  BY DEF FoldLeft, MapThenFoldSet
<1>2. \A x : IsFold(x, "merge", b, s) <=> Q(x)
  BY DEF IsFold, IsFoldOver, Step
<1>3. \E x : Q(x)
  BY <1>2, FoldExists
<1>4. Q(it)
  BY <1>3
<1> HIDE DEF it
<1>5. IsFold(it, "merge", b, s)
  BY <1>2, <1>4
<1> HIDE DEF Q
<1>6. /\ FoldsTo(PrefixesOf(it, n), "merge", b, s, n)
      /\ PrefixesOf(it, n)[n] = it[DOMAIN s]
  BY <1>5, FoldOfPrefixes
<1> QED
  BY <1>1, <1>6

-----------------------------------------------------------------------------
(* The types of the history *)

Bidders == Buyers \cup {NoOne}

\* A product, or none.
Text == STRING \cup {""}

EventTypes == {"lot_update", "auction_state", "bid_update", "auction_winner"}

States == {"awaiting_next_item", "awaiting_auction", ""}

LoggedEvent ==
  [type : EventTypes, lot : Nat, product : Text, winner : Bidders, price : Nat,
   state : States, at : Nat]

SoldLot == [lot : Nat, product : Text, winner : Bidders, price : Nat, at : Nat]

Stitching ==
  [sold : Seq(SoldLot), active : SoldLot \cup {NoActive}, title : Text, since : Nat]

LEMMA NoActiveIsNoLot == NoActive \notin SoldLot /\ NothingKnown \in Stitching
<1>1. NoActive.lot = -1 /\ \A r \in SoldLot : r.lot \in Nat
  BY DEF NoActive, SoldLot
<1>2. NoActive \notin SoldLot
  <2>1. -1 \notin Nat
    OBVIOUS
  <2> QED
    BY <1>1, <2>1
<1> DEFINE none == << >>
           nothing == ""
<1>3. none \in Seq(SoldLot)
  OBVIOUS
<1>6. nothing \in Text
  BY DEF Text
<1>4. NothingKnown = [sold |-> none, active |-> NoActive, title |-> nothing, since |-> 0]
  BY DEF NothingKnown
<1> HIDE DEF none, nothing
<1>5. NothingKnown \in Stitching
  BY <1>3, <1>4, <1>6 DEF Stitching
<1> QED
  BY <1>2, <1>5

LEMMA ClosedType ==
  ASSUME NEW acc \in Stitching, NEW at \in Nat
  PROVE  Closed(acc, at) \in Stitching
<1>1. acc.active # NoActive => [acc.active EXCEPT !.at = at] \in SoldLot
  BY DEF Stitching, SoldLot
<1>2. acc.active # NoActive =>
        Append(acc.sold, [acc.active EXCEPT !.at = at]) \in Seq(SoldLot)
  BY <1>1 DEF Stitching
<1> QED
  BY <1>2 DEF Closed, Stitching

LEMMA NewLotType ==
  ASSUME NEW e \in LoggedEvent
  PROVE  NewLot(e) \in SoldLot
BY DEF NewLot, LoggedEvent, SoldLot, Bidders

LEMMA OpenedType ==
  ASSUME NEW acc \in Stitching, NEW e \in LoggedEvent
  PROVE  Opened(acc, e) \in Stitching /\ Opened(acc, e).active \in SoldLot
<1>1. NewLot(e) \in SoldLot
  BY NewLotType
<1> QED
  BY <1>1 DEF Opened, Stitching

LEMMA ToldType ==
  ASSUME NEW r \in SoldLot, NEW e \in LoggedEvent
  PROVE  Told(r, e) \in SoldLot
BY DEF Told, Given, SoldLot, LoggedEvent

LEMMA TellingType ==
  ASSUME NEW acc \in Stitching, NEW e \in LoggedEvent
  PROVE  [Opened(acc, e) EXCEPT !.active = Told(@, e)] \in Stitching
<1>1. Opened(acc, e) \in Stitching /\ Told(Opened(acc, e).active, e) \in SoldLot
  BY OpenedType, ToldType
<1> QED
  BY <1>1 DEF Stitching

LEMMA AfterType ==
  ASSUME NEW acc \in Stitching, NEW e \in LoggedEvent
  PROVE  After(acc, e) \in Stitching
<1>1. /\ e.product \in Text /\ e.at \in Nat
  BY DEF LoggedEvent
<1>2. AfterLotUpdate(acc, e) \in Stitching
  <2> DEFINE known == IF e.product = "" THEN acc
                      ELSE [acc EXCEPT !.title = e.product, !.since = e.at]
             free == IF acc.active # NoActive /\ AnotherLot(acc.active, e)
                     THEN Closed(known, e.at) ELSE known
  <2>1. known \in Stitching
    BY <1>1 DEF Stitching
  <2>2. free \in Stitching
    BY <1>1, <2>1, ClosedType
  <2> HIDE DEF free
  <2>3. [Opened(free, e) EXCEPT !.active = Told(@, e)] \in Stitching
    BY <2>2, TellingType
  <2> QED
    BY <2>3 DEF AfterLotUpdate, free
<1>3. AfterBid(acc, e) \in Stitching
  BY TellingType DEF AfterBid
<1>4. AfterWinner(acc, e) \in Stitching
  <2> DEFINE told == [Opened(acc, e) EXCEPT !.active = Told(@, e)]
  <2>1. told \in Stitching /\ told.active \in SoldLot
    <3>1. Opened(acc, e) \in Stitching /\ Told(Opened(acc, e).active, e) \in SoldLot
      BY OpenedType, ToldType
    <3> QED
      BY <3>1, TellingType DEF Stitching
  <2> HIDE DEF told
  <2>2. acc.title \in Text
    BY DEF Stitching
  <2>3. [told.active EXCEPT !.product = acc.title] \in SoldLot
    BY <2>1, <2>2 DEF SoldLot
  <2>4. [told EXCEPT !.active.product = acc.title]
          = [told EXCEPT !.active = [told.active EXCEPT !.product = acc.title]]
    BY <2>1 DEF Stitching
  <2>5. [told EXCEPT !.active.product = acc.title] \in Stitching
    <3> QED
      BY <2>1, <2>3, <2>4 DEF Stitching
  <2> QED
    BY <2>1, <2>5 DEF AfterWinner, told
<1>5. AfterState(acc, e) \in Stitching
  BY <1>1, ClosedType DEF AfterState
<1> QED
  BY <1>2, <1>3, <1>4, <1>5 DEF After

LEMMA StitchedType ==
  ASSUME NEW log \in Seq(LoggedEvent)
  PROVE  Stitched(log) \in Seq(SoldLot)
<1> DEFINE n == Len(log)
<1>1. n \in Nat /\ DOMAIN log = 1 .. n
  OBVIOUS
<1>2. PICK p : FoldsTo(p, "stitch", NothingKnown, log, n)
               /\ FoldLeft(After, NothingKnown, log) = p[n]
  BY <1>1, StitchFolds
<1> HIDE DEF n
<1> DEFINE T == {m \in 0 .. n : p[m] \in Stitching}
<1>3. 0 \in T
  BY <1>1, <1>2, NoActiveIsNoLot DEF FoldsTo
<1>4. ASSUME NEW m \in 0 .. n - 1, m \in T
      PROVE  m + 1 \in T
  <2>1. p[m + 1] = After(p[m], log[m + 1]) /\ p[m] \in Stitching
    BY <1>2, <1>4 DEF FoldsTo, Step
  <2>2. log[m + 1] \in LoggedEvent
    BY <1>1, ElementOfSeq DEF n
  <2>3. p[m + 1] \in Stitching /\ m + 1 \in 0 .. n
    BY <1>1, <2>1, <2>2, AfterType
  <2> QED
    BY <2>3
<1> HIDE DEF T
<1>5. n \in T
  <2>1. \A m \in 0 .. n : m \in T
    BY <1>1, <1>3, <1>4, UpFromZero
  <2> QED
    BY <1>1, <2>1
<1> DEFINE acc == p[n]
<1>6. acc \in Stitching
  BY <1>5 DEF T
<1> HIDE DEF acc
<1>7. acc.active # NoActive => acc.active.at \in Nat
  BY <1>6 DEF Stitching, SoldLot
<1>8. acc.active # NoActive => Closed(acc, acc.active.at) \in Stitching
  BY <1>6, <1>7, ClosedType
<1>9. Stitched(log) = IF acc.active = NoActive THEN acc.sold ELSE Closed(acc, acc.active.at).sold
  BY <1>2 DEF Stitched, acc
<1> QED
  BY <1>6, <1>8, <1>9 DEF Stitching

LEMMA DeduplicatedType ==
  ASSUME NEW s \in Seq(SoldLot)
  PROVE  Deduplicated(s) \in Seq(SoldLot)
<1> DEFINE n == Len(s)
<1>1. n \in Nat /\ DOMAIN s = 1 .. n
  OBVIOUS
<1>2. PICK p : FoldsTo(p, "keep", << >>, s, n) /\ FoldLeft(WithRecord, << >>, s) = p[n]
  BY <1>1, KeepFolds
<1> HIDE DEF n
<1> DEFINE T == {m \in 0 .. n : p[m] \in Seq(SoldLot)}
<1>3. 0 \in T
  <2>1. p[0] = << >>
    BY <1>2 DEF FoldsTo
  <2>2. p[0] \in Seq(SoldLot) /\ 0 \in 0 .. n
    BY <1>1, <2>1
  <2> QED
    BY <2>2
<1>4. ASSUME NEW m \in 0 .. n - 1, m \in T
      PROVE  m + 1 \in T
  <2>1. p[m + 1] = WithRecord(p[m], s[m + 1]) /\ p[m] \in Seq(SoldLot)
    BY <1>2, <1>4 DEF FoldsTo, Step
  <2>2. s[m + 1] \in SoldLot /\ m + 1 \in 0 .. n
    BY <1>1, ElementOfSeq DEF n
  <2>3. WithRecord(p[m], s[m + 1]) \in Seq(SoldLot)
    BY <2>1, <2>2, AppendProperties DEF WithRecord
  <2> QED
    BY <2>1, <2>2, <2>3
<1> HIDE DEF T
<1>5. n \in T
  <2>1. \A m \in 0 .. n : m \in T
    BY <1>1, <1>3, <1>4, UpFromZero
  <2> QED
    BY <1>1, <2>1
<1> QED
  BY <1>2, <1>5 DEF T, Deduplicated

LEMMA RicherType ==
  ASSUME NEW r \in SoldLot, NEW s \in SoldLot
  PROVE  Richer(s, r) \in SoldLot
BY DEF Richer, Given, SoldLot

LEMMA LastSelected ==
  ASSUME NEW kept \in Seq(SoldLot), NEW r
  PROVE  LET i == SaleIn(kept, r)
         IN \/ i = 0 /\ \A k \in DOMAIN kept : ~OneSale(r, kept[k])
            \/ i \in DOMAIN kept /\ OneSale(r, kept[i])
<1> DEFINE I == {k \in 1 .. Len(kept) : OneSale(r, kept[k])}
<1>1. Len(kept) \in Nat /\ DOMAIN kept = 1 .. Len(kept)
  OBVIOUS
<1>2. SaleIn(kept, r) = IF I # {} THEN Max(I) ELSE 0
  BY DEF SaleIn, SelectLastInSeq
<1>3. I # {} => Max(I) \in I
  <2>1. I \subseteq 1 .. Len(kept)
    OBVIOUS
  <2> HIDE DEF I
  <2> QED
    BY <1>1, <2>1, LargestElement
<1> QED
  BY <1>1, <1>2, <1>3

LEMMA MergedType ==
  ASSUME NEW s \in Seq(SoldLot)
  PROVE  Merged(s) \in Seq(SoldLot)
<1> DEFINE n == Len(s)
<1>1. n \in Nat /\ DOMAIN s = 1 .. n
  OBVIOUS
<1>2. PICK p : FoldsTo(p, "merge", << >>, s, n) /\ FoldLeft(WithSale, << >>, s) = p[n]
  BY <1>1, MergeFolds
<1> HIDE DEF n
<1> DEFINE T == {m \in 0 .. n : p[m] \in Seq(SoldLot)}
<1>3. 0 \in T
  <2>1. p[0] = << >>
    BY <1>2 DEF FoldsTo
  <2>2. p[0] \in Seq(SoldLot) /\ 0 \in 0 .. n
    BY <1>1, <2>1
  <2> QED
    BY <2>2
<1>4. ASSUME NEW m \in 0 .. n - 1, m \in T
      PROVE  m + 1 \in T
  <2> DEFINE kept == p[m]
             r == s[m + 1]
             i == SaleIn(kept, r)
  <2>1. p[m + 1] = WithSale(kept, r) /\ kept \in Seq(SoldLot)
    BY <1>2, <1>4 DEF FoldsTo, Step
  <2>2. r \in SoldLot /\ m + 1 \in 0 .. n
    BY <1>1, ElementOfSeq DEF n
  <2> HIDE DEF kept, r
  <2>3. i = 0 \/ i \in DOMAIN kept
    BY <2>1, LastSelected
  <2>4. WithSale(kept, r) = IF i = 0 THEN Append(kept, r)
                            ELSE [kept EXCEPT ![i] = Richer(@, r)]
    BY DEF WithSale
  <2> HIDE DEF i
  <2>5. i \in DOMAIN kept => [kept EXCEPT ![i] = Richer(@, r)] \in Seq(SoldLot)
    <3>1. i \in DOMAIN kept => Richer(kept[i], r) \in SoldLot
      BY <2>1, <2>2, RicherType, ElementOfSeq
    <3> QED
      BY <2>1, <3>1
  <2>6. WithSale(kept, r) \in Seq(SoldLot)
    BY <2>1, <2>2, <2>3, <2>4, <2>5
  <2> QED
    BY <2>1, <2>2, <2>6
<1> HIDE DEF T
<1>5. n \in T
  <2>1. \A m \in 0 .. n : m \in T
    BY <1>1, <1>3, <1>4, UpFromZero
  <2> QED
    BY <1>1, <2>1
<1> QED
  BY <1>2, <1>5 DEF T, Merged

LEMMA HistoryType ==
  ASSUME NEW log \in Seq(LoggedEvent)
  PROVE  History(log) \in Seq(SoldLot)
BY StitchedType, DeduplicatedType, MergedType DEF History

-----------------------------------------------------------------------------
(* The table of lots, before and after a write *)

LotRecord ==
  [number : Nat, product : Text, winner : Bidders, price : Nat, ended : Int]

LEMMA LatestFound ==
  ASSUME NEW n \in Nat, NEW ids, ids \subseteq 1 .. n
  PROVE  /\ ids = {} => Latest(ids) = 0
         /\ ids # {} => Latest(ids) \in ids /\ Latest(ids) # 0
<1>1. ids # {} => Max(ids) \in ids
  BY LargestElement
<1>2. \A i \in ids : i # 0
  OBVIOUS
<1> QED
  BY <1>1, <1>2 DEF Latest

LEMMA TableDomain ==
  ASSUME NEW table \in Seq(LotRecord)
  PROVE  /\ Len(table) \in Nat /\ DOMAIN table = 1 .. Len(table)
         /\ \A i \in DOMAIN table : table[i] \in LotRecord
BY ElementOfSeq

LEMMA RowAppended ==
  ASSUME NEW table \in Seq(LotRecord), NEW row \in LotRecord
  PROVE  LET longer == Append(table, row)
         IN /\ longer \in Seq(LotRecord) /\ Len(longer) = Len(table) + 1
            /\ DOMAIN longer = DOMAIN table \cup {Len(table) + 1}
            /\ \A i \in DOMAIN table : longer[i] = table[i]
            /\ longer[Len(table) + 1] = row
<1>1. /\ Len(table) \in Nat /\ DOMAIN table = 1 .. Len(table)
  BY TableDomain
<1> DEFINE longer == Append(table, row)
<1>2. /\ longer \in Seq(LotRecord) /\ Len(longer) = Len(table) + 1
      /\ \A i \in 1 .. Len(table) : longer[i] = table[i]
      /\ longer[Len(table) + 1] = row
  BY AppendProperties
<1>3. DOMAIN longer = 1 .. Len(table) + 1
  BY <1>2
<1> HIDE DEF longer
<1>4. 1 .. Len(table) + 1 = 1 .. Len(table) \cup {Len(table) + 1}
  BY <1>1
<1> QED
  BY <1>1, <1>2, <1>3, <1>4 DEF longer

LEMMA LotRowType ==
  ASSUME NEW number \in Nat, NEW product \in Text, NEW winner \in Bidders,
         NEW price \in Nat, NEW ended \in Int
  PROVE  LotRow(number, product, winner, price, ended) \in LotRecord
BY DEF LotRow, LotRecord

NewRow(number, product) == LotRow(number, product, NoOne, 0, -1)

LEMMA NewRowType ==
  ASSUME NEW number \in Nat, NEW product \in Text
  PROVE  NewRow(number, product) \in LotRecord
<1>1. NoOne \in Bidders /\ 0 \in Nat /\ -1 \in Int
  BY DEF Bidders
<1> QED
  BY <1>1, LotRowType DEF NewRow

LEMMA RowToOpen ==
  ASSUME NEW table \in Seq(LotRecord), NEW number, NEW product
  PROVE  LET i == LotToOpen(table, number, product)
         IN /\ i = 0 => \A k \in DOMAIN table :
                          ~(table[k].number = number /\ table[k].product = product)
            /\ i # 0 => /\ i \in DOMAIN table
                        /\ table[i].number = number /\ table[i].product = product
<1> DEFINE ids == {k \in DOMAIN table : table[k].number = number /\ table[k].product = product}
<1>1. Len(table) \in Nat /\ ids \subseteq 1 .. Len(table)
  BY TableDomain
<1>2. LotToOpen(table, number, product) = Latest(ids)
  BY DEF LotToOpen
<1> HIDE DEF ids
<1>3. /\ ids = {} => Latest(ids) = 0
      /\ ids # {} => Latest(ids) \in ids /\ Latest(ids) # 0
  BY <1>1, LatestFound
<1> QED
  BY <1>2, <1>3 DEF ids

LEMMA RowOpened ==
  ASSUME NEW table \in Seq(LotRecord), NEW number \in Nat, NEW product \in Text
  PROVE  LET opened == WithOpenLot(table, number, product)
             i == OpenedLot(table, number, product)
         IN /\ opened \in Seq(LotRecord) /\ Len(table) <= Len(opened)
            /\ \A k \in DOMAIN table : k \in DOMAIN opened /\ opened[k] = table[k]
            /\ \A k \in DOMAIN opened :
                 \/ k \in DOMAIN table
                 \/ /\ opened[k] = NewRow(number, product)
                    /\ \A j \in DOMAIN table :
                         ~(table[j].number = number /\ table[j].product = product)
            /\ i \in DOMAIN opened /\ i # 0
            /\ opened[i].number = number /\ opened[i].product = product
<1> DEFINE opened == WithOpenLot(table, number, product)
           i == OpenedLot(table, number, product)
<1>1. Len(table) \in Nat /\ DOMAIN table = 1 .. Len(table)
  BY TableDomain
<1>2. /\ opened \in Seq(LotRecord) /\ Len(table) <= Len(opened)
      /\ \A k \in DOMAIN table : k \in DOMAIN opened /\ opened[k] = table[k]
      /\ \A k \in DOMAIN opened :
           \/ k \in DOMAIN table
           \/ /\ opened[k] = NewRow(number, product)
              /\ \A j \in DOMAIN table :
                   ~(table[j].number = number /\ table[j].product = product)
      /\ \E k \in DOMAIN opened : opened[k].number = number /\ opened[k].product = product
  <2>1. CASE LotToOpen(table, number, product) # 0
    BY <1>1, <2>1, RowToOpen DEF WithOpenLot
  <2>2. CASE LotToOpen(table, number, product) = 0
    <3>1. opened = Append(table, NewRow(number, product))
      BY <2>2 DEF WithOpenLot, NewRow
    <3>2. NewRow(number, product) \in LotRecord
      BY NewRowType
    <3>3. /\ NewRow(number, product).number = number
          /\ NewRow(number, product).product = product
      BY DEF NewRow, LotRow
    <3> HIDE DEF opened
    <3>4. /\ opened \in Seq(LotRecord) /\ Len(opened) = Len(table) + 1
          /\ DOMAIN opened = DOMAIN table \cup {Len(table) + 1}
          /\ \A k \in DOMAIN table : opened[k] = table[k]
          /\ opened[Len(table) + 1] = NewRow(number, product)
      BY <3>1, <3>2, RowAppended
    <3>5. \A j \in DOMAIN table :
            ~(table[j].number = number /\ table[j].product = product)
      BY <2>2, RowToOpen
    <3> QED
      BY <1>1, <3>3, <3>4, <3>5
  <2> QED
    BY <2>1, <2>2
<1>3. i = LotToOpen(opened, number, product)
  BY DEF OpenedLot
<1> HIDE DEF opened, i
<1>4. /\ i \in DOMAIN opened /\ i # 0
      /\ opened[i].number = number /\ opened[i].product = product
  BY <1>2, <1>3, RowToOpen
<1> QED
  BY <1>2, <1>4 DEF opened, i

ClosedRow(r, winner, price, at) == [r EXCEPT !.winner = winner, !.price = price, !.ended = at]

LEMMA ClosedRowType ==
  ASSUME NEW r \in LotRecord, NEW winner \in Bidders, NEW price \in Nat, NEW at \in Int
  PROVE  /\ ClosedRow(r, winner, price, at) \in LotRecord
         /\ ClosedRow(r, winner, price, at).number = r.number
         /\ ClosedRow(r, winner, price, at).product = r.product
         /\ ClosedRow(r, winner, price, at).winner = winner
         /\ ClosedRow(r, winner, price, at).price = price
BY DEF LotRecord, ClosedRow

LEMMA RowClosed ==
  ASSUME NEW table \in Seq(LotRecord), NEW i \in DOMAIN table, NEW winner \in Bidders,
         NEW price \in Nat, NEW at \in Nat
  PROVE  LET closed == WithClosedLot(table, i, winner, price, at)
         IN /\ closed \in Seq(LotRecord) /\ DOMAIN closed = DOMAIN table
            /\ Len(closed) = Len(table)
            /\ \A k \in DOMAIN table : k # i => closed[k] = table[k]
            /\ table[i].winner # NoOne => closed[i] = table[i]
            /\ table[i].winner = NoOne =>
                 /\ closed[i].number = table[i].number
                 /\ closed[i].product = table[i].product
                 /\ closed[i].winner = winner /\ closed[i].price = price
<1>1. Len(table) \in Nat /\ DOMAIN table = 1 .. Len(table) /\ table[i] \in LotRecord
  BY TableDomain
<1> DEFINE row == ClosedRow(table[i], winner, price, at)
           closed == WithClosedLot(table, i, winner, price, at)
<1>2. /\ row \in LotRecord /\ row.number = table[i].number
      /\ row.product = table[i].product /\ row.winner = winner /\ row.price = price
  <2> DEFINE old == table[i]
  <2>1. at \in Int /\ old \in LotRecord
    BY <1>1
  <2> HIDE DEF old
  <2> QED
    BY <2>1, ClosedRowType DEF old
<1>3. [table EXCEPT ![i].winner = winner, ![i].price = price, ![i].ended = at]
        = [table EXCEPT ![i] = row]
  BY <1>1 DEF ClosedRow
<1>4. closed = IF table[i].winner # NoOne THEN table ELSE [table EXCEPT ![i] = row]
  BY <1>3 DEF WithClosedLot
<1> HIDE DEF row, closed
<1>5. closed \in Seq(LotRecord) /\ DOMAIN closed = DOMAIN table /\ Len(closed) = Len(table)
  BY <1>1, <1>2, <1>4
<1>6. /\ \A k \in DOMAIN table : k # i => closed[k] = table[k]
      /\ table[i].winner # NoOne => closed[i] = table[i]
      /\ table[i].winner = NoOne => closed[i] = row
  BY <1>1, <1>4
<1> QED
  BY <1>2, <1>5, <1>6 DEF closed

(***************************************************************************)
(* A sold lot fills in what its row lacks, or gets a row.                  *)
(***************************************************************************)
LEMMA RowToFill ==
  ASSUME NEW table \in Seq(LotRecord), NEW lot \in SoldLot
  PROVE  LET i == LotToFill(table, lot)
         IN /\ i = 0 \/ i \in DOMAIN table
            /\ lot.lot # 0 /\ (\E k \in DOMAIN table : table[k].number = lot.lot)
                 => i \in DOMAIN table /\ table[i].number = lot.lot
<1> DEFINE ids == {k \in DOMAIN table : lot.lot # 0 /\ table[k].number = lot.lot}
           others == {k \in DOMAIN table : lot.product # "" /\ table[k].product = lot.product
                                             /\ table[k].ended = lot.at}
<1>1. Len(table) \in Nat /\ ids \subseteq 1 .. Len(table) /\ others \subseteq 1 .. Len(table)
  BY TableDomain
<1>2. LotToFill(table, lot) = IF Latest(ids) # 0 THEN Latest(ids) ELSE Latest(others)
  BY DEF LotToFill
<1> HIDE DEF ids, others
<1>3. /\ ids = {} => Latest(ids) = 0
      /\ ids # {} => Latest(ids) \in ids /\ Latest(ids) # 0
      /\ others = {} => Latest(others) = 0
      /\ others # {} => Latest(others) \in others /\ Latest(others) # 0
  BY <1>1, LatestFound
<1> QED
  BY <1>2, <1>3 DEF ids, others

LEMMA FilledType ==
  ASSUME NEW row \in LotRecord, NEW lot \in SoldLot
  PROVE  /\ Filled(row, lot) \in LotRecord /\ Filled(row, lot).number = row.number
         /\ Filled(row, lot).product = IF row.product = "" THEN lot.product ELSE row.product
         /\ Filled(row, lot).winner = IF row.winner = NoOne THEN lot.winner ELSE row.winner
         /\ Filled(row, lot).price = IF row.price = 0 THEN lot.price ELSE row.price
<1>1. /\ lot.product \in Text /\ lot.winner \in Bidders /\ lot.price \in Nat
      /\ lot.at \in Int
  BY DEF SoldLot
<1> QED
  BY <1>1 DEF Filled, LotRecord

LEMMA RowFilled ==
  ASSUME NEW table \in Seq(LotRecord), NEW lot \in SoldLot
  PROVE  LET filled == WithSoldLot(table, lot)  i == LotToFill(table, lot)
         IN /\ filled \in Seq(LotRecord) /\ Len(table) <= Len(filled)
            /\ i # 0 => /\ DOMAIN filled = DOMAIN table
                        /\ \A k \in DOMAIN table : k # i => filled[k] = table[k]
                        /\ filled[i] = Filled(table[i], lot)
<1>1. Len(table) \in Nat /\ DOMAIN table = 1 .. Len(table)
  BY TableDomain
<1> DEFINE filled == WithSoldLot(table, lot)
           i == LotToFill(table, lot)
<1>2. i = 0 \/ i \in DOMAIN table
  BY RowToFill
<1>3. filled = IF i # 0 THEN [table EXCEPT ![i] = Filled(@, lot)]
               ELSE Append(table, LotRow(lot.lot, lot.product, lot.winner, lot.price, lot.at))
  BY DEF WithSoldLot
<1> HIDE DEF filled, i
<1>4. CASE i # 0
  <2>1. Filled(table[i], lot) \in LotRecord
    BY <1>2, <1>4, FilledType, TableDomain
  <2>2. filled = [table EXCEPT ![i] = Filled(table[i], lot)]
    BY <1>3, <1>4
  <2>3. filled \in Seq(LotRecord) /\ Len(table) <= Len(filled)
    BY <1>1, <1>2, <1>4, <2>1, <2>2
  <2> QED
    BY <1>1, <1>2, <1>4, <2>2, <2>3 DEF filled, i
<1>5. CASE i = 0
  <2>1. LotRow(lot.lot, lot.product, lot.winner, lot.price, lot.at) \in LotRecord
    BY LotRowType DEF SoldLot
  <2> QED
    BY <1>1, <1>3, <1>5, <2>1, RowAppended DEF filled, i
<1> QED
  BY <1>4, <1>5

-----------------------------------------------------------------------------
(* The types of the tables and of what the backfill has to write *)

TablesOK ==
  /\ events \in Seq(LoggedEvent) /\ \A i \in DOMAIN events : events[i].at <= now
  /\ rows \in Seq(LotRecord) /\ collector.row \in 0 .. Len(rows)
  /\ backfill.tasks \in Seq(LoggedEvent \cup SoldLot) /\ backfill.lot \in 0 .. Len(rows)

LEMMA TitleText ==
  ASSUME TypeInv, NEW i \in 0 .. Len(workload.show)
  PROVE  Title(i).product \in Text /\ Title(i).number \in Nat
<1>1. CASE i = 0
  BY <1>1 DEF Title, NoTitle, Text
<1>2. CASE i # 0
  <2>1. workload.show \in Seq([product : STRING, number : Nat])
    BY DEF TypeInv, WorkloadOK
  <2>2. Len(workload.show) \in Nat /\ i \in 1 .. Len(workload.show)
    BY <1>2, <2>1
  <2>3. workload.show[i] \in [product : STRING, number : Nat]
    BY <2>1, <2>2, ElementOfSeq
  <2> QED
    BY <1>2, <2>3 DEF Title, Text
<1> QED
  BY <1>1, <1>2

LEMMA NothingIsText ==
  /\ "" \in Text /\ NoOne \in Bidders /\ 0 \in Nat
  /\ "lot_update" \in EventTypes /\ "auction_state" \in EventTypes
  /\ "bid_update" \in EventTypes /\ "auction_winner" \in EventTypes
  /\ "" \in States /\ AuctionState \in States
BY DEF Text, Bidders, EventTypes, States, AuctionState

\* A step logs nothing or one event, with the time of the step.
LogsInTime ==
  \/ events' = events /\ now <= now'
  \/ /\ now' = now
     /\ \E e \in LoggedEvent : e.at = now /\ events' = Append(events, e)

LEMMA StoresInTime ==
  ASSUME NEW e \in LoggedEvent, e.at = now, StoresOrNot(e), now' = now, now \in Nat
  PROVE  LogsInTime
BY DEF StoresOrNot, Stores, LogsInTime

LEMMA EventLogged ==
  ASSUME TypeInv, [HistoryNext]_historyVars
  PROVE  LogsInTime
<1>1. now \in Nat /\ CollectorOK
  BY DEF TypeInv
<1>2. /\ collector.number \in Nat /\ collector.seen.bid \in Nat
      /\ collector.seen.winner \in Bidders /\ FinalPrice \in Nat
      /\ NumberOfTitle \in Nat /\ Title(collector.seen.item).product \in Text
      /\ Title(collector.title).product \in Text
  BY <1>1, TitleText, CollectorFields, FinalPriceType, AmountsType
     DEF CollectorOK, Page, Bidders, NumberOfTitle
<1>3. CASE LotUpdate
  <2> DEFINE e == Event("lot_update", NumberOfTitle, Title(collector.seen.item).product,
                        NoOne, 0, "", now)
  <2>1. StoresOrNot(e) /\ now' = now
    BY <1>3 DEF LotUpdate
  <2>2. e \in LoggedEvent /\ e.at = now
    BY <1>1, <1>2, NothingIsText DEF Event, LoggedEvent
  <2> HIDE DEF e
  <2> QED
    BY <1>1, <2>1, <2>2, StoresInTime
<1>4. CASE StateUpdate
  <2> DEFINE e == Event("auction_state", collector.number, "", NoOne, 0, AuctionState, now)
  <2>1. events' = events \/ StoresOrNot(e)
    BY <1>4 DEF StateUpdate
  <2>2. now' = now
    BY <1>4 DEF StateUpdate
  <2>3. e \in LoggedEvent /\ e.at = now
    BY <1>1, <1>2, NothingIsText DEF Event, LoggedEvent
  <2> HIDE DEF e
  <2> QED
    BY <1>1, <2>1, <2>2, <2>3, StoresInTime DEF LogsInTime
<1>5. CASE BidUpdate
  <2> DEFINE e == Event("bid_update", collector.number, "", NoOne, collector.seen.bid, "", now)
  <2>1. events' = events \/ StoresOrNot(e)
    BY <1>5 DEF BidUpdate
  <2>2. now' = now
    BY <1>5 DEF BidUpdate
  <2>3. e \in LoggedEvent /\ e.at = now
    BY <1>1, <1>2, NothingIsText DEF Event, LoggedEvent
  <2> HIDE DEF e
  <2> QED
    BY <1>1, <2>1, <2>2, <2>3, StoresInTime DEF LogsInTime
<1>6. CASE WinnerUpdate
  <2>1. StoresOrNot(Posting) /\ now' = now
    BY <1>6 DEF WinnerUpdate, Posting
  <2>2. Posting \in LoggedEvent /\ Posting.at = now
    BY <1>1, <1>2, NothingIsText DEF Posting, Event, LoggedEvent
  <2> QED
    BY <1>1, <2>1, <2>2, StoresInTime
<1>7. CASE PageMoves
  <2>1. events' = events /\ (now' = now \/ now' = now + 1)
    BY <1>7 DEF PageMoves, PutUp, RaiseBid, Sell, ShowSoldPrice, BannerGoes, TimePasses
  <2> QED
    BY <1>1, <2>1 DEF LogsInTime
<1>8. CASE \/ Look \/ SameTitle \/ OpenLot \/ NoNewWinner \/ CloseLot
           \/ Restart \/ SkipTick \/ BackfillBegins \/ BackfillWrites \/ UNCHANGED historyVars
  BY <1>1, <1>8 DEF Look, SameTitle, OpenLot, NoNewWinner, CloseLot, Restart, SkipTick,
     BackfillBegins, BackfillWrites, historyVars, collectorVars, pageVars, LogsInTime
<1> QED
  BY <1>3, <1>4, <1>5, <1>6, <1>7, <1>8 DEF HistoryNext, CollectorNext, Collect

LEMMA LogTyped ==
  ASSUME TypeInv, TablesOK, [HistoryNext]_historyVars
  PROVE  /\ events' \in Seq(LoggedEvent) /\ \A i \in DOMAIN events' : events'[i].at <= now'
         /\ now \in Nat /\ now' \in Nat
<1>1. now \in Nat /\ now' \in Nat
  BY TypeNext DEF TypeInv
<1>2. events \in Seq(LoggedEvent) /\ \A i \in DOMAIN events : events[i].at <= now
  BY DEF TablesOK
<1>3. \A i \in DOMAIN events : events[i].at \in Nat
  <2>1. \A i \in DOMAIN events : events[i] \in LoggedEvent
    BY <1>2, ElementOfSeq
  <2> QED
    BY <2>1 DEF LoggedEvent
<1>4. CASE events' = events /\ now <= now'
  BY <1>1, <1>2, <1>3, <1>4
<1>5. CASE now' = now /\ \E e \in LoggedEvent : e.at = now /\ events' = Append(events, e)
  <2>1. PICK e \in LoggedEvent : e.at = now /\ events' = Append(events, e)
    BY <1>5
  <2>2. /\ events' \in Seq(LoggedEvent) /\ DOMAIN events' = 1 .. Len(events) + 1
        /\ \A i \in 1 .. Len(events) : events'[i] = events[i]
        /\ events'[Len(events) + 1] = e /\ DOMAIN events = 1 .. Len(events)
        /\ Len(events) \in Nat
    BY <1>2, <2>1, AppendProperties
  <2>3. ASSUME NEW i \in DOMAIN events'
        PROVE  events'[i].at <= now'
    <3>1. i \in DOMAIN events \/ i = Len(events) + 1
      BY <2>2
    <3> QED
      BY <1>1, <1>2, <1>5, <2>1, <2>2, <3>1
  <2> QED
    BY <1>1, <2>2, <2>3
<1> QED
  BY <1>1, <1>4, <1>5, EventLogged DEF LogsInTime

\* What the backfill writes for one task.
LEMMA WrittenType ==
  ASSUME NEW acc, acc.table \in Seq(LotRecord), acc.lot \in 0 .. Len(acc.table),
         DOMAIN acc = {"table", "lot"},
         NEW t \in LoggedEvent \cup SoldLot
  PROVE  /\ Written(acc, t).table \in Seq(LotRecord)
         /\ Len(acc.table) <= Len(Written(acc, t).table)
         /\ Written(acc, t).lot \in 0 .. Len(Written(acc, t).table)
<1> DEFINE table == acc.table
           lot == acc.lot
<1>1. Len(table) \in Nat /\ DOMAIN table = 1 .. Len(table)
  BY TableDomain
<1>2. IsEvent(t) <=> t \in LoggedEvent
  BY DEF IsEvent, LoggedEvent, SoldLot
<1>3. CASE ~IsEvent(t)
  <2>1. t \in SoldLot
    BY <1>2, <1>3
  <2>2. WithSoldLot(table, t) \in Seq(LotRecord) /\ Len(table) <= Len(WithSoldLot(table, t))
    BY <2>1, RowFilled
  <2>3. Written(acc, t) = [acc EXCEPT !.table = WithSoldLot(table, t)]
    BY <1>3 DEF Written
  <2>4. Written(acc, t).table = WithSoldLot(table, t) /\ Written(acc, t).lot = lot
    BY <2>3
  <2>5. Len(WithSoldLot(table, t)) \in Nat
    BY <2>2
  <2> HIDE DEF table, lot
  <2>6. lot \in 0 .. Len(table)
    BY DEF table, lot
  <2> QED
    BY <1>1, <2>2, <2>4, <2>5, <2>6 DEF table
<1>4. CASE IsEvent(t) /\ t.type = "lot_update"
  <2>1. t.lot \in Nat /\ t.product \in Text
    BY <1>2, <1>4 DEF LoggedEvent
  <2> DEFINE opened == WithOpenLot(table, t.lot, t.product)
             i == OpenedLot(table, t.lot, t.product)
  <2>2. /\ opened \in Seq(LotRecord) /\ Len(table) <= Len(opened)
        /\ i \in DOMAIN opened
    BY <2>1, RowOpened
  <2>3. Written(acc, t) = [table |-> opened, lot |-> i]
    BY <1>4 DEF Written
  <2>4. Written(acc, t).table = opened /\ Written(acc, t).lot = i
    BY <2>3
  <2> HIDE DEF opened, i
  <2>5. DOMAIN opened = 1 .. Len(opened) /\ Len(opened) \in Nat
    BY <2>2
  <2> QED
    BY <2>2, <2>4, <2>5
<1>5. CASE IsEvent(t) /\ t.type # "lot_update" /\ t.type = "auction_winner" /\ lot # 0
  <2>1. t.winner \in Bidders /\ t.price \in Nat /\ t.at \in Nat
    BY <1>2, <1>5 DEF LoggedEvent
  <2> DEFINE closed == WithClosedLot(table, lot, t.winner, t.price, t.at)
  <2>2. lot \in DOMAIN table
    BY <1>1, <1>5
  <2>3. closed \in Seq(LotRecord) /\ Len(closed) = Len(table)
    BY <2>1, <2>2, RowClosed
  <2>4. Written(acc, t) = [table |-> closed, lot |-> 0]
    BY <1>5 DEF Written
  <2>5. Written(acc, t).table = closed /\ Written(acc, t).lot = 0
    BY <2>4
  <2> HIDE DEF closed, table
  <2> QED
    BY <1>1, <2>3, <2>5 DEF table
<1>6. CASE ~(~IsEvent(t) \/ t.type = "lot_update" \/ (t.type = "auction_winner" /\ lot # 0))
  <2>1. Written(acc, t) = acc
    BY <1>6 DEF Written
  <2> QED
    BY <1>1, <2>1
<1> QED
  BY <1>3, <1>4, <1>5, <1>6

LEMMA TablesElse ==
  ASSUME TypeInv, TablesOK, [HistoryNext]_historyVars, rows' = rows, backfill' = backfill,
         collector'.row \in {0, collector.row}
  PROVE  TablesOK'
<1>1. Len(rows) \in Nat
  BY DEF TablesOK
<1> QED
  BY <1>1, LogTyped DEF TablesOK

LEMMA TablesOpen ==
  ASSUME TypeInv, TablesOK, [HistoryNext]_historyVars, OpenLot, UNCHANGED backfill
  PROVE  TablesOK'
<1>1. CollectorOK /\ rows \in Seq(LotRecord) /\ Len(rows) \in Nat
  BY DEF TypeInv, TablesOK
<1> DEFINE product == Title(collector.title).product
           opened == WithOpenLot(rows, collector.number, product)
           i == OpenedLot(rows, collector.number, product)
<1>2. product \in Text /\ collector.number \in Nat
  BY <1>1, TitleText DEF CollectorOK
<1>3. opened \in Seq(LotRecord) /\ Len(rows) <= Len(opened) /\ i \in DOMAIN opened
  BY <1>1, <1>2, RowOpened
<1>4. \/ rows' = opened /\ collector'.row = i
      \/ rows' = rows /\ collector'.row = 0
  BY CollectorFields DEF OpenLot
<1> HIDE DEF opened, i
<1>5. /\ DOMAIN opened = 1 .. Len(opened) /\ Len(opened) \in Nat
  BY <1>3
<1>6. /\ rows' \in Seq(LotRecord) /\ Len(rows) <= Len(rows') /\ Len(rows') \in Nat
      /\ collector'.row \in 0 .. Len(rows')
  BY <1>1, <1>3, <1>4, <1>5
<1> QED
  BY <1>1, <1>6, LogTyped DEF TablesOK

LEMMA TablesClose ==
  ASSUME TypeInv, TablesOK, [HistoryNext]_historyVars, CloseLot, UNCHANGED backfill
  PROVE  TablesOK'
<1>1. CollectorOK /\ rows \in Seq(LotRecord) /\ Len(rows) \in Nat /\ now \in Nat
  BY DEF TypeInv, TablesOK
<1> DEFINE closed == WithClosedLot(rows, collector.row, collector.seen.winner, collector.price, now)
<1>2. /\ collector.seen.winner \in Bidders /\ collector.price \in Nat
  BY <1>1, AmountsType DEF CollectorOK, Page, Bidders
<1>3. collector.row # 0 => closed \in Seq(LotRecord) /\ Len(closed) = Len(rows)
  <2>1. collector.row # 0 => collector.row \in DOMAIN rows
    BY <1>1 DEF TablesOK
  <2> QED
    BY <1>1, <1>2, <2>1, RowClosed
<1>4. rows' = rows \/ (collector.row # 0 /\ rows' = closed)
  BY DEF CloseLot
<1>5. collector'.row \in {0, collector.row}
  BY ClosedFields
<1> HIDE DEF closed
<1>6. rows' \in Seq(LotRecord) /\ Len(rows') = Len(rows)
  BY <1>1, <1>3, <1>4
<1> QED
  BY <1>1, <1>5, <1>6, LogTyped DEF TablesOK

LEMMA TablesBackfill ==
  ASSUME TypeInv, TablesOK, [HistoryNext]_historyVars, BackfillBegins \/ BackfillWrites
  PROVE  TablesOK'
<1>1. rows \in Seq(LotRecord) /\ Len(rows) \in Nat /\ 0 \in 0 .. Len(rows)
  BY DEF TablesOK
<1>2. collector' = collector
  BY DEF BackfillBegins, BackfillWrites
<1>3. CASE BackfillBegins
  <2>1. events \in Seq(LoggedEvent) /\ History(events) \in Seq(SoldLot)
    BY HistoryType DEF TablesOK
  <2>2. Tasks(events) \in Seq(LoggedEvent \cup SoldLot)
    BY <2>1, ConcatProperties DEF Tasks
  <2>3. rows' = rows /\ backfill' = [tasks |-> Tasks(events), lot |-> 0]
    BY <1>3 DEF BackfillBegins
  <2>4. backfill'.tasks = Tasks(events) /\ backfill'.lot = 0
    BY <2>3
  <2> QED
    BY <1>1, <1>2, <2>2, <2>3, <2>4, LogTyped DEF TablesOK
<1>4. CASE BackfillWrites
  <2> DEFINE acc == [table |-> rows, lot |-> backfill.lot]
             t == Head(backfill.tasks)
             done == Written(acc, t)
  <2>1. /\ backfill.tasks \in Seq(LoggedEvent \cup SoldLot)
        /\ backfill.tasks # << >> /\ backfill.lot \in 0 .. Len(rows)
    BY <1>4 DEF TablesOK, BackfillWrites
  <2>2. t \in LoggedEvent \cup SoldLot /\ Tail(backfill.tasks) \in Seq(LoggedEvent \cup SoldLot)
    BY <2>1, HeadTailProperties
  <2>3. /\ acc.table = rows /\ acc.lot = backfill.lot /\ DOMAIN acc = {"table", "lot"}
    OBVIOUS
  <2>4. rows' = done.table /\ backfill' = [tasks |-> Tail(backfill.tasks), lot |-> done.lot]
    BY <1>4 DEF BackfillWrites
  <2>5. /\ rows' = done.table /\ backfill'.tasks = Tail(backfill.tasks)
        /\ backfill'.lot = done.lot
    BY <2>4
  <2> HIDE DEF acc, t
  <2>6. /\ done.table \in Seq(LotRecord) /\ Len(rows) <= Len(done.table)
        /\ done.lot \in 0 .. Len(done.table)
    BY <1>1, <2>1, <2>2, <2>3, WrittenType
  <2> HIDE DEF done
  <2>7. collector.row \in 0 .. Len(rows) /\ Len(rows') \in Nat
    BY <2>5, <2>6 DEF TablesOK
  <2>8. collector.row \in 0 .. Len(rows')
    BY <1>1, <2>5, <2>6, <2>7
  <2> QED
    BY <1>2, <2>2, <2>5, <2>6, <2>8, LogTyped DEF TablesOK
<1> QED
  BY <1>3, <1>4

LEMMA TablesNext ==
  ASSUME TypeInv, TablesOK, [HistoryNext]_historyVars
  PROVE  TablesOK'
<1>1. CASE PageMoves /\ UNCHANGED backfill
  <2>1. rows' = rows /\ collector' = collector
    BY <1>1 DEF PageMoves
  <2> QED
    BY <1>1, <2>1, TablesElse
<1>2. CASE /\ Look \/ LotUpdate \/ SameTitle \/ StateUpdate \/ BidUpdate \/ WinnerUpdate
              \/ NoNewWinner \/ Restart \/ SkipTick
           /\ UNCHANGED backfill
  <2>1. rows' = rows
    BY <1>2 DEF Look, LotUpdate, SameTitle, StateUpdate, BidUpdate, WinnerUpdate,
       NoNewWinner, Restart, SkipTick
  <2>2. collector'.row \in {0, collector.row}
    <3>1. CASE Restart
      BY <3>1 DEF Restart, Started
    <3>2. CASE NoNewWinner
      BY <3>2, CollectorFields DEF NoNewWinner
    <3>3. CASE Look \/ LotUpdate \/ SameTitle \/ StateUpdate \/ BidUpdate \/ WinnerUpdate \/ SkipTick
      BY <3>3, CollectorFields DEF Look, LotUpdate, SameTitle, StateUpdate, BidUpdate,
         WinnerUpdate, SkipTick
    <3> QED
      BY <1>2, <3>1, <3>2, <3>3
  <2> QED
    BY <1>2, <2>1, <2>2, TablesElse
<1>3. CASE UNCHANGED historyVars
  <2>1. rows' = rows /\ collector' = collector /\ backfill' = backfill
    BY <1>3 DEF historyVars, collectorVars
  <2> QED
    BY <2>1, TablesElse
<1> QED
  BY <1>1, <1>2, <1>3, TablesOpen, TablesClose, TablesBackfill
     DEF HistoryNext, CollectorNext, Collect

LEMMA TablesInit == HistoryInit => TablesOK
<1> SUFFICES ASSUME HistoryInit
             PROVE  TablesOK
  OBVIOUS
<1> DEFINE none == << >>
<1>1. /\ events = none /\ rows = none /\ collector = Started
      /\ backfill.tasks = none /\ backfill.lot = 0
  BY DEF HistoryInit, CollectorInit, NoBackfill
<1>2. none \in Seq(LoggedEvent) /\ none \in Seq(LotRecord) /\ Len(none) = 0
      /\ DOMAIN none = {} /\ none \in Seq(LoggedEvent \cup SoldLot)
  OBVIOUS
<1>3. collector.row = 0
  BY <1>1 DEF Started
<1> HIDE DEF none
<1> QED
  BY <1>1, <1>2, <1>3 DEF TablesOK

TypedInv == SightInv /\ TablesOK

LEMMA TypedAlways == HistorySpec => []TypedInv
<1>1. HistoryInit => TypedInv
  BY SightInit, TablesInit DEF TypedInv
<1>2. TypedInv /\ [HistoryNext]_historyVars => TypedInv'
  BY SightNext, TablesNext DEF TypedInv, SightInv
<1> QED
  BY <1>1, <1>2, PTL DEF HistorySpec

(***************************************************************************)
(* The types of what the collector has seen and of the two tables: an      *)
(* event is of the past, and the row that the collector has open exists,   *)
(* though the backfill opens, closes and fills in rows meanwhile.          *)
(***************************************************************************)
THEOREM HistoryTyped == HistorySpec => []HistoryTypeOK
<1>1. TypedInv => HistoryTypeOK
  <2> SUFFICES ASSUME TypedInv
               PROVE  HistoryTypeOK
    OBVIOUS
  <2>1. TypeInv /\ TablesOK /\ CollectorOK
    BY DEF TypedInv, SightInv, TypeInv
  <2>2. \A i \in DOMAIN rows : rows[i].winner \in Buyers \cup {NoOne}
    <3>1. \A i \in DOMAIN rows : rows[i] \in LotRecord
      BY <2>1, TableDomain DEF TablesOK
    <3> QED
      BY <3>1 DEF LotRecord, Bidders
  <2>3. \A i \in DOMAIN events : events[i].at \in 0..now
    <3>1. \A i \in DOMAIN events : events[i] \in LoggedEvent
      BY <2>1, ElementOfSeq DEF TablesOK
    <3>2. \A i \in DOMAIN events : events[i].at \in Nat /\ events[i].at <= now
      BY <2>1, <3>1 DEF LoggedEvent, TablesOK
    <3> QED
      BY <2>1, <3>2 DEF TypeInv
  <2> QED
    BY <2>1, <2>2, <2>3 DEF HistoryTypeOK, TypeInv, CollectorOK, TablesOK, Page, Amounts
<1> QED
  BY <1>1, TypedAlways, PTL
=============================================================================
