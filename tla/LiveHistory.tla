---------------------------- MODULE LiveHistory -----------------------------
(***************************************************************************)
(* The collector at a live auction, the history that is rebuilt from its   *)
(* events, and the task that writes this history to the table lots while   *)
(* the collector writes there, too (server/events_db.py,                   *)
(* backfill_users_and_lots).                                               *)
(***************************************************************************)
EXTENDS LotCollector, SoldLots

VARIABLE backfill   \* what the task has still to write, and the lot it has open

historyVars == <<collectorVars, backfill>>

NoBackfill == [tasks |-> << >>, lot |-> 0]

HistoryInit == CollectorInit /\ backfill = NoBackfill

(***************************************************************************)
(* The task goes over the events that it has read, opening and closing     *)
(* lots as the collector does, then over the history.  A winner closes the *)
(* lot that is open, once; the other events write nothing.                 *)
(***************************************************************************)
Tasks(log) == log \o History(log)

IsEvent(t) == "type" \in DOMAIN t

\* What one task makes of the table and of the lot that is open.
Written(acc, t) ==
  IF ~IsEvent(t) THEN [acc EXCEPT !.table = WithSoldLot(@, t)]
  ELSE IF t.type = "lot_update"
       THEN [table |-> WithOpenLot(acc.table, t.lot, t.product),
             lot   |-> OpenedLot(acc.table, t.lot, t.product)]
  ELSE IF t.type = "auction_winner" /\ acc.lot # 0
       THEN [table |-> WithClosedLot(acc.table, acc.lot, t.winner, t.price, t.at), lot |-> 0]
  ELSE acc

BackfillBegins ==
  /\ backfill.tasks = << >> /\ workload.backfills > 0 /\ events # << >>
  /\ workload' = [workload EXCEPT !.backfills = @ - 1]
  /\ backfill' = [tasks |-> Tasks(events), lot |-> 0]
  /\ UNCHANGED <<page, sales, now, collector, events, rows>>

BackfillWrites ==
  /\ backfill.tasks # << >>
  /\ LET done == Written([table |-> rows, lot |-> backfill.lot], Head(backfill.tasks))
     IN /\ rows' = done.table
        /\ backfill' = [tasks |-> Tail(backfill.tasks), lot |-> done.lot]
  /\ UNCHANGED <<pageVars, collector, events>>

HistoryNext ==
  \/ CollectorNext /\ UNCHANGED backfill
  \/ BackfillBegins \/ BackfillWrites

HistorySpec == HistoryInit /\ [][HistoryNext]_historyVars

-----------------------------------------------------------------------------
(* Properties *)

(***************************************************************************)
(* Every title of the show has a number of its own.                        *)
(***************************************************************************)
Numbered ==
  /\ \A i \in DOMAIN workload.show : Title(i).number # 0
  /\ \A i, j \in DOMAIN workload.show : i # j => Title(i).number # Title(j).number

SoldAs(number, buyer, price) ==
  {i \in DOMAIN sales : LET s == sales[i] IN
     Title(s.item).number = number /\ s.buyer = buyer /\ s.price = price}

(***************************************************************************)
(* Type correctness: what the collector has seen, its place, the id of the *)
(* row it has open (run), and the two tables.                              *)
(***************************************************************************)
HistoryTypeOK ==
  /\ page.item \in 0..Len(workload.show) /\ page.phase \in {"open", "sold", "over"}
  /\ page.winner \in Buyers \cup {NoOne} /\ {page.bid, page.label} \subseteq Prices \cup {0}
  /\ collector.step \in {"look", "title", "open", "state", "bid", "winner", "close"}
  /\ collector.row \in 0..Len(rows)
  /\ \A i \in DOMAIN rows : rows[i].winner \in Buyers \cup {NoOne}
  /\ \A i \in DOMAIN events : events[i].at \in 0..now

(***************************************************************************)
(* A posted winner names a lot, its buyer and its price as it was sold,    *)
(* though the page goes on while the collector reads it (run); unless a    *)
(* title has no number of its own or a price is misread.                   *)
(***************************************************************************)
WinnersTold ==
  Numbered /\ ~workload.misread =>
    \A i \in DOMAIN events : LET e == events[i] IN
      e.type = "auction_winner" => SoldAs(e.lot, e.winner, e.price) # {}

(***************************************************************************)
(* A sale is posted once by a process, however long its banner stays and   *)
(* though its price comes later (run, last_winner_key); and again at most  *)
(* by each process that starts under the banner.                           *)
(***************************************************************************)
PostedAs(number, buyer, price) ==
  {i \in DOMAIN events : LET e == events[i] IN
     e.type = "auction_winner" /\ e.lot = number /\ e.winner = buyer /\ e.price = price}

WinnerPostedOnce ==
  Numbered /\ ~workload.misread =>
    \A e \in {events[i] : i \in DOMAIN events} :
      e.type = "auction_winner" =>
        Cardinality(PostedAs(e.lot, e.winner, e.price)) + workload.restarts
          <= Cardinality(SoldAs(e.lot, e.winner, e.price)) + workload.started

(***************************************************************************)
(* Unless an event was lost, a title has no number or a price is misread:  *)
(* who the rebuilt history (_reconstruct_sold_lots) says has won a lot has *)
(* bought it at that price, and so has the winner in a row of lots,        *)
(* whether the collector or the backfill wrote it; no winner or price of   *)
(* one lot gets to another.  And a winner that was posted is in the        *)
(* history, as long as the page does not announce the next item before it  *)
(* (waits).                                                                *)
(***************************************************************************)
HistoryIsTrue ==
  LET past == History(events)
  IN \A i \in DOMAIN past :
       past[i].winner # NoOne => SoldAs(past[i].lot, past[i].winner, past[i].price) # {}

RowsAreTrue ==
  \A i \in DOMAIN rows :
    rows[i].winner # NoOne => SoldAs(rows[i].number, rows[i].winner, rows[i].price) # {}

WinnersAreKept ==
  LET past == History(events)
  IN \A i \in DOMAIN events :
       events[i].type = "auction_winner" =>
         \E k \in DOMAIN past : past[k].lot = events[i].lot /\ past[k].winner # NoOne

HistoryFollowsSales ==
  Numbered /\ ~workload.misread /\ workload.lost = workload.losses =>
    /\ HistoryIsTrue
    /\ RowsAreTrue
    /\ workload.waits = {FALSE} => WinnersAreKept
=============================================================================
