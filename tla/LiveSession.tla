----------------------------- MODULE LiveSession -----------------------------
(***************************************************************************)
(* A live session: the stream goes on while clients poll, an operator      *)
(* works on the tickets, and requests fail.                                *)
(***************************************************************************)
EXTENDS WinnerIngest

CONSTANT Workloads   \* what the stream shows, who polls, what else happens

VARIABLES
  workload,   \* what is left of it
  answered,   \* the winners an ingest has answered with True
  history     \* what has happened besides polls of /events

sessionVars == <<ingestVars, workload, answered, history>>

SessionInit ==
  /\ IngestInit
  /\ workload \in Workloads
  /\ answered = {}
  /\ history = {}

(***************************************************************************)
(* Two requests are under way at the same time.  No step depends on        *)
(* answered and history; the properties do.                                *)
(***************************************************************************)
Busy == {h \in Threads : thread[h].step # "idle"}

Notes(what) ==
  history' = history \cup what
               \cup (IF Cardinality(Busy') > 1 THEN {"overlap"} ELSE {})

(***************************************************************************)
(* The winner a step of a thread has finished with, unless it put it       *)
(* aside or raised.                                                        *)
(***************************************************************************)
Answers(h) ==
  LET t == thread[h]
  IN {e \in Winners :
        /\ t.batch # << >> /\ e = Current(h)
        /\ t.step # "lot"
        /\ thread'[h].step = "next" /\ thread'[h].batch = Tail(t.batch)}

Shown(e) ==
  IF e.type = "lot_update" THEN <<e.lot>> ELSE <<e.lot, e.buyer, e.price>>

Stream ==
  /\ Len(events) < Len(workload.stream)
  /\ LotUpdate \/ AuctionWinner
  /\ Shown(events'[Len(events')]) = workload.stream[Len(events')]
  /\ Notes({}) /\ UNCHANGED <<workload, answered>>

Wait ==
  /\ workload.ticks > 0 /\ Tick
  /\ workload' = [workload EXCEPT !.ticks = @ - 1]
  /\ Notes({}) /\ UNCHANGED answered

Poll(h) ==
  /\ \/ h \in workload.feed /\ PollFeed(h) /\ Notes({})
     \/ h \in workload.stats /\ PollStats(h) /\ Notes({"stats"})
     \/ h \in workload.retry /\ Retry(h) /\ Notes({"retry"})
  /\ UNCHANGED <<workload, answered>>

(***************************************************************************)
(* A lot that a result is recorded for gets another number.                *)
(***************************************************************************)
Renumbers ==
  \E r \in DOMAIN results :
    lots'[results[r].lot].number # lots[results[r].lot].number

Work(h) ==
  /\ Ingest(h)
  /\ answered' = answered \cup Answers(h)
  /\ Notes(IF Renumbers THEN {"renumbered"} ELSE {}) /\ UNCHANGED workload

Fault(h) ==
  /\ workload.breaks > 0 /\ Break(h)
  /\ workload' = [workload EXCEPT !.breaks = @ - 1]
  /\ Notes({"broken"}) /\ UNCHANGED answered

(***************************************************************************)
(* The operator takes a decision back: a confirmation, or that a payment   *)
(* is waited for.                                                          *)
(***************************************************************************)
TakesBack ==
  \E t \in DOMAIN tickets :
    tickets[t].status # "open" /\ tickets'[t].status \notin {"confirmed", tickets[t].status}

Operate ==
  /\ workload.reviews > 0 /\ Review
  /\ workload' = [workload EXCEPT !.reviews = @ - 1]
  /\ Notes({"reviewed"} \cup (IF TakesBack THEN {"takenBack"} ELSE {})
                         \cup (IF Busy = {} THEN {} ELSE {"overlap"}))
  /\ UNCHANGED answered

SessionNext ==
  \/ Stream \/ Wait \/ Operate
  \/ \E h \in Threads : Poll(h) \/ Work(h) \/ Fault(h)

SessionSpec == SessionInit /\ [][SessionNext]_sessionVars

(***************************************************************************)
(* A page that polls keeps polling, and a request that has begun goes on.  *)
(***************************************************************************)
PolledSpec ==
  SessionSpec /\ \A h \in Threads :
    WF_sessionVars(Poll(h)) /\ WF_sessionVars(Work(h))

-----------------------------------------------------------------------------
(* Properties *)

Alone == "overlap" \notin history

WinnersNumbered == \A e \in Winners : events[e].lot # NoNumber

(***************************************************************************)
(* Requests have not overlapped; and if one broke off, every winner was    *)
(* shown with a lot number, and no lot has changed its number after a      *)
(* result was recorded for it.                                             *)
(***************************************************************************)
Orderly ==
  Alone /\ ("broken" \in history => WinnersNumbered /\ "renumbered" \notin history)

(***************************************************************************)
(* Type correctness; only winners of the stream are answered.              *)
(***************************************************************************)
SessionTypeOK == IngestTypeOK /\ answered \subseteq Winners

(***************************************************************************)
(* A ticket stands for a winner: one of its lot, or of any lot if the      *)
(* winner names none, at no lower a price or confirmed; or one of the same *)
(* buyer at no lower a price, which the 20 seconds rule took for the same  *)
(* sale (the price of a ticket may rise afterwards).                       *)
(***************************************************************************)
StandsFor(t, e) ==
  \/ /\ events[e].lot \in {tickets[t].number, NoNumber}
     /\ tickets[t].price >= events[e].price \/ tickets[t].status = "confirmed"
  \/ tickets[t].buyer = events[e].buyer /\ tickets[t].price >= events[e].price

(***************************************************************************)
(* While requests are orderly and no decision was taken back: once         *)
(* _maybe_ingest_winner_event has answered True for a winner, by whatever  *)
(* route and however often the events are replayed, there is a ticket that *)
(* stands for it, also when a request fails halfway and its events come    *)
(* again.                                                                  *)
(***************************************************************************)
AnsweredWinnersQueued ==
  Orderly /\ "takenBack" \notin history =>
    \A e \in answered : \E t \in DOMAIN tickets : StandsFor(t, e)

(***************************************************************************)
(* Unless requests overlapped or the operator took a decision back,        *)
(* failures and retries included: the operator is shown at most one open   *)
(* ticket of a buyer for a lot (queue_pending_winner_assignment).          *)
(***************************************************************************)
OneOpenTicketPerWinner ==
  Alone /\ "takenBack" \notin history => \A t, u \in DOMAIN tickets :
    /\ tickets[t].status = "open" /\ tickets[u].status = "open"
    /\ tickets[t].number = tickets[u].number /\ tickets[t].number # NoNumber
    /\ tickets[t].buyer = tickets[u].buyer
    => t = u

(***************************************************************************)
(* While requests are orderly: a lot is closed only when a ticket names it *)
(* as its own, also when a request fails halfway and its events come       *)
(* again.                                                                  *)
(***************************************************************************)
SoldLotsHaveTicket ==
  Orderly => \A l \in DOMAIN lots :
    lots[l].status = "sold" => \E t \in DOMAIN tickets : tickets[t].lot = l

(***************************************************************************)
(* However requests interleave: a ticket keeps its lot number and buyer,   *)
(* and a weaker price that comes late does not lower its price.            *)
(***************************************************************************)
TicketsKept ==
  [][\A t \in DOMAIN tickets :
       /\ tickets'[t].price >= tickets[t].price
       /\ tickets'[t].number = tickets[t].number
       /\ tickets'[t].buyer = tickets[t].buyer]_tickets

(***************************************************************************)
(* Unless the operator's confirmation came while an ingest was under way:  *)
(* a lot with a confirmed winner gets no further ticket.                   *)
(***************************************************************************)
ConfirmedLotClosed ==
  [][Len(tickets') > Len(tickets) /\ Alone =>
       \A t \in DOMAIN tickets :
         tickets[t].status = "confirmed" =>
           tickets[t].number # tickets'[Len(tickets')].number]_tickets

(***************************************************************************)
(* A client of /events that polls on, with nothing else going on, has      *)
(* every winner ingested or put aside for a retry.                         *)
(***************************************************************************)
FeedIngests ==
  []<>(Winners \subseteq answered \cup DOMAIN failed \/ history \ {"renumbered"} # {})
=============================================================================
