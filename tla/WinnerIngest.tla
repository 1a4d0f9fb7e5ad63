---------------------------- MODULE WinnerIngest ----------------------------
(***************************************************************************)
(* From the collector's events to winner tickets.  The collector appends   *)
(* lot updates and winners to the stream's events.  Nothing consumes them: *)
(* every poll of the session stats goes through the recent events again,   *)
(* a client of /events through those after its cursor, and an operator may *)
(* retry a winner that failed.  For each winner a request thread runs      *)
(* _maybe_ingest_winner_event: some lookups, then the auction result, the  *)
(* ticket and the lot, each in a transaction of its own.  An exception     *)
(* anywhere ends the whole batch.                                          *)
(***************************************************************************)
EXTENDS Integers, Sequences, FiniteSets

CONSTANTS
  Threads,      \* request threads
  Buyers,
  Prices,       \* winning prices
  MaxLot,       \* the highest lot number the stream shows
  MaxEvents,    \* bound of the stream
  MaxRetries    \* MAX_INGEST_RETRIES

VARIABLES
  events,       \* events of the stream, by id
  now,          \* time, in steps longer than the 20 seconds window
  lots,         \* company_lots of the session, by id
  results,      \* auction_results, by id
  tickets,      \* pending_winner_assignments, by id
  failed,       \* failed_ingests: event -> its record
  cursor,       \* the id after which the /events client asks
  thread        \* thread -> its batch and what it has read

tables == <<lots, results, tickets, failed>>
ingestVars == <<events, now, tables, cursor, thread>>

-----------------------------------------------------------------------------
(* Types *)

NoNumber == 0
NoId == 0

Numbers == 0 .. MaxLot

Event ==
  [type : {"lot_update"}, lot : Numbers \ {NoNumber}]
    \cup [type : {"auction_winner"}, lot : Numbers, buyer : Buyers,
          price : Prices, at : Nat]

LotRow == [number : Numbers \ {NoNumber}, status : {"open", "sold"}]

ResultRow ==
  [lot : Nat, number : Numbers \ {NoNumber}, buyer : Buyers, price : Prices, source : Nat,
   at : Nat]

TicketStatuses == {"open", "confirmed", "payment_review"}

TicketRow ==
  [lot : Nat, result : Nat, number : Numbers \ {NoNumber}, buyer : Buyers,
   price : Prices, source : Nat, at : Nat, status : TicketStatuses]

FailedRow == [retries : Nat, resolved : BOOLEAN]

Routes == {"stats", "feed", "retry"}

Steps ==
  {"idle", "next", "lot", "open", "check", "name", "find", "record",
   "lookup", "queue", "sell"}

NoRow == [lot |-> NoId, number |-> NoNumber, at |-> 0]

IdleThread ==
  [step |-> "idle", route |-> "stats", batch |-> << >>, upto |-> 0,
   lot |-> NoId, number |-> NoNumber, result |-> NoId, row |-> NoRow,
   mode |-> "none", ticket |-> NoId]

(***************************************************************************)
(* A thread's state: what is left of its batch, the lot it found and the   *)
(* number that lot had, the result it found or made and that row as read,  *)
(* what the ticket is queued for, and the ticket it is going to update.    *)
(***************************************************************************)
IsThread(t) ==
  /\ DOMAIN t = DOMAIN IdleThread
  /\ t.step \in Steps /\ t.route \in Routes
  /\ t.batch \in Seq(DOMAIN events) /\ t.upto \in 0 .. Len(events)
  /\ t.lot \in {NoId} \cup DOMAIN lots /\ t.number \in Numbers
  /\ t.result \in {NoId} \cup DOMAIN results
  /\ t.row \in {NoRow} \cup ResultRow
  /\ t.mode \in {"none", "new", "known", "again"}
  /\ t.ticket \in {NoId} \cup DOMAIN tickets

(***************************************************************************)
(* Type correctness: the rows keep their shape and have a lot number, also *)
(* when the winner they are for names none; a thread refers to lots,       *)
(* results and tickets that are there.                                     *)
(***************************************************************************)
IngestTypeOK ==
  /\ events \in Seq(Event) /\ now \in Nat
  /\ lots \in Seq(LotRow)
  /\ results \in Seq(ResultRow)
  /\ tickets \in Seq(TicketRow)
  /\ DOMAIN failed \subseteq DOMAIN events
  /\ \A e \in DOMAIN failed : failed[e] \in FailedRow
  /\ cursor \in 0 .. Len(events)
  /\ DOMAIN thread = Threads
  /\ \A h \in Threads :
       /\ IsThread(thread[h])
       /\ thread[h].step \notin {"idle", "next"} => thread[h].batch # << >>

ASSUME IngestConstants ==
  /\ IsFiniteSet(Threads)
  /\ Prices \subseteq Nat
  /\ {MaxLot, MaxEvents, MaxRetries} \subseteq Nat

-----------------------------------------------------------------------------
(* The collector *)

LastNumber ==
  IF events = << >> THEN NoNumber ELSE events[Len(events)].lot

(***************************************************************************)
(* A new title on the page: a lot update, with the number of the title or, *)
(* if it has none, the number before.                                      *)
(***************************************************************************)
LotUpdate ==
  /\ Len(events) < MaxEvents
  /\ \E n \in {LastNumber, LastNumber + 1} \cap 1 .. MaxLot :
       events' = Append(events, [type |-> "lot_update", lot |-> n])
  /\ UNCHANGED <<now, tables, cursor, thread>>

(***************************************************************************)
(* A winner is shown for the current lot.  The banner may go and come back *)
(* with another name or price.                                             *)
(***************************************************************************)
AuctionWinner ==
  /\ Len(events) < MaxEvents
  /\ \E b \in Buyers, p \in Prices :
       events' = Append(events, [type |-> "auction_winner", lot |-> LastNumber,
                                 buyer |-> b, price |-> p, at |-> now])
  /\ UNCHANGED <<now, tables, cursor, thread>>

Tick ==
  /\ now' = now + 1
  /\ UNCHANGED <<events, tables, cursor, thread>>

-----------------------------------------------------------------------------
(* A request *)

Winners == {e \in DOMAIN events : events[e].type = "auction_winner"}

Current(h) == Head(thread[h].batch)

Ev(h) == events[Current(h)]

Open(e) == e \in DOMAIN failed /\ ~failed[e].resolved

Starts(h, route, batch) ==
  /\ thread[h].step = "idle"
  /\ batch # << >>
  /\ thread' = [thread EXCEPT ![h] =
       [IdleThread EXCEPT !.step = "next", !.route = route, !.batch = batch,
                          !.upto = batch[Len(batch)]]]
  /\ UNCHANGED <<events, now, tables, cursor>>

(***************************************************************************)
(* Session stats and the winner queue go through the recent events.        *)
(***************************************************************************)
PollStats(h) == Starts(h, "stats", [e \in DOMAIN events |-> e])

(***************************************************************************)
(* /events goes through those after the caller's cursor.                   *)
(***************************************************************************)
PollFeed(h) ==
  /\ \A k \in Threads : thread[k].route = "feed" => thread[k].step = "idle"
  /\ Starts(h, "feed",
            [n \in 1 .. Len(events) - cursor |-> cursor + n])

Retry(h) ==
  \E e \in DOMAIN failed :
    /\ Open(e) /\ failed[e].retries < MaxRetries
    /\ Starts(h, "retry", <<e>>)

(***************************************************************************)
(* The batch is through: the answer carries its events, and the client     *)
(* asks for later ones next.                                               *)
(***************************************************************************)
Finish(h) ==
  /\ thread[h].step = "next" /\ thread[h].batch = << >>
  /\ cursor' = IF thread[h].route = "feed" THEN thread[h].upto ELSE cursor
  /\ thread' = [thread EXCEPT ![h] = IdleThread]
  /\ UNCHANGED <<events, now, tables>>

(***************************************************************************)
(* How the handling of one event ends: the thread goes on with the next,   *)
(* or an exception ends the batch; a retry counts that as an attempt.      *)
(***************************************************************************)
Continue(h) ==
  thread' = [thread EXCEPT ![h] =
    [IdleThread EXCEPT !.step = "next", !.route = thread[h].route,
                       !.upto = thread[h].upto, !.batch = Tail(thread[h].batch)]]

Attempted(e) == [failed EXCEPT ![e].retries = @ + 1]

Raise(h) ==
  /\ thread' = [thread EXCEPT ![h] = IdleThread]
  /\ failed' = IF thread[h].route = "retry" THEN Attempted(Current(h)) ELSE failed

Acknowledge(h) ==
  /\ Continue(h)
  /\ failed' = IF thread[h].route = "retry"
                 THEN [failed EXCEPT ![Current(h)].resolved = TRUE] ELSE failed

Goes(h, step) ==
  /\ thread' = [thread EXCEPT ![h].step = step]
  /\ UNCHANGED failed

-----------------------------------------------------------------------------
(* Lots *)

Greatest(S) == CHOOSE n \in S : \A m \in S : m <= n

OpenLots == {l \in DOMAIN lots : lots[l].status = "open"}

Numbered(n) == {l \in DOMAIN lots : lots[l].number = n}

(***************************************************************************)
(* get_current_company_lot, the latest open lot, and if there is none the  *)
(* lot of the event's number.                                              *)
(***************************************************************************)
LotFor(n) ==
  CASE OpenLots # {} -> Greatest(OpenLots)
    [] OpenLots = {} /\ n # NoNumber /\ Numbered(n) # {} -> Greatest(Numbered(n))
    [] OTHER -> NoId

HasLot(h, l, step) ==
  thread' = [thread EXCEPT ![h].lot = l, ![h].number = lots[l].number,
                           ![h].step = step]

(***************************************************************************)
(* _sync_live_lot_number: a lot update opens a lot, or gives the open lot  *)
(* its number.                                                             *)
(***************************************************************************)
SyncLot(h) ==
  /\ thread[h].step = "next" /\ thread[h].batch # << >>
  /\ Ev(h).type = "lot_update"
  /\ LET l == LotFor(Ev(h).lot)
     IN CASE l = NoId -> Goes(h, "open")
          [] l # NoId /\ lots[l].number # Ev(h).lot ->
               HasLot(h, l, "name") /\ UNCHANGED failed
          [] OTHER -> Continue(h) /\ UNCHANGED failed
  /\ UNCHANGED <<events, now, lots, results, tickets, cursor>>

(***************************************************************************)
(* create_company_lot: an upsert on the number, which opens a lot another  *)
(* thread has made, and maybe sold, since the lookup.                      *)
(***************************************************************************)
NextLotId(n) == Len(lots) + 1

UpsertedLot(n) ==
  IF Numbered(n) = {} THEN Len(lots) + 1 ELSE Greatest(Numbered(n))

OpenLot(h) ==
  /\ thread[h].step = "open"
  /\ LET n == Ev(h).lot
         l == UpsertedLot(n)
     IN /\ lots' = IF Numbered(n) = {}
                     THEN Append(lots, [number |-> n, status |-> "open"])
                     ELSE [lots EXCEPT ![l].status = "open"]
        /\ IF Ev(h).type = "lot_update"
             THEN Continue(h)
             ELSE thread' = [thread EXCEPT ![h].lot = l, ![h].number = n,
                                           ![h].step = "check"]
  /\ UNCHANGED <<events, now, results, tickets, failed, cursor>>

(***************************************************************************)
(* rename_company_lot: the numbers of a session's lots are unique, so that *)
(* a number that another lot has makes the UPDATE raise.                   *)
(***************************************************************************)
NumberTaken(h) == Numbered(Ev(h).lot) \ {thread[h].lot} # {}

NameLot(h) ==
  /\ thread[h].step = "name"
  /\ IF NumberTaken(h)
       THEN Raise(h) /\ UNCHANGED lots
       ELSE /\ lots' = [lots EXCEPT ![thread[h].lot].number = Ev(h).lot]
            /\ UNCHANGED failed
            /\ IF Ev(h).type = "lot_update"
                 THEN Continue(h)
                 ELSE thread' = [thread EXCEPT ![h].number = Ev(h).lot,
                                               ![h].step = "find"]
  /\ UNCHANGED <<events, now, results, tickets, cursor>>

-----------------------------------------------------------------------------
(* Winners *)

(***************************************************************************)
(* A ticket of the same buyer at the same price, detected at most 20       *)
(* seconds before the event, or any time after it.                         *)
(***************************************************************************)
SameBuyerLately(h) ==
  \E t \in DOMAIN tickets :
    /\ tickets[t].status \in {"open", "confirmed"}
    /\ tickets[t].buyer = Ev(h).buyer
    /\ Ev(h).at <= tickets[t].at

SeenLately(h) ==
  \E t \in DOMAIN tickets :
    /\ tickets[t].status \in {"open", "confirmed"}
    /\ tickets[t].buyer = Ev(h).buyer /\ tickets[t].price = Ev(h).price
    /\ Ev(h).at <= tickets[t].at

CheckDuplicate(h) ==
  /\ thread[h].step = "next" /\ thread[h].batch # << >>
  /\ Ev(h).type = "auction_winner"
  /\ IF SeenLately(h) THEN Acknowledge(h) ELSE Goes(h, "lot")
  /\ UNCHANGED <<events, now, lots, results, tickets, cursor>>

(***************************************************************************)
(* Without a lot and a number the winner is put aside as a failed ingest.  *)
(***************************************************************************)
PutAside(h) ==
  LET e == Current(h)
  IN failed' =
       CASE thread[h].route = "retry" -> Attempted(e)
         [] thread[h].route # "retry" /\ e \notin DOMAIN failed ->
              [x \in DOMAIN failed \cup {e} |->
                 IF x = e THEN [retries |-> 0, resolved |-> FALSE] ELSE failed[x]]
         [] OTHER -> failed

FindLot(h) ==
  /\ thread[h].step = "lot"
  /\ LET l == LotFor(Ev(h).lot)
     IN CASE l # NoId -> HasLot(h, l, "check") /\ UNCHANGED failed
          [] l = NoId /\ Ev(h).lot # NoNumber -> Goes(h, "open")
          [] OTHER -> Continue(h) /\ PutAside(h)
  /\ UNCHANGED <<events, now, lots, results, tickets, cursor>>

NeverConfirmed(n) == {}

Confirmed(n) ==
  {t \in DOMAIN tickets : tickets[t].number = n /\ tickets[t].status = "confirmed"}

ResultOf(e) == {r \in DOMAIN results : results[r].source = e}

TicketOf(e) == {t \in DOMAIN tickets : tickets[t].source = e}

HasResult(h, r, step) ==
  thread' = [thread EXCEPT ![h].result = r, ![h].row = results[r],
                           ![h].step = step, ![h].mode = "again"]

(***************************************************************************)
(* A lot that has a confirmed winner takes no other.  A winner whose       *)
(* result is there is queued again for that result.                        *)
(***************************************************************************)
CheckRecorded(h) ==
  /\ thread[h].step = "check"
  /\ LET n == Ev(h).lot
         r == ResultOf(Current(h))
     IN CASE n # NoNumber /\ Confirmed(n) # {} -> Acknowledge(h)
          [] ~(n # NoNumber /\ Confirmed(n) # {}) /\ r # {} ->
               HasResult(h, Greatest(r), "lookup") /\ UNCHANGED failed
          [] OTHER -> Goes(h, IF n \in {NoNumber, thread[h].number}
                                THEN "find" ELSE "name")
  /\ UNCHANGED <<events, now, lots, results, tickets, cursor>>

NumberFor(h) == IF Ev(h).lot = NoNumber THEN thread[h].number ELSE Ev(h).lot

(***************************************************************************)
(* find_duplicate_auction_result: of the results with this lot or this     *)
(* number, whoever won it, the one with the highest price stands for a     *)
(* winner that is not higher, and one without a price for any.             *)
(***************************************************************************)
SameLot(h) ==
  {r \in DOMAIN results :
     results[r].lot = thread[h].lot \/ results[r].number = NumberFor(h)}

Best(R) ==
  CHOOSE r \in R : \A q \in R :
    \/ results[r].price > results[q].price
    \/ results[r].price = results[q].price /\ r >= q

Unpriced(R) == {r \in R : results[r].price = 0}

Duplicate(h) ==
  LET R == SameLot(h)
  IN CASE R # {} /\ (Ev(h).price = 0 \/ results[Best(R)].price >= Ev(h).price) ->
            Best(R)
       [] R # {} /\ Ev(h).price > results[Best(R)].price /\ Unpriced(R) # {} ->
            Greatest(Unpriced(R))
       [] OTHER -> NoId

FindResult(h) ==
  /\ thread[h].step = "find"
  /\ LET r == IF ResultOf(Current(h)) # {}
                THEN Greatest(ResultOf(Current(h))) ELSE Duplicate(h)
     IN thread' = [thread EXCEPT
          ![h].step = "record", ![h].result = r,
          ![h].row = IF r = NoId THEN NoRow ELSE results[r]]
  /\ UNCHANGED <<events, now, tables, cursor>>

(***************************************************************************)
(* record_auction_result: a new result, ON CONFLICT (source_event_id) DO   *)
(* NOTHING; or the one found, which takes a higher price with its winner.  *)
(* An event's result is unique: to give one away that exists raises.       *)
(***************************************************************************)
InsertResult(h) ==
  LET r == Len(results) + 1
      known == ResultOf(Current(h))
  IN /\ thread[h].step = "record" /\ thread[h].result = NoId
     /\ results' =
          IF known # {} THEN results
          ELSE Append(results,
                 [lot |-> thread[h].lot, number |-> NumberFor(h),
                  buyer |-> Ev(h).buyer, price |-> Ev(h).price,
                  source |-> Current(h), at |-> now])
     /\ LET i == IF known = {} THEN r ELSE Greatest(known)
        IN thread' = [thread EXCEPT ![h].step = "lookup", ![h].mode = "new",
                                    ![h].result = i, ![h].row = results'[i]]
     /\ UNCHANGED <<events, now, lots, tickets, failed, cursor>>

UpgradeResult(h) ==
  LET r == thread[h].result
      higher == Ev(h).price > thread[h].row.price
  IN /\ thread[h].step = "record" /\ r # NoId
     /\ IF higher /\ ResultOf(Current(h)) \ {r} # {}
          THEN Raise(h) /\ UNCHANGED results
          ELSE /\ results' =
                    IF ~higher THEN results
                    ELSE [results EXCEPT ![r] =
                            [@ EXCEPT !.price = Ev(h).price, !.buyer = Ev(h).buyer,
                                      !.source = Current(h), !.at = now]]
               /\ thread' = [thread EXCEPT
                    ![h].step = "lookup", ![h].mode = "known",
                    ![h].row = IF higher THEN results'[r] ELSE @]
               /\ UNCHANGED failed
     /\ UNCHANGED <<events, now, lots, tickets, cursor>>

LotNotGiven(h) == NoId

TicketLot(h) ==
  IF thread[h].mode = "new" THEN thread[h].lot ELSE thread[h].row.lot

(***************************************************************************)
(* The ticket queue_pending_winner_assignment is asked for: the event's    *)
(* winner for a new result, else the winner of the result that was found.  *)
(***************************************************************************)
Asked(h) ==
  LET t == thread[h]
      new == t.mode = "new"
  IN [lot |-> TicketLot(h),
      result |-> t.result,
      number |-> IF new THEN NumberFor(h) ELSE t.row.number,
      buyer |-> IF new THEN Ev(h).buyer ELSE t.row.buyer,
      price |-> IF new \/ t.row.price = 0 THEN Ev(h).price ELSE t.row.price,
      source |-> Current(h),
      at |-> t.row.at,
      status |-> "open"]

TicketOfEvent(h) ==
  LET T == TicketOf(Current(h)) IN IF T = {} THEN NoId ELSE Greatest(T)

(***************************************************************************)
(* It looks for a ticket of the event, of the result, then for an open one *)
(* of the lot and winner.                                                  *)
(***************************************************************************)
TicketFor(h) ==
  LET a == Asked(h)
      ofResult == {t \in DOMAIN tickets : tickets[t].result = a.result}
      ofLot == {t \in DOMAIN tickets :
                  /\ a.number # NoNumber /\ tickets[t].number = a.number
                  /\ tickets[t].buyer = a.buyer /\ tickets[t].status = "open"}
  IN CASE TicketOf(a.source) # {} -> Greatest(TicketOf(a.source))
       [] TicketOf(a.source) = {} /\ ofResult # {} -> Greatest(ofResult)
       [] TicketOf(a.source) = {} /\ ofResult = {} /\ ofLot # {} -> Greatest(ofLot)
       [] OTHER -> NoId

(***************************************************************************)
(* After the ticket: the replay of a recorded winner reads a variable that *)
(* has no value yet and raises; the winner of a new result closes its lot. *)
(***************************************************************************)
QueuedOrRaised(h) ==
  IF thread[h].mode = "new" THEN Goes(h, "sell") ELSE Raise(h)

Queued(h) ==
  CASE thread[h].mode = "again" -> Raise(h)
    [] thread[h].mode = "known" -> Acknowledge(h)
    [] OTHER -> Goes(h, "sell")

LookUpTicket(h) ==
  /\ thread[h].step = "lookup"
  /\ IF Asked(h).number # NoNumber /\ Confirmed(Asked(h).number) # {}
       THEN Queued(h)
       ELSE /\ thread' = [thread EXCEPT ![h].step = "queue",
                                        ![h].ticket = TicketFor(h)]
            /\ UNCHANGED failed
  /\ UNCHANGED <<events, now, lots, results, tickets, cursor>>

Latest(a, b) == a

Higher(a, b) == IF a > b THEN a ELSE b

(***************************************************************************)
(* The UPDATE keeps the higher price and the later time; an event has one  *)
(* ticket, another one of it raises.                                       *)
(***************************************************************************)
UpdatedTicket(row, a) ==
  [row EXCEPT !.lot = a.lot, !.result = a.result, !.source = a.source,
              !.price = Higher(a.price, @), !.at = Higher(a.at, @)]

QueueTicket(h) ==
  LET t == thread[h].ticket
  IN /\ thread[h].step = "queue"
     /\ IF TicketOf(Current(h)) \ {t} # {}
          THEN Raise(h) /\ UNCHANGED tickets
          ELSE /\ tickets' =
                    IF t = NoId THEN Append(tickets, Asked(h))
                    ELSE [tickets EXCEPT ![t] = UpdatedTicket(@, Asked(h))]
               /\ Queued(h)
     /\ UNCHANGED <<events, now, lots, results, cursor>>

SellLot(h) ==
  /\ thread[h].step = "sell"
  /\ lots' = [lots EXCEPT ![thread[h].lot].status = "sold"]
  /\ Acknowledge(h)
  /\ UNCHANGED <<events, now, results, tickets, cursor>>

(***************************************************************************)
(* A statement fails or the process dies: what was committed stays.        *)
(***************************************************************************)
Break(h) ==
  /\ thread[h].step # "idle" /\ thread[h].batch # << >>
  /\ Raise(h)
  /\ UNCHANGED <<events, now, lots, results, tickets, cursor>>

(***************************************************************************)
(* The operator confirms a winner, takes that back, or waits for payment.  *)
(***************************************************************************)
Review ==
  /\ \E t \in DOMAIN tickets, s \in TicketStatuses :
       /\ tickets[t].status # s
       /\ tickets' = [tickets EXCEPT ![t].status = s]
  /\ UNCHANGED <<events, now, lots, results, failed, cursor, thread>>

-----------------------------------------------------------------------------
Ingest(h) ==
  \/ SyncLot(h) \/ OpenLot(h) \/ NameLot(h)
  \/ CheckDuplicate(h) \/ FindLot(h) \/ CheckRecorded(h)
  \/ FindResult(h) \/ InsertResult(h) \/ UpgradeResult(h)
  \/ LookUpTicket(h) \/ QueueTicket(h) \/ SellLot(h)
  \/ Finish(h)

IngestInit ==
  /\ events = << >> /\ now = 0
  /\ lots = << >> /\ results = << >> /\ tickets = << >> /\ failed = << >>
  /\ cursor = 0
  /\ thread = [h \in Threads |-> IdleThread]
=============================================================================
