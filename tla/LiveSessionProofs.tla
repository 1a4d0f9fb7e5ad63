-------------------------- MODULE LiveSessionProofs --------------------------
(***************************************************************************)
(* Proofs about a live session, for any number of request threads, buyers, *)
(* prices, lots and events, and any workload.                              *)
(***************************************************************************)
EXTENDS LiveSession, SequenceTheorems, FiniteSetTheorems,
        WellFoundedInduction, TLAPS

-----------------------------------------------------------------------------
(* Sequences and sets of row ids *)

(***************************************************************************)
(* SELECT .. ORDER BY id DESC LIMIT 1: of some of a table's rows there is  *)
(* a latest one.                                                           *)
(***************************************************************************)
LEMMA GreatestId ==
  ASSUME NEW n \in Nat, NEW S \in SUBSET (1 .. n), S # {}
  PROVE  Greatest(S) \in S /\ \A m \in S : m <= Greatest(S)
<1> DEFINE T == {k \in Nat : n - k \in S}
<1>1. T \subseteq Nat /\ T # {}
  <2>1. PICK s \in S : TRUE
    OBVIOUS
  <2>2. n - s \in Nat /\ n - (n - s) = s
    BY <2>1
  <2> QED
    BY <2>1, <2>2
<1>2. PICK k \in T : \A j \in T : <<j, k>> \notin OpToRel(<, Nat)
  BY <1>1, WFMin, NatLessThanWellFounded, Zenon
<1>3. \A j \in T : ~ (j < k)
  BY <1>1, <1>2, Zenon DEF OpToRel
<1>4. n - k \in S /\ \A m \in S : m <= n - k
  <2>1. n - k \in S
    OBVIOUS
  <2>2. ASSUME NEW m \in S
        PROVE  m <= n - k
    <3>1. n - m \in T
      <4>1. n - m \in Nat /\ n - (n - m) = m
        BY <2>2
      <4> QED
        BY <4>1
    <3>2. ~ (n - m < k)
      BY <1>3, <3>1
    <3> QED
      BY <3>2
  <2> QED
    BY <2>1, <2>2
<1> QED
  BY <1>4, Zenon DEF Greatest

(***************************************************************************)
(* A table with one row more.                                              *)
(***************************************************************************)
LEMMA Appended ==
  ASSUME NEW S, NEW s \in Seq(S), NEW e \in S
  PROVE  /\ Append(s, e) \in Seq(S)
         /\ Len(Append(s, e)) = Len(s) + 1
         /\ Append(s, e)[Len(s) + 1] = e
         /\ \A i \in DOMAIN s : i \in DOMAIN Append(s, e) /\ Append(s, e)[i] = s[i]
         /\ \A i \in DOMAIN Append(s, e) : i \in DOMAIN s \/ i = Len(s) + 1
  OBVIOUS

(***************************************************************************)
(* A row takes another value.                                              *)
(***************************************************************************)
LEMMA Changed ==
  ASSUME NEW S, NEW s \in Seq(S), NEW i \in DOMAIN s, NEW e \in S
  PROVE  /\ [s EXCEPT ![i] = e] \in Seq(S)
         /\ DOMAIN [s EXCEPT ![i] = e] = DOMAIN s
         /\ Len([s EXCEPT ![i] = e]) = Len(s)
         /\ [s EXCEPT ![i] = e][i] = e
         /\ \A j \in DOMAIN s : j # i => [s EXCEPT ![i] = e][j] = s[j]
<1> DEFINE t == [s EXCEPT ![i] = e]
<1>1. /\ DOMAIN t = DOMAIN s /\ t[i] = e
      /\ \A j \in DOMAIN s : j # i => t[j] = s[j]
  OBVIOUS
<1>2. t \in [1 .. Len(s) -> S]
  OBVIOUS
<1>3. t \in Seq(S) /\ Len(t) = Len(s)
  BY <1>2
<1> QED
  BY <1>1, <1>3

-----------------------------------------------------------------------------
(* Types *)

(***************************************************************************)
(* What a thread has found by the step it is at: the event it handles, the *)
(* lot with its number, and the result that a ticket is asked for.         *)
(***************************************************************************)
Handles(h) ==
  LET t == thread[h]
  IN /\ t.step \in {"lot", "check", "find", "record", "lookup", "queue", "sell"}
          => Ev(h).type = "auction_winner"
     /\ t.step \in {"open", "name"} => Ev(h).lot # NoNumber
     /\ t.step \in {"name", "check", "find", "record", "lookup", "queue", "sell"}
          => t.lot # NoId /\ t.number # NoNumber
     /\ t.step = "record" /\ t.result # NoId => t.row \in ResultRow
     /\ t.step \in {"lookup", "queue"} => t.result # NoId /\ t.row \in ResultRow

(***************************************************************************)
(* The inductive form of IngestTypeOK.                                     *)
(***************************************************************************)
IngestInv == IngestTypeOK /\ \A h \in Threads : Handles(h)

(***************************************************************************)
(* Its parts: the tables, and what each thread holds.                      *)
(***************************************************************************)
TablesOK ==
  /\ events \in Seq(Event) /\ now \in Nat
  /\ lots \in Seq(LotRow)
  /\ results \in Seq(ResultRow)
  /\ tickets \in Seq(TicketRow)
  /\ DOMAIN failed \subseteq DOMAIN events
  /\ \A e \in DOMAIN failed : failed[e] \in FailedRow
  /\ cursor \in 0 .. Len(events)

ThreadOK(h) ==
  /\ IsThread(thread[h])
  /\ thread[h].step \notin {"idle", "next"} => thread[h].batch # << >>
  /\ Handles(h)

LEMMA InvParts ==
  IngestInv <=> /\ TablesOK /\ DOMAIN thread = Threads
                /\ \A h \in Threads : ThreadOK(h)
BY DEF IngestInv, IngestTypeOK, TablesOK, ThreadOK

(***************************************************************************)
(* Rows are never deleted, events and ids never change.                    *)
(***************************************************************************)
TablesGrow ==
  /\ \A e \in DOMAIN events : e \in DOMAIN events' /\ events'[e] = events[e]
  /\ Len(events) <= Len(events')
  /\ DOMAIN lots \subseteq DOMAIN lots'
  /\ DOMAIN results \subseteq DOMAIN results'
  /\ DOMAIN tickets \subseteq DOMAIN tickets'

(***************************************************************************)
(* The event a thread handles is there.                                    *)
(***************************************************************************)
LEMMA EventOfThread ==
  ASSUME TablesOK, NEW h \in Threads, ThreadOK(h), thread[h].batch # << >>
  PROVE  /\ Current(h) \in DOMAIN events
         /\ Ev(h) \in Event
         /\ Tail(thread[h].batch) \in Seq(DOMAIN events)
<1>1. thread[h].batch \in Seq(DOMAIN events)
  BY DEF ThreadOK, IsThread
<1>2. Current(h) \in DOMAIN events /\ Tail(thread[h].batch) \in Seq(DOMAIN events)
  BY <1>1, HeadTailProperties DEF Current
<1> QED
  BY <1>2 DEF Ev, TablesOK

(***************************************************************************)
(* What a thread holds stays in order while others go on.                  *)
(***************************************************************************)
LEMMA ThreadKept ==
  ASSUME TablesOK, TablesOK', TablesGrow, NEW h \in Threads, ThreadOK(h),
         thread'[h] = thread[h]
  PROVE  ThreadOK(h)'
<1>1. /\ thread[h].batch \in Seq(DOMAIN events')
      /\ thread[h].upto \in 0 .. Len(events')
  <2>1. /\ thread[h].batch \in Seq(DOMAIN events)
        /\ thread[h].upto \in 0 .. Len(events)
    BY DEF ThreadOK, IsThread
  <2>2. DOMAIN events \subseteq DOMAIN events'
    BY DEF TablesGrow
  <2>3. Len(events) \in Nat /\ Len(events') \in Nat /\ Len(events) <= Len(events')
    BY DEF TablesOK, TablesGrow
  <2> QED
    BY <2>1, <2>2, <2>3, SeqMonotonic
<1>2. IsThread(thread[h])'
  BY <1>1 DEF ThreadOK, IsThread, TablesGrow
<1>3. thread[h].batch # << >> => Ev(h)' = Ev(h)
  BY EventOfThread DEF Ev, Current, TablesGrow
<1>4. Handles(h)'
  BY <1>3 DEF ThreadOK, Handles
<1> QED
  BY <1>2, <1>4 DEF ThreadOK

LEMMA ThreadSteps ==
  ASSUME IngestInv, TablesOK', TablesGrow, NEW h \in Threads,
         NEW t, thread' = [thread EXCEPT ![h] = t],
         ThreadOK(h)'
  PROVE  IngestInv'
<1>1. TablesOK /\ DOMAIN thread = Threads /\ \A k \in Threads : ThreadOK(k)
  BY InvParts
<1>2. DOMAIN thread' = Threads
  BY <1>1
<1>3. ASSUME NEW k \in Threads
      PROVE  ThreadOK(k)'
  <2>1. CASE k = h
    BY <2>1
  <2>2. CASE k # h
    <3>1. thread'[k] = thread[k]
      BY <1>1, <2>2
    <3> QED
      BY <1>1, <3>1, ThreadKept
  <2> QED
    BY <2>1, <2>2
<1>4. (TablesOK /\ DOMAIN thread = Threads /\ \A k \in Threads : ThreadOK(k))'
  BY <1>2, <1>3
<1> QED
  BY <1>4 DEF IngestInv, IngestTypeOK, TablesOK, ThreadOK

(***************************************************************************)
(* The ends of an event's handling, as far as the thread goes.             *)
(***************************************************************************)
LEMMA IdleThreadOK ==
  ASSUME TablesOK', NEW h \in Threads, thread'[h] = IdleThread
  PROVE  ThreadOK(h)'
<1>1. /\ << >> \in Seq(DOMAIN events') /\ 0 \in 0 .. Len(events') /\ NoNumber \in Numbers
  BY IngestConstants, EmptySeq DEF TablesOK, NoNumber, Numbers
<1> QED
  BY <1>1 DEF ThreadOK, IsThread, IdleThread, Handles, Steps, Routes, NoId, NoNumber

LEMMA NextThreadOK ==
  ASSUME TablesOK', NEW h \in Threads,
         NEW r \in Routes, NEW b \in Seq(DOMAIN events'), NEW u \in 0 .. Len(events'),
         thread'[h] = [IdleThread EXCEPT !.step = "next", !.route = r,
                                         !.upto = u, !.batch = b]
  PROVE  ThreadOK(h)'
<1>1. NoNumber \in Numbers
  BY IngestConstants DEF NoNumber, Numbers
<1> QED
  BY <1>1 DEF ThreadOK, IsThread, IdleThread, Handles, Steps, Routes, NoId, NoNumber

(***************************************************************************)
(* A thread's step that writes no table but failed_ingests, and takes the  *)
(* thread to another step with what it has found.                          *)
(***************************************************************************)
Untouched == UNCHANGED <<events, now, lots, results, tickets, cursor>>

Attempts(e) ==
  failed' \in {failed, [failed EXCEPT ![e].retries = @ + 1],
               [failed EXCEPT ![e].resolved = TRUE]}

LEMMA FailedTyped ==
  ASSUME TablesOK, NEW e, Attempts(e)
  PROVE  /\ DOMAIN failed' = DOMAIN failed
         /\ \A x \in DOMAIN failed' : failed'[x] \in FailedRow
<1>1. \A x \in DOMAIN failed : failed[x] \in FailedRow
  BY DEF TablesOK
<1>2. ASSUME NEW row \in FailedRow
      PROVE  /\ [row EXCEPT !.retries = @ + 1] \in FailedRow
             /\ [row EXCEPT !.resolved = TRUE] \in FailedRow
  <2>1. row.retries + 1 \in Nat
    BY DEF FailedRow
  <2> QED
    BY <2>1 DEF FailedRow
<1>3. CASE failed' = failed
  BY <1>1, <1>3
<1>4. CASE failed' = [failed EXCEPT ![e].retries = @ + 1]
  BY <1>1, <1>2, <1>4
<1>5. CASE failed' = [failed EXCEPT ![e].resolved = TRUE]
  BY <1>1, <1>2, <1>5
<1> QED
  BY <1>3, <1>4, <1>5 DEF Attempts

LEMMA EndsAttempt ==
  ASSUME NEW h \in Threads
  PROVE  /\ Raise(h) => Attempts(Current(h))
         /\ Acknowledge(h) => Attempts(Current(h))
         /\ failed' = failed => Attempts(Current(h))
BY DEF Raise, Acknowledge, Attempted, Attempts

LEMMA UntouchedTables ==
  ASSUME TablesOK, NEW e, Attempts(e), Untouched
  PROVE  TablesOK' /\ TablesGrow
<1>1. /\ DOMAIN failed' = DOMAIN failed
      /\ \A x \in DOMAIN failed' : failed'[x] \in FailedRow
  BY FailedTyped
<1> QED
  BY <1>1 DEF TablesOK, TablesGrow, Untouched

(***************************************************************************)
(* However the handling of an event ends, the thread is in order.          *)
(***************************************************************************)
LEMMA Ends ==
  ASSUME IngestInv, TablesOK', TablesGrow, NEW h \in Threads,
         thread[h].batch # << >>, Raise(h) \/ Continue(h) \/ Acknowledge(h)
  PROVE  IngestInv'
<1>1. TablesOK /\ DOMAIN thread = Threads /\ ThreadOK(h)
  BY InvParts
<1>2. CASE Raise(h)
  <2>1. thread' = [thread EXCEPT ![h] = IdleThread]
    BY <1>2 DEF Raise
  <2>2. ThreadOK(h)'
    BY <1>1, <2>1, IdleThreadOK
  <2> QED
    BY <2>1, <2>2, ThreadSteps
<1>3. CASE Continue(h) \/ Acknowledge(h)
  <2> DEFINE t == [IdleThread EXCEPT !.step = "next", !.route = thread[h].route,
                       !.upto = thread[h].upto, !.batch = Tail(thread[h].batch)]
  <2>1. thread' = [thread EXCEPT ![h] = t]
    BY <1>3 DEF Continue, Acknowledge
  <2>2. /\ thread[h].route \in Routes
        /\ Tail(thread[h].batch) \in Seq(DOMAIN events')
        /\ thread[h].upto \in 0 .. Len(events')
    <3>1. DOMAIN events \subseteq DOMAIN events'
      BY DEF TablesGrow
    <3>2. Tail(thread[h].batch) \in Seq(DOMAIN events')
      BY <1>1, <3>1, EventOfThread, SeqMonotonic
    <3>3. Len(events) \in Nat /\ Len(events') \in Nat /\ Len(events) <= Len(events')
      BY <1>1 DEF TablesOK, TablesGrow
    <3>4. thread[h].route \in Routes /\ thread[h].upto \in 0 .. Len(events)
      BY <1>1 DEF ThreadOK, IsThread
    <3> QED
      BY <3>2, <3>3, <3>4
  <2>3. thread'[h] = t
    BY <1>1, <2>1
  <2>4. ThreadOK(h)'
    BY <2>2, <2>3, NextThreadOK
  <2> QED
    BY <2>1, <2>4, ThreadSteps
<1> QED
  BY <1>2, <1>3

(***************************************************************************)
(* What the SELECTs return.                                                *)
(***************************************************************************)
LEMMA LatestRow ==
  ASSUME NEW R, NEW s \in Seq(R), NEW S \in SUBSET DOMAIN s, S # {}
  PROVE  Greatest(S) \in S
<1>1. Len(s) \in Nat /\ S \in SUBSET (1 .. Len(s))
  OBVIOUS
<1> QED
  BY <1>1, GreatestId

LEMMA LotForType ==
  ASSUME TablesOK, NEW n
  PROVE  LotFor(n) \in {NoId} \cup DOMAIN lots
<1>1. /\ OpenLots # {} => Greatest(OpenLots) \in DOMAIN lots
      /\ Numbered(n) # {} => Greatest(Numbered(n)) \in DOMAIN lots
  <2>1. lots \in Seq(LotRow)
    BY DEF TablesOK
  <2>2. OpenLots \in SUBSET DOMAIN lots /\ Numbered(n) \in SUBSET DOMAIN lots
    BY DEF OpenLots, Numbered
  <2> QED
    BY <2>1, <2>2, LatestRow
<1> QED
  BY <1>1 DEF LotFor

(***************************************************************************)
(* A step that takes a thread on with the lot it has, or another one, and  *)
(* writes nothing.                                                         *)
(***************************************************************************)
Takes(h, s, l, n) ==
  \/ thread' = [thread EXCEPT ![h].lot = l, ![h].number = n, ![h].step = s]
  \/ /\ thread' = [thread EXCEPT ![h].step = s]
     /\ l = thread[h].lot /\ n = thread[h].number

LEMMA TakesStep ==
  ASSUME IngestInv, TablesOK', TablesGrow, NEW h \in Threads,
         thread[h].batch # << >>,
         NEW s \in {"lot", "open", "name", "check", "find", "sell"},
         NEW l \in {NoId} \cup DOMAIN lots', NEW n \in Numbers,
         Takes(h, s, l, n),
         s \notin {"open", "name"} => Ev(h).type = "auction_winner",
         s \in {"open", "name"} => Ev(h).lot # NoNumber,
         s \in {"name", "check", "find", "sell"} => l # NoId /\ n # NoNumber
  PROVE  IngestInv'
<1>1. TablesOK /\ DOMAIN thread = Threads /\ ThreadOK(h)
  BY InvParts
<1>2. PICK t : /\ thread' = [thread EXCEPT ![h] = t]
               /\ DOMAIN t = DOMAIN IdleThread /\ t.step = s
               /\ t.lot = l /\ t.number = n
               /\ t.route = thread[h].route /\ t.batch = thread[h].batch
               /\ t.upto = thread[h].upto /\ t.result = thread[h].result
               /\ t.row = thread[h].row /\ t.mode = thread[h].mode
               /\ t.ticket = thread[h].ticket
  <2>1. DOMAIN thread[h] = DOMAIN IdleThread
    BY <1>1 DEF ThreadOK, IsThread
  <2>2. {"step", "route", "batch", "upto", "lot", "number", "result", "row",
         "mode", "ticket"} \subseteq DOMAIN thread[h]
    BY <2>1 DEF IdleThread
  <2>3. CASE thread' = [thread EXCEPT ![h].step = s]
               /\ l = thread[h].lot /\ n = thread[h].number
    <3> DEFINE t == [thread[h] EXCEPT !.step = s]
    <3>1. thread' = [thread EXCEPT ![h] = t]
      BY <2>3
    <3> QED
      BY <2>1, <2>2, <2>3, <3>1
  <2>4. CASE thread' = [thread EXCEPT ![h].lot = l, ![h].number = n, ![h].step = s]
    <3> DEFINE t == [thread[h] EXCEPT !.lot = l, !.number = n, !.step = s]
    <3>1. thread' = [thread EXCEPT ![h] = t]
      BY <1>1, <2>4
    <3>2. /\ DOMAIN t = DOMAIN IdleThread /\ t.step = s
          /\ t.lot = l /\ t.number = n
          /\ t.route = thread[h].route /\ t.batch = thread[h].batch
          /\ t.upto = thread[h].upto /\ t.result = thread[h].result
          /\ t.row = thread[h].row /\ t.mode = thread[h].mode
          /\ t.ticket = thread[h].ticket
      BY <2>1, <2>2
    <3> HIDE DEF t
    <3> QED
      BY <3>1, <3>2
  <2> QED
    BY <2>3, <2>4 DEF Takes
<1>3. thread'[h] = t
  BY <1>1, <1>2
<1>4. /\ thread[h].batch \in Seq(DOMAIN events')
      /\ thread[h].upto \in 0 .. Len(events')
  <2>1. /\ thread[h].batch \in Seq(DOMAIN events)
        /\ thread[h].upto \in 0 .. Len(events)
    BY <1>1 DEF ThreadOK, IsThread
  <2>2. DOMAIN events \subseteq DOMAIN events'
    BY DEF TablesGrow
  <2>3. Len(events) \in Nat /\ Len(events') \in Nat /\ Len(events) <= Len(events')
    BY <1>1 DEF TablesOK, TablesGrow
  <2> QED
    BY <2>1, <2>2, <2>3, SeqMonotonic
<1>5. IsThread(thread[h])'
  <2>1. IsThread(thread[h])
    BY <1>1 DEF ThreadOK
  <2>2. s \in Steps
    BY DEF Steps
  <2> QED
    BY <1>2, <1>3, <1>4, <2>1, <2>2 DEF IsThread, TablesGrow
<1>6. Ev(h)' = Ev(h)
  BY <1>1, <1>2, <1>3, EventOfThread DEF Ev, Current, TablesGrow
<1>7. Handles(h)'
  BY <1>2, <1>3, <1>6 DEF Handles
<1> QED
  BY <1>2, <1>3, <1>5, <1>7, ThreadSteps DEF ThreadOK

(***************************************************************************)
(* Steps that look something up.                                           *)
(***************************************************************************)
LEMMA LotNumbers ==
  ASSUME TablesOK, NEW l \in DOMAIN lots
  PROVE  lots[l].number \in Numbers \ {NoNumber} /\ l # NoId
<1>1. lots[l] \in LotRow /\ l \in 1 .. Len(lots)
  BY ElementOfSeq DEF TablesOK
<1> QED
  BY <1>1 DEF LotRow, NoId

LEMMA HasLotStep ==
  ASSUME IngestInv, TablesOK', TablesGrow, NEW h \in Threads,
         thread[h].batch # << >>, NEW l \in DOMAIN lots,
         NEW s \in {"name", "check"}, HasLot(h, l, s),
         s = "check" => Ev(h).type = "auction_winner",
         s = "name" => Ev(h).lot # NoNumber
  PROVE  IngestInv'
<1>1. PICK n : n = lots[l].number
  OBVIOUS
<1>2. n \in Numbers \ {NoNumber} /\ l # NoId /\ l \in DOMAIN lots'
  BY <1>1, InvParts, LotNumbers DEF TablesGrow
<1>3. Takes(h, s, l, n)
  BY <1>1 DEF HasLot, Takes
<1>4. /\ s \in {"lot", "open", "name", "check", "find", "sell"}
      /\ s \notin {"open", "name"} => Ev(h).type = "auction_winner"
      /\ s \in {"open", "name"} => Ev(h).lot # NoNumber
      /\ l # NoId /\ n # NoNumber
      /\ l \in {NoId} \cup DOMAIN lots' /\ n \in Numbers
  BY <1>2
<1> QED
  BY <1>3, <1>4, TakesStep

LEMMA EventFields ==
  ASSUME NEW e \in Event
  PROVE  /\ e.type \in {"lot_update", "auction_winner"}
         /\ e.lot \in Numbers
         /\ e.type = "lot_update" => e.lot # NoNumber
         /\ e.type = "auction_winner" =>
              e.buyer \in Buyers /\ e.price \in Prices /\ e.at \in Nat
BY DEF Event

LEMMA TypeSyncLot ==
  ASSUME IngestInv, NEW h \in Threads, SyncLot(h)
  PROVE  IngestInv'
<1>1. /\ TablesOK /\ DOMAIN thread = Threads /\ ThreadOK(h)
      /\ thread[h].batch # << >> /\ Untouched
      /\ Ev(h).type = "lot_update"
  BY InvParts DEF SyncLot, Untouched
<1>2. Ev(h).lot # NoNumber
  BY <1>1, EventOfThread, EventFields
<1>3. failed' = failed
  BY DEF SyncLot, Goes
<1>4. TablesOK' /\ TablesGrow
  BY <1>1, <1>3, EndsAttempt, UntouchedTables
<1> DEFINE l == LotFor(Ev(h).lot)
<1>5. l \in {NoId} \cup DOMAIN lots
  BY <1>1, LotForType
<1>6. CASE Goes(h, "open")
  <2>1. /\ thread[h].lot \in {NoId} \cup DOMAIN lots'
        /\ thread[h].number \in Numbers
    BY <1>1, <1>4 DEF ThreadOK, IsThread, TablesGrow
  <2>2. Takes(h, "open", thread[h].lot, thread[h].number)
    BY <1>6 DEF Goes, Takes
  <2> HIDE DEF l
  <2> QED
    BY <1>1, <1>2, <1>4, <2>1, <2>2, TakesStep
<1>7. CASE l # NoId /\ HasLot(h, l, "name")
  <2>1. l \in DOMAIN lots
    BY <1>5, <1>7
  <2> HIDE DEF l
  <2> QED
    BY <1>1, <1>2, <1>4, <1>7, <2>1, HasLotStep
<1>8. CASE Continue(h)
  BY <1>1, <1>4, <1>8, Ends
<1>9. Goes(h, "open") \/ (l # NoId /\ HasLot(h, l, "name")) \/ Continue(h)
  BY DEF SyncLot
<1> QED
  BY <1>6, <1>7, <1>8, <1>9

LEMMA TypeCheckDuplicate ==
  ASSUME IngestInv, NEW h \in Threads, CheckDuplicate(h)
  PROVE  IngestInv'
<1>1. /\ TablesOK /\ DOMAIN thread = Threads /\ ThreadOK(h)
      /\ thread[h].batch # << >> /\ Untouched
      /\ Ev(h).type = "auction_winner"
      /\ Acknowledge(h) \/ Goes(h, "lot")
  BY InvParts DEF CheckDuplicate, Untouched
<1>2. Attempts(Current(h))
  BY <1>1, EndsAttempt DEF Goes
<1>3. TablesOK' /\ TablesGrow
  BY <1>1, <1>2, UntouchedTables
<1>4. CASE Goes(h, "lot")
  <2>1. /\ thread[h].lot \in {NoId} \cup DOMAIN lots'
        /\ thread[h].number \in Numbers
    BY <1>1, <1>3 DEF ThreadOK, IsThread, TablesGrow
  <2> QED
    BY <1>1, <1>3, <1>4, <2>1, TakesStep DEF Goes, Takes
<1>5. CASE Acknowledge(h)
  BY <1>1, <1>3, <1>5, Ends
<1> QED
  BY <1>1, <1>4, <1>5

LEMMA TypeFindLot ==
  ASSUME IngestInv, NEW h \in Threads, FindLot(h)
  PROVE  IngestInv'
<1>1. /\ TablesOK /\ DOMAIN thread = Threads /\ ThreadOK(h)
      /\ thread[h].batch # << >> /\ Untouched
      /\ Ev(h).type = "auction_winner"
  BY InvParts DEF FindLot, Untouched, ThreadOK, Handles
<1> DEFINE l == LotFor(Ev(h).lot)
<1>2. l \in {NoId} \cup DOMAIN lots
  BY <1>1, LotForType
<1>3. CASE l # NoId /\ HasLot(h, l, "check") /\ UNCHANGED failed
  <2>1. TablesOK' /\ TablesGrow
    BY <1>1, <1>3, EndsAttempt, UntouchedTables
  <2>2. l \in DOMAIN lots
    BY <1>2, <1>3
  <2> HIDE DEF l
  <2> QED
    BY <1>1, <1>3, <2>1, <2>2, HasLotStep
<1>4. CASE Ev(h).lot # NoNumber /\ Goes(h, "open")
  <2>1. TablesOK' /\ TablesGrow
    BY <1>1, <1>4, EndsAttempt, UntouchedTables DEF Goes
  <2>2. /\ thread[h].lot \in {NoId} \cup DOMAIN lots'
        /\ thread[h].number \in Numbers
    BY <1>1, <2>1 DEF ThreadOK, IsThread, TablesGrow
  <2>3. Takes(h, "open", thread[h].lot, thread[h].number)
    BY <1>4 DEF Goes, Takes
  <2> HIDE DEF l
  <2> QED
    BY <1>1, <1>4, <2>1, <2>2, <2>3, TakesStep
<1>5. CASE Continue(h) /\ PutAside(h)
  <2> DEFINE e == Current(h)
  <2>1. e \in DOMAIN events
    BY <1>1, EventOfThread
  <2>2. \/ Attempts(e)
        \/ failed' = [x \in DOMAIN failed \cup {e} |->
             IF x = e THEN [retries |-> 0, resolved |-> FALSE] ELSE failed[x]]
    BY <1>5 DEF PutAside, Attempts, Attempted
  <2>3. TablesOK' /\ TablesGrow
    <3>1. CASE Attempts(e)
      BY <1>1, <3>1, UntouchedTables
    <3>2. CASE failed' = [x \in DOMAIN failed \cup {e} |->
                 IF x = e THEN [retries |-> 0, resolved |-> FALSE] ELSE failed[x]]
      <4> HIDE DEF e
      <4>1. DOMAIN failed' \subseteq DOMAIN events
        BY <1>1, <2>1, <3>2 DEF TablesOK
      <4>2. \A x \in DOMAIN failed' : failed'[x] \in FailedRow
        BY <1>1, <3>2 DEF TablesOK, FailedRow
      <4> QED
        BY <1>1, <4>1, <4>2 DEF TablesOK, TablesGrow, Untouched
    <3> QED
      BY <2>2, <3>1, <3>2
  <2> QED
    BY <1>1, <1>5, <2>3, Ends
<1>6. \/ l # NoId /\ HasLot(h, l, "check") /\ UNCHANGED failed
      \/ Ev(h).lot # NoNumber /\ Goes(h, "open")
      \/ Continue(h) /\ PutAside(h)
  BY DEF FindLot
<1> QED
  BY <1>3, <1>4, <1>5, <1>6

(***************************************************************************)
(* A step that takes a thread on with the result it found or made.         *)
(***************************************************************************)
SameLotAs(h, t) ==
  /\ DOMAIN t = DOMAIN IdleThread
  /\ t.route = thread[h].route /\ t.batch = thread[h].batch
  /\ t.upto = thread[h].upto
  /\ t.lot = thread[h].lot /\ t.number = thread[h].number

LEMMA TakesResult ==
  ASSUME IngestInv, TablesOK', TablesGrow, NEW h \in Threads,
         thread[h].step \in {"check", "find", "record", "lookup"},
         NEW t, SameLotAs(h, t), thread' = [thread EXCEPT ![h] = t],
         t.step \in {"record", "lookup", "queue"},
         t.result \in {NoId} \cup DOMAIN results', t.row \in {NoRow} \cup ResultRow,
         t.mode \in {"none", "new", "known", "again"},
         t.ticket \in {NoId} \cup DOMAIN tickets',
         t.step = "record" /\ t.result # NoId => t.row \in ResultRow,
         t.step \in {"lookup", "queue"} => t.result # NoId /\ t.row \in ResultRow
  PROVE  IngestInv'
<1>1. /\ TablesOK /\ DOMAIN thread = Threads /\ ThreadOK(h)
      /\ thread[h].batch # << >> /\ Ev(h).type = "auction_winner"
      /\ thread[h].lot # NoId /\ thread[h].number # NoNumber
  BY InvParts DEF ThreadOK, Handles
<1>2. thread'[h] = t
  BY <1>1
<1>3. /\ t.batch \in Seq(DOMAIN events')
      /\ t.upto \in 0 .. Len(events')
  <2>1. /\ thread[h].batch \in Seq(DOMAIN events)
        /\ thread[h].upto \in 0 .. Len(events)
    BY <1>1 DEF ThreadOK, IsThread
  <2>2. DOMAIN events \subseteq DOMAIN events'
    BY DEF TablesGrow
  <2>3. Len(events) \in Nat /\ Len(events') \in Nat /\ Len(events) <= Len(events')
    BY <1>1 DEF TablesOK, TablesGrow
  <2> QED
    BY <2>1, <2>2, <2>3, SeqMonotonic DEF SameLotAs
<1>4. IsThread(thread[h])'
  <2>1. IsThread(thread[h]) /\ t.step \in Steps
    BY <1>1 DEF ThreadOK, Steps
  <2> QED
    BY <1>2, <1>3, <2>1 DEF IsThread, TablesGrow, SameLotAs
<1>5. Ev(h)' = Ev(h)
  BY <1>1, <1>2, EventOfThread DEF Ev, Current, TablesGrow, SameLotAs
<1>6. Handles(h)'
  BY <1>1, <1>2, <1>5 DEF Handles, SameLotAs
<1>7. ThreadOK(h)'
  BY <1>1, <1>2, <1>4, <1>6 DEF ThreadOK, SameLotAs
<1> QED
  BY <1>7, ThreadSteps

(***************************************************************************)
(* EXCEPT changes the named fields of a thread and leaves the others.      *)
(***************************************************************************)
LEMMA ThreadFields ==
  ASSUME NEW t, DOMAIN t = DOMAIN IdleThread,
         NEW s, NEW i, NEW r, NEW m, NEW k
  PROVE  LET new == [t EXCEPT !.step = s, !.result = i, !.row = r, !.mode = m,
                              !.ticket = k]
         IN /\ DOMAIN new = DOMAIN IdleThread
            /\ new.route = t.route /\ new.batch = t.batch /\ new.upto = t.upto
            /\ new.lot = t.lot /\ new.number = t.number
            /\ new.step = s /\ new.result = i /\ new.row = r /\ new.mode = m
            /\ new.ticket = k
<1>1. {"step", "route", "batch", "upto", "lot", "number", "result", "row",
       "mode", "ticket"} \subseteq DOMAIN t
  BY DEF IdleThread
<1> QED
  BY <1>1

LEMMA ThreadShape ==
  ASSUME IngestInv, NEW h \in Threads
  PROVE  /\ TablesOK /\ DOMAIN thread = Threads /\ ThreadOK(h)
         /\ DOMAIN thread[h] = DOMAIN IdleThread
         /\ thread[h].lot \in {NoId} \cup DOMAIN lots
         /\ thread[h].number \in Numbers
         /\ thread[h].result \in {NoId} \cup DOMAIN results
         /\ thread[h].row \in {NoRow} \cup ResultRow
         /\ thread[h].mode \in {"none", "new", "known", "again"}
         /\ thread[h].ticket \in {NoId} \cup DOMAIN tickets
BY InvParts DEF ThreadOK, IsThread

LEMMA TypeCheckRecorded ==
  ASSUME IngestInv, NEW h \in Threads, CheckRecorded(h)
  PROVE  IngestInv'
<1>1. /\ TablesOK /\ DOMAIN thread = Threads /\ ThreadOK(h)
      /\ thread[h].step = "check" /\ Untouched
      /\ thread[h].batch # << >> /\ Ev(h).type = "auction_winner"
      /\ thread[h].lot # NoId /\ thread[h].number # NoNumber
  BY InvParts DEF CheckRecorded, Untouched, ThreadOK, Handles
<1> DEFINE r == Greatest(ResultOf(Current(h)))
<1>2. CASE Acknowledge(h)
  <2>1. TablesOK' /\ TablesGrow
    BY <1>1, <1>2, EndsAttempt, UntouchedTables
  <2> QED
    BY <1>1, <1>2, <2>1, Ends
<1>3. CASE ResultOf(Current(h)) # {} /\ HasResult(h, r, "lookup") /\ UNCHANGED failed
  <2>1. TablesOK' /\ TablesGrow
    BY <1>1, <1>3, EndsAttempt, UntouchedTables
  <2>2. r \in DOMAIN results /\ results[r] \in ResultRow /\ r # NoId
    <3>1. results \in Seq(ResultRow)
      BY <1>1 DEF TablesOK
    <3>2. r \in DOMAIN results
      BY <1>3, <3>1, LatestRow DEF ResultOf
    <3> QED
      BY <3>1, <3>2, ElementOfSeq DEF NoId
  <2> HIDE DEF r
  <2> DEFINE t == [thread[h] EXCEPT !.step = "lookup", !.result = r,
                     !.row = results[r], !.mode = "again", !.ticket = thread[h].ticket]
  <2>3. /\ SameLotAs(h, t) /\ t.step = "lookup" /\ t.result = r
        /\ t.row = results[r] /\ t.mode = "again" /\ t.ticket = thread[h].ticket
    BY ThreadShape, ThreadFields DEF SameLotAs
  <2>4. thread' = [thread EXCEPT ![h] = t]
    BY <1>1, <1>3, ThreadShape DEF HasResult
  <2>5. r \in DOMAIN results' /\ t.ticket \in {NoId} \cup DOMAIN tickets'
    BY <2>1, <2>2, <2>3, ThreadShape DEF TablesGrow
  <2> HIDE DEF t
  <2> QED
    BY <1>1, <2>1, <2>2, <2>3, <2>4, <2>5, TakesResult
<1>4. CASE \E s \in {"find", "name"} :
             Goes(h, s) /\ (s = "name" => Ev(h).lot # NoNumber)
  <2>1. TablesOK' /\ TablesGrow
    BY <1>1, <1>4, EndsAttempt, UntouchedTables DEF Goes
  <2>2. /\ thread[h].lot \in {NoId} \cup DOMAIN lots'
        /\ thread[h].number \in Numbers
    BY <1>1, <2>1 DEF ThreadOK, IsThread, TablesGrow
  <2>3. PICK s \in {"find", "name"} :
          Goes(h, s) /\ (s = "name" => Ev(h).lot # NoNumber)
    BY <1>4
  <2>4. Takes(h, s, thread[h].lot, thread[h].number)
    BY <2>3 DEF Goes, Takes
  <2> QED
    BY <1>1, <2>1, <2>2, <2>3, <2>4, TakesStep
<1>5. \/ Acknowledge(h)
      \/ ResultOf(Current(h)) # {} /\ HasResult(h, r, "lookup") /\ UNCHANGED failed
      \/ \E s \in {"find", "name"} :
           Goes(h, s) /\ (s = "name" => Ev(h).lot # NoNumber)
  BY DEF CheckRecorded
<1> QED
  BY <1>2, <1>3, <1>4, <1>5

-----------------------------------------------------------------------------
(* Results *)

(***************************************************************************)
(* Of finitely many elements, one is at the top of a total order G.        *)
(***************************************************************************)
LEMMA TopExists ==
  ASSUME NEW R, IsFiniteSet(R), R # {}, NEW G,
         \A a, b \in R : <<a, b>> \in G \/ <<b, a>> \in G,
         \A a, b, c \in R : <<a, b>> \in G /\ <<b, c>> \in G => <<a, c>> \in G
  PROVE  \E m \in R : \A q \in R : <<q, m>> \in G
<1> DEFINE Top(S) == \E m \in S : \A q \in S : <<q, m>> \in G
           F == {S \in SUBSET R : S # {} /\ ~Top(S)}
<1> SUFFICES ASSUME F # {}
             PROVE  FALSE
  OBVIOUS
<1>1. F \subseteq FiniteSubsetsOf(R)
  BY FS_Subset DEF FiniteSubsetsOf
<1>2. PICK S \in F : \A T \in F : <<T, S>> \notin StrictSubsetOrdering(R)
  <2> HIDE DEF F
  <2>1. IsWellFoundedOn(StrictSubsetOrdering(R), FiniteSubsetsOf(R))
    BY FS_StrictSubsetOrderingWellFounded
  <2> QED
    BY <1>1, <2>1, WFMin
<1>3. PICK s \in S : TRUE
  OBVIOUS
<1> DEFINE T == S \ {s}
<1>4. T \notin F
  <2>1. <<T, S>> \in StrictSubsetOrdering(R)
    BY <1>3 DEF StrictSubsetOrdering
  <2> QED
    BY <1>2, <2>1
<1>5. CASE T = {}
  BY <1>3, <1>5
<1>6. CASE T # {}
  <2>1. PICK m \in T : \A q \in T : <<q, m>> \in G
    BY <1>4, <1>6
  <2>2. CASE <<s, m>> \in G
    BY <2>1, <2>2
  <2>3. CASE <<m, s>> \in G
    <3>1. \A q \in S : <<q, s>> \in G
      BY <1>3, <2>1, <2>3
    <3> QED
      BY <1>3, <3>1
  <2> QED
    BY <1>3, <2>1, <2>2, <2>3
<1> QED
  BY <1>5, <1>6

LEMMA BestIsThere ==
  ASSUME TablesOK, NEW R \in SUBSET DOMAIN results, R # {}
  PROVE  Best(R) \in R
<1>1. results \in Seq(ResultRow) /\ Len(results) \in Nat
  BY DEF TablesOK
<1>2. \A r \in R : r \in Nat /\ results[r].price \in Nat
  <2>1. \A r \in R : r \in 1 .. Len(results) /\ results[r] \in ResultRow
    BY <1>1, ElementOfSeq
  <2>2. \A row \in ResultRow : row.price \in Nat
    BY IngestConstants DEF ResultRow
  <2> QED
    BY <2>1, <2>2
<1>3. IsFiniteSet(R)
  BY <1>1, FS_Interval, FS_Subset
<1> DEFINE G == {x \in R \X R :
                   \/ results[x[2]].price > results[x[1]].price
                   \/ results[x[2]].price = results[x[1]].price /\ x[2] >= x[1]}
<1>4. \A a, b \in R :
        <<a, b>> \in G <=> \/ results[b].price > results[a].price
                           \/ results[b].price = results[a].price /\ b >= a
  OBVIOUS
<1> HIDE DEF G
<1>5. /\ \A a, b \in R : <<a, b>> \in G \/ <<b, a>> \in G
      /\ \A a, b, c \in R : <<a, b>> \in G /\ <<b, c>> \in G => <<a, c>> \in G
  BY <1>2, <1>4
<1>6. PICK m \in R : \A q \in R : <<q, m>> \in G
  BY <1>3, <1>5, TopExists
<1> QED
  BY <1>4, <1>6 DEF Best

LEMMA ResultFound ==
  ASSUME TablesOK, NEW h \in Threads
  PROVE  /\ ResultOf(Current(h)) # {} => Greatest(ResultOf(Current(h))) \in DOMAIN results
         /\ Duplicate(h) \in {NoId} \cup DOMAIN results
<1>1. results \in Seq(ResultRow)
  BY DEF TablesOK
<1>2. ASSUME NEW R \in SUBSET DOMAIN results, R # {}
      PROVE  Greatest(R) \in DOMAIN results
  BY <1>1, <1>2, LatestRow
<1>3. /\ ResultOf(Current(h)) \in SUBSET DOMAIN results
      /\ SameLot(h) \in SUBSET DOMAIN results
      /\ Unpriced(SameLot(h)) \in SUBSET DOMAIN results
  BY DEF ResultOf, SameLot, Unpriced
<1>4. SameLot(h) # {} => Best(SameLot(h)) \in DOMAIN results
  BY <1>3, BestIsThere
<1> QED
  BY <1>2, <1>3, <1>4 DEF Duplicate

LEMMA ResultIds ==
  ASSUME TablesOK, NEW r \in DOMAIN results
  PROVE  results[r] \in ResultRow /\ r # NoId /\ r \in Nat
BY ElementOfSeq DEF TablesOK, NoId

LEMMA TypeFindResult ==
  ASSUME IngestInv, NEW h \in Threads, FindResult(h)
  PROVE  IngestInv'
<1>1. /\ TablesOK /\ DOMAIN thread = Threads
      /\ thread[h].step = "find" /\ Untouched /\ UNCHANGED failed
  BY InvParts DEF FindResult, Untouched, tables
<1>2. TablesOK' /\ TablesGrow
  BY <1>1, EndsAttempt, UntouchedTables
<1>3. PICK r \in {NoId} \cup DOMAIN results :
        thread' = [thread EXCEPT ![h].step = "record", ![h].result = r,
                     ![h].row = IF r = NoId THEN NoRow ELSE results[r]]
  BY <1>1, ResultFound DEF FindResult
<1>4. PICK row \in {NoRow} \cup ResultRow :
        row = (IF r = NoId THEN NoRow ELSE results[r]) /\ (r # NoId => row \in ResultRow)
  BY <1>1, <1>3, ResultIds
<1> DEFINE t == [thread[h] EXCEPT !.step = "record", !.result = r, !.row = row,
                   !.mode = thread[h].mode, !.ticket = thread[h].ticket]
<1>5. /\ SameLotAs(h, t) /\ t.step = "record" /\ t.result = r
      /\ t.row = row /\ t.mode = thread[h].mode /\ t.ticket = thread[h].ticket
  BY ThreadShape, ThreadFields DEF SameLotAs
<1>6. thread' = [thread EXCEPT ![h] = t]
  <2>1. [thread[h] EXCEPT !.step = "record", !.result = r, !.row = row] = t
    BY ThreadShape
  <2> QED
    BY <1>1, <1>3, <1>4, <2>1
<1>7. /\ t.result \in {NoId} \cup DOMAIN results'
      /\ t.ticket \in {NoId} \cup DOMAIN tickets'
      /\ t.mode \in {"none", "new", "known", "again"}
  BY <1>2, <1>5, ThreadShape DEF TablesGrow
<1> HIDE DEF t
<1> QED
  BY <1>1, <1>2, <1>4, <1>5, <1>6, <1>7, TakesResult

(***************************************************************************)
(* The number a winner is recorded under is a number, also when the page   *)
(* showed none.                                                            *)
(***************************************************************************)
LEMMA NumberForType ==
  ASSUME TablesOK, NEW h \in Threads, ThreadOK(h), thread[h].batch # << >>,
         thread[h].number # NoNumber
  PROVE  NumberFor(h) \in Numbers \ {NoNumber}
<1>1. thread[h].number \in Numbers /\ Ev(h).lot \in Numbers
  BY EventOfThread, EventFields DEF ThreadOK, IsThread
<1> QED
  BY <1>1 DEF NumberFor

LEMMA TypeInsertResult ==
  ASSUME IngestInv, NEW h \in Threads, InsertResult(h)
  PROVE  IngestInv'
<1>1. /\ TablesOK /\ DOMAIN thread = Threads /\ ThreadOK(h)
      /\ thread[h].step = "record"
      /\ thread[h].batch # << >> /\ Ev(h).type = "auction_winner"
      /\ thread[h].number # NoNumber
      /\ UNCHANGED <<events, now, lots, tickets, failed, cursor>>
  BY InvParts DEF InsertResult, ThreadOK, Handles
<1> DEFINE known == ResultOf(Current(h))
           new == [lot |-> thread[h].lot, number |-> NumberFor(h),
                   buyer |-> Ev(h).buyer, price |-> Ev(h).price,
                   source |-> Current(h), at |-> now]
<1>2. new \in ResultRow
  <2>1. NumberFor(h) \in Numbers \ {NoNumber}
    BY <1>1, NumberForType
  <2>2. Ev(h).buyer \in Buyers /\ Ev(h).price \in Prices
    BY <1>1, EventOfThread, EventFields
  <2>3. Current(h) \in Nat
    BY <1>1, EventOfThread DEF TablesOK
  <2>4. thread[h].lot \in Nat
    BY <1>1, ThreadShape DEF TablesOK, NoId
  <2>5. now \in Nat
    BY <1>1 DEF TablesOK
  <2> QED
    BY <2>1, <2>2, <2>3, <2>4, <2>5 DEF ResultRow
<1>3. PICK i : /\ i = (IF known = {} THEN Len(results) + 1 ELSE Greatest(known))
               /\ thread' = [thread EXCEPT ![h].step = "lookup", ![h].mode = "new",
                                           ![h].result = i, ![h].row = results'[i]]
               /\ results' = IF known # {} THEN results ELSE Append(results, new)
  BY DEF InsertResult
<1>4. /\ results' \in Seq(ResultRow) /\ DOMAIN results \subseteq DOMAIN results'
      /\ i \in DOMAIN results'
  <2>1. results \in Seq(ResultRow)
    BY <1>1 DEF TablesOK
  <2>2. CASE known # {}
    <3>1. i \in DOMAIN results
      BY <1>1, <1>3, <2>2, ResultFound
    <3> QED
      BY <1>3, <2>1, <2>2, <3>1
  <2>3. CASE known = {}
    <3> HIDE DEF new, known
    <3>1. results' = Append(results, new) /\ i = Len(results) + 1
      BY <1>3, <2>3
    <3> QED
      BY <1>2, <2>1, <3>1
  <2> QED
    BY <2>2, <2>3
<1> HIDE DEF new, known
<1>5. TablesOK' /\ TablesGrow
  <2>1. Len(events) <= Len(events')
    BY <1>1 DEF TablesOK
  <2> QED
    BY <1>1, <1>4, <2>1 DEF TablesOK, TablesGrow
<1>6. results'[i] \in ResultRow /\ i # NoId
  <2>1. i \in 1 .. Len(results')
    BY <1>4
  <2> QED
    BY <1>4, <2>1, ElementOfSeq DEF NoId
<1>7. PICK row : row = results'[i]
  OBVIOUS
<1> DEFINE t == [thread[h] EXCEPT !.step = "lookup", !.result = i, !.row = row,
                   !.mode = "new", !.ticket = thread[h].ticket]
<1>8. /\ SameLotAs(h, t) /\ t.step = "lookup" /\ t.result = i
      /\ t.row = row /\ t.mode = "new" /\ t.ticket = thread[h].ticket
  BY ThreadShape, ThreadFields DEF SameLotAs
<1>9. thread' = [thread EXCEPT ![h] = t]
  <2>1. [thread[h] EXCEPT !.step = "lookup", !.mode = "new", !.result = i,
                          !.row = row] = t
    BY ThreadShape
  <2> QED
    BY <1>1, <1>3, <1>7, <2>1
<1>10. t.ticket \in {NoId} \cup DOMAIN tickets'
  BY <1>5, <1>8, ThreadShape DEF TablesGrow
<1> HIDE DEF t
<1> QED
  BY <1>1, <1>4, <1>5, <1>6, <1>7, <1>8, <1>9, <1>10, TakesResult

LEMMA TypeUpgradeResult ==
  ASSUME IngestInv, NEW h \in Threads, UpgradeResult(h)
  PROVE  IngestInv'
<1> DEFINE r == thread[h].result
           higher == Ev(h).price > thread[h].row.price
           new == [results[r] EXCEPT !.price = Ev(h).price, !.buyer = Ev(h).buyer,
                                     !.source = Current(h), !.at = now]
<1>1. /\ TablesOK /\ DOMAIN thread = Threads /\ ThreadOK(h)
      /\ thread[h].step = "record" /\ r # NoId
      /\ thread[h].batch # << >> /\ Ev(h).type = "auction_winner"
      /\ thread[h].row \in ResultRow /\ r \in DOMAIN results
      /\ UNCHANGED <<events, now, lots, tickets, cursor>>
  BY InvParts, ThreadShape DEF UpgradeResult, ThreadOK, Handles
<1>2. CASE Raise(h) /\ UNCHANGED results
  <2>1. TablesOK' /\ TablesGrow
    BY <1>1, <1>2, EndsAttempt, UntouchedTables DEF Untouched
  <2> QED
    BY <1>1, <1>2, <2>1, Ends
<1>3. CASE /\ results' = IF ~higher THEN results ELSE [results EXCEPT ![r] = new]
           /\ thread' = [thread EXCEPT
                ![h].step = "lookup", ![h].mode = "known",
                ![h].row = IF higher THEN results'[r] ELSE @]
           /\ UNCHANGED failed
  <2>1. new \in ResultRow
    <3>1. results[r] \in ResultRow
      BY <1>1, ResultIds
    <3>2. Ev(h).buyer \in Buyers /\ Ev(h).price \in Prices
      BY <1>1, EventOfThread, EventFields
    <3>3. Current(h) \in Nat /\ now \in Nat
      BY <1>1, EventOfThread DEF TablesOK
    <3> QED
      BY <3>1, <3>2, <3>3 DEF ResultRow
  <2>2. /\ results' \in Seq(ResultRow) /\ DOMAIN results' = DOMAIN results
        /\ results'[r] \in ResultRow
    <3>1. results \in Seq(ResultRow)
      BY <1>1 DEF TablesOK
    <3>2. CASE ~higher
      BY <1>1, <1>3, <3>1, <3>2, ResultIds
    <3>3. CASE higher
      <4>1. results' = [results EXCEPT ![r] = new]
        BY <1>3, <3>3
      <4> HIDE DEF new, r, higher
      <4> QED
        BY <1>1, <2>1, <3>1, <4>1, Changed
    <3> QED
      BY <3>2, <3>3
  <2>3. TablesOK' /\ TablesGrow
    <3>1. Len(events) <= Len(events')
      BY <1>1 DEF TablesOK
    <3> HIDE DEF new, r, higher
    <3> QED
      BY <1>1, <1>3, <2>2, <3>1 DEF TablesOK, TablesGrow
  <2>4. PICK row \in ResultRow : row = IF higher THEN results'[r] ELSE thread[h].row
    BY <1>1, <2>2
  <2> DEFINE t == [thread[h] EXCEPT !.step = "lookup", !.result = r, !.row = row,
                     !.mode = "known", !.ticket = thread[h].ticket]
  <2>5. /\ SameLotAs(h, t) /\ t.step = "lookup" /\ t.result = r
        /\ t.row = row /\ t.mode = "known" /\ t.ticket = thread[h].ticket
    BY ThreadShape, ThreadFields DEF SameLotAs
  <2>6. thread' = [thread EXCEPT ![h] = t]
    <3> HIDE DEF new, higher
    <3>1. thread' = [thread EXCEPT ![h] =
                       [thread[h] EXCEPT !.step = "lookup", !.mode = "known",
                          !.row = IF higher THEN results'[r] ELSE thread[h].row]]
      BY <1>1, <1>3, ThreadShape
    <3>2. [thread[h] EXCEPT !.step = "lookup", !.mode = "known", !.row = row] = t
      BY ThreadShape
    <3> QED
      BY <2>4, <3>1, <3>2
  <2>7. t.ticket \in {NoId} \cup DOMAIN tickets' /\ r \in DOMAIN results'
    BY <1>1, <2>2, <2>3, <2>5, ThreadShape DEF TablesGrow
  <2> HIDE DEF t, new, higher, r
  <2> QED
    BY <1>1, <2>3, <2>4, <2>5, <2>6, <2>7, TakesResult
<1>4. \/ Raise(h) /\ UNCHANGED results
      \/ /\ results' = IF ~higher THEN results ELSE [results EXCEPT ![r] = new]
         /\ thread' = [thread EXCEPT
              ![h].step = "lookup", ![h].mode = "known",
              ![h].row = IF higher THEN results'[r] ELSE @]
         /\ UNCHANGED failed
  BY DEF UpgradeResult
<1> QED
  BY <1>2, <1>3, <1>4

-----------------------------------------------------------------------------
(* Tickets *)

LEMMA AskedType ==
  ASSUME IngestInv, NEW h \in Threads, thread[h].step \in {"lookup", "queue"}
  PROVE  Asked(h) \in TicketRow
<1>1. /\ TablesOK /\ ThreadOK(h) /\ thread[h].batch # << >>
      /\ Ev(h).type = "auction_winner" /\ thread[h].number # NoNumber
      /\ thread[h].row \in ResultRow
  BY InvParts DEF ThreadOK, Handles
<1>2. NumberFor(h) \in Numbers \ {NoNumber}
  BY <1>1, NumberForType
<1>3. Ev(h).buyer \in Buyers /\ Ev(h).price \in Prices
  BY <1>1, EventOfThread, EventFields
<1>4. Current(h) \in Nat
  BY <1>1, EventOfThread DEF TablesOK
<1>5. thread[h].lot \in Nat /\ thread[h].result \in Nat
  BY <1>1, ThreadShape DEF TablesOK, NoId
<1>6. /\ thread[h].row.lot \in Nat /\ thread[h].row.at \in Nat
      /\ thread[h].row.number \in Numbers \ {NoNumber}
      /\ thread[h].row.buyer \in Buyers /\ thread[h].row.price \in Prices
  BY <1>1 DEF ResultRow
<1> QED
  BY <1>2, <1>3, <1>4, <1>5, <1>6 DEF Asked, TicketLot, TicketRow, TicketStatuses

LEMMA TicketForType ==
  ASSUME TablesOK, NEW h \in Threads
  PROVE  TicketFor(h) \in {NoId} \cup DOMAIN tickets
<1> DEFINE a == Asked(h)
           ofResult == {t \in DOMAIN tickets : tickets[t].result = a.result}
           ofLot == {t \in DOMAIN tickets :
                       /\ a.number # NoNumber /\ tickets[t].number = a.number
                       /\ tickets[t].buyer = a.buyer /\ tickets[t].status = "open"}
<1>1. tickets \in Seq(TicketRow)
  BY DEF TablesOK
<1>2. /\ TicketOf(a.source) # {} => Greatest(TicketOf(a.source)) \in DOMAIN tickets
      /\ ofResult # {} => Greatest(ofResult) \in DOMAIN tickets
      /\ ofLot # {} => Greatest(ofLot) \in DOMAIN tickets
  <2>1. /\ TicketOf(a.source) \in SUBSET DOMAIN tickets
        /\ ofResult \in SUBSET DOMAIN tickets
        /\ ofLot \in SUBSET DOMAIN tickets
    BY DEF TicketOf
  <2> HIDE DEF ofResult, ofLot, a
  <2> QED
    BY <1>1, <2>1, LatestRow
<1> QED
  BY <1>2 DEF TicketFor

LEMMA QueuedKinds ==
  ASSUME NEW h \in Threads, Queued(h)
  PROVE  Raise(h) \/ Acknowledge(h) \/ Goes(h, "sell")
BY DEF Queued

LEMMA TypeQueued ==
  ASSUME IngestInv, TablesOK', TablesGrow, NEW h \in Threads,
         thread[h].step \in {"lookup", "queue"}, Queued(h)
  PROVE  IngestInv'
<1>1. /\ TablesOK /\ ThreadOK(h) /\ thread[h].batch # << >>
      /\ Ev(h).type = "auction_winner"
      /\ thread[h].number # NoNumber /\ thread[h].lot # NoId
  BY InvParts DEF ThreadOK, Handles
<1>2. CASE Raise(h) \/ Acknowledge(h)
  BY <1>1, <1>2, Ends
<1>3. CASE Goes(h, "sell")
  <2>1. /\ thread[h].lot \in {NoId} \cup DOMAIN lots'
        /\ thread[h].number \in Numbers
    BY ThreadShape DEF TablesGrow
  <2>2. Takes(h, "sell", thread[h].lot, thread[h].number)
    BY <1>3 DEF Goes, Takes
  <2> QED
    BY <1>1, <2>1, <2>2, TakesStep
<1> QED
  BY <1>2, <1>3, QueuedKinds

LEMMA TypeLookUpTicket ==
  ASSUME IngestInv, NEW h \in Threads, LookUpTicket(h)
  PROVE  IngestInv'
<1>1. /\ TablesOK /\ DOMAIN thread = Threads /\ ThreadOK(h)
      /\ thread[h].step = "lookup" /\ Untouched
      /\ thread[h].row \in ResultRow /\ thread[h].result # NoId
  BY InvParts DEF LookUpTicket, Untouched, ThreadOK, Handles
<1>2. CASE Queued(h)
  <2>1. TablesOK' /\ TablesGrow
    BY <1>1, <1>2, QueuedKinds, EndsAttempt, UntouchedTables DEF Goes
  <2> QED
    BY <1>1, <1>2, <2>1, TypeQueued
<1>3. CASE /\ thread' = [thread EXCEPT ![h].step = "queue", ![h].ticket = TicketFor(h)]
           /\ UNCHANGED failed
  <2>1. TablesOK' /\ TablesGrow
    BY <1>1, <1>3, EndsAttempt, UntouchedTables
  <2>2. PICK k \in {NoId} \cup DOMAIN tickets : k = TicketFor(h)
    BY <1>1, TicketForType
  <2> DEFINE t == [thread[h] EXCEPT !.step = "queue", !.result = thread[h].result,
                     !.row = thread[h].row, !.mode = thread[h].mode, !.ticket = k]
  <2>3. /\ SameLotAs(h, t) /\ t.step = "queue" /\ t.result = thread[h].result
        /\ t.row = thread[h].row /\ t.mode = thread[h].mode /\ t.ticket = k
    BY ThreadShape, ThreadFields DEF SameLotAs
  <2>4. thread' = [thread EXCEPT ![h] = t]
    <3>1. [thread[h] EXCEPT !.step = "queue", !.ticket = k] = t
      BY ThreadShape
    <3> QED
      BY <1>1, <1>3, <2>2, <3>1
  <2>5. /\ t.result \in {NoId} \cup DOMAIN results'
        /\ t.ticket \in {NoId} \cup DOMAIN tickets'
        /\ t.mode \in {"none", "new", "known", "again"}
    BY <2>1, <2>2, <2>3, ThreadShape DEF TablesGrow
  <2> HIDE DEF t
  <2> QED
    BY <1>1, <2>1, <2>3, <2>4, <2>5, TakesResult
<1> QED
  BY <1>2, <1>3 DEF LookUpTicket

LEMMA UpdatedTicketType ==
  ASSUME NEW row \in TicketRow, NEW a \in TicketRow
  PROVE  /\ UpdatedTicket(row, a) \in TicketRow
         /\ UpdatedTicket(row, a).price >= row.price
         /\ UpdatedTicket(row, a).number = row.number
         /\ UpdatedTicket(row, a).buyer = row.buyer
         /\ UpdatedTicket(row, a).status = row.status
<1>1. /\ row.price \in Nat /\ a.price \in Nat
      /\ row.price \in Prices /\ a.price \in Prices /\ row.at \in Nat /\ a.at \in Nat
  BY IngestConstants DEF TicketRow
<1>2. /\ Higher(a.price, row.price) \in Prices
      /\ Higher(a.price, row.price) >= row.price
      /\ Higher(a.at, row.at) \in Nat
  BY <1>1 DEF Higher
<1> QED
  BY <1>2 DEF UpdatedTicket, TicketRow

(***************************************************************************)
(* What QueueTicket does to the tickets: nothing, or one more, or one of   *)
(* them takes the higher price and the later time.                         *)
(***************************************************************************)
TicketsQueued(h) ==
  LET t == thread[h].ticket
  IN \/ tickets' = tickets
     \/ t = NoId /\ tickets' = Append(tickets, Asked(h))
     \/ /\ t \in DOMAIN tickets
        /\ tickets' = [tickets EXCEPT ![t] = UpdatedTicket(@, Asked(h))]

LEMMA QueueWrites ==
  ASSUME IngestInv, NEW h \in Threads, QueueTicket(h)
  PROVE  TicketsQueued(h) /\ tickets' \in Seq(TicketRow) /\ DOMAIN tickets \subseteq DOMAIN tickets'
<1> DEFINE t == thread[h].ticket
<1>1. TicketsQueued(h)
  BY ThreadShape DEF QueueTicket, TicketsQueued
<1>2. tickets \in Seq(TicketRow) /\ Asked(h) \in TicketRow
  BY InvParts, AskedType DEF TablesOK, QueueTicket
<1>3. CASE tickets' = tickets
  BY <1>1, <1>2, <1>3
<1>4. CASE tickets' = Append(tickets, Asked(h))
  <2>1. tickets' \in Seq(TicketRow) /\ \A i \in DOMAIN tickets : i \in DOMAIN tickets'
    BY <1>2, <1>4, Appended
  <2> QED
    BY <1>1, <2>1
<1>5. CASE /\ t \in DOMAIN tickets
           /\ tickets' = [tickets EXCEPT ![t] = UpdatedTicket(@, Asked(h))]
  <2>1. tickets[t] \in TicketRow
    BY <1>2, <1>5, ElementOfSeq
  <2>2. UpdatedTicket(tickets[t], Asked(h)) \in TicketRow
    BY <1>2, <2>1, UpdatedTicketType
  <2>3. tickets' = [tickets EXCEPT ![t] = UpdatedTicket(tickets[t], Asked(h))]
    BY <1>5
  <2>4. tickets' \in Seq(TicketRow) /\ DOMAIN tickets' = DOMAIN tickets
    <3> HIDE DEF t
    <3> QED
      BY <1>2, <1>5, <2>2, <2>3, Changed
  <2> QED
    BY <1>1, <2>4
<1> QED
  BY <1>1, <1>3, <1>4, <1>5 DEF TicketsQueued

LEMMA TypeQueueTicket ==
  ASSUME IngestInv, NEW h \in Threads, QueueTicket(h)
  PROVE  IngestInv'
<1>1. /\ TablesOK /\ DOMAIN thread = Threads /\ ThreadOK(h)
      /\ thread[h].step = "queue" /\ thread[h].batch # << >>
      /\ UNCHANGED <<events, now, lots, results, cursor>>
  BY InvParts DEF QueueTicket, ThreadOK
<1>2. Raise(h) \/ Queued(h)
  BY DEF QueueTicket
<1>3. TablesOK' /\ TablesGrow
  <2>1. Attempts(Current(h))
    BY <1>2, QueuedKinds, EndsAttempt DEF Goes
  <2>2. /\ DOMAIN failed' = DOMAIN failed
        /\ \A x \in DOMAIN failed' : failed'[x] \in FailedRow
    BY <1>1, <2>1, FailedTyped
  <2>3. Len(events) <= Len(events')
    BY <1>1 DEF TablesOK
  <2> QED
    BY <1>1, <2>2, <2>3, QueueWrites DEF TablesOK, TablesGrow
<1> QED
  BY <1>1, <1>2, <1>3, Ends, TypeQueued

-----------------------------------------------------------------------------
(* Lots *)

(***************************************************************************)
(* A step that writes a lot leaves the other tables alone, but for the     *)
(* record of a failed ingest.                                              *)
(***************************************************************************)
LEMMA LotWritten ==
  ASSUME TablesOK, NEW e, Attempts(e), lots' \in Seq(LotRow),
         DOMAIN lots \subseteq DOMAIN lots',
         UNCHANGED <<events, now, results, tickets, cursor>>
  PROVE  TablesOK' /\ TablesGrow
<1>1. /\ DOMAIN failed' = DOMAIN failed
      /\ \A x \in DOMAIN failed' : failed'[x] \in FailedRow
  BY FailedTyped
<1> QED
  BY <1>1 DEF TablesOK, TablesGrow

LEMMA LotRowWritten ==
  ASSUME TablesOK, NEW l \in DOMAIN lots, NEW n \in Numbers \ {NoNumber}
  PROVE  /\ [lots EXCEPT ![l].status = "open"] \in Seq(LotRow)
         /\ [lots EXCEPT ![l].status = "sold"] \in Seq(LotRow)
         /\ [lots EXCEPT ![l].number = n] \in Seq(LotRow)
         /\ DOMAIN [lots EXCEPT ![l].status = "open"] = DOMAIN lots
         /\ DOMAIN [lots EXCEPT ![l].status = "sold"] = DOMAIN lots
         /\ DOMAIN [lots EXCEPT ![l].number = n] = DOMAIN lots
<1>1. lots \in Seq(LotRow) /\ lots[l] \in LotRow
  BY ElementOfSeq DEF TablesOK
<1>2. /\ [lots[l] EXCEPT !.status = "open"] \in LotRow
      /\ [lots[l] EXCEPT !.status = "sold"] \in LotRow
      /\ [lots[l] EXCEPT !.number = n] \in LotRow
  BY <1>1 DEF LotRow
<1>3. \A row \in LotRow : /\ [lots EXCEPT ![l] = row] \in Seq(LotRow)
                          /\ DOMAIN [lots EXCEPT ![l] = row] = DOMAIN lots
  BY <1>1, Changed
<1>4. /\ [lots EXCEPT ![l].status = "open"] = [lots EXCEPT ![l] = [lots[l] EXCEPT !.status = "open"]]
      /\ [lots EXCEPT ![l].status = "sold"] = [lots EXCEPT ![l] = [lots[l] EXCEPT !.status = "sold"]]
      /\ [lots EXCEPT ![l].number = n] = [lots EXCEPT ![l] = [lots[l] EXCEPT !.number = n]]
  OBVIOUS
<1> QED
  BY <1>2, <1>3, <1>4

LEMMA TypeSellLot ==
  ASSUME IngestInv, NEW h \in Threads, SellLot(h)
  PROVE  IngestInv'
<1>1. /\ TablesOK /\ ThreadOK(h) /\ thread[h].batch # << >>
      /\ thread[h].lot \in DOMAIN lots /\ thread[h].number \in Numbers \ {NoNumber}
      /\ lots' = [lots EXCEPT ![thread[h].lot].status = "sold"]
      /\ Acknowledge(h)
      /\ UNCHANGED <<events, now, results, tickets, cursor>>
  BY InvParts, ThreadShape DEF SellLot, ThreadOK, Handles
<1>2. lots' \in Seq(LotRow) /\ DOMAIN lots' = DOMAIN lots
  BY <1>1, LotRowWritten
<1>3. TablesOK' /\ TablesGrow
  BY <1>1, <1>2, EndsAttempt, LotWritten
<1> QED
  BY <1>1, <1>3, Ends

LEMMA TypeNameLot ==
  ASSUME IngestInv, NEW h \in Threads, NameLot(h)
  PROVE  IngestInv'
<1>1. /\ TablesOK /\ ThreadOK(h) /\ thread[h].batch # << >>
      /\ DOMAIN thread = Threads
      /\ thread[h].lot \in DOMAIN lots
      /\ Ev(h).lot # NoNumber
      /\ UNCHANGED <<events, now, results, tickets, cursor>>
  BY InvParts, ThreadShape DEF NameLot, ThreadOK, Handles
<1>2. /\ Ev(h).lot \in Numbers \ {NoNumber}
      /\ Ev(h).type \in {"lot_update", "auction_winner"}
  BY <1>1, EventOfThread, EventFields
<1>3. CASE Raise(h) /\ UNCHANGED lots
  <2>1. TablesOK' /\ TablesGrow
    BY <1>1, <1>3, EndsAttempt, LotWritten DEF TablesOK
  <2> QED
    BY <1>1, <1>3, <2>1, Ends
<1>4. CASE /\ lots' = [lots EXCEPT ![thread[h].lot].number = Ev(h).lot]
           /\ UNCHANGED failed
           /\ IF Ev(h).type = "lot_update"
                THEN Continue(h)
                ELSE thread' = [thread EXCEPT ![h].number = Ev(h).lot,
                                              ![h].step = "find"]
  <2>1. lots' \in Seq(LotRow) /\ DOMAIN lots' = DOMAIN lots
    BY <1>1, <1>2, <1>4, LotRowWritten
  <2>2. TablesOK' /\ TablesGrow
    BY <1>1, <1>4, <2>1, EndsAttempt, LotWritten
  <2>3. CASE Continue(h)
    BY <1>1, <2>2, <2>3, Ends
  <2>4. CASE /\ Ev(h).type = "auction_winner"
             /\ thread' = [thread EXCEPT ![h].number = Ev(h).lot, ![h].step = "find"]
    <3>1. PICK n \in Numbers \ {NoNumber} : n = Ev(h).lot
      BY <1>2
    <3>2. [thread[h] EXCEPT !.number = n, !.step = "find"] =
          [thread[h] EXCEPT !.lot = thread[h].lot, !.number = n, !.step = "find"]
      BY ThreadShape
    <3>3. Takes(h, "find", thread[h].lot, n)
      BY <1>1, <2>4, <3>1, <3>2 DEF Takes
    <3>4. thread[h].lot \in {NoId} \cup DOMAIN lots' /\ thread[h].lot # NoId
      BY <1>1, <2>1 DEF TablesOK, NoId
    <3> QED
      BY <1>1, <2>2, <2>4, <3>3, <3>4, TakesStep
  <2> QED
    BY <1>2, <1>4, <2>3, <2>4
<1> QED
  BY <1>3, <1>4 DEF NameLot

LEMMA TypeOpenLot ==
  ASSUME IngestInv, NEW h \in Threads, OpenLot(h)
  PROVE  IngestInv'
<1>1. /\ TablesOK /\ ThreadOK(h) /\ thread[h].batch # << >>
      /\ DOMAIN thread = Threads /\ Ev(h).lot # NoNumber
      /\ UNCHANGED <<events, now, results, tickets, failed, cursor>>
  BY InvParts DEF OpenLot, ThreadOK, Handles
<1>2. /\ Ev(h).lot \in Numbers \ {NoNumber}
      /\ Ev(h).type \in {"lot_update", "auction_winner"}
  BY <1>1, EventOfThread, EventFields
<1>3. PICK n, l :
        /\ n \in Numbers \ {NoNumber} /\ n = Ev(h).lot
        /\ l = (IF Numbered(n) = {} THEN Len(lots) + 1 ELSE Greatest(Numbered(n)))
        /\ lots' = IF Numbered(n) = {}
                     THEN Append(lots, [number |-> n, status |-> "open"])
                     ELSE [lots EXCEPT ![l].status = "open"]
        /\ IF Ev(h).type = "lot_update"
             THEN Continue(h)
             ELSE thread' = [thread EXCEPT ![h].lot = l, ![h].number = n,
                                           ![h].step = "check"]
  BY <1>2 DEF OpenLot, UpsertedLot
<1>4. /\ lots' \in Seq(LotRow) /\ DOMAIN lots \subseteq DOMAIN lots'
      /\ l \in DOMAIN lots' /\ l # NoId
  <2>1. lots \in Seq(LotRow)
    BY <1>1 DEF TablesOK
  <2>2. CASE Numbered(n) = {}
    <3>1. [number |-> n, status |-> "open"] \in LotRow
      BY <1>3 DEF LotRow
    <3>2. /\ lots' = Append(lots, [number |-> n, status |-> "open"])
          /\ l = Len(lots) + 1
      BY <1>3, <2>2
    <3> QED
      BY <2>1, <3>1, <3>2 DEF NoId
  <2>3. CASE Numbered(n) # {}
    <3>1. Numbered(n) \in SUBSET DOMAIN lots
      BY DEF Numbered
    <3>2. l \in DOMAIN lots
      BY <1>3, <2>1, <2>3, <3>1, LatestRow
    <3>3. lots' = [lots EXCEPT ![l].status = "open"]
      BY <1>3, <2>3
    <3> QED
      BY <1>1, <2>1, <3>2, <3>3, LotRowWritten, LotNumbers
  <2> QED
    BY <2>2, <2>3
<1>5. TablesOK' /\ TablesGrow
  BY <1>1, <1>4, EndsAttempt, LotWritten
<1>6. CASE Continue(h)
  BY <1>1, <1>5, <1>6, Ends
<1>7. CASE /\ Ev(h).type = "auction_winner"
           /\ thread' = [thread EXCEPT ![h].lot = l, ![h].number = n, ![h].step = "check"]
  <2>1. Takes(h, "check", l, n)
    BY <1>7 DEF Takes
  <2> QED
    BY <1>1, <1>3, <1>4, <1>5, <1>7, <2>1, TakesStep
<1> QED
  BY <1>2, <1>3, <1>6, <1>7

-----------------------------------------------------------------------------
(* Requests, the stream and the operator *)

LEMMA TypeBreak ==
  ASSUME IngestInv, NEW h \in Threads, Break(h)
  PROVE  IngestInv'
<1>1. TablesOK /\ Untouched /\ thread[h].batch # << >> /\ Raise(h)
  BY InvParts DEF Break, Untouched
<1>2. TablesOK' /\ TablesGrow
  BY <1>1, EndsAttempt, UntouchedTables
<1> QED
  BY <1>1, <1>2, Ends

LEMMA TypeFinish ==
  ASSUME IngestInv, NEW h \in Threads, Finish(h)
  PROVE  IngestInv'
<1>1. /\ TablesOK /\ DOMAIN thread = Threads /\ ThreadOK(h)
      /\ UNCHANGED <<events, now, lots, results, tickets, failed>>
      /\ thread' = [thread EXCEPT ![h] = IdleThread]
  BY InvParts DEF Finish, tables
<1>2. cursor' \in 0 .. Len(events')
  BY <1>1 DEF Finish, ThreadOK, IsThread, TablesOK
<1>3. TablesOK' /\ TablesGrow
  BY <1>1, <1>2 DEF TablesOK, TablesGrow
<1>4. ThreadOK(h)'
  BY <1>1, <1>3, IdleThreadOK
<1> QED
  BY <1>1, <1>3, <1>4, ThreadSteps

LEMMA TypeStarts ==
  ASSUME IngestInv, NEW h \in Threads, NEW r \in Routes,
         NEW b \in Seq(DOMAIN events), Starts(h, r, b)
  PROVE  IngestInv'
<1> DEFINE t == [IdleThread EXCEPT !.step = "next", !.route = r, !.batch = b,
                                   !.upto = b[Len(b)]]
<1>1. /\ TablesOK /\ DOMAIN thread = Threads /\ b # << >>
      /\ Untouched /\ UNCHANGED failed
      /\ thread' = [thread EXCEPT ![h] = t]
  BY InvParts DEF Starts, Untouched, tables
<1>2. TablesOK' /\ TablesGrow
  BY <1>1, EndsAttempt, UntouchedTables
<1>3. b \in Seq(DOMAIN events') /\ b[Len(b)] \in 0 .. Len(events')
  <2>1. UNCHANGED events
    BY <1>1 DEF Untouched
  <2>2. b[Len(b)] \in DOMAIN events
    BY <1>1, ElementOfSeq
  <2>3. events \in Seq(Event)
    BY <1>1 DEF TablesOK
  <2> QED
    BY <2>1, <2>2, <2>3
<1>4. PICK u \in 0 .. Len(events') : u = b[Len(b)]
  BY <1>3
<1>5. thread'[h] = [IdleThread EXCEPT !.step = "next", !.route = r,
                                      !.upto = u, !.batch = b]
  BY <1>1, <1>4 DEF IdleThread
<1>6. ThreadOK(h)'
  BY <1>2, <1>3, <1>5, NextThreadOK
<1> HIDE DEF t
<1> QED
  BY <1>1, <1>2, <1>6, ThreadSteps

LEMMA TypePolls ==
  ASSUME IngestInv, NEW h \in Threads, PollStats(h) \/ PollFeed(h) \/ Retry(h)
  PROVE  IngestInv'
<1>1. TablesOK /\ events \in Seq(Event) /\ cursor \in 0 .. Len(events)
  BY InvParts DEF TablesOK
<1>2. CASE PollStats(h)
  <2>1. [e \in DOMAIN events |-> e] \in Seq(DOMAIN events)
    <3>1. DOMAIN events = 1 .. Len(events) /\ Len(events) \in Nat
      BY <1>1
    <3> QED
      BY <3>1, IsASeq
  <2> QED
    BY <1>2, <2>1, TypeStarts DEF PollStats, Routes
<1>3. CASE PollFeed(h)
  <2> DEFINE n == Len(events) - cursor
  <2>1. n \in Nat /\ [k \in 1 .. n |-> cursor + k] \in [1 .. n -> DOMAIN events]
    BY <1>1
  <2>2. [k \in 1 .. n |-> cursor + k] \in Seq(DOMAIN events)
    BY <2>1, IsASeq
  <2> QED
    BY <1>3, <2>2, TypeStarts DEF PollFeed, Routes
<1>4. CASE Retry(h)
  <2>1. PICK e \in DOMAIN failed : Starts(h, "retry", <<e>>)
    BY <1>4 DEF Retry
  <2>2. <<e>> \in Seq(DOMAIN events)
    BY <1>1 DEF TablesOK
  <2> QED
    BY <2>1, <2>2, TypeStarts DEF Routes
<1> QED
  BY <1>2, <1>3, <1>4

(***************************************************************************)
(* Steps that leave the threads alone.                                     *)
(***************************************************************************)
LEMMA ThreadsKept ==
  ASSUME IngestInv, TablesOK', TablesGrow, UNCHANGED thread
  PROVE  IngestInv'
<1>1. TablesOK /\ DOMAIN thread = Threads /\ \A h \in Threads : ThreadOK(h)
  BY InvParts
<1>2. \A h \in Threads : ThreadOK(h)'
  BY <1>1, ThreadKept
<1>3. (TablesOK /\ DOMAIN thread = Threads /\ \A h \in Threads : ThreadOK(h))'
  BY <1>1, <1>2
<1> QED
  BY <1>3 DEF IngestInv, IngestTypeOK, TablesOK, ThreadOK

LEMMA TypeReview ==
  ASSUME IngestInv, Review
  PROVE  /\ IngestInv'
         /\ DOMAIN tickets' = DOMAIN tickets
         /\ \A t \in DOMAIN tickets :
              \E s \in TicketStatuses : tickets'[t] = [tickets[t] EXCEPT !.status = s]
<1>1. TablesOK /\ tickets \in Seq(TicketRow)
      /\ UNCHANGED <<events, now, lots, results, failed, cursor, thread>>
  BY InvParts DEF Review, TablesOK
<1>2. PICK t \in DOMAIN tickets, s \in TicketStatuses :
        tickets' = [tickets EXCEPT ![t].status = s]
  BY DEF Review
<1>3. /\ tickets[t] \in TicketRow
      /\ [tickets[t] EXCEPT !.status = s] \in TicketRow
      /\ tickets' = [tickets EXCEPT ![t] = [tickets[t] EXCEPT !.status = s]]
  <2>1. tickets[t] \in TicketRow
    BY <1>1, ElementOfSeq
  <2> QED
    BY <1>2, <2>1 DEF TicketRow
<1>4. /\ tickets' \in Seq(TicketRow) /\ DOMAIN tickets' = DOMAIN tickets
      /\ tickets'[t] = [tickets[t] EXCEPT !.status = s]
      /\ \A u \in DOMAIN tickets : u # t => tickets'[u] = tickets[u]
  BY <1>1, <1>3, Changed
<1>5. TablesOK' /\ TablesGrow
  BY <1>1, <1>4 DEF TablesOK, TablesGrow
<1>6. ASSUME NEW u \in DOMAIN tickets, u # t
      PROVE  tickets'[u] = [tickets[u] EXCEPT !.status = tickets[u].status]
             /\ tickets[u].status \in TicketStatuses
  <2>1. tickets[u] \in TicketRow
    BY <1>1, ElementOfSeq
  <2> QED
    BY <1>4, <1>6, <2>1 DEF TicketRow
<1>7. IngestInv'
  BY <1>1, <1>5, ThreadsKept
<1>8. \A u \in DOMAIN tickets :
        \E st \in TicketStatuses : tickets'[u] = [tickets[u] EXCEPT !.status = st]
  BY <1>4, <1>6
<1> QED
  BY <1>4, <1>7, <1>8

LEMMA TypeStream ==
  ASSUME IngestInv, LotUpdate \/ AuctionWinner
  PROVE  IngestInv' /\ TablesGrow
<1>1. TablesOK /\ UNCHANGED <<now, lots, results, tickets, failed, cursor, thread>>
  BY InvParts DEF LotUpdate, AuctionWinner, tables
<1>2. events \in Seq(Event) /\ now \in Nat /\ cursor \in 0 .. Len(events)
  BY <1>1 DEF TablesOK
<1>3. LastNumber \in Numbers
  <2>1. events # << >> => events[Len(events)] \in Event
    BY <1>2
  <2> QED
    BY <2>1, EventFields, IngestConstants DEF LastNumber, Numbers, NoNumber
<1>4. PICK e \in Event : events' = Append(events, e)
  <2>1. CASE LotUpdate
    <3>1. PICK n \in 1 .. MaxLot : events' = Append(events, [type |-> "lot_update", lot |-> n])
      BY <2>1 DEF LotUpdate
    <3>2. [type |-> "lot_update", lot |-> n] \in Event
      BY <3>1, IngestConstants DEF Event, Numbers, NoNumber
    <3> QED
      BY <3>1, <3>2
  <2>2. CASE AuctionWinner
    <3>1. PICK b \in Buyers, p \in Prices :
            events' = Append(events, [type |-> "auction_winner", lot |-> LastNumber,
                                      buyer |-> b, price |-> p, at |-> now])
      BY <2>2 DEF AuctionWinner
    <3>2. [type |-> "auction_winner", lot |-> LastNumber,
           buyer |-> b, price |-> p, at |-> now] \in Event
      BY <1>2, <1>3 DEF Event
    <3> QED
      BY <3>1, <3>2
  <2> QED
    BY <2>1, <2>2
<1>5. /\ events' \in Seq(Event) /\ Len(events') = Len(events) + 1
      /\ \A i \in DOMAIN events : i \in DOMAIN events' /\ events'[i] = events[i]
  BY <1>2, <1>4, Appended
<1>6. TablesGrow
  BY <1>1, <1>2, <1>5 DEF TablesGrow
<1>7. TablesOK'
  <2>1. cursor' \in 0 .. Len(events') /\ DOMAIN events \subseteq DOMAIN events'
    BY <1>1, <1>2, <1>5
  <2> QED
    BY <1>1, <1>5, <2>1 DEF TablesOK
<1> QED
  BY <1>1, <1>6, <1>7, ThreadsKept

LEMMA TypeTick ==
  ASSUME IngestInv, Tick
  PROVE  IngestInv'
<1>1. TablesOK /\ UNCHANGED <<events, lots, results, tickets, failed, cursor, thread>>
      /\ now' = now + 1
  BY InvParts DEF Tick, tables
<1>2. TablesOK' /\ TablesGrow
  BY <1>1 DEF TablesOK, TablesGrow
<1> QED
  BY <1>1, <1>2, ThreadsKept

LEMMA TypeIngest ==
  ASSUME IngestInv, NEW h \in Threads, Ingest(h)
  PROVE  IngestInv' /\ events' = events
<1>1. IngestInv'
  BY TypeSyncLot, TypeOpenLot, TypeNameLot, TypeCheckDuplicate, TypeFindLot,
     TypeCheckRecorded, TypeFindResult, TypeInsertResult, TypeUpgradeResult,
     TypeLookUpTicket, TypeQueueTicket, TypeSellLot, TypeFinish DEF Ingest
<1>2. events' = events
  BY DEF Ingest, SyncLot, OpenLot, NameLot, CheckDuplicate, FindLot, CheckRecorded,
     FindResult, InsertResult, UpgradeResult, LookUpTicket, QueueTicket, SellLot, Finish
<1> QED
  BY <1>1, <1>2

LEMMA TypeInit == SessionInit => IngestInv /\ answered \subseteq Winners
<1> SUFFICES ASSUME SessionInit
             PROVE  IngestInv /\ answered \subseteq Winners
  OBVIOUS
<1>1. /\ events = << >> /\ now = 0 /\ lots = << >> /\ results = << >>
      /\ tickets = << >> /\ failed = << >> /\ cursor = 0 /\ answered = {}
      /\ thread = [h \in Threads |-> IdleThread]
  BY DEF SessionInit, IngestInit
<1>2. TablesOK
  BY <1>1 DEF TablesOK
<1>3. \A h \in Threads : ThreadOK(h)
  <2>1. /\ << >> \in Seq(DOMAIN events) /\ 0 \in 0 .. Len(events) /\ NoNumber \in Numbers
    BY <1>1, IngestConstants, EmptySeq DEF NoNumber, Numbers
  <2> QED
    BY <1>1, <2>1 DEF ThreadOK, IsThread, IdleThread, Handles, Steps, Routes, NoId, NoNumber
<1> QED
  BY <1>1, <1>2, <1>3, InvParts

LEMMA WinnersStay ==
  ASSUME TablesGrow
  PROVE  Winners \subseteq Winners'
BY DEF TablesGrow, Winners

LEMMA TypeNext ==
  ASSUME IngestInv, answered \subseteq Winners, [SessionNext]_sessionVars
  PROVE  IngestInv' /\ (answered \subseteq Winners)'
<1>1. CASE UNCHANGED sessionVars
  BY <1>1 DEF sessionVars, ingestVars, tables, IngestInv, IngestTypeOK, IsThread,
     Handles, Ev, Current, Winners
<1>2. CASE Stream
  BY <1>2, TypeStream, WinnersStay DEF Stream
<1>3. CASE Wait \/ Operate
  <2>1. events' = events /\ answered' = answered
    BY <1>3 DEF Wait, Operate, Tick, Review
  <2>2. IngestInv'
    BY <1>3, TypeTick, TypeReview DEF Wait, Operate
  <2> QED
    BY <2>1, <2>2 DEF Winners
<1>4. ASSUME NEW h \in Threads, Poll(h) \/ Fault(h)
      PROVE  IngestInv' /\ (answered \subseteq Winners)'
  <2>1. events' = events /\ answered' = answered
    BY <1>4 DEF Poll, Fault, PollFeed, PollStats, Retry, Starts, Break
  <2>2. IngestInv'
    BY <1>4, TypePolls, TypeBreak DEF Poll, Fault
  <2> QED
    BY <2>1, <2>2 DEF Winners
<1>5. ASSUME NEW h \in Threads, Work(h)
      PROVE  IngestInv' /\ (answered \subseteq Winners)'
  <2>1. IngestInv' /\ events' = events
    BY <1>5, TypeIngest DEF Work
  <2>2. answered' \subseteq Winners
    BY <1>5 DEF Work, Answers
  <2> QED
    BY <2>1, <2>2 DEF Winners
<1> QED
  BY <1>1, <1>2, <1>3, <1>4, <1>5 DEF SessionNext

LEMMA InvAlways == SessionSpec => [](IngestInv /\ answered \subseteq Winners)
<1>1. SessionInit => IngestInv /\ answered \subseteq Winners
  BY TypeInit
<1>2. (IngestInv /\ answered \subseteq Winners) /\ [SessionNext]_sessionVars
        => (IngestInv /\ answered \subseteq Winners)'
  BY TypeNext
<1> QED
  BY <1>1, <1>2, PTL DEF SessionSpec

(***************************************************************************)
(* A live session keeps its rows in shape, for any stream, any number of   *)
(* request threads and any failures: no step of _maybe_ingest_winner_event *)
(* writes a row without a lot number, or goes on with a lot, a result or a *)
(* ticket that is not there.                                               *)
(***************************************************************************)
THEOREM SessionTyped == SessionSpec => []SessionTypeOK
<1>1. IngestInv /\ answered \subseteq Winners => SessionTypeOK
  BY DEF IngestInv, SessionTypeOK
<1> QED
  BY <1>1, InvAlways, PTL

-----------------------------------------------------------------------------
(* What happens to the tickets *)

(***************************************************************************)
(* Only _maybe_ingest_winner_event's last transaction and the operator     *)
(* write tickets.                                                          *)
(***************************************************************************)
LEMMA ThreadTickets ==
  ASSUME NEW h \in Threads, Poll(h) \/ Work(h) \/ Fault(h), tickets' # tickets
  PROVE  Work(h) /\ QueueTicket(h)
BY DEF Poll, Fault, PollFeed, PollStats, Retry, Starts, Break, Work, Ingest,
     SyncLot, OpenLot, NameLot, CheckDuplicate, FindLot, CheckRecorded,
     FindResult, InsertResult, UpgradeResult, LookUpTicket, SellLot, Finish, tables

LEMMA TicketWriters ==
  ASSUME [SessionNext]_sessionVars, tickets' # tickets
  PROVE  Operate \/ \E h \in Threads : Work(h) /\ QueueTicket(h)
<1>1. ~ UNCHANGED sessionVars
  BY DEF sessionVars, ingestVars, tables
<1>2. ~Stream /\ ~Wait
  BY DEF Stream, Wait, LotUpdate, AuctionWinner, Tick, tables
<1> QED
  BY <1>1, <1>2, ThreadTickets DEF SessionNext

LEMMA TicketsStay ==
  ASSUME IngestInv, [SessionNext]_sessionVars, NEW t \in DOMAIN tickets
  PROVE  /\ tickets'[t].price >= tickets[t].price
         /\ tickets'[t].number = tickets[t].number
         /\ tickets'[t].buyer = tickets[t].buyer
<1>1. tickets \in Seq(TicketRow) /\ tickets[t] \in TicketRow
      /\ tickets[t].price \in Nat
  <2>1. tickets \in Seq(TicketRow)
    BY InvParts DEF TablesOK
  <2>2. tickets[t] \in TicketRow
    BY <2>1, ElementOfSeq
  <2>3. \A row \in TicketRow : row.price \in Nat
    BY IngestConstants DEF TicketRow
  <2> QED
    BY <2>1, <2>2, <2>3
<1>2. CASE tickets' = tickets
  BY <1>1, <1>2
<1>3. CASE Operate
  <2>1. \E s \in TicketStatuses : tickets'[t] = [tickets[t] EXCEPT !.status = s]
    BY <1>3, TypeReview DEF Operate
  <2> QED
    BY <1>1, <2>1 DEF TicketRow
<1>4. ASSUME NEW h \in Threads, QueueTicket(h)
      PROVE  /\ tickets'[t].price >= tickets[t].price
             /\ tickets'[t].number = tickets[t].number
             /\ tickets'[t].buyer = tickets[t].buyer
  <2>1. Asked(h) \in TicketRow /\ TicketsQueued(h)
    BY <1>4, AskedType, QueueWrites DEF QueueTicket
  <2>2. CASE tickets' = Append(tickets, Asked(h))
    <3>1. tickets'[t] = tickets[t]
      BY <1>1, <2>1, <2>2, Appended
    <3> QED
      BY <1>1, <3>1
  <2>3. CASE /\ thread[h].ticket \in DOMAIN tickets
             /\ tickets' = [tickets EXCEPT ![thread[h].ticket] =
                              UpdatedTicket(@, Asked(h))]
    <3>1. \/ tickets'[t] = tickets[t]
          \/ tickets'[t] = UpdatedTicket(tickets[t], Asked(h))
      BY <2>3
    <3> QED
      BY <1>1, <2>1, <3>1, UpdatedTicketType
  <2> QED
    BY <1>1, <2>1, <2>2, <2>3 DEF TicketsQueued
<1> QED
  BY <1>2, <1>3, <1>4, TicketWriters

(***************************************************************************)
(* However requests interleave and fail, a ticket keeps its lot number and *)
(* its buyer, and a weaker price that comes late does not lower its price. *)
(***************************************************************************)
THEOREM TicketsSettle == SessionSpec => TicketsKept
<1>1. IngestInv /\ [SessionNext]_sessionVars
        => [\A t \in DOMAIN tickets :
              /\ tickets'[t].price >= tickets[t].price
              /\ tickets'[t].number = tickets[t].number
              /\ tickets'[t].buyer = tickets[t].buyer]_tickets
  BY TicketsStay
<1> QED
  BY <1>1, InvAlways, PTL DEF SessionSpec, TicketsKept

-----------------------------------------------------------------------------
(* Requests that do not overlap *)

(***************************************************************************)
(* A request that is about to write a ticket has looked for it among the   *)
(* tickets as they still are, and no ticket of the lot is confirmed.       *)
(***************************************************************************)
QueueKnows(h) ==
  thread[h].step = "queue" =>
    /\ thread[h].ticket = TicketFor(h)
    /\ Confirmed(Asked(h).number) = {}

OneRequest ==
  Alone => /\ \A h, k \in Busy : h = k
           /\ \A h \in Threads : QueueKnows(h)

LEMMA AtMostOne ==
  ASSUME NEW S, IsFiniteSet(S), ~(Cardinality(S) > 1), NEW a \in S, NEW b \in S
  PROVE  a = b
<1> SUFFICES ASSUME a # b
             PROVE  FALSE
  OBVIOUS
<1>1. Cardinality({a}) = 1 /\ IsFiniteSet({a})
  BY FS_Singleton
<1>2. Cardinality({a} \cup {b}) = 2
  BY <1>1, FS_AddElement
<1>3. Cardinality({a} \cup {b}) <= Cardinality(S)
  BY FS_Subset
<1>4. Cardinality(S) \in Nat
  BY FS_CardinalityType
<1> QED
  BY <1>2, <1>3, <1>4

LEMMA NotedAlone ==
  ASSUME NEW what, Notes(what), Alone'
  PROVE  /\ Alone /\ "overlap" \notin what
         /\ \A h, k \in Busy' : h = k
<1>1. ~(Cardinality(Busy') > 1) /\ Alone /\ "overlap" \notin what
  BY DEF Notes, Alone
<1>2. IsFiniteSet(Busy')
  BY IngestConstants, FS_Subset DEF Busy
<1> QED
  BY <1>1, <1>2, AtMostOne

(***************************************************************************)
(* What a step of one thread leaves to the others, and where it gets to.   *)
(***************************************************************************)
Upgraded(h, row) ==
  thread' = [thread EXCEPT ![h].step = "lookup", ![h].mode = "known", ![h].row = row]

Found(h, r, row) ==
  thread' = [thread EXCEPT ![h].step = "record", ![h].result = r, ![h].row = row]

Inserted(h, r, row) ==
  thread' = [thread EXCEPT ![h].step = "lookup", ![h].mode = "new",
                           ![h].result = r, ![h].row = row]

Opened(h, l, n) ==
  thread' = [thread EXCEPT ![h].lot = l, ![h].number = n, ![h].step = "check"]

Named(h, n) ==
  thread' = [thread EXCEPT ![h].number = n, ![h].step = "find"]

LEMMA Finds ==
  ASSUME NEW h \in Threads, FindResult(h)
  PROVE  \E r, row : Found(h, r, row)
<1> DEFINE r == IF ResultOf(Current(h)) # {} THEN Greatest(ResultOf(Current(h)))
                                           ELSE Duplicate(h)
<1>1. Found(h, r, IF r = NoId THEN NoRow ELSE results[r])
  BY DEF FindResult, Found
<1> HIDE DEF r
<1> QED
  BY <1>1

LEMMA Inserts ==
  ASSUME NEW h \in Threads, InsertResult(h)
  PROVE  \E r, row : Inserted(h, r, row)
<1> DEFINE r == IF ResultOf(Current(h)) = {} THEN Len(results) + 1
                                           ELSE Greatest(ResultOf(Current(h)))
<1>1. Inserted(h, r, results'[r])
  BY DEF InsertResult, Inserted
<1> HIDE DEF r
<1> QED
  BY <1>1

LEMMA Opens ==
  ASSUME NEW h \in Threads, OpenLot(h)
  PROVE  Continue(h) \/ \E l, n : Opened(h, l, n)
<1>1. Continue(h) \/ Opened(h, UpsertedLot(Ev(h).lot), Ev(h).lot)
  BY DEF OpenLot, Opened
<1> QED
  BY <1>1

LEMMA Names ==
  ASSUME NEW h \in Threads, NameLot(h)
  PROVE  Raise(h) \/ Continue(h) \/ \E n : Named(h, n)
<1>1. Raise(h) \/ Continue(h) \/ Named(h, Ev(h).lot)
  BY DEF NameLot, Named
<1> QED
  BY <1>1

LEMMA Upgrades ==
  ASSUME NEW h \in Threads, UpgradeResult(h), h \in DOMAIN thread
  PROVE  Raise(h) \/ \E row : Upgraded(h, row)
<1>1. CASE Ev(h).price > thread[h].row.price
  BY <1>1 DEF UpgradeResult, Upgraded
<1>2. CASE ~(Ev(h).price > thread[h].row.price)
  <2>1. Upgraded(h, thread[h].row)
    BY <1>2 DEF UpgradeResult, Upgraded
  <2> QED
    BY <2>1
<1> QED
  BY <1>1, <1>2

LEMMA StepOfThread ==
  ASSUME IngestInv, NEW h \in Threads, Poll(h) \/ Work(h) \/ Fault(h)
  PROVE  /\ DOMAIN thread' = Threads
         /\ \A k \in Threads : k # h => thread'[k] = thread[k]
         /\ events' = events
         /\ \E what : Notes(what)
<1>1. DOMAIN thread = Threads
  BY InvParts
<1>2. PICK t : thread' = [thread EXCEPT ![h] = t]
  <2>1. CASE Poll(h)
    BY <2>1 DEF Poll, PollFeed, PollStats, Retry, Starts
  <2>2. CASE Fault(h)
    BY <2>2 DEF Fault, Break, Raise
  <2>3. CASE Work(h)
    <3>1. Raise(h) \/ Continue(h) \/ Acknowledge(h) \/ (\E s : Goes(h, s))
             => \E t : thread' = [thread EXCEPT ![h] = t]
      BY DEF Raise, Continue, Acknowledge, Goes
    <3>2. CASE QueueTicket(h) \/ LookUpTicket(h)
      <4>1. \/ Raise(h) \/ Queued(h)
            \/ thread' = [thread EXCEPT ![h].step = "queue", ![h].ticket = TicketFor(h)]
        BY <3>2 DEF QueueTicket, LookUpTicket
      <4>2. CASE thread' = [thread EXCEPT ![h].step = "queue", ![h].ticket = TicketFor(h)]
        BY <1>1, <4>2
      <4> QED
        BY <3>1, <4>1, <4>2, QueuedKinds
    <3>3. CASE SyncLot(h) \/ FindLot(h) \/ CheckRecorded(h)
      <4>1. ASSUME NEW l, NEW s, HasLot(h, l, s) \/ HasResult(h, l, s)
            PROVE  \E t : thread' = [thread EXCEPT ![h] = t]
        BY <1>1, <4>1 DEF HasLot, HasResult
      <4> QED
        BY <3>1, <3>3, <4>1 DEF SyncLot, FindLot, CheckRecorded
    <3>4. CASE OpenLot(h) \/ NameLot(h)
      <4>1. ASSUME NEW l, NEW n, Opened(h, l, n) \/ Named(h, n)
            PROVE  \E t : thread' = [thread EXCEPT ![h] = t]
        BY <1>1, <4>1 DEF Opened, Named
      <4> QED
        BY <3>1, <3>4, <4>1, Opens, Names
    <3>5. CASE FindResult(h) \/ InsertResult(h)
      <4>1. ASSUME NEW r, NEW row, Found(h, r, row) \/ Inserted(h, r, row)
            PROVE  \E t : thread' = [thread EXCEPT ![h] = t]
        BY <1>1, <4>1 DEF Found, Inserted
      <4> QED
        BY <3>5, <4>1, Finds, Inserts
    <3>7. CASE UpgradeResult(h)
      <4>1. ASSUME NEW row, Upgraded(h, row)
            PROVE  \E t : thread' = [thread EXCEPT ![h] = t]
        BY <1>1, <4>1 DEF Upgraded
      <4> QED
        BY <1>1, <3>1, <3>7, <4>1, Upgrades
    <3>6. CASE CheckDuplicate(h) \/ SellLot(h) \/ Finish(h)
      BY <1>1, <3>1, <3>6 DEF CheckDuplicate, SellLot, Finish
    <3> QED
      BY <2>3, <3>2, <3>3, <3>4, <3>5, <3>6, <3>7 DEF Work, Ingest
  <2> QED
    BY <2>1, <2>2, <2>3
<1>3. events' = events
  BY TypeIngest DEF Poll, Fault, PollFeed, PollStats, Retry, Starts, Break, Work
<1>4. \E what : Notes(what)
  BY DEF Poll, Fault, Work
<1> QED
  BY <1>1, <1>2, <1>3, <1>4

LEMMA QueueReached ==
  ASSUME IngestInv, NEW h \in Threads, Poll(h) \/ Work(h) \/ Fault(h),
         thread'[h].step = "queue"
  PROVE  /\ thread'[h] = [thread[h] EXCEPT !.step = "queue", !.ticket = TicketFor(h)]
         /\ ~(Asked(h).number # NoNumber /\ Confirmed(Asked(h).number) # {})
         /\ thread[h].step = "lookup" /\ UNCHANGED tickets
<1>1. DOMAIN thread = Threads /\ DOMAIN thread[h] = DOMAIN IdleThread
  BY ThreadShape
<1>2. "step" \in DOMAIN thread[h]
  BY <1>1 DEF IdleThread
<1>3. /\ Raise(h) => thread'[h].step = "idle"
      /\ Continue(h) => thread'[h].step = "next"
      /\ Acknowledge(h) => thread'[h].step = "next"
      /\ \A s : Goes(h, s) => thread'[h].step = s
      /\ \A l, s : HasLot(h, l, s) => thread'[h].step = s
      /\ \A r, s : HasResult(h, r, s) => thread'[h].step = s
  <2>1. /\ Raise(h) => thread'[h].step = "idle"
        /\ Continue(h) => thread'[h].step = "next"
    <3>1. Raise(h) => thread'[h].step = "idle"
      BY <1>1 DEF Raise, IdleThread
    <3>2. Continue(h) => thread'[h].step = "next"
      BY <1>1 DEF Continue, IdleThread
    <3> QED
      BY <3>1, <3>2
  <2>5. \A s : Goes(h, s) => thread'[h].step = s
    BY <1>1, <1>2 DEF Goes
  <2>2. Acknowledge(h) => thread'[h].step = "next"
    BY <2>1 DEF Acknowledge
  <2>3. \A l, s : HasLot(h, l, s) => thread'[h].step = s
    BY <1>1, <1>2 DEF HasLot
  <2>4. \A r, s : HasResult(h, r, s) => thread'[h].step = s
    BY <1>1, <1>2 DEF HasResult
  <2> QED
    BY <2>1, <2>2, <2>3, <2>4, <2>5
<1>4. Queued(h) => thread'[h].step # "queue"
  BY <1>3, QueuedKinds
<1>5. ~Poll(h) /\ ~Fault(h)
  <2>1. ~Fault(h)
    BY <1>3 DEF Fault, Break
  <2>2. ASSUME NEW r, NEW b, Starts(h, r, b)
        PROVE  FALSE
    BY <1>1, <2>2 DEF Starts, IdleThread
  <2> QED
    BY <2>1, <2>2 DEF Poll, PollFeed, PollStats, Retry
<1>6. /\ ~SyncLot(h) /\ ~FindLot(h) /\ ~CheckRecorded(h) /\ ~CheckDuplicate(h)
      /\ ~SellLot(h) /\ ~QueueTicket(h) /\ ~Finish(h)
  <2>1. ~SyncLot(h) /\ ~CheckDuplicate(h) /\ ~SellLot(h)
    BY <1>3 DEF SyncLot, CheckDuplicate, SellLot
  <2>2. ~FindLot(h)
    BY <1>3 DEF FindLot
  <2>3. ~CheckRecorded(h)
    <3>1. CheckRecorded(h) => \/ Acknowledge(h) \/ Goes(h, "find") \/ Goes(h, "name")
                              \/ \E r : HasResult(h, r, "lookup")
      BY DEF CheckRecorded
    <3> QED
      BY <1>3, <3>1
  <2>4. ~QueueTicket(h)
    BY <1>3, <1>4 DEF QueueTicket
  <2>5. ~Finish(h)
    BY <1>1 DEF Finish, IdleThread
  <2> QED
    BY <2>1, <2>2, <2>3, <2>4, <2>5
<1>7. ~OpenLot(h) /\ ~NameLot(h)
  <2>1. \A l, n : Opened(h, l, n) => thread'[h].step = "check"
    BY <1>1, <1>2 DEF Opened
  <2>2. \A n : Named(h, n) => thread'[h].step = "find"
    BY <1>1, <1>2 DEF Named
  <2> QED
    BY <1>3, <2>1, <2>2, Opens, Names
<1>8. ~FindResult(h) /\ ~InsertResult(h) /\ ~UpgradeResult(h)
  <2>1. \A r, row : Found(h, r, row) => thread'[h].step = "record"
    BY <1>1, <1>2 DEF Found
  <2>2. \A r, row : Inserted(h, r, row) => thread'[h].step = "lookup"
    BY <1>1, <1>2 DEF Inserted
  <2>3. \A row : Upgraded(h, row) => thread'[h].step = "lookup"
    BY <1>1, <1>2 DEF Upgraded
  <2> QED
    BY <1>1, <1>3, <2>1, <2>2, <2>3, Finds, Inserts, Upgrades
<1>9. LookUpTicket(h)
  BY <1>5, <1>6, <1>7, <1>8 DEF Work, Ingest
<1>10. /\ ~(Asked(h).number # NoNumber /\ Confirmed(Asked(h).number) # {})
       /\ thread' = [thread EXCEPT ![h].step = "queue", ![h].ticket = TicketFor(h)]
  BY <1>4, <1>9 DEF LookUpTicket
<1> QED
  BY <1>1, <1>9, <1>10 DEF LookUpTicket

(***************************************************************************)
(* What a request asks for depends on what it has found, its event and the *)
(* tickets.                                                                *)
(***************************************************************************)
SameFindings(h) ==
  /\ thread'[h].batch = thread[h].batch /\ thread'[h].lot = thread[h].lot
  /\ thread'[h].number = thread[h].number /\ thread'[h].result = thread[h].result
  /\ thread'[h].row = thread[h].row /\ thread'[h].mode = thread[h].mode

LEMMA AsksTheSame ==
  ASSUME IngestInv, NEW h \in Threads, thread[h].batch # << >>,
         \A e \in DOMAIN events : events'[e] = events[e],
         SameFindings(h), UNCHANGED tickets
  PROVE  /\ Asked(h)' = Asked(h) /\ TicketFor(h)' = TicketFor(h)
         /\ Confirmed(Asked(h).number)' = Confirmed(Asked(h).number)
<1>1. Current(h)' = Current(h)
  BY DEF Current, SameFindings
<1>2. Ev(h)' = Ev(h)
  <2>1. Current(h) \in DOMAIN events
    BY InvParts, EventOfThread
  <2> QED
    BY <1>1, <2>1 DEF Ev
<1>3. Asked(h)' = Asked(h)
  <2>1. NumberFor(h)' = NumberFor(h) /\ TicketLot(h)' = TicketLot(h)
    BY <1>2 DEF NumberFor, TicketLot, SameFindings
  <2> QED
    BY <1>1, <1>2, <2>1 DEF Asked, SameFindings
<1>4. TicketFor(h)' = TicketFor(h)
  BY <1>3 DEF TicketFor, TicketOf
<1>5. Confirmed(Asked(h).number)' = Confirmed(Asked(h).number)
  BY <1>3 DEF Confirmed
<1> QED
  BY <1>3, <1>4, <1>5

LEMMA KnowsStill ==
  ASSUME IngestInv, NEW k \in Threads, thread'[k] = thread[k], UNCHANGED tickets,
         \A e \in DOMAIN events : events'[e] = events[e], QueueKnows(k)
  PROVE  QueueKnows(k)'
<1>1. CASE thread[k].step # "queue"
  BY <1>1 DEF QueueKnows
<1>2. CASE thread[k].step = "queue"
  <2>1. thread[k].batch # << >>
    BY <1>2, InvParts DEF ThreadOK
  <2>2. /\ TicketFor(k)' = TicketFor(k)
        /\ Confirmed(Asked(k).number)' = Confirmed(Asked(k).number)
    BY <2>1, AsksTheSame DEF SameFindings
  <2> QED
    BY <1>2, <2>2 DEF QueueKnows
<1> QED
  BY <1>1, <1>2

LEMMA KnowsReached ==
  ASSUME IngestInv, NEW h \in Threads, Poll(h) \/ Work(h) \/ Fault(h)
  PROVE  QueueKnows(h)'
<1> SUFFICES ASSUME thread'[h].step = "queue"
             PROVE  /\ thread'[h].ticket = TicketFor(h)'
                    /\ Confirmed(Asked(h).number)' = {}
  BY DEF QueueKnows
<1>1. /\ thread'[h] = [thread[h] EXCEPT !.step = "queue", !.ticket = TicketFor(h)]
      /\ ~(Asked(h).number # NoNumber /\ Confirmed(Asked(h).number) # {})
      /\ thread[h].step = "lookup" /\ UNCHANGED tickets
  BY QueueReached
<1>2. thread[h].batch # << >> /\ Asked(h) \in TicketRow
  BY <1>1, InvParts, AskedType DEF ThreadOK
<1>3. SameFindings(h) /\ thread'[h].ticket = TicketFor(h)
  BY <1>1, ThreadShape DEF SameFindings
<1>4. events' = events
  BY StepOfThread
<1>5. /\ TicketFor(h)' = TicketFor(h)
      /\ Confirmed(Asked(h).number)' = Confirmed(Asked(h).number)
  BY <1>1, <1>2, <1>3, <1>4, AsksTheSame
<1>6. Asked(h).number # NoNumber
  BY <1>2 DEF TicketRow
<1> QED
  BY <1>1, <1>3, <1>5, <1>6

LEMMA OneRequestKept ==
  ASSUME IngestInv, OneRequest, [SessionNext]_sessionVars
  PROVE  OneRequest'
<1> SUFFICES ASSUME Alone'
             PROVE  /\ \A h, k \in Busy' : h = k
                    /\ \A h \in Threads : QueueKnows(h)'
  BY DEF OneRequest
<1>1. CASE UNCHANGED sessionVars
  <2>1. UNCHANGED <<thread, tickets, events, history>>
    BY <1>1 DEF sessionVars, ingestVars, tables
  <2> QED
    BY <2>1, KnowsStill DEF OneRequest, Alone, Busy
<1>2. CASE Stream \/ Wait
  <2>1. UNCHANGED <<thread, tickets>>
    BY <1>2 DEF Stream, Wait, LotUpdate, AuctionWinner, Tick, tables
  <2>2. \A e \in DOMAIN events : events'[e] = events[e]
    BY <1>2, TypeStream DEF Stream, Wait, Tick, TablesGrow
  <2>3. Alone /\ \A h, k \in Busy' : h = k
    BY <1>2, NotedAlone DEF Stream, Wait
  <2> QED
    BY <2>1, <2>2, <2>3, KnowsStill DEF OneRequest
<1>3. CASE Operate
  <2>1. PICK what : Notes(what) /\ (Busy # {} => "overlap" \in what)
    BY <1>3 DEF Operate
  <2>2. Busy = {} /\ \A h, k \in Busy' : h = k
    BY <2>1, NotedAlone
  <2>3. UNCHANGED thread
    BY <1>3 DEF Operate, Review
  <2> QED
    BY <2>2, <2>3 DEF Busy, QueueKnows
<1>4. ASSUME NEW h \in Threads, Poll(h) \/ Work(h) \/ Fault(h)
      PROVE  /\ \A i, k \in Busy' : i = k
             /\ \A k \in Threads : QueueKnows(k)'
  <2>1. /\ \A k \in Threads : k # h => thread'[k] = thread[k]
        /\ events' = events /\ Alone /\ \A i, k \in Busy' : i = k
    BY <1>4, StepOfThread, NotedAlone
  <2>2. ASSUME NEW k \in Threads, k # h
        PROVE  QueueKnows(k)'
    <3>1. CASE tickets' = tickets
      BY <2>1, <2>2, <3>1, KnowsStill DEF OneRequest
    <3>2. CASE tickets' # tickets
      <4>1. QueueTicket(h)
        BY <1>4, <3>2, ThreadTickets
      <4>2. thread[k].step = "idle"
        BY <2>1, <2>2, <4>1 DEF OneRequest, QueueTicket, Busy
      <4> QED
        BY <2>1, <2>2, <4>2 DEF QueueKnows
    <3> QED
      BY <3>1, <3>2
  <2>3. QueueKnows(h)'
    BY <1>4, KnowsReached
  <2> QED
    BY <2>1, <2>2, <2>3
<1> QED
  BY <1>1, <1>2, <1>3, <1>4 DEF SessionNext

RequestInv == IngestInv /\ OneRequest

LEMMA RequestAlways == SessionSpec => []RequestInv
<1>1. SessionInit => OneRequest
  BY DEF SessionInit, IngestInit, IdleThread, OneRequest, Busy, QueueKnows
<1>2. IngestInv /\ OneRequest /\ [SessionNext]_sessionVars => OneRequest'
  BY OneRequestKept
<1> QED
  BY <1>1, <1>2, InvAlways, PTL DEF SessionSpec, RequestInv

(***************************************************************************)
(* The tickets get longer only by a request that appends the one it asks   *)
(* for.                                                                    *)
(***************************************************************************)
LEMMA TicketAdded ==
  ASSUME IngestInv, [SessionNext]_sessionVars, Len(tickets') > Len(tickets)
  PROVE  \E h \in Threads : /\ QueueTicket(h)
                            /\ tickets'[Len(tickets')] = Asked(h)
<1>1. tickets \in Seq(TicketRow)
  BY InvParts DEF TablesOK
<1>2. ~Operate
  <2>1. ASSUME Operate
        PROVE  Len(tickets') = Len(tickets)
    <3>1. tickets' \in Seq(TicketRow) /\ DOMAIN tickets' = DOMAIN tickets
      <4>1. IngestInv' /\ DOMAIN tickets' = DOMAIN tickets
        BY <2>1, TypeReview DEF Operate
      <4> QED
        BY <4>1 DEF IngestInv, IngestTypeOK
    <3> QED
      BY <1>1, <3>1
  <2> QED
    BY <1>1, <2>1
<1>3. PICK h \in Threads : QueueTicket(h)
  BY <1>2, TicketWriters
<1>4. TicketsQueued(h) /\ Asked(h) \in TicketRow
  BY <1>3, QueueWrites, AskedType DEF QueueTicket
<1>5. CASE tickets' = Append(tickets, Asked(h))
  <2>1. tickets'[Len(tickets')] = Asked(h)
    BY <1>1, <1>4, <1>5, Appended
  <2> QED
    BY <1>3, <2>1
<1>6. CASE /\ thread[h].ticket \in DOMAIN tickets
           /\ tickets' = [tickets EXCEPT ![thread[h].ticket] =
                            UpdatedTicket(@, Asked(h))]
  <2>1. tickets[thread[h].ticket] \in TicketRow
    BY <1>1, <1>6, ElementOfSeq
  <2>2. UpdatedTicket(tickets[thread[h].ticket], Asked(h)) \in TicketRow
    BY <1>4, <2>1, UpdatedTicketType
  <2>3. Len(tickets') = Len(tickets)
    BY <1>1, <1>6, <2>2, Changed
  <2> QED
    BY <1>1, <2>3
<1> QED
  BY <1>1, <1>4, <1>5, <1>6 DEF TicketsQueued

(***************************************************************************)
(* As long as requests have not overlapped, with each other or with the    *)
(* operator's decision, a lot with a confirmed winner gets no further      *)
(* ticket: what the lookup of queue_pending_winner_assignment saw still    *)
(* holds when the ticket is written.                                       *)
(***************************************************************************)
THEOREM ConfirmedStaysClosed == SessionSpec => ConfirmedLotClosed
<1>1. ASSUME RequestInv, [SessionNext]_sessionVars
      PROVE  Len(tickets') > Len(tickets) /\ Alone =>
               \A t \in DOMAIN tickets :
                 tickets[t].status = "confirmed" =>
                   tickets[t].number # tickets'[Len(tickets')].number
  <2> SUFFICES ASSUME Len(tickets') > Len(tickets), Alone,
                      NEW t \in DOMAIN tickets, tickets[t].status = "confirmed"
               PROVE  tickets[t].number # tickets'[Len(tickets')].number
    OBVIOUS
  <2>1. PICK h \in Threads : QueueTicket(h) /\ tickets'[Len(tickets')] = Asked(h)
    BY <1>1, TicketAdded DEF RequestInv
  <2>2. Confirmed(Asked(h).number) = {}
    BY <1>1, <2>1 DEF RequestInv, OneRequest, QueueKnows, QueueTicket
  <2> QED
    BY <2>1, <2>2 DEF Confirmed
<1>2. RequestInv /\ [SessionNext]_sessionVars
        => [Len(tickets') > Len(tickets) /\ Alone =>
              \A t \in DOMAIN tickets :
                tickets[t].status = "confirmed" =>
                  tickets[t].number # tickets'[Len(tickets')].number]_tickets
  BY <1>1
<1> QED
  BY <1>2, RequestAlways, PTL DEF SessionSpec, ConfirmedLotClosed

-----------------------------------------------------------------------------
(* One open ticket *)

(***************************************************************************)
(* A new ticket is asked for only when the lookup has found no open ticket *)
(* of the lot and the buyer.                                               *)
(***************************************************************************)
LEMMA NoOpenTicket ==
  ASSUME IngestInv, NEW h \in Threads, TicketFor(h) = NoId,
         Asked(h).number # NoNumber,
         NEW t \in DOMAIN tickets, tickets[t].status = "open",
         tickets[t].buyer = Asked(h).buyer
  PROVE  tickets[t].number # Asked(h).number
<1> DEFINE a == Asked(h)
           ofResult == {u \in DOMAIN tickets : tickets[u].result = a.result}
           ofLot == {u \in DOMAIN tickets :
                       /\ a.number # NoNumber /\ tickets[u].number = a.number
                       /\ tickets[u].buyer = a.buyer /\ tickets[u].status = "open"}
<1>1. tickets \in Seq(TicketRow)
  BY InvParts DEF TablesOK
<1>2. /\ TicketOf(a.source) # {} => Greatest(TicketOf(a.source)) \in DOMAIN tickets
      /\ ofResult # {} => Greatest(ofResult) \in DOMAIN tickets
      /\ ofLot # {} => Greatest(ofLot) \in DOMAIN tickets
  <2>1. /\ TicketOf(a.source) \in SUBSET DOMAIN tickets
        /\ ofResult \in SUBSET DOMAIN tickets
        /\ ofLot \in SUBSET DOMAIN tickets
    BY DEF TicketOf
  <2> HIDE DEF ofResult, ofLot, a
  <2> QED
    BY <1>1, <2>1, LatestRow
<1>3. NoId \notin DOMAIN tickets
  BY <1>1 DEF NoId
<1>4. ofLot = {}
  BY <1>2, <1>3 DEF TicketFor
<1> QED
  BY <1>4

OneOpen ==
  "takenBack" \notin history => \A t, u \in DOMAIN tickets :
    /\ tickets[t].status = "open" /\ tickets[u].status = "open"
    /\ tickets[t].number = tickets[u].number /\ tickets[t].number # NoNumber
    /\ tickets[t].buyer = tickets[u].buyer
    => t = u

LEMMA HistoryGrows ==
  ASSUME [SessionNext]_sessionVars
  PROVE  history \subseteq history'
BY DEF SessionNext, Stream, Wait, Operate, Poll, Work, Fault, Notes, sessionVars

LEMMA OneOpenKept ==
  ASSUME RequestInv, Alone, OneOpen, [SessionNext]_sessionVars
  PROVE  OneOpen'
<1> SUFFICES ASSUME "takenBack" \notin history',
                    NEW t \in DOMAIN tickets', NEW u \in DOMAIN tickets',
                    tickets'[t].status = "open", tickets'[u].status = "open",
                    tickets'[t].number = tickets'[u].number,
                    tickets'[t].number # NoNumber,
                    tickets'[t].buyer = tickets'[u].buyer
             PROVE  t = u
  BY DEF OneOpen
<1>1. /\ "takenBack" \notin history /\ tickets \in Seq(TicketRow)
      /\ \A v \in DOMAIN tickets : tickets[v] \in TicketRow
  <2>1. "takenBack" \notin history
    BY HistoryGrows
  <2>2. tickets \in Seq(TicketRow)
    BY InvParts DEF RequestInv, TablesOK
  <2> QED
    BY <2>1, <2>2, ElementOfSeq
<1>2. ASSUME \A v \in DOMAIN tickets' : tickets'[v].status = "open" =>
               /\ v \in DOMAIN tickets /\ tickets[v].status = "open"
               /\ tickets'[v].number = tickets[v].number
               /\ tickets'[v].buyer = tickets[v].buyer
      PROVE  t = u
  BY <1>1, <1>2 DEF OneOpen
<1>3. CASE tickets' = tickets
  BY <1>2, <1>3
<1>4. CASE Operate
  <2>1. /\ DOMAIN tickets' = DOMAIN tickets
        /\ \A v \in DOMAIN tickets :
             \E s \in TicketStatuses : tickets'[v] = [tickets[v] EXCEPT !.status = s]
    BY <1>4, TypeReview DEF RequestInv, Operate
  <2>2. ~TakesBack
    BY <1>4 DEF Operate, Notes
  <2>3. ASSUME NEW v \in DOMAIN tickets, tickets'[v].status = "open"
        PROVE  /\ tickets[v].status = "open"
               /\ tickets'[v].number = tickets[v].number
               /\ tickets'[v].buyer = tickets[v].buyer
    <3>1. tickets[v].status = "open"
      BY <2>2, <2>3 DEF TakesBack
    <3>2. /\ tickets'[v].number = tickets[v].number
          /\ tickets'[v].buyer = tickets[v].buyer
      BY <1>1, <2>1 DEF TicketRow
    <3> QED
      BY <3>1, <3>2
  <2> QED
    BY <1>2, <2>1, <2>3
<1>5. ASSUME NEW h \in Threads, QueueTicket(h)
      PROVE  t = u
  <2>1. TicketsQueued(h) /\ Asked(h) \in TicketRow /\ thread[h].step = "queue"
    BY <1>5, QueueWrites, AskedType DEF RequestInv, QueueTicket
  <2>2. thread[h].ticket = TicketFor(h)
    BY <2>1 DEF RequestInv, OneRequest, QueueKnows
  <2>3. CASE thread[h].ticket = NoId /\ tickets' = Append(tickets, Asked(h))
    <3>1. /\ tickets'[Len(tickets) + 1] = Asked(h)
          /\ \A v \in DOMAIN tickets : tickets'[v] = tickets[v]
          /\ \A v \in DOMAIN tickets' : v \in DOMAIN tickets \/ v = Len(tickets) + 1
      BY <1>1, <2>1, <2>3, Appended
    <3>2. \A v \in DOMAIN tickets :
            tickets[v].status = "open" /\ tickets[v].buyer = Asked(h).buyer
              => tickets[v].number # Asked(h).number
      <4>1. Asked(h).number # NoNumber
        BY <2>1 DEF TicketRow
      <4> QED
        BY <2>2, <2>3, <4>1, NoOpenTicket DEF RequestInv
    <3>3. CASE t \in DOMAIN tickets /\ u \in DOMAIN tickets
      BY <1>1, <3>1, <3>3 DEF OneOpen
    <3>4. CASE t \in DOMAIN tickets /\ u = Len(tickets) + 1
      BY <3>1, <3>2, <3>4
    <3>5. CASE u \in DOMAIN tickets /\ t = Len(tickets) + 1
      BY <3>1, <3>2, <3>5
    <3> QED
      BY <3>1, <3>3, <3>4, <3>5
  <2>4. CASE /\ thread[h].ticket \in DOMAIN tickets
             /\ tickets' = [tickets EXCEPT ![thread[h].ticket] =
                              UpdatedTicket(@, Asked(h))]
    <3>1. /\ DOMAIN tickets' = DOMAIN tickets
          /\ \A v \in DOMAIN tickets : \/ tickets'[v] = tickets[v]
                                       \/ tickets'[v] = UpdatedTicket(tickets[v], Asked(h))
      BY <2>4
    <3>2. \A v \in DOMAIN tickets :
            /\ tickets'[v].status = tickets[v].status
            /\ tickets'[v].number = tickets[v].number
            /\ tickets'[v].buyer = tickets[v].buyer
      BY <1>1, <2>1, <3>1, UpdatedTicketType
    <3> QED
      BY <1>2, <3>1, <3>2
  <2> QED
    BY <1>3, <2>1, <2>3, <2>4 DEF TicketsQueued
<1> QED
  BY <1>3, <1>4, <1>5, TicketWriters

(***************************************************************************)
(* Unless requests have overlapped or the operator has taken a decision    *)
(* back, there is at most one open ticket of a buyer for a lot, whatever   *)
(* fails and however often events are replayed or retried.                 *)
(***************************************************************************)
THEOREM OneTicketShown == SessionSpec => []OneOpenTicketPerWinner
<1>1. SessionInit => OneOpenTicketPerWinner
  BY DEF SessionInit, IngestInit, OneOpenTicketPerWinner
<1>2. RequestInv /\ OneOpenTicketPerWinner /\ [SessionNext]_sessionVars
        => OneOpenTicketPerWinner'
  <2>1. OneOpenTicketPerWinner <=> (Alone => OneOpen)
    BY DEF OneOpenTicketPerWinner, OneOpen
  <2>2. (Alone => OneOpen)' => OneOpenTicketPerWinner'
    BY DEF OneOpenTicketPerWinner, OneOpen
  <2>3. [SessionNext]_sessionVars /\ Alone' => Alone
    BY HistoryGrows DEF Alone
  <2> QED
    BY <2>1, <2>2, <2>3, OneOpenKept
<1> QED
  BY <1>1, <1>2, RequestAlways, PTL DEF SessionSpec
-----------------------------------------------------------------------------
(* Lots and results while requests are orderly *)

(***************************************************************************)
(* The lots of a session have different numbers.                           *)
(***************************************************************************)
LotsApart ==
  \A l, m \in DOMAIN lots : lots[l].number = lots[m].number => l = m

(***************************************************************************)
(* A result is recorded for a lot and under the lot's number.              *)
(***************************************************************************)
ResultsNamed ==
  \A r \in DOMAIN results :
    /\ results[r].lot \in DOMAIN lots
    /\ lots[results[r].lot].number = results[r].number

(***************************************************************************)
(* A lot with a result is sold, or the request that recorded it is about   *)
(* to close it.                                                            *)
(***************************************************************************)
Sells(h, l) ==
  /\ thread[h].step \in {"lookup", "queue", "sell"}
  /\ thread[h].mode = "new" /\ thread[h].lot = l

ResultsClose ==
  \A r \in DOMAIN results :
    \/ lots[results[r].lot].status = "sold"
    \/ \E h \in Threads : Sells(h, results[r].lot)

(***************************************************************************)
(* A result has an event of its own, with its price, which was shown with  *)
(* the result's number or none.                                            *)
(***************************************************************************)
Fits(e, n) == events[e].lot \in {NoNumber, n}

ResultsOwn ==
  /\ \A r, q \in DOMAIN results : results[r].source = results[q].source => r = q
  /\ \A r \in DOMAIN results :
       /\ results[r].source \in Winners
       /\ events[results[r].source].price = results[r].price
       /\ Fits(results[r].source, results[r].number)

OneUnpriced ==
  \A r, q \in DOMAIN results :
    results[r].price = 0 /\ results[r].lot = results[q].lot => r = q

Recorded ==
  /\ LotsApart /\ ResultsNamed /\ ResultsOwn /\ OneUnpriced
  /\ "broken" \notin history => ResultsClose

(***************************************************************************)
(* What a request knows of the lot and the result it has found, at each of *)
(* its steps: nobody has changed them since.                               *)
(***************************************************************************)
LotHeld(h) == thread[h].number = lots[thread[h].lot].number

Unrecorded(h) == ResultOf(Current(h)) = {}

Stands(h) == thread[h].row.price >= Ev(h).price

Improves(h) ==
  /\ thread[h].row.price = 0
  /\ \A r \in DOMAIN results :
       results[r].number = thread[h].row.number => results[r].price < Ev(h).price

RecordKnown(h) ==
  /\ thread[h].result = NoId =>
       \A r \in DOMAIN results :
         results[r].number = thread[h].number => results[r].price # 0 /\ Ev(h).price # 0
  /\ thread[h].result # NoId =>
       /\ thread[h].row = results[thread[h].result]
       /\ thread[h].row.number = Ev(h).lot
       /\ Stands(h) \/ Improves(h)

ResultKnown(h) ==
  /\ thread[h].row = results[thread[h].result]
  /\ thread[h].mode \in {"new", "known", "again"}
  /\ thread[h].mode \in {"new", "again"} => thread[h].row.source = Current(h)
  /\ thread[h].mode = "new" =>
       thread[h].row.lot = thread[h].lot /\ thread[h].row.number = thread[h].number
  /\ thread[h].mode = "known" =>
       /\ thread[h].row.number = Ev(h).lot
       /\ Stands(h)

LotKnown(h) ==
  /\ thread[h].step = "open" => OpenLots = {} /\ Numbered(Ev(h).lot) = {}
  /\ thread[h].step = "name" =>
       /\ lots[thread[h].lot].status = "open"
       /\ Ev(h).type = "auction_winner" => Unrecorded(h)
  /\ thread[h].step = "check" =>
       /\ LotHeld(h)
       /\ lots[thread[h].lot].status = "open" \/ thread[h].number = Ev(h).lot
  /\ thread[h].step \in {"find", "record"} =>
       /\ LotHeld(h) /\ Fits(Current(h), thread[h].number) /\ Unrecorded(h)
       /\ Ev(h).lot = NoNumber => lots[thread[h].lot].status = "open"
  /\ thread[h].step = "record" => RecordKnown(h)
  /\ thread[h].step \in {"lookup", "queue"} => ResultKnown(h)
  /\ thread[h].step = "sell" => thread[h].mode = "new"

LotsInv == Orderly => Recorded /\ \A h \in Threads : LotKnown(h)

(***************************************************************************)
(* A winner has one ticket at most.                                        *)
(***************************************************************************)
TicketsApart ==
  \A t, u \in DOMAIN tickets : tickets[t].source = tickets[u].source => t = u

(***************************************************************************)
(* A ticket has the lot and the number of its result, and its winner was   *)
(* shown with that number or none.                                         *)
(***************************************************************************)
TicketsAgree ==
  \A t \in DOMAIN tickets :
    /\ tickets[t].result \in DOMAIN results
    /\ tickets[t].lot = results[tickets[t].result].lot
    /\ tickets[t].number = results[tickets[t].result].number
    /\ tickets[t].source \in Winners
    /\ Fits(tickets[t].source, tickets[t].number)

(***************************************************************************)
(* As long as no request broke off: the ticket of a winner without a       *)
(* number is for the winner's own result, or about to be given to the      *)
(* winner that took the result over.                                       *)
(***************************************************************************)
TakesOver(h) ==
  /\ thread[h].step \in {"lookup", "queue"} /\ thread[h].mode = "known"
  /\ thread[h].row.source = Current(h)

UnnumberedOwn ==
  \A t \in DOMAIN tickets :
    events[tickets[t].source].lot = NoNumber =>
      \/ results[tickets[t].result].source = tickets[t].source
      \/ \E h \in Threads : TakesOver(h) /\ thread[h].result = tickets[t].result

TicketsPriced ==
  \A t \in DOMAIN tickets : \E r \in DOMAIN results :
    /\ results[r].number = tickets[t].number
    /\ results[r].price >= events[tickets[t].source].price

OneOfUnpriced ==
  \A t, u \in DOMAIN tickets :
    tickets[t].result = tickets[u].result /\ results[tickets[t].result].price = 0 => t = u

TicketsOwn == UnnumberedOwn /\ TicketsPriced /\ OneOfUnpriced

OwnKnown(h) ==
  /\ /\ thread[h].step \in {"name", "find", "record", "lookup", "queue"}
     /\ Ev(h).type = "auction_winner" /\ Ev(h).lot # NoNumber
     => Confirmed(Ev(h).lot) = {}
  /\ thread[h].step \in {"lookup", "queue"} /\ thread[h].mode = "new" =>
       /\ \A t \in DOMAIN tickets : tickets[t].result # thread[h].result
       /\ Ev(h).lot = NoNumber => TicketOf(Current(h)) = {}
  /\ TakesOver(h) =>
       /\ TicketOf(Current(h)) = {}
       /\ \A t, u \in DOMAIN tickets :
            tickets[t].result = thread[h].result /\ tickets[u].result = thread[h].result => t = u

TicketsInv ==
  /\ TicketsApart
  /\ Orderly => TicketsAgree
  /\ Orderly /\ "broken" \notin history => TicketsOwn /\ \A h \in Threads : OwnKnown(h)

(***************************************************************************)
(* A sold lot has its ticket, and so has one about to be closed; a winner  *)
(* that is answered has a ticket that stands for it, and so has one whose  *)
(* lot is about to be closed.                                              *)
(***************************************************************************)
SoldTicketed ==
  /\ \A l \in DOMAIN lots :
       lots[l].status = "sold" => \E t \in DOMAIN tickets : tickets[t].lot = l
  /\ \A h \in Threads :
       thread[h].step = "sell" => \E t \in DOMAIN tickets : tickets[t].lot = thread[h].lot

Answered ==
  /\ \A e \in answered : \E t \in DOMAIN tickets : StandsFor(t, e)
  /\ \A h \in Threads :
       thread[h].step = "sell" => \E t \in DOMAIN tickets : StandsFor(t, Current(h))

-----------------------------------------------------------------------------
(* Steps of orderly requests *)

(***************************************************************************)
(* Requests were orderly before, if they are after a step: the history and *)
(* the stream only grow.                                                   *)
(***************************************************************************)
LEMMA OrderlyBefore ==
  ASSUME [SessionNext]_sessionVars, Orderly',
         \A e \in DOMAIN events : e \in DOMAIN events' /\ events'[e] = events[e]
  PROVE  Orderly
<1>1. history \subseteq history'
  BY HistoryGrows
<1>2. Winners \subseteq Winners' /\ \A e \in Winners : events'[e] = events[e]
  BY DEF Winners
<1>3. WinnersNumbered' => WinnersNumbered
  BY <1>2 DEF WinnersNumbered
<1> QED
  BY <1>1, <1>3 DEF Orderly, Alone

(***************************************************************************)
(* While one thread takes a step, the others are idle.                     *)
(***************************************************************************)
OthersIdle(h) ==
  \A k \in Threads : k # h => thread[k].step = "idle" /\ thread'[k] = thread[k]

LEMMA AloneStep ==
  ASSUME RequestInv, NEW h \in Threads, Poll(h) \/ Work(h) \/ Fault(h), Alone'
  PROVE  Alone /\ OthersIdle(h)
<1>1. /\ DOMAIN thread = Threads
      /\ \A k \in Threads : k # h => thread'[k] = thread[k]
      /\ Alone /\ \A i, k \in Busy' : i = k
  BY StepOfThread, NotedAlone, InvParts DEF RequestInv
<1>2. \A i, k \in Busy : i = k
  BY <1>1 DEF RequestInv, OneRequest
<1>3. CASE thread[h].step # "idle"
  BY <1>1, <1>2, <1>3 DEF OthersIdle, Busy
<1>4. CASE thread'[h].step # "idle"
  BY <1>1, <1>4 DEF OthersIdle, Busy
<1>5. CASE thread[h].step = "idle"
  <2>1. Poll(h)
    BY <1>5 DEF Work, Fault, Break, Ingest, SyncLot, OpenLot, NameLot, CheckDuplicate,
       FindLot, CheckRecorded, FindResult, InsertResult, UpgradeResult, LookUpTicket,
       QueueTicket, SellLot, Finish
  <2>2. \E r, b : Starts(h, r, b)
    BY <2>1 DEF Poll, PollFeed, PollStats, Retry
  <2>3. thread'[h].step = "next"
    BY <1>1, <2>2 DEF Starts, IdleThread
  <2> QED
    BY <1>4, <2>3
<1> QED
  BY <1>3, <1>5

(***************************************************************************)
(* A thread's fields after it has taken a step.                            *)
(***************************************************************************)
SameEvent(h) ==
  /\ thread'[h].batch = thread[h].batch /\ thread'[h].route = thread[h].route

LEMMA EventStays ==
  ASSUME IngestInv, NEW h \in Threads, thread[h].batch # << >>, SameEvent(h),
         \A e \in DOMAIN events : events'[e] = events[e]
  PROVE  Current(h)' = Current(h) /\ Ev(h)' = Ev(h) /\ Current(h) \in DOMAIN events
<1>1. Current(h) \in DOMAIN events
  BY InvParts, EventOfThread
<1>2. Current(h)' = Current(h)
  BY DEF Current, SameEvent
<1> QED
  BY <1>1, <1>2 DEF Ev

LEMMA FieldsThere ==
  ASSUME IngestInv, NEW h \in Threads
  PROVE  /\ h \in DOMAIN thread
         /\ {"step", "route", "batch", "upto", "lot", "number", "result", "row",
             "mode", "ticket"} = DOMAIN thread[h]
BY ThreadShape DEF IdleThread

LEMMA AfterGoes ==
  ASSUME IngestInv, NEW h \in Threads, NEW s, Goes(h, s)
  PROVE  /\ SameEvent(h) /\ SameFindings(h) /\ thread'[h].step = s
         /\ thread'[h].ticket = thread[h].ticket
<1>1. thread'[h] = [thread[h] EXCEPT !.step = s]
  BY FieldsThere DEF Goes
<1> QED
  BY <1>1, FieldsThere DEF SameEvent, SameFindings

LEMMA AfterHasLot ==
  ASSUME IngestInv, NEW h \in Threads, NEW l, NEW s, HasLot(h, l, s)
  PROVE  /\ SameEvent(h) /\ thread'[h].step = s
         /\ thread'[h].lot = l /\ thread'[h].number = lots[l].number
<1>1. thread'[h] = [thread[h] EXCEPT !.lot = l, !.number = lots[l].number, !.step = s]
  BY FieldsThere DEF HasLot
<1> QED
  BY <1>1, FieldsThere DEF SameEvent

LEMMA AfterHasResult ==
  ASSUME IngestInv, NEW h \in Threads, NEW r, NEW s, HasResult(h, r, s)
  PROVE  /\ SameEvent(h) /\ thread'[h].step = s /\ thread'[h].mode = "again"
         /\ thread'[h].result = r /\ thread'[h].row = results[r]
<1>1. thread'[h] = [thread[h] EXCEPT !.result = r, !.row = results[r], !.step = s,
                                     !.mode = "again"]
  BY FieldsThere DEF HasResult
<1> QED
  BY <1>1, FieldsThere DEF SameEvent

LEMMA AfterOpened ==
  ASSUME IngestInv, NEW h \in Threads, NEW l, NEW n, Opened(h, l, n)
  PROVE  /\ SameEvent(h) /\ thread'[h].step = "check"
         /\ thread'[h].lot = l /\ thread'[h].number = n
<1>1. thread'[h] = [thread[h] EXCEPT !.lot = l, !.number = n, !.step = "check"]
  BY FieldsThere DEF Opened
<1> QED
  BY <1>1, FieldsThere DEF SameEvent

LEMMA AfterNamed ==
  ASSUME IngestInv, NEW h \in Threads, NEW n, Named(h, n)
  PROVE  /\ SameEvent(h) /\ thread'[h].step = "find"
         /\ thread'[h].lot = thread[h].lot /\ thread'[h].number = n
<1>1. thread'[h] = [thread[h] EXCEPT !.number = n, !.step = "find"]
  BY FieldsThere DEF Named
<1> QED
  BY <1>1, FieldsThere DEF SameEvent

LEMMA AfterFound ==
  ASSUME IngestInv, NEW h \in Threads, NEW r, NEW row, Found(h, r, row)
  PROVE  /\ SameEvent(h) /\ thread'[h].step = "record"
         /\ thread'[h].result = r /\ thread'[h].row = row
         /\ thread'[h].lot = thread[h].lot /\ thread'[h].number = thread[h].number
<1>1. thread'[h] = [thread[h] EXCEPT !.step = "record", !.result = r, !.row = row]
  BY FieldsThere DEF Found
<1> QED
  BY <1>1, FieldsThere DEF SameEvent

LEMMA AfterInserted ==
  ASSUME IngestInv, NEW h \in Threads, NEW r, NEW row, Inserted(h, r, row)
  PROVE  /\ SameEvent(h) /\ thread'[h].step = "lookup" /\ thread'[h].mode = "new"
         /\ thread'[h].result = r /\ thread'[h].row = row
         /\ thread'[h].lot = thread[h].lot /\ thread'[h].number = thread[h].number
<1>1. thread'[h] = [thread[h] EXCEPT !.step = "lookup", !.mode = "new", !.result = r,
                                     !.row = row]
  BY FieldsThere DEF Inserted
<1> QED
  BY <1>1, FieldsThere DEF SameEvent

LEMMA AfterUpgraded ==
  ASSUME IngestInv, NEW h \in Threads, NEW row, Upgraded(h, row)
  PROVE  /\ SameEvent(h) /\ thread'[h].step = "lookup" /\ thread'[h].mode = "known"
         /\ thread'[h].row = row /\ thread'[h].result = thread[h].result
         /\ thread'[h].lot = thread[h].lot /\ thread'[h].number = thread[h].number
<1>1. thread'[h] = [thread[h] EXCEPT !.step = "lookup", !.mode = "known", !.row = row]
  BY FieldsThere DEF Upgraded
<1> QED
  BY <1>1, FieldsThere DEF SameEvent

LEMMA AfterEnd ==
  ASSUME IngestInv, NEW h \in Threads, Raise(h) \/ Continue(h) \/ Acknowledge(h)
  PROVE  thread'[h].step \in {"idle", "next"}
<1>1. Raise(h) => thread'[h].step = "idle"
  BY FieldsThere DEF Raise, IdleThread
<1>2. Continue(h) => thread'[h].step = "next"
  BY FieldsThere DEF Continue, IdleThread
<1> QED
  BY <1>1, <1>2 DEF Acknowledge

LEMMA AfterLookUp ==
  ASSUME IngestInv, NEW h \in Threads,
         thread' = [thread EXCEPT ![h].step = "queue", ![h].ticket = TicketFor(h)]
  PROVE  SameEvent(h) /\ SameFindings(h) /\ thread'[h].step = "queue"
<1>1. thread'[h] = [thread[h] EXCEPT !.step = "queue", !.ticket = TicketFor(h)]
  BY FieldsThere
<1> QED
  BY <1>1, FieldsThere DEF SameEvent, SameFindings

-----------------------------------------------------------------------------
(* Lots and results *)

LEMMA RecordedStays ==
  ASSUME \A e \in DOMAIN events : e \in DOMAIN events' /\ events'[e] = events[e],
         UNCHANGED <<lots, results>>, history \subseteq history',
         Recorded, NEW h \in Threads, OthersIdle(h), \A l : Sells(h, l) => Sells(h, l)'
  PROVE  Recorded'
<1>1. LotsApart' /\ ResultsNamed' /\ OneUnpriced'
  BY DEF Recorded, LotsApart, ResultsNamed, OneUnpriced
<1>2. ResultsOwn'
  <2>1. \A r \in DOMAIN results :
          /\ results[r].source \in DOMAIN events
          /\ events'[results[r].source] = events[results[r].source]
          /\ results[r].source \in Winners'
    BY DEF Recorded, ResultsOwn, Winners
  <2> QED
    BY <2>1 DEF Recorded, ResultsOwn, Fits
<1>3. ASSUME "broken" \notin history'
      PROVE  ResultsClose'
  <2>1. ResultsClose
    BY <1>3 DEF Recorded
  <2>2. \A k \in Threads : \A l : Sells(k, l) => Sells(k, l)'
    BY DEF OthersIdle, Sells
  <2>3. ASSUME NEW r \in DOMAIN results
        PROVE  \/ lots[results[r].lot].status = "sold"
               \/ \E k \in Threads : Sells(k, results[r].lot)'
    <3>1. PICK l : l = results[r].lot
      OBVIOUS
    <3>2. CASE \E k \in Threads : Sells(k, l)
      <4>1. \E k \in Threads : Sells(k, l)'
        BY <2>2, <3>2
      <4>2. l = results'[r].lot
        BY <3>1
      <4> QED
        BY <4>1, <4>2 DEF Sells
    <3> QED
      BY <2>1, <3>1, <3>2 DEF ResultsClose
  <2> QED
    BY <2>3 DEF ResultsClose
<1> QED
  BY <1>1, <1>2, <1>3 DEF Recorded

LEMMA SellsNone ==
  ASSUME NEW h \in Threads, thread[h].step \notin {"lookup", "queue", "sell"}
  PROVE  \A l : ~Sells(h, l)
BY DEF Sells

LEMMA AllSold ==
  ASSUME ResultsClose, NEW h \in Threads, OthersIdle(h),
         thread[h].step \notin {"lookup", "queue", "sell"}
  PROVE  \A r \in DOMAIN results : lots[results[r].lot].status = "sold"
BY DEF ResultsClose, OthersIdle, Sells

LEMMA KnownAtRest ==
  ASSUME NEW h \in Threads, thread'[h].step \in {"idle", "next", "lot"}
  PROVE  LotKnown(h)'
BY DEF LotKnown

LEMMA LotForMeans ==
  ASSUME TablesOK, NEW n
  PROVE  /\ LotFor(n) = NoId =>
              OpenLots = {} /\ (n # NoNumber => Numbered(n) = {})
         /\ LotFor(n) # NoId =>
              /\ LotFor(n) \in DOMAIN lots
              /\ lots[LotFor(n)].status = "open" \/ lots[LotFor(n)].number = n
<1>1. /\ OpenLots # {} => Greatest(OpenLots) \in OpenLots
      /\ Numbered(n) # {} => Greatest(Numbered(n)) \in Numbered(n)
  <2>1. lots \in Seq(LotRow)
    BY DEF TablesOK
  <2>2. OpenLots \in SUBSET DOMAIN lots /\ Numbered(n) \in SUBSET DOMAIN lots
    BY DEF OpenLots, Numbered
  <2> QED
    BY <2>1, <2>2, LatestRow
<1>2. NoId \notin DOMAIN lots
  BY DEF TablesOK, NoId
<1>3. CASE OpenLots # {}
  <2>1. LotFor(n) = Greatest(OpenLots)
    BY <1>3 DEF LotFor
  <2> QED
    BY <1>1, <1>2, <1>3, <2>1 DEF OpenLots
<1>4. CASE OpenLots = {} /\ n # NoNumber /\ Numbered(n) # {}
  <2>1. LotFor(n) = Greatest(Numbered(n))
    BY <1>4 DEF LotFor
  <2> QED
    BY <1>1, <1>2, <1>4, <2>1 DEF Numbered
<1>5. CASE OpenLots = {} /\ ~(n # NoNumber /\ Numbered(n) # {})
  <2>1. LotFor(n) = NoId
    BY <1>5 DEF LotFor
  <2> QED
    BY <1>5, <2>1
<1> QED
  BY <1>3, <1>4, <1>5

(***************************************************************************)
(* The steps that look the lot up.                                         *)
(***************************************************************************)
LEMMA KnowsSyncLot ==
  ASSUME IngestInv, NEW h \in Threads, SyncLot(h)
  PROVE  LotKnown(h)'
<1>1. /\ TablesOK /\ thread[h].batch # << >> /\ Ev(h).type = "lot_update"
      /\ UNCHANGED <<events, lots>>
  BY InvParts DEF SyncLot
<1>2. Ev(h).lot # NoNumber
  BY <1>1, InvParts, EventOfThread, EventFields
<1> DEFINE l == LotFor(Ev(h).lot)
<1>3. CASE l = NoId /\ Goes(h, "open")
  <2>1. OpenLots = {} /\ Numbered(Ev(h).lot) = {}
    BY <1>1, <1>2, <1>3, LotForMeans
  <2>2. thread'[h].step = "open" /\ Ev(h)' = Ev(h)
    BY <1>1, <1>3, AfterGoes, EventStays
  <2> QED
    BY <1>1, <2>1, <2>2 DEF LotKnown, OpenLots, Numbered
<1>4. CASE l # NoId /\ lots[l].number # Ev(h).lot /\ HasLot(h, l, "name")
  <2>1. lots[l].status = "open"
    BY <1>1, <1>4, LotForMeans
  <2> HIDE DEF l
  <2>2. thread'[h].step = "name" /\ thread'[h].lot = l /\ Ev(h)' = Ev(h)
    BY <1>1, <1>4, AfterHasLot, EventStays
  <2> QED
    BY <1>1, <2>1, <2>2 DEF LotKnown
<1>5. CASE Continue(h)
  BY <1>5, AfterEnd, KnownAtRest
<1>6. \/ l = NoId /\ Goes(h, "open")
      \/ l # NoId /\ lots[l].number # Ev(h).lot /\ HasLot(h, l, "name")
      \/ Continue(h)
  BY DEF SyncLot
<1> QED
  BY <1>3, <1>4, <1>5, <1>6

LEMMA KnowsFindLot ==
  ASSUME IngestInv, NEW h \in Threads, FindLot(h)
  PROVE  LotKnown(h)'
<1>1. TablesOK /\ thread[h].batch # << >> /\ UNCHANGED <<events, lots>>
  BY InvParts DEF FindLot, ThreadOK
<1> DEFINE l == LotFor(Ev(h).lot)
<1>2. CASE l # NoId /\ HasLot(h, l, "check")
  <2>1. lots[l].status = "open" \/ lots[l].number = Ev(h).lot
    BY <1>1, <1>2, LotForMeans
  <2> HIDE DEF l
  <2>2. /\ thread'[h].step = "check" /\ thread'[h].lot = l
        /\ thread'[h].number = lots[l].number /\ Ev(h)' = Ev(h)
    BY <1>1, <1>2, AfterHasLot, EventStays
  <2> QED
    BY <1>1, <2>1, <2>2 DEF LotKnown, LotHeld
<1>3. CASE l = NoId /\ Ev(h).lot # NoNumber /\ Goes(h, "open")
  <2>1. OpenLots = {} /\ Numbered(Ev(h).lot) = {}
    BY <1>1, <1>3, LotForMeans
  <2>2. thread'[h].step = "open" /\ Ev(h)' = Ev(h)
    BY <1>1, <1>3, AfterGoes, EventStays
  <2> QED
    BY <1>1, <2>1, <2>2 DEF LotKnown, OpenLots, Numbered
<1>4. CASE Continue(h)
  BY <1>4, AfterEnd, KnownAtRest
<1>5. \/ l # NoId /\ HasLot(h, l, "check")
      \/ l = NoId /\ Ev(h).lot # NoNumber /\ Goes(h, "open")
      \/ Continue(h)
  BY DEF FindLot
<1> QED
  BY <1>2, <1>3, <1>4, <1>5

LEMMA KnowsCheckRecorded ==
  ASSUME IngestInv, NEW h \in Threads, LotKnown(h), CheckRecorded(h)
  PROVE  LotKnown(h)'
<1>1. /\ TablesOK /\ thread[h].batch # << >> /\ UNCHANGED <<events, lots, results>>
      /\ thread[h].step = "check" /\ thread[h].number # NoNumber
  BY InvParts DEF CheckRecorded, ThreadOK, Handles
<1>2. /\ LotHeld(h)
      /\ lots[thread[h].lot].status = "open" \/ thread[h].number = Ev(h).lot
  BY <1>1 DEF LotKnown
<1> DEFINE R == ResultOf(Current(h))
<1>3. CASE Acknowledge(h)
  BY <1>3, AfterEnd, KnownAtRest
<1>4. CASE R # {} /\ HasResult(h, Greatest(R), "lookup")
  <2>1. R \in SUBSET DOMAIN results /\ results \in Seq(ResultRow)
    BY <1>1 DEF ResultOf, TablesOK
  <2>2. PICK r \in R : HasResult(h, r, "lookup")
    BY <1>4, <2>1, LatestRow
  <2>3. /\ thread'[h].step = "lookup" /\ thread'[h].mode = "again"
        /\ thread'[h].result = r /\ thread'[h].row = results[r]
        /\ Current(h)' = Current(h)
    BY <1>1, <2>2, AfterHasResult, EventStays
  <2>4. results[r].source = Current(h)
    BY <2>2 DEF ResultOf
  <2> QED
    BY <1>1, <2>3, <2>4 DEF LotKnown, ResultKnown
<1>5. CASE R = {} /\ Goes(h, IF Ev(h).lot \in {NoNumber, thread[h].number}
                               THEN "find" ELSE "name")
  <2>1. PICK s : s = IF Ev(h).lot \in {NoNumber, thread[h].number} THEN "find" ELSE "name"
    OBVIOUS
  <2>2. /\ thread'[h].step = s /\ SameFindings(h)
        /\ Current(h)' = Current(h) /\ Ev(h)' = Ev(h)
    BY <1>1, <1>5, <2>1, AfterGoes, EventStays
  <2>3. Unrecorded(h)'
    BY <1>1, <1>5, <2>2 DEF Unrecorded, ResultOf
  <2>4. CASE Ev(h).lot \in {NoNumber, thread[h].number}
    <3>1. LotHeld(h)' /\ Fits(Current(h), thread[h].number)'
      BY <1>1, <1>2, <2>2, <2>4 DEF LotHeld, Fits, Ev, SameFindings
    <3>2. Ev(h).lot = NoNumber => lots[thread[h].lot].status = "open"
      BY <1>1, <1>2
    <3> QED
      BY <1>1, <2>1, <2>2, <2>3, <2>4, <3>1, <3>2 DEF LotKnown, SameFindings
  <2>5. CASE Ev(h).lot \notin {NoNumber, thread[h].number}
    BY <1>1, <1>2, <2>1, <2>2, <2>3, <2>5 DEF LotKnown, SameFindings
  <2> QED
    BY <2>4, <2>5
<1>6. \/ Acknowledge(h)
      \/ R # {} /\ HasResult(h, Greatest(R), "lookup")
      \/ R = {} /\ Goes(h, IF Ev(h).lot \in {NoNumber, thread[h].number}
                               THEN "find" ELSE "name")
  BY DEF CheckRecorded
<1> QED
  BY <1>3, <1>4, <1>5, <1>6

(***************************************************************************)
(* The steps that write a lot.                                             *)
(***************************************************************************)
LEMMA KnowsOpenLot ==
  ASSUME IngestInv, NEW h \in Threads, LotKnown(h), Recorded, OthersIdle(h),
         history \subseteq history', OpenLot(h)
  PROVE  Recorded' /\ LotKnown(h)'
<1>1. /\ TablesOK /\ thread[h].batch # << >> /\ UNCHANGED <<events, results>>
      /\ thread[h].step = "open" /\ Numbered(Ev(h).lot) = {}
  BY InvParts DEF OpenLot, ThreadOK, LotKnown
<1> DEFINE n == Ev(h).lot
           new == [number |-> n, status |-> "open"]
           l == Len(lots) + 1
<1>2. lots' = Append(lots, new) /\ lots \in Seq(LotRow)
  BY <1>1 DEF OpenLot, TablesOK
<1>3. /\ DOMAIN lots' = DOMAIN lots \cup {l} /\ l \notin DOMAIN lots
      /\ lots'[l] = new /\ \A m \in DOMAIN lots : lots'[m] = lots[m]
  BY <1>2
<1>4. \A m \in DOMAIN lots : lots[m].number # n
  BY <1>1 DEF Numbered
<1> HIDE DEF n, l
<1>5. LotsApart' /\ ResultsNamed'
  <2>1. LotsApart'
    BY <1>3, <1>4 DEF Recorded, LotsApart
  <2>2. ResultsNamed'
    BY <1>1, <1>3 DEF Recorded, ResultsNamed
  <2> QED
    BY <2>1, <2>2
<1>6. "broken" \notin history' => ResultsClose'
  <2>1. SUFFICES ASSUME ResultsClose
                 PROVE  ResultsClose'
    BY DEF Recorded
  <2>2. \A r \in DOMAIN results : lots[results[r].lot].status = "sold"
    BY <1>1, <2>1, AllSold
  <2> QED
    BY <1>1, <1>3, <2>2 DEF Recorded, ResultsNamed, ResultsClose
<1>7. OneUnpriced' /\ ResultsOwn'
  BY <1>1 DEF Recorded, OneUnpriced, ResultsOwn, Winners, Fits
<1>8. LotKnown(h)'
  <2>1. CASE Continue(h)
    BY <2>1, AfterEnd, KnownAtRest
  <2>2. CASE Opened(h, l, n)
    <3>1. /\ thread'[h].step = "check" /\ thread'[h].lot = l
          /\ thread'[h].number = n /\ Ev(h)' = Ev(h)
      BY <1>1, <2>2, AfterOpened, EventStays
    <3> QED
      BY <1>3, <3>1 DEF LotKnown, LotHeld
  <2>3. Continue(h) \/ Opened(h, l, n)
    BY <1>1 DEF OpenLot, Opened, UpsertedLot, n, l
  <2> QED
    BY <2>1, <2>2, <2>3
<1> QED
  BY <1>5, <1>6, <1>7, <1>8 DEF Recorded

LEMMA LotRowKept ==
  ASSUME TablesOK, NEW l \in DOMAIN lots
  PROVE  /\ \A n : lots' = [lots EXCEPT ![l].number = n] =>
              /\ DOMAIN lots' = DOMAIN lots
              /\ lots'[l].number = n
              /\ \A m \in DOMAIN lots : /\ m # l => lots'[m].number = lots[m].number
                                        /\ lots'[m].status = lots[m].status
         /\ \A s : lots' = [lots EXCEPT ![l].status = s] =>
              /\ DOMAIN lots' = DOMAIN lots
              /\ lots'[l].status = s
              /\ \A m \in DOMAIN lots : /\ m # l => lots'[m].status = lots[m].status
                                        /\ lots'[m].number = lots[m].number
<1>1. DOMAIN lots[l] = {"number", "status"}
  <2>1. lots[l] \in LotRow
    BY ElementOfSeq DEF TablesOK
  <2> QED
    BY <2>1 DEF LotRow
<1> QED
  BY <1>1

LEMMA KnowsNameLot ==
  ASSUME IngestInv, NEW h \in Threads, LotKnown(h), Recorded, OthersIdle(h),
         history \subseteq history', NameLot(h),
         "broken" \notin history \/ ~Renumbers
  PROVE  Recorded' /\ LotKnown(h)'
<1>1. /\ TablesOK /\ thread[h].batch # << >> /\ UNCHANGED <<events, results>>
      /\ thread[h].step = "name" /\ lots[thread[h].lot].status = "open"
      /\ Ev(h).type = "auction_winner" => Unrecorded(h)
      /\ Ev(h).lot # NoNumber /\ thread[h].lot \in DOMAIN lots
  BY InvParts, ThreadShape DEF NameLot, ThreadOK, Handles, LotKnown
<1> DEFINE l == thread[h].lot
           n == Ev(h).lot
<1>2. CASE Raise(h) /\ UNCHANGED lots
  <2>2. Recorded'
    BY <1>1, <1>2, RecordedStays, SellsNone
  <2> QED
    BY <1>2, <2>2, AfterEnd, KnownAtRest
<1>3. CASE ~NumberTaken(h) /\ lots' = [lots EXCEPT ![l].number = n]
  <2>1. /\ DOMAIN lots' = DOMAIN lots /\ lots'[l].number = n
        /\ \A m \in DOMAIN lots : /\ m # l => lots'[m].number = lots[m].number
                                  /\ lots'[m].status = lots[m].status
    BY <1>1, <1>3, LotRowKept
  <2>2. \A m \in DOMAIN lots : lots[m].number = n => m = l
    BY <1>3 DEF NumberTaken, Numbered
  <2>3. \A r \in DOMAIN results : lots'[results[r].lot].number = lots[results[r].lot].number
    <3>1. CASE ~Renumbers
      BY <3>1 DEF Renumbers
    <3>2. CASE "broken" \notin history
      <4>1. \A r \in DOMAIN results : lots[results[r].lot].status = "sold"
        BY <1>1, <3>2, AllSold DEF Recorded
      <4> QED
        BY <1>1, <2>1, <4>1 DEF Recorded, ResultsNamed
    <3> QED
      BY <3>1, <3>2
  <2> HIDE DEF l, n
  <2>4. LotsApart'
    BY <2>1, <2>2 DEF Recorded, LotsApart
  <2>5. ResultsNamed'
    BY <1>1, <2>1, <2>3 DEF Recorded, ResultsNamed
  <2>6. "broken" \notin history' => ResultsClose'
    <3>1. SUFFICES ASSUME ResultsClose
                   PROVE  ResultsClose'
      BY DEF Recorded
    <3>2. \A r \in DOMAIN results : lots[results[r].lot].status = "sold"
      BY <1>1, <3>1, AllSold
    <3> QED
      BY <1>1, <2>1, <3>2 DEF Recorded, ResultsNamed, ResultsClose
  <2>7. OneUnpriced' /\ ResultsOwn'
    BY <1>1 DEF Recorded, OneUnpriced, ResultsOwn, Winners, Fits
  <2>8. LotKnown(h)'
    <3>1. CASE Raise(h) \/ Continue(h)
      BY <3>1, AfterEnd, KnownAtRest
    <3>2. CASE Ev(h).type # "lot_update" /\ Named(h, n)
      <4>1. /\ thread'[h].step = "find" /\ thread'[h].lot = l
            /\ thread'[h].number = n /\ Current(h)' = Current(h) /\ Ev(h)' = Ev(h)
        BY <1>1, <3>2, AfterNamed, EventStays DEF l
      <4>2. Unrecorded(h)
        BY <1>1, <3>2, EventOfThread, EventFields, InvParts
      <4>3. LotHeld(h)' /\ Unrecorded(h)' /\ Fits(Current(h), thread[h].number)'
        BY <1>1, <2>1, <4>1, <4>2 DEF LotHeld, Unrecorded, ResultOf, Fits, Ev, n
      <4> QED
        BY <1>1, <4>1, <4>3 DEF LotKnown
    <3>3. Raise(h) \/ Continue(h) \/ (Ev(h).type # "lot_update" /\ Named(h, n))
      BY DEF NameLot, Named, n
    <3> QED
      BY <3>1, <3>2, <3>3
  <2> QED
    BY <2>4, <2>5, <2>6, <2>7, <2>8 DEF Recorded
<1> QED
  BY <1>2, <1>3 DEF NameLot

LEMMA KnowsSellLot ==
  ASSUME IngestInv, NEW h \in Threads, LotKnown(h), Recorded, OthersIdle(h),
         history \subseteq history', SellLot(h)
  PROVE  Recorded' /\ LotKnown(h)'
<1>1. /\ TablesOK /\ UNCHANGED <<events, results>>
      /\ thread[h].lot \in DOMAIN lots
  BY InvParts, ThreadShape DEF SellLot, ThreadOK, Handles
<1> DEFINE l == thread[h].lot
<1>2. lots' = [lots EXCEPT ![l].status = "sold"]
  BY DEF SellLot
<1>3. /\ DOMAIN lots' = DOMAIN lots /\ lots'[l].status = "sold"
      /\ \A m \in DOMAIN lots : /\ m # l => lots'[m].status = lots[m].status
                                /\ lots'[m].number = lots[m].number
  BY <1>1, <1>2, LotRowKept
<1> HIDE DEF l
<1>4. LotsApart' /\ ResultsNamed' /\ OneUnpriced' /\ ResultsOwn'
  BY <1>1, <1>3 DEF Recorded, LotsApart, ResultsNamed, OneUnpriced, ResultsOwn,
     Winners, Fits
<1>5. "broken" \notin history' => ResultsClose'
  <2>1. SUFFICES ASSUME ResultsClose
                 PROVE  ResultsClose'
    BY DEF Recorded
  <2>2. \A r \in DOMAIN results :
          lots[results[r].lot].status = "sold" \/ results[r].lot = l
    BY <2>1 DEF ResultsClose, OthersIdle, Sells, l
  <2> QED
    BY <1>1, <1>3, <2>2 DEF Recorded, ResultsNamed, ResultsClose
<1>6. LotKnown(h)'
  BY AfterEnd, KnownAtRest DEF SellLot
<1> QED
  BY <1>4, <1>5, <1>6 DEF Recorded

(***************************************************************************)
(* The results of the lot are those with its number, and the winner's own  *)
(* number is the lot's.                                                    *)
(***************************************************************************)
LEMMA LotNumbered ==
  ASSUME IngestInv, NEW h \in Threads, Recorded, LotHeld(h),
         thread[h].lot \in DOMAIN lots, Fits(Current(h), thread[h].number)
  PROVE  /\ NumberFor(h) = thread[h].number
         /\ SameLot(h) = {r \in DOMAIN results : results[r].number = thread[h].number}
         /\ \A r \in DOMAIN results :
              results[r].lot = thread[h].lot <=> results[r].number = thread[h].number
<1>1. NumberFor(h) = thread[h].number
  BY DEF NumberFor, Fits, Ev
<1>2. \A r \in DOMAIN results :
        results[r].lot = thread[h].lot <=> results[r].number = thread[h].number
  BY DEF Recorded, ResultsNamed, LotsApart, LotHeld
<1> QED
  BY <1>1, <1>2 DEF SameLot

LEMMA ResultPrices ==
  ASSUME TablesOK
  PROVE  \A r \in DOMAIN results : results[r].price \in Nat /\ r \in Nat \ {NoId}
<1>1. \A row \in ResultRow : row.price \in Nat
  BY IngestConstants DEF ResultRow
<1> QED
  BY <1>1, ResultIds DEF NoId

(***************************************************************************)
(* The one with the highest price has the highest price.                   *)
(***************************************************************************)
LEMMA BestIsHighest ==
  ASSUME TablesOK, NEW R \in SUBSET DOMAIN results, R # {}
  PROVE  Best(R) \in R /\ \A q \in R : results[q].price <= results[Best(R)].price
<1>1. \A r \in R : r \in Nat /\ results[r].price \in Nat
  BY ResultPrices
<1>3. IsFiniteSet(R)
  <2>1. Len(results) \in Nat /\ R \subseteq 1 .. Len(results)
    BY DEF TablesOK
  <2> QED
    BY <2>1, FS_Interval, FS_Subset
<1> DEFINE G == {x \in R \X R :
                   \/ results[x[2]].price > results[x[1]].price
                   \/ results[x[2]].price = results[x[1]].price /\ x[2] >= x[1]}
<1>4. \A a, b \in R :
        <<a, b>> \in G <=> \/ results[b].price > results[a].price
                           \/ results[b].price = results[a].price /\ b >= a
  OBVIOUS
<1> HIDE DEF G
<1>5. /\ \A a, b \in R : <<a, b>> \in G \/ <<b, a>> \in G
      /\ \A a, b, c \in R : <<a, b>> \in G /\ <<b, c>> \in G => <<a, c>> \in G
  BY <1>1, <1>4
<1>6. \E m \in R : \A q \in R : <<q, m>> \in G
  BY <1>3, <1>5, TopExists
<1>7. \E m \in R : \A q \in R :
        \/ results[m].price > results[q].price
        \/ results[m].price = results[q].price /\ m >= q
  BY <1>4, <1>6
<1>8. /\ Best(R) \in R
      /\ \A q \in R : \/ results[Best(R)].price > results[q].price
                      \/ results[Best(R)].price = results[q].price /\ Best(R) >= q
  BY <1>7 DEF Best
<1> HIDE DEF Best
<1> QED
  BY <1>1, <1>8

(***************************************************************************)
(* What find_duplicate_auction_result returns.                             *)
(***************************************************************************)
LEMMA DuplicateMeans ==
  ASSUME TablesOK, NEW h \in Threads, Ev(h).price \in Nat
  PROVE  /\ Duplicate(h) = NoId =>
              \A r \in SameLot(h) : results[r].price # 0 /\ Ev(h).price # 0
         /\ Duplicate(h) # NoId =>
              /\ Duplicate(h) \in SameLot(h)
              /\ \/ results[Duplicate(h)].price >= Ev(h).price
                 \/ /\ results[Duplicate(h)].price = 0
                    /\ \A r \in SameLot(h) : results[r].price < Ev(h).price
<1> DEFINE R == SameLot(h)
           b == Best(R)
           U == Unpriced(R)
<1>1. R \in SUBSET DOMAIN results /\ U \in SUBSET R /\ results \in Seq(ResultRow)
  BY DEF SameLot, Unpriced, TablesOK
<1>2. /\ NoId \notin DOMAIN results
      /\ \A r \in R : results[r].price \in Nat
  BY <1>1, ResultPrices
<1>3. R # {} => b \in R /\ \A q \in R : results[q].price <= results[b].price
  BY <1>1, BestIsHighest
<1>4. U # {} => Greatest(U) \in U
  <2>1. U \in SUBSET DOMAIN results
    BY <1>1
  <2> HIDE DEF U
  <2> QED
    BY <1>1, <2>1, LatestRow
<1>5. \A r \in R : r \in U <=> results[r].price = 0
  BY DEF Unpriced
<1>6. CASE R = {}
  <2>1. Duplicate(h) = NoId
    BY <1>6 DEF Duplicate
  <2> QED
    BY <1>6, <2>1
<1>7. CASE R # {} /\ (Ev(h).price = 0 \/ results[b].price >= Ev(h).price)
  <2>2. b \in R /\ results[b].price >= Ev(h).price /\ ~(Ev(h).price > results[b].price)
    <3> HIDE DEF b, U, R
    <3> QED
      BY <1>2, <1>3, <1>7
  <2>1. Duplicate(h) = b
    BY <1>7, <2>2 DEF Duplicate
  <2> HIDE DEF b, U, R
  <2> QED
    BY <1>1, <1>2, <2>1, <2>2 DEF R
<1>8. CASE R # {} /\ ~(Ev(h).price = 0 \/ results[b].price >= Ev(h).price)
  <2>1. /\ Ev(h).price > results[b].price /\ Ev(h).price # 0
        /\ \A r \in R : results[r].price < Ev(h).price
    <3> HIDE DEF b, U, R
    <3> QED
      BY <1>2, <1>3, <1>8
  <2>2. CASE U # {}
    <3>1. Duplicate(h) = Greatest(U)
      BY <1>8, <2>1, <2>2 DEF Duplicate
    <3> QED
      BY <1>1, <1>2, <1>4, <1>5, <2>1, <2>2, <3>1
  <2>3. CASE U = {}
    <3>1. Duplicate(h) = NoId
      BY <1>8, <2>1, <2>3 DEF Duplicate
    <3> QED
      BY <1>5, <2>1, <2>3, <3>1
  <2> QED
    BY <2>2, <2>3
<1> QED
  BY <1>6, <1>7, <1>8

LEMMA WinnerOfThread ==
  ASSUME IngestInv, NEW h \in Threads,
         thread[h].step \in {"lot", "check", "find", "record", "lookup", "queue", "sell"}
  PROVE  /\ thread[h].batch # << >> /\ Current(h) \in Winners
         /\ Ev(h).price \in Nat /\ Ev(h) = events[Current(h)] /\ Ev(h).lot \in Numbers
<1>1. /\ thread[h].batch # << >> /\ Ev(h).type = "auction_winner" /\ TablesOK /\ ThreadOK(h)
  BY InvParts DEF ThreadOK, Handles
<1>2. Current(h) \in DOMAIN events /\ Ev(h) \in Event
  BY <1>1, EventOfThread
<1>3. Ev(h).price \in Prices /\ Ev(h).lot \in Numbers
  BY <1>1, <1>2, EventFields
<1> QED
  BY <1>1, <1>2, <1>3, IngestConstants DEF Winners, Ev

LEMMA KnowsFindResult ==
  ASSUME IngestInv, NEW h \in Threads, LotKnown(h), Recorded, OthersIdle(h), Orderly,
         FindResult(h)
  PROVE  LotKnown(h)'
<1>1. /\ TablesOK /\ UNCHANGED <<events, lots, results>>
      /\ thread[h].step = "find" /\ thread[h].batch # << >>
      /\ thread[h].lot \in DOMAIN lots
      /\ Ev(h).price \in Nat /\ Current(h) \in Winners /\ Ev(h) = events[Current(h)]
  <2>1. thread[h].step = "find" /\ UNCHANGED <<events, lots, results>>
    BY DEF FindResult, tables
  <2> QED
    BY <2>1, WinnerOfThread, InvParts, ThreadShape DEF ThreadOK, Handles
<1>2. /\ LotHeld(h) /\ Fits(Current(h), thread[h].number) /\ Unrecorded(h)
      /\ Ev(h).lot = NoNumber => lots[thread[h].lot].status = "open"
  BY <1>1 DEF LotKnown
<1>3. /\ SameLot(h) = {r \in DOMAIN results : results[r].number = thread[h].number}
      /\ \A r \in DOMAIN results :
           results[r].lot = thread[h].lot <=> results[r].number = thread[h].number
  BY <1>1, <1>2, LotNumbered
<1>4. PICK d : d = Duplicate(h)
  OBVIOUS
<1>5. Found(h, d, IF d = NoId THEN NoRow ELSE results[d])
  BY <1>2, <1>4 DEF FindResult, Found, Unrecorded
<1>6. /\ thread'[h].step = "record" /\ thread'[h].result = d
      /\ thread'[h].row = (IF d = NoId THEN NoRow ELSE results[d])
      /\ thread'[h].lot = thread[h].lot /\ thread'[h].number = thread[h].number
      /\ Current(h)' = Current(h) /\ Ev(h)' = Ev(h)
  BY <1>1, <1>5, AfterFound, EventStays
<1>7. /\ d = NoId => \A r \in SameLot(h) : results[r].price # 0 /\ Ev(h).price # 0
      /\ d # NoId =>
           /\ d \in SameLot(h)
           /\ \/ results[d].price >= Ev(h).price
              \/ /\ results[d].price = 0
                 /\ \A r \in SameLot(h) : results[r].price < Ev(h).price
  BY <1>1, <1>4, DuplicateMeans
<1>8. d # NoId => results[d].number = Ev(h).lot
  <2> SUFFICES ASSUME d # NoId
               PROVE  results[d].number = Ev(h).lot
    OBVIOUS
  <2>1. d \in DOMAIN results /\ results[d].number = thread[h].number
        /\ results[d].lot = thread[h].lot
    BY <1>3, <1>7
  <2>2. Ev(h).lot # NoNumber
    <3>1. CASE "broken" \in history
      BY <1>1, <3>1 DEF Orderly, WinnersNumbered
    <3>2. CASE "broken" \notin history
      <4>1. lots[thread[h].lot].status = "sold"
        BY <1>1, <2>1, <3>2, AllSold DEF Recorded
      <4> QED
        BY <1>2, <4>1
    <3> QED
      BY <3>1, <3>2
  <2> QED
    BY <1>2, <2>1, <2>2 DEF Fits, Ev
<1>9. LotHeld(h)' /\ Fits(Current(h), thread[h].number)' /\ Unrecorded(h)'
  BY <1>1, <1>2, <1>6 DEF LotHeld, Fits, Unrecorded, ResultOf
<1>10. RecordKnown(h)'
  <2>1. CASE d = NoId
    BY <1>1, <1>3, <1>6, <1>7, <2>1 DEF RecordKnown
  <2>2. CASE d # NoId
    <3>1. results[d].number = thread[h].number
      BY <1>3, <1>7, <2>2
    <3>2. Stands(h)' \/ Improves(h)'
      BY <1>1, <1>3, <1>6, <1>7, <2>2, <3>1 DEF Stands, Improves
    <3> QED
      BY <1>1, <1>6, <1>8, <2>2, <3>2 DEF RecordKnown
  <2> QED
    BY <2>1, <2>2
<1> QED
  BY <1>1, <1>2, <1>6, <1>9, <1>10 DEF LotKnown

(***************************************************************************)
(* The steps that write a result.                                          *)
(***************************************************************************)
LEMMA KnowsInsertResult ==
  ASSUME IngestInv, NEW h \in Threads, LotKnown(h), Recorded, OthersIdle(h),
         history \subseteq history', InsertResult(h)
  PROVE  Recorded' /\ LotKnown(h)'
<1>1. /\ TablesOK /\ UNCHANGED <<events, lots, tickets>>
      /\ thread[h].step = "record" /\ thread[h].batch # << >> /\ thread[h].result = NoId
      /\ thread[h].lot \in DOMAIN lots
      /\ Ev(h).price \in Nat /\ Current(h) \in Winners /\ Ev(h) = events[Current(h)]
  <2>1. /\ thread[h].step = "record" /\ thread[h].result = NoId
        /\ UNCHANGED <<events, lots, tickets>>
    BY DEF InsertResult
  <2> QED
    BY <2>1, WinnerOfThread, InvParts, ThreadShape DEF ThreadOK, Handles
<1>2. /\ LotHeld(h) /\ Fits(Current(h), thread[h].number) /\ Unrecorded(h)
      /\ \A r \in DOMAIN results :
           results[r].number = thread[h].number => results[r].price # 0 /\ Ev(h).price # 0
  BY <1>1 DEF LotKnown, RecordKnown
<1>3. /\ NumberFor(h) = thread[h].number
      /\ \A r \in DOMAIN results :
           results[r].lot = thread[h].lot <=> results[r].number = thread[h].number
  BY <1>1, <1>2, LotNumbered
<1> DEFINE new == [lot |-> thread[h].lot, number |-> thread[h].number,
                   buyer |-> Ev(h).buyer, price |-> Ev(h).price,
                   source |-> Current(h), at |-> now]
           i == Len(results) + 1
<1>4. results' = Append(results, new) /\ Inserted(h, i, results'[i])
  BY <1>2, <1>3 DEF InsertResult, Inserted, Unrecorded
<1>5. /\ DOMAIN results' = DOMAIN results \cup {i} /\ i \notin DOMAIN results
      /\ results'[i] = new /\ \A r \in DOMAIN results : results'[r] = results[r]
  <2>1. results \in Seq(ResultRow)
    BY <1>1 DEF TablesOK
  <2> HIDE DEF new
  <2> QED
    BY <1>4, <2>1
<1>6. /\ thread'[h].step = "lookup" /\ thread'[h].mode = "new"
      /\ thread'[h].result = i /\ thread'[h].row = new
      /\ thread'[h].lot = thread[h].lot /\ thread'[h].number = thread[h].number
      /\ Current(h)' = Current(h)
  BY <1>1, <1>4, <1>5, AfterInserted, EventStays
<1>7. /\ new.lot = thread[h].lot /\ new.number = thread[h].number
      /\ new.price = Ev(h).price /\ new.source = Current(h)
  OBVIOUS
<1> HIDE DEF new, i
<1>8. LotsApart' /\ ResultsNamed'
  <2>1. LotsApart'
    BY <1>1 DEF Recorded, LotsApart
  <2>2. ResultsNamed'
    BY <1>1, <1>2, <1>5, <1>7 DEF Recorded, ResultsNamed, LotHeld
  <2> QED
    BY <2>1, <2>2
<1>9. ResultsOwn'
  <2>1. \A r \in DOMAIN results : results[r].source # Current(h)
    BY <1>2 DEF Unrecorded, ResultOf
  <2>2. \A r, q \in DOMAIN results' : results'[r].source = results'[q].source => r = q
    BY <1>5, <1>7, <2>1 DEF Recorded, ResultsOwn
  <2>3. \A r \in DOMAIN results' :
          /\ results'[r].source \in Winners
          /\ events[results'[r].source].price = results'[r].price
          /\ Fits(results'[r].source, results'[r].number)
    BY <1>1, <1>2, <1>5, <1>7 DEF Recorded, ResultsOwn
  <2> QED
    BY <1>1, <2>2, <2>3 DEF ResultsOwn, Winners, Fits
<1>10. OneUnpriced'
  BY <1>2, <1>3, <1>5, <1>7 DEF Recorded, OneUnpriced
<1>11. "broken" \notin history' => ResultsClose'
  <2>1. SUFFICES ASSUME ResultsClose
                 PROVE  ResultsClose'
    BY DEF Recorded
  <2>2. \A r \in DOMAIN results : lots[results[r].lot].status = "sold"
    BY <1>1, <2>1, AllSold
  <2>3. /\ thread'[h].step = "lookup" /\ thread'[h].mode = "new"
        /\ thread'[h].lot = results'[i].lot
    BY <1>5, <1>6, <1>7
  <2>4. ASSUME NEW r \in DOMAIN results'
        PROVE  \/ lots'[results'[r].lot].status = "sold"
               \/ /\ thread'[h].step \in {"lookup", "queue", "sell"}
                  /\ thread'[h].mode = "new" /\ thread'[h].lot = results'[r].lot
    BY <1>1, <1>5, <2>2, <2>3
  <2> QED
    BY <2>4 DEF ResultsClose, Sells
<1>12. LotKnown(h)'
  BY <1>5, <1>6, <1>7 DEF LotKnown, ResultKnown
<1> QED
  BY <1>8, <1>9, <1>10, <1>11, <1>12 DEF Recorded

(***************************************************************************)
(* record_auction_result with a result that was found: it keeps its lot    *)
(* and number, and takes the event with a higher price.                    *)
(***************************************************************************)
Outbids(h) == Ev(h).price > thread[h].row.price

LEMMA ResultUpgraded ==
  ASSUME IngestInv, NEW h \in Threads, UpgradeResult(h), ~Raise(h), RecordKnown(h)
  PROVE  LET r == thread[h].result
         IN /\ r \in DOMAIN results /\ DOMAIN results' = DOMAIN results
            /\ \A q \in DOMAIN results : q # r => results'[q] = results[q]
            /\ results'[r].lot = results[r].lot /\ results'[r].number = results[r].number
            /\ ~Outbids(h) => results'[r] = results[r]
            /\ Outbids(h) =>
                 /\ ResultOf(Current(h)) \subseteq {r}
                 /\ results'[r].price = Ev(h).price /\ results'[r].source = Current(h)
            /\ Upgraded(h, results'[r])
<1> DEFINE r == thread[h].result
<1>1. /\ r \in DOMAIN results /\ TablesOK /\ thread[h].row = results[r]
      /\ h \in DOMAIN thread
  BY InvParts, ThreadShape DEF UpgradeResult, RecordKnown
<1>2. results[r] \in ResultRow
  BY <1>1, ResultIds
<1>3. CASE Outbids(h)
  <2> DEFINE new == [results[r] EXCEPT !.price = Ev(h).price, !.buyer = Ev(h).buyer,
                                       !.source = Current(h), !.at = now]
  <2>1. /\ results' = [results EXCEPT ![r] = new]
        /\ thread' = [thread EXCEPT ![h].step = "lookup", ![h].mode = "known",
                                    ![h].row = results'[r]]
        /\ ResultOf(Current(h)) \subseteq {r}
    BY <1>3 DEF UpgradeResult, Outbids
  <2>2. /\ new.lot = results[r].lot /\ new.number = results[r].number
        /\ new.price = Ev(h).price /\ new.source = Current(h)
    BY <1>2 DEF ResultRow
  <2> HIDE DEF new
  <2> QED
    BY <1>1, <1>3, <2>1, <2>2 DEF Upgraded
<1>4. CASE ~Outbids(h)
  <2>1. /\ results' = results
        /\ thread' = [thread EXCEPT ![h].step = "lookup", ![h].mode = "known",
                                    ![h].row = @]
    BY <1>4 DEF UpgradeResult, Outbids
  <2>2. Upgraded(h, results'[r])
    BY <1>1, <2>1 DEF Upgraded
  <2> QED
    BY <1>1, <1>4, <2>1, <2>2
<1> QED
  BY <1>3, <1>4

LEMMA KnowsUpgradeResult ==
  ASSUME IngestInv, NEW h \in Threads, LotKnown(h), Recorded, OthersIdle(h),
         history \subseteq history', UpgradeResult(h)
  PROVE  Recorded' /\ LotKnown(h)'
<1>1. /\ TablesOK /\ UNCHANGED <<events, lots, tickets>>
      /\ thread[h].step = "record" /\ thread[h].batch # << >> /\ thread[h].result # NoId
      /\ Ev(h).price \in Nat /\ Current(h) \in Winners /\ Ev(h) = events[Current(h)]
  <2>1. /\ thread[h].step = "record" /\ thread[h].result # NoId
        /\ UNCHANGED <<events, lots, tickets>>
    BY DEF UpgradeResult
  <2> QED
    BY <2>1, WinnerOfThread, InvParts
<1>2. /\ RecordKnown(h) /\ Unrecorded(h) /\ Fits(Current(h), thread[h].number)
      /\ thread[h].row = results[thread[h].result]
      /\ thread[h].row.number = Ev(h).lot
  BY <1>1 DEF LotKnown, RecordKnown
<1>3. CASE Raise(h)
  <2>2. thread'[h].step = "idle"
    BY <1>3, FieldsThere DEF Raise, IdleThread
  <2>3. results' = results
    <3>1. results' # results => \E row : Upgraded(h, row)
      BY <1>1, <1>2 DEF UpgradeResult, Upgraded
    <3>2. ASSUME NEW row, Upgraded(h, row)
          PROVE  FALSE
      BY <2>2, <3>2, AfterUpgraded
    <3> QED
      BY <3>1, <3>2
  <2>5. Recorded'
    BY <1>1, <2>3, RecordedStays, SellsNone
  <2> QED
    BY <1>3, <2>5, AfterEnd, KnownAtRest
<1>4. CASE ~Raise(h)
  <2> DEFINE r == thread[h].result
  <2>1. /\ r \in DOMAIN results /\ DOMAIN results' = DOMAIN results
        /\ \A q \in DOMAIN results : q # r => results'[q] = results[q]
        /\ results'[r].lot = results[r].lot /\ results'[r].number = results[r].number
        /\ ~Outbids(h) => results'[r] = results[r]
        /\ Outbids(h) =>
             /\ ResultOf(Current(h)) \subseteq {r}
             /\ results'[r].price = Ev(h).price /\ results'[r].source = Current(h)
        /\ Upgraded(h, results'[r])
    BY <1>2, <1>4, ResultUpgraded
  <2>2. /\ thread'[h].step = "lookup" /\ thread'[h].mode = "known"
        /\ thread'[h].row = results'[r] /\ thread'[h].result = r
        /\ Current(h)' = Current(h) /\ Ev(h)' = Ev(h)
    BY <1>1, <2>1, AfterUpgraded, EventStays
  <2> HIDE DEF r
  <2>3. /\ \A q \in DOMAIN results : results'[q].lot = results[q].lot
                                     /\ results'[q].number = results[q].number
        /\ \A q \in DOMAIN results : results[q].price \in Nat
        /\ results'[r].price >= results[r].price
        /\ Outbids(h) => results'[r].price # 0
        /\ results'[r].price >= Ev(h).price
    <3>1. \A q \in DOMAIN results : results[q].price \in Nat
      BY <1>1, ResultPrices
    <3> QED
      BY <1>1, <1>2, <2>1, <3>1 DEF Outbids, r
  <2>4. LotsApart' /\ ResultsNamed'
    BY <1>1, <2>1, <2>3 DEF Recorded, LotsApart, ResultsNamed
  <2>5. OneUnpriced'
    BY <2>1, <2>3 DEF Recorded, OneUnpriced
  <2>6. ResultsOwn'
    <3>1. CASE ~Outbids(h)
      <4>1. \A q \in DOMAIN results : results'[q] = results[q]
        BY <2>1, <3>1
      <4> QED
        BY <1>1, <2>1, <4>1 DEF Recorded, ResultsOwn, Winners, Fits
    <3>2. CASE Outbids(h)
      <4>1. \A q \in DOMAIN results : q # r => results[q].source # Current(h)
        BY <2>1, <3>2 DEF ResultOf
      <4>2. \A p, q \in DOMAIN results : results'[p].source = results'[q].source => p = q
        BY <2>1, <3>2, <4>1 DEF Recorded, ResultsOwn
      <4>3. Fits(Current(h), results'[r].number)
        BY <1>1, <1>2, <2>1 DEF Fits, r
      <4>4. \A q \in DOMAIN results :
              /\ results'[q].source \in Winners
              /\ events[results'[q].source].price = results'[q].price
              /\ Fits(results'[q].source, results'[q].number)
        BY <1>1, <2>1, <3>2, <4>3 DEF Recorded, ResultsOwn
      <4> QED
        BY <1>1, <2>1, <4>2, <4>4 DEF ResultsOwn, Winners, Fits
    <3> QED
      BY <3>1, <3>2
  <2>7. "broken" \notin history' => ResultsClose'
    <3>1. SUFFICES ASSUME ResultsClose
                   PROVE  ResultsClose'
      BY DEF Recorded
    <3>2. \A q \in DOMAIN results : lots[results[q].lot].status = "sold"
      BY <1>1, <3>1, AllSold
    <3> QED
      BY <1>1, <2>1, <2>3, <3>2 DEF ResultsClose
  <2>8. LotKnown(h)'
    BY <1>2, <2>1, <2>2, <2>3 DEF LotKnown, ResultKnown, Stands, r
  <2> QED
    BY <2>4, <2>5, <2>6, <2>7, <2>8 DEF Recorded
<1> QED
  BY <1>3, <1>4

-----------------------------------------------------------------------------
(* The ticket that is looked for *)

LEMMA TicketForMeans ==
  ASSUME TablesOK, NEW h \in Threads
  PROVE  LET k == TicketFor(h)
             a == Asked(h)
             e == Current(h)
         IN /\ k = NoId =>
                 /\ TicketOf(e) = {}
                 /\ \A t \in DOMAIN tickets : tickets[t].result # a.result
            /\ k # NoId =>
                 /\ k \in DOMAIN tickets
                 /\ \/ tickets[k].source = e
                    \/ TicketOf(e) = {} /\ tickets[k].result = a.result
                    \/ /\ TicketOf(e) = {}
                       /\ \A t \in DOMAIN tickets : tickets[t].result # a.result
                       /\ tickets[k].number = a.number
<1> DEFINE k == TicketFor(h)
           a == Asked(h)
           e == Current(h)
           S == TicketOf(e)
           R == {t \in DOMAIN tickets : tickets[t].result = a.result}
           L == {t \in DOMAIN tickets :
                   /\ a.number # NoNumber /\ tickets[t].number = a.number
                   /\ tickets[t].buyer = a.buyer /\ tickets[t].status = "open"}
<1>1. tickets \in Seq(TicketRow) /\ NoId \notin DOMAIN tickets /\ a.source = e
  BY DEF TablesOK, NoId, Asked
<1>2. /\ S \in SUBSET DOMAIN tickets /\ R \in SUBSET DOMAIN tickets
      /\ L \in SUBSET DOMAIN tickets
  BY DEF TicketOf
<1>3. /\ \A t \in S : tickets[t].source = e
      /\ \A t \in DOMAIN tickets : t \in R <=> tickets[t].result = a.result
      /\ \A t \in L : tickets[t].number = a.number
  BY DEF TicketOf
<1>4. k = CASE S # {} -> Greatest(S)
            [] S = {} /\ R # {} -> Greatest(R)
            [] S = {} /\ R = {} /\ L # {} -> Greatest(L)
            [] OTHER -> NoId
  BY <1>1 DEF TicketFor
<1> HIDE DEF k, a, S, R, L
<1>5. /\ S # {} => Greatest(S) \in S
      /\ R # {} => Greatest(R) \in R
      /\ L # {} => Greatest(L) \in L
  BY <1>1, <1>2, LatestRow
<1>6. CASE S # {}
  BY <1>1, <1>2, <1>3, <1>4, <1>5, <1>6 DEF k
<1>7. CASE S = {} /\ R # {}
  <2>1. k \in R
    BY <1>4, <1>5, <1>7
  <2> QED
    BY <1>1, <1>2, <1>3, <1>7, <2>1 DEF k, S, a, e
<1>8. CASE S = {} /\ R = {} /\ L # {}
  <2>1. k \in L
    BY <1>4, <1>5, <1>8
  <2> QED
    BY <1>1, <1>2, <1>3, <1>8, <2>1 DEF k, S, a, e
<1>9. CASE S = {} /\ R = {} /\ L = {}
  <2>1. k = NoId
    BY <1>4, <1>9
  <2> QED
    BY <1>1, <1>3, <1>9, <2>1 DEF k, S, a, e
<1> QED
  BY <1>6, <1>7, <1>8, <1>9

(***************************************************************************)
(* An event's ticket is found before another, so that the write of the     *)
(* ticket does not raise.                                                  *)
(***************************************************************************)
LEMMA QueueSucceeds ==
  ASSUME RequestInv, Alone, TicketsApart, NEW h \in Threads, thread[h].step = "queue"
  PROVE  TicketOf(Current(h)) \ {thread[h].ticket} = {}
<1>1. thread[h].ticket = TicketFor(h) /\ TablesOK
  BY InvParts DEF RequestInv, OneRequest, QueueKnows
<1>2. TicketFor(h) = NoId => TicketOf(Current(h)) = {}
  BY <1>1, TicketForMeans
<1>3. TicketFor(h) # NoId =>
        \/ tickets[TicketFor(h)].source = Current(h) /\ TicketFor(h) \in DOMAIN tickets
        \/ TicketOf(Current(h)) = {}
  BY <1>1, TicketForMeans
<1>4. PICK k : k = TicketFor(h)
  OBVIOUS
<1> QED
  BY <1>1, <1>2, <1>3, <1>4 DEF TicketsApart, TicketOf

(***************************************************************************)
(* What QueueTicket writes: the ticket it found, or a new one, gets the    *)
(* lot, result and source that are asked for and no lower a price.         *)
(***************************************************************************)
Written(h, k) ==
  LET a == Asked(h)
  IN /\ DOMAIN tickets' = DOMAIN tickets \cup {k}
     /\ \A t \in DOMAIN tickets : t # k => tickets'[t] = tickets[t]
     /\ tickets'[k].lot = a.lot /\ tickets'[k].result = a.result
     /\ tickets'[k].source = a.source /\ tickets'[k].price >= a.price
     /\ k \in DOMAIN tickets =>
          /\ k = thread[h].ticket
          /\ tickets'[k].number = tickets[k].number
          /\ tickets'[k].status = tickets[k].status
     /\ k \notin DOMAIN tickets =>
          /\ thread[h].ticket = NoId
          /\ tickets'[k] = a

LEMMA QueueWritten ==
  ASSUME IngestInv, NEW h \in Threads, QueueTicket(h),
         TicketOf(Current(h)) \ {thread[h].ticket} = {}
  PROVE  Queued(h) /\ \E k : Written(h, k)
<1>1. /\ tickets \in Seq(TicketRow) /\ Asked(h) \in TicketRow /\ Queued(h)
      /\ thread[h].ticket \in {NoId} \cup DOMAIN tickets
      /\ tickets' = IF thread[h].ticket = NoId THEN Append(tickets, Asked(h))
                    ELSE [tickets EXCEPT ![thread[h].ticket] = UpdatedTicket(@, Asked(h))]
  BY InvParts, AskedType, ThreadShape DEF QueueTicket, TablesOK
<1>2. Asked(h).price \in Nat
  BY <1>1, IngestConstants DEF TicketRow
<1>3. PICK a : a = Asked(h)
  OBVIOUS
<1>4. CASE thread[h].ticket = NoId
  <2> DEFINE k == Len(tickets) + 1
  <2>1. tickets' = Append(tickets, a)
    BY <1>1, <1>3, <1>4
  <2>2. /\ DOMAIN tickets' = DOMAIN tickets \cup {k} /\ k \notin DOMAIN tickets
        /\ tickets'[k] = a /\ \A t \in DOMAIN tickets : tickets'[t] = tickets[t]
    BY <1>1, <2>1
  <2> HIDE DEF k
  <2>3. Written(h, k)
    BY <1>2, <1>3, <1>4, <2>2 DEF Written
  <2> QED
    BY <1>1, <2>3
<1>5. CASE thread[h].ticket # NoId
  <2> DEFINE k == thread[h].ticket
             row == tickets[k]
             new == UpdatedTicket(row, a)
  <2>1. k \in DOMAIN tickets /\ row \in TicketRow /\ a \in TicketRow
    BY <1>1, <1>3, <1>5, ElementOfSeq
  <2>2. tickets' = [tickets EXCEPT ![k] = new]
    BY <1>1, <1>3, <1>5
  <2>3. /\ new.lot = a.lot /\ new.result = a.result /\ new.source = a.source
        /\ new.number = row.number /\ new.status = row.status
    BY <2>1 DEF UpdatedTicket, TicketRow
  <2>4. new.price >= a.price
    <3>1. a.price \in Nat /\ row.price \in Nat
      BY <2>1, IngestConstants DEF TicketRow
    <3>2. new.price = Higher(a.price, row.price)
      BY <2>1 DEF UpdatedTicket, TicketRow
    <3> QED
      BY <3>1, <3>2 DEF Higher
  <2> HIDE DEF new
  <2>5. /\ DOMAIN tickets' = DOMAIN tickets \cup {k} /\ tickets'[k] = new
        /\ \A t \in DOMAIN tickets : t # k => tickets'[t] = tickets[t]
    BY <1>1, <2>1, <2>2
  <2>6. Written(h, k)
    BY <1>3, <2>1, <2>3, <2>4, <2>5 DEF Written
  <2> QED
    BY <1>1, <2>6
<1> QED
  BY <1>4, <1>5

LEMMA TicketsApartKept ==
  ASSUME IngestInv, TicketsApart, [SessionNext]_sessionVars
  PROVE  TicketsApart'
<1>1. CASE tickets' = tickets
  BY <1>1 DEF TicketsApart
<1>2. CASE Operate
  <2>1. /\ DOMAIN tickets' = DOMAIN tickets /\ tickets \in Seq(TicketRow)
        /\ \A t \in DOMAIN tickets :
             \E s \in TicketStatuses : tickets'[t] = [tickets[t] EXCEPT !.status = s]
    BY <1>2, TypeReview, InvParts DEF Operate, TablesOK
  <2>2. \A t \in DOMAIN tickets : tickets'[t].source = tickets[t].source
    <3>1. \A t \in DOMAIN tickets : tickets[t] \in TicketRow
      BY <2>1, ElementOfSeq
    <3> QED
      BY <2>1, <3>1 DEF TicketRow
  <2> QED
    BY <2>1, <2>2 DEF TicketsApart
<1>3. ASSUME NEW h \in Threads, QueueTicket(h), tickets' # tickets
      PROVE  TicketsApart'
  <2>1. TicketOf(Current(h)) \ {thread[h].ticket} = {}
    BY <1>3 DEF QueueTicket
  <2>2. PICK k : Written(h, k)
    BY <1>3, <2>1, QueueWritten
  <2>3. /\ DOMAIN tickets' = DOMAIN tickets \cup {k}
        /\ \A t \in DOMAIN tickets : t # k => tickets'[t] = tickets[t]
        /\ tickets'[k].source = Current(h)
    BY <2>2 DEF Written, Asked
  <2>4. \A t \in DOMAIN tickets : t # k => tickets[t].source # Current(h)
    <3>1. NoId \notin DOMAIN tickets
      BY InvParts DEF TablesOK, NoId
    <3>2. k = thread[h].ticket \/ thread[h].ticket = NoId
      BY <2>2 DEF Written
    <3> QED
      BY <2>1, <3>1, <3>2 DEF TicketOf
  <2> QED
    BY <2>3, <2>4 DEF TicketsApart
<1> QED
  BY <1>1, <1>2, <1>3, TicketWriters

(***************************************************************************)
(* The lookup of the ticket and its write leave the lots and the results   *)
(* alone.                                                                  *)
(***************************************************************************)
LEMMA KnowsQueued ==
  ASSUME IngestInv, NEW h \in Threads, LotKnown(h),
         thread[h].step \in {"lookup", "queue"}, Queued(h)
  PROVE  LotKnown(h)' /\ \A l : Sells(h, l) => Sells(h, l)'
<1>1. thread[h].mode \in {"new", "known", "again"}
  BY DEF LotKnown, ResultKnown
<1>2. CASE thread[h].mode = "new"
  <2>1. Goes(h, "sell")
    BY <1>2 DEF Queued
  <2>2. thread'[h].step = "sell" /\ thread'[h].mode = "new" /\ thread'[h].lot = thread[h].lot
    BY <1>2, <2>1, AfterGoes DEF SameFindings
  <2> QED
    BY <2>2 DEF LotKnown, Sells
<1>3. CASE thread[h].mode # "new"
  <2>1. Raise(h) \/ Acknowledge(h)
    BY <1>1, <1>3 DEF Queued
  <2> QED
    BY <1>3, <2>1, AfterEnd, KnownAtRest DEF Sells
<1> QED
  BY <1>2, <1>3

LEMMA KnowsLookUpTicket ==
  ASSUME IngestInv, NEW h \in Threads, LotKnown(h), LookUpTicket(h)
  PROVE  LotKnown(h)' /\ \A l : Sells(h, l) => Sells(h, l)'
<1>1. /\ thread[h].step = "lookup" /\ UNCHANGED <<events, lots, results, tickets>>
      /\ thread[h].batch # << >>
  BY InvParts DEF LookUpTicket, ThreadOK
<1>2. CASE thread' = [thread EXCEPT ![h].step = "queue", ![h].ticket = TicketFor(h)]
  <2>1. /\ SameFindings(h) /\ thread'[h].step = "queue"
        /\ Current(h)' = Current(h) /\ Ev(h)' = Ev(h)
    BY <1>1, <1>2, AfterLookUp, EventStays
  <2>2. ResultKnown(h)'
    BY <1>1, <2>1 DEF LotKnown, ResultKnown, Stands, SameFindings
  <2> QED
    BY <1>1, <2>1, <2>2 DEF LotKnown, Sells, SameFindings
<1> QED
  BY <1>1, <1>2, KnowsQueued DEF LookUpTicket

LEMMA KnowsQueueTicket ==
  ASSUME RequestInv, Alone, TicketsApart, NEW h \in Threads, LotKnown(h), QueueTicket(h)
  PROVE  LotKnown(h)' /\ \A l : Sells(h, l) => Sells(h, l)'
<1>1. Queued(h) /\ IngestInv /\ thread[h].step = "queue"
  BY QueueSucceeds DEF QueueTicket, RequestInv
<1> QED
  BY <1>1, KnowsQueued

-----------------------------------------------------------------------------
(* Lots and results stay in order *)

LEMMA KnowsWork ==
  ASSUME RequestInv, TicketsApart, Orderly, Recorded, NEW h \in Threads, LotKnown(h),
         OthersIdle(h), Work(h), Orderly'
  PROVE  Recorded' /\ LotKnown(h)'
<1>1. /\ IngestInv /\ Alone /\ history \subseteq history' /\ Ingest(h)
      /\ \A e \in DOMAIN events : e \in DOMAIN events' /\ events'[e] = events[e]
  BY StepOfThread DEF RequestInv, Orderly, Work, Notes
<1>2. "broken" \notin history \/ ~Renumbers
  BY <1>1 DEF Orderly, Work, Notes
<1>3. CASE SyncLot(h) \/ FindLot(h) \/ CheckDuplicate(h)
  <2>1. LotKnown(h)'
    <3>1. CASE CheckDuplicate(h)
      <4>1. CASE Acknowledge(h)
        BY <1>1, <4>1, AfterEnd, KnownAtRest
      <4>2. CASE Goes(h, "lot")
        BY <1>1, <4>2, AfterGoes, KnownAtRest
      <4> QED
        BY <3>1, <4>1, <4>2 DEF CheckDuplicate
    <3> QED
      BY <1>1, <1>3, <3>1, KnowsSyncLot, KnowsFindLot
  <2>2. UNCHANGED <<lots, results>> /\ thread[h].step \in {"next", "lot"}
    BY <1>3 DEF SyncLot, FindLot, CheckDuplicate
  <2> QED
    BY <1>1, <2>1, <2>2, RecordedStays, SellsNone
<1>4. CASE CheckRecorded(h)
  <2>1. UNCHANGED <<lots, results>> /\ thread[h].step = "check"
    BY <1>4 DEF CheckRecorded
  <2> QED
    BY <1>1, <1>4, <2>1, KnowsCheckRecorded, RecordedStays, SellsNone
<1>5. CASE FindResult(h)
  <2>1. UNCHANGED <<lots, results>> /\ thread[h].step = "find"
    BY <1>5 DEF FindResult, tables
  <2> QED
    BY <1>1, <1>5, <2>1, KnowsFindResult, RecordedStays, SellsNone
<1>6. CASE OpenLot(h) \/ NameLot(h) \/ SellLot(h)
  BY <1>1, <1>2, <1>6, KnowsOpenLot, KnowsNameLot, KnowsSellLot
<1>7. CASE InsertResult(h) \/ UpgradeResult(h)
  BY <1>1, <1>7, KnowsInsertResult, KnowsUpgradeResult
<1>8. CASE LookUpTicket(h) \/ QueueTicket(h)
  <2>1. UNCHANGED <<lots, results>>
    BY <1>8 DEF LookUpTicket, QueueTicket
  <2>2. LotKnown(h)' /\ \A l : Sells(h, l) => Sells(h, l)'
    BY <1>1, <1>8, KnowsLookUpTicket, KnowsQueueTicket
  <2> QED
    BY <1>1, <2>1, <2>2, RecordedStays
<1>9. CASE Finish(h)
  <2>1. UNCHANGED <<lots, results>> /\ thread[h].step = "next" /\ thread'[h].step = "idle"
    BY <1>1, <1>9, FieldsThere DEF Finish, tables, IdleThread
  <2> QED
    BY <1>1, <2>1, RecordedStays, SellsNone, KnownAtRest
<1> QED
  BY <1>1, <1>3, <1>4, <1>5, <1>6, <1>7, <1>8, <1>9 DEF Ingest

(***************************************************************************)
(* What a request knows still holds when others write neither lots nor     *)
(* results, and while it waits.                                            *)
(***************************************************************************)
LEMMA LotKnownStill ==
  ASSUME IngestInv, NEW k \in Threads, thread'[k] = thread[k], UNCHANGED <<lots, results>>,
         \A e \in DOMAIN events : events'[e] = events[e], LotKnown(k)
  PROVE  LotKnown(k)'
<1>1. CASE thread[k].step \in {"idle", "next"}
  BY <1>1, KnownAtRest
<1>2. CASE thread[k].step \notin {"idle", "next"}
  <2>1. Current(k)' = Current(k) /\ Ev(k)' = Ev(k) /\ Current(k) \in DOMAIN events
    BY <1>2, InvParts, EventStays DEF ThreadOK, SameEvent
  <2>2. /\ OpenLots' = OpenLots /\ \A n : Numbered(n)' = Numbered(n)
        /\ LotHeld(k)' <=> LotHeld(k)
        /\ Unrecorded(k)' <=> Unrecorded(k)
    BY <2>1 DEF OpenLots, Numbered, LotHeld, Unrecorded, ResultOf
  <2>3. Numbered(Ev(k).lot)' = Numbered(Ev(k).lot)
    BY <2>1 DEF Numbered
  <2>4. Fits(Current(k), thread[k].number)' <=> Fits(Current(k), thread[k].number)
    BY <2>1 DEF Fits
  <2>5. (RecordKnown(k)' <=> RecordKnown(k)) /\ (ResultKnown(k)' <=> ResultKnown(k))
    BY <2>1 DEF RecordKnown, ResultKnown, Stands, Improves
  <2> QED
    BY <2>1, <2>2, <2>3, <2>4, <2>5 DEF LotKnown
<1> QED
  BY <1>1, <1>2

LEMMA IdleKnows ==
  ASSUME NEW h \in Threads, OthersIdle(h), LotKnown(h)'
  PROVE  \A k \in Threads : LotKnown(k)'
BY KnownAtRest DEF OthersIdle

(***************************************************************************)
(* Steps of the stream, the clock and the operator.                        *)
(***************************************************************************)
LEMMA EventsGrow ==
  ASSUME IngestInv, [SessionNext]_sessionVars
  PROVE  \A e \in DOMAIN events : e \in DOMAIN events' /\ events'[e] = events[e]
<1>1. CASE Stream
  BY <1>1, TypeStream DEF Stream, TablesGrow
<1>2. CASE ~Stream
  <2>1. events' = events
    BY <1>2, StepOfThread DEF SessionNext, Wait, Tick, Operate, Review,
       sessionVars, ingestVars
  <2> QED
    BY <2>1
<1> QED
  BY <1>1, <1>2

OutsideStep ==
  UNCHANGED <<thread, lots, results, answered>> /\ (tickets' = tickets \/ Operate)

LEMMA StepKinds ==
  ASSUME [SessionNext]_sessionVars
  PROVE  OutsideStep \/ \E h \in Threads : Poll(h) \/ Work(h) \/ Fault(h)
<1>1. CASE UNCHANGED sessionVars
  BY <1>1 DEF sessionVars, ingestVars, tables, OutsideStep
<1>2. CASE Stream \/ Wait
  BY <1>2 DEF Stream, Wait, LotUpdate, AuctionWinner, Tick, tables, OutsideStep
<1>3. CASE Operate
  BY <1>3 DEF Operate, Review, OutsideStep
<1> QED
  BY <1>1, <1>2, <1>3 DEF SessionNext

LEMMA RestStep ==
  ASSUME IngestInv, NEW h \in Threads, Poll(h) \/ Fault(h)
  PROVE  /\ UNCHANGED <<lots, results, tickets, events>>
         /\ thread'[h].step \in {"idle", "next"}
         /\ Poll(h) => thread[h].step = "idle"
         /\ Fault(h) => "broken" \in history'
<1>1. CASE Poll(h)
  <2>1. PICK r, b : Starts(h, r, b)
    BY <1>1 DEF Poll, PollFeed, PollStats, Retry
  <2>2. ~Fault(h)
    BY <2>1 DEF Starts, Fault, Break
  <2> QED
    BY <1>1, <2>1, <2>2, FieldsThere DEF Starts, tables, IdleThread
<1>2. CASE Fault(h)
  <2>1. /\ UNCHANGED <<lots, results, tickets, events>> /\ thread[h].step # "idle"
        /\ thread'[h].step \in {"idle", "next"} /\ "broken" \in history'
    BY <1>2, AfterEnd DEF Fault, Break, Notes
  <2>2. ~Poll(h)
    BY <2>1 DEF Poll, PollFeed, PollStats, Retry, Starts
  <2> QED
    BY <2>1, <2>2
<1> QED
  BY <1>1, <1>2

LEMMA LotsInvKept ==
  ASSUME RequestInv, TicketsApart, LotsInv, [SessionNext]_sessionVars
  PROVE  LotsInv'
<1> SUFFICES ASSUME Orderly'
             PROVE  Recorded' /\ \A k \in Threads : LotKnown(k)'
  BY DEF LotsInv
<1>1. /\ IngestInv /\ history \subseteq history'
      /\ \A e \in DOMAIN events : e \in DOMAIN events' /\ events'[e] = events[e]
  BY EventsGrow, HistoryGrows DEF RequestInv
<1>2. Orderly /\ Recorded /\ \A k \in Threads : LotKnown(k)
  BY <1>1, OrderlyBefore DEF LotsInv
<1>3. CASE OutsideStep
  <2>1. UNCHANGED <<thread, lots, results>>
    BY <1>3 DEF OutsideStep
  <2>2. \A k \in Threads : LotKnown(k)'
    BY <1>1, <1>2, <2>1, LotKnownStill
  <2>3. LotsApart' /\ ResultsNamed' /\ OneUnpriced'
    BY <1>2, <2>1 DEF Recorded, LotsApart, ResultsNamed, OneUnpriced
  <2>4. ResultsOwn'
    BY <1>1, <1>2, <2>1 DEF Recorded, ResultsOwn, Winners, Fits
  <2>5. "broken" \notin history' => ResultsClose'
    BY <1>1, <1>2, <2>1 DEF Recorded, ResultsClose, Sells
  <2> QED
    BY <2>2, <2>3, <2>4, <2>5 DEF Recorded
<1>4. ASSUME NEW h \in Threads, Poll(h) \/ Work(h) \/ Fault(h)
      PROVE  Recorded' /\ \A k \in Threads : LotKnown(k)'
  <2>1. OthersIdle(h)
    BY <1>4, AloneStep DEF Orderly, Alone
  <2>2. CASE Work(h)
    BY <1>2, <2>1, <2>2, KnowsWork, IdleKnows
  <2>3. CASE Poll(h) \/ Fault(h)
    <3>1. /\ UNCHANGED <<lots, results>> /\ thread'[h].step \in {"idle", "next"}
          /\ Poll(h) => thread[h].step = "idle"
          /\ Fault(h) => "broken" \in history'
      BY <1>1, <2>3, RestStep
    <3>2. \A k \in Threads : LotKnown(k)'
      BY <2>1, <3>1, KnownAtRest, IdleKnows
    <3>3. LotsApart' /\ ResultsNamed' /\ OneUnpriced'
      BY <1>2, <3>1 DEF Recorded, LotsApart, ResultsNamed, OneUnpriced
    <3>4. ResultsOwn'
      BY <1>1, <1>2, <3>1 DEF Recorded, ResultsOwn, Winners, Fits
    <3>5. CASE Poll(h)
      BY <1>1, <1>2, <2>1, <3>1, <3>2, <3>5, RecordedStays, SellsNone
    <3>6. CASE Fault(h)
      BY <3>1, <3>2, <3>3, <3>4, <3>6 DEF Recorded
    <3> QED
      BY <2>3, <3>5, <3>6
  <2> QED
    BY <1>4, <2>2, <2>3
<1> QED
  BY <1>3, <1>4, StepKinds

-----------------------------------------------------------------------------
(* The ticket that is asked for *)

(***************************************************************************)
(* What the ticket is asked for with: the lot and the number of the        *)
(* result, which the winner fits, and no lower a price than the winner's.  *)
(***************************************************************************)
LEMMA AskedMeans ==
  ASSUME IngestInv, Recorded, NEW h \in Threads, LotKnown(h),
         thread[h].step \in {"lookup", "queue"}
  PROVE  LET r == thread[h].result
             a == Asked(h)
         IN /\ r \in DOMAIN results /\ thread[h].row = results[r]
            /\ a.result = r /\ a.source = Current(h)
            /\ a.lot = results[r].lot /\ a.number = results[r].number
            /\ a.number # NoNumber
            /\ Current(h) \in Winners /\ Fits(Current(h), a.number)
            /\ a.price >= Ev(h).price /\ results[r].price >= Ev(h).price
<1> DEFINE r == thread[h].result
           a == Asked(h)
<1>1. /\ TablesOK /\ thread[h].batch # << >> /\ Ev(h).price \in Nat
      /\ Current(h) \in Winners /\ Ev(h) = events[Current(h)]
  BY WinnerOfThread, InvParts
<1>2. ResultKnown(h) /\ r \in DOMAIN results
  BY InvParts, ThreadShape DEF LotKnown, ThreadOK, Handles
<1>3. results[r] \in ResultRow /\ results[r].price \in Nat
  BY <1>1, <1>2, ResultIds, ResultPrices
<1>4. results[r].number # NoNumber
  BY <1>3 DEF ResultRow
<1>5. PICK row : row = results[r]
  OBVIOUS
<1>6. /\ thread[h].row = row /\ row.price \in Nat /\ row.number # NoNumber
      /\ events[row.source].price = row.price /\ Fits(row.source, row.number)
  BY <1>2, <1>3, <1>4, <1>5 DEF ResultKnown, Recorded, ResultsOwn
<1> HIDE DEF r
<1>7. /\ a.result = r /\ a.source = Current(h)
      /\ a.lot = TicketLot(h)
      /\ a.number = IF thread[h].mode = "new" THEN NumberFor(h) ELSE row.number
      /\ a.price = IF thread[h].mode = "new" \/ row.price = 0 THEN Ev(h).price ELSE row.price
  BY <1>6 DEF Asked, r
<1> HIDE DEF a
<1>8. CASE thread[h].mode \in {"new", "again"}
  <2>1. row.source = Current(h) /\ row.price = Ev(h).price
    BY <1>1, <1>2, <1>6, <1>8 DEF ResultKnown
  <2>2. thread[h].mode = "new" => NumberFor(h) = row.number /\ TicketLot(h) = row.lot
    BY <1>1, <1>2, <1>6, <2>1 DEF ResultKnown, NumberFor, TicketLot, Fits
  <2>3. thread[h].mode = "again" => TicketLot(h) = row.lot
    BY <1>6 DEF TicketLot
  <2>4. a.number = row.number /\ a.lot = row.lot
    BY <1>7, <1>8, <2>2, <2>3
  <2>5. a.price >= Ev(h).price
    BY <1>1, <1>6, <1>7, <2>1
  <2> QED
    BY <1>1, <1>2, <1>5, <1>6, <1>7, <2>1, <2>4, <2>5 DEF a, r
<1>9. CASE thread[h].mode = "known"
  <2>1. row.number = Ev(h).lot /\ row.price >= Ev(h).price
    BY <1>2, <1>6, <1>9 DEF ResultKnown, Stands
  <2>2. a.number = row.number /\ a.lot = row.lot
    BY <1>6, <1>7, <1>9 DEF TicketLot
  <2>3. a.price >= Ev(h).price
    BY <1>1, <1>6, <1>7, <2>1
  <2>4. Fits(Current(h), a.number)
    BY <1>1, <2>1, <2>2 DEF Fits
  <2> QED
    BY <1>1, <1>2, <1>5, <1>6, <1>7, <2>1, <2>2, <2>3, <2>4 DEF a, r
<1> QED
  BY <1>2, <1>8, <1>9 DEF ResultKnown

(***************************************************************************)
(* A ticket that is found has the number that is asked for, and with it    *)
(* the lot.                                                                *)
(***************************************************************************)
LEMMA QueuedNumber ==
  ASSUME IngestInv, Orderly, Recorded, TicketsInv, NEW h \in Threads, LotKnown(h),
         OthersIdle(h), thread[h].step = "queue", TicketFor(h) # NoId
  PROVE  LET k == TicketFor(h)
         IN /\ k \in DOMAIN tickets
            /\ tickets[k].number = Asked(h).number /\ tickets[k].lot = Asked(h).lot
<1>1. PICK k, a, r : k = TicketFor(h) /\ a = Asked(h) /\ r = thread[h].result
  OBVIOUS
<1>2. /\ r \in DOMAIN results /\ thread[h].row = results[r]
      /\ a.result = r /\ a.lot = results[r].lot /\ a.number = results[r].number
      /\ a.number # NoNumber /\ Current(h) \in Winners /\ Fits(Current(h), a.number)
  BY <1>1, AskedMeans
<1>3. TablesOK
  BY InvParts
<1>4. /\ k \in DOMAIN tickets
      /\ \/ tickets[k].source = Current(h)
         \/ tickets[k].result = a.result
         \/ tickets[k].number = a.number
  BY <1>1, <1>3, TicketForMeans
<1>5. /\ tickets[k].result \in DOMAIN results
      /\ tickets[k].lot = results[tickets[k].result].lot
      /\ tickets[k].number = results[tickets[k].result].number
      /\ Fits(tickets[k].source, tickets[k].number)
  BY <1>4 DEF TicketsInv, TicketsAgree
<1>6. tickets[k].number = a.number => tickets[k].lot = a.lot
  <2>1. PICK q : q = tickets[k].result
    OBVIOUS
  <2>2. /\ lots[results[r].lot].number = results[r].number
        /\ lots[results[q].lot].number = results[q].number
        /\ results[r].lot \in DOMAIN lots /\ results[q].lot \in DOMAIN lots
    BY <1>2, <1>5, <2>1 DEF Recorded, ResultsNamed
  <2>3. results[q].number = results[r].number => results[q].lot = results[r].lot
    BY <2>2 DEF Recorded, LotsApart
  <2> QED
    BY <1>2, <1>5, <2>1, <2>3
<1>7. CASE tickets[k].result = a.result
  BY <1>1, <1>2, <1>4, <1>5, <1>7
<1>8. CASE tickets[k].source = Current(h) /\ tickets[k].result # a.result
  <2>1. CASE Ev(h).lot # NoNumber
    <3>1. tickets[k].number = a.number
      BY <1>2, <1>5, <1>8, <2>1 DEF Fits, Ev
    <3> QED
      BY <1>1, <1>4, <1>6, <3>1
  <2>2. CASE Ev(h).lot = NoNumber
    <3>1. "broken" \notin history
      BY <1>2, <2>2 DEF Orderly, WinnersNumbered, Ev
    <3>2. UnnumberedOwn /\ OwnKnown(h) /\ ResultKnown(h)
      BY <3>1 DEF TicketsInv, TicketsOwn, LotKnown
    <3>3. thread[h].mode = "again"
      <4>1. thread[h].mode # "new"
        BY <1>4, <1>8, <2>2, <3>2 DEF OwnKnown, TicketOf
      <4>2. thread[h].mode # "known"
        BY <1>2, <2>2, <3>2 DEF ResultKnown
      <4> QED
        BY <3>2, <4>1, <4>2 DEF ResultKnown
    <3>4. \A x \in Threads : ~TakesOver(x)
      BY <3>3 DEF OthersIdle, TakesOver
    <3>5. results[tickets[k].result].source = Current(h)
      BY <1>4, <1>8, <2>2, <3>2, <3>4 DEF UnnumberedOwn, Ev
    <3>6. results[r].source = Current(h)
      BY <1>2, <3>2, <3>3 DEF ResultKnown
    <3>7. tickets[k].result = r
      BY <1>2, <1>5, <3>5, <3>6 DEF Recorded, ResultsOwn
    <3> QED
      BY <1>2, <1>8, <3>7
  <2> QED
    BY <2>1, <2>2
<1>9. CASE tickets[k].number = a.number
  BY <1>1, <1>4, <1>6, <1>9
<1> QED
  BY <1>4, <1>7, <1>8, <1>9

-----------------------------------------------------------------------------
(* Tickets and results *)

LEMMA AtRestOwns ==
  ASSUME NEW h \in Threads,
         thread'[h].step \notin {"name", "find", "record", "lookup", "queue"}
  PROVE  OwnKnown(h)' /\ ~TakesOver(h)'
BY DEF OwnKnown, TakesOver

(***************************************************************************)
(* A step that writes neither results nor tickets, and leaves the result   *)
(* it takes over as it is.                                                 *)
(***************************************************************************)
LEMMA TicketsStayInOrder ==
  ASSUME UNCHANGED <<results, tickets>>,
         \A e \in DOMAIN events : e \in DOMAIN events' /\ events'[e] = events[e],
         TicketsAgree
  PROVE  /\ TicketsAgree'
         /\ TicketsPriced => TicketsPriced'
         /\ OneOfUnpriced => OneOfUnpriced'
<1>1. \A t \in DOMAIN tickets :
        /\ tickets[t].source \in Winners /\ tickets[t].source \in Winners'
        /\ events'[tickets[t].source] = events[tickets[t].source]
  BY DEF TicketsAgree, Winners
<1>2. TicketsAgree'
  BY <1>1 DEF TicketsAgree, Fits
<1>3. TicketsPriced => TicketsPriced'
  BY <1>1 DEF TicketsPriced
<1>4. OneOfUnpriced => OneOfUnpriced'
  BY DEF OneOfUnpriced
<1> QED
  BY <1>2, <1>3, <1>4

LEMMA OwnStays ==
  ASSUME UNCHANGED <<results, tickets>>,
         \A e \in DOMAIN events : e \in DOMAIN events' /\ events'[e] = events[e],
         TicketsAgree, UnnumberedOwn,
         \A k \in Threads :
           TakesOver(k) => TakesOver(k)' /\ thread'[k].result = thread[k].result
  PROVE  UnnumberedOwn'
<1> SUFFICES ASSUME NEW t \in DOMAIN tickets', events'[tickets'[t].source].lot = NoNumber
             PROVE  \/ results'[tickets'[t].result].source = tickets'[t].source
                    \/ \E k \in Threads : TakesOver(k)' /\ thread'[k].result = tickets'[t].result
  BY DEF UnnumberedOwn
<1>1. events[tickets[t].source].lot = NoNumber
  BY DEF TicketsAgree, Winners
<1>2. \/ results[tickets[t].result].source = tickets[t].source
      \/ \E k \in Threads : TakesOver(k) /\ thread[k].result = tickets[t].result
  BY <1>1 DEF UnnumberedOwn
<1>3. CASE results[tickets[t].result].source = tickets[t].source
  BY <1>3
<1>4. CASE \E k \in Threads : TakesOver(k) /\ thread[k].result = tickets[t].result
  <2>1. PICK k \in Threads : TakesOver(k) /\ thread[k].result = tickets[t].result
    BY <1>4
  <2>2. TakesOver(k)' /\ thread'[k].result = tickets'[t].result
    BY <2>1
  <2> QED
    BY <2>2
<1> QED
  BY <1>2, <1>3, <1>4

(***************************************************************************)
(* The steps before the result: the lot of a numbered winner has no        *)
(* confirmed ticket.                                                       *)
(***************************************************************************)
Unconfirmed(h) ==
  Ev(h).type = "auction_winner" /\ Ev(h).lot # NoNumber => Confirmed(Ev(h).lot) = {}

LEMMA OwnsSearch ==
  ASSUME IngestInv, NEW h \in Threads, OwnKnown(h),
         SyncLot(h) \/ CheckDuplicate(h) \/ FindLot(h) \/ OpenLot(h) \/ NameLot(h)
           \/ CheckRecorded(h) \/ FindResult(h)
  PROVE  OwnKnown(h)' /\ UNCHANGED <<results, tickets>> /\ ~TakesOver(h)
<1>1. UNCHANGED <<events, results, tickets>>
  BY DEF SyncLot, CheckDuplicate, FindLot, OpenLot, NameLot, CheckRecorded, FindResult,
     tables
<1>2. ~TakesOver(h)
  BY DEF SyncLot, CheckDuplicate, FindLot, OpenLot, NameLot, CheckRecorded, FindResult,
     TakesOver
<1> SUFFICES OwnKnown(h)'
  BY <1>1, <1>2
<1>3. thread[h].batch # << >>
  BY InvParts DEF SyncLot, CheckDuplicate, FindLot, OpenLot, NameLot, CheckRecorded,
     FindResult, ThreadOK
<1>4. ASSUME SameEvent(h), Unconfirmed(h),
             thread'[h].step \in {"name", "find", "record"}
               \/ (thread'[h].step = "lookup" /\ thread'[h].mode = "again")
      PROVE  OwnKnown(h)'
  <2>1. Ev(h)' = Ev(h) /\ Current(h)' = Current(h)
    BY <1>1, <1>3, <1>4, EventStays
  <2>2. Confirmed(Ev(h).lot)' = Confirmed(Ev(h).lot)
    BY <1>1, <2>1 DEF Confirmed
  <2> QED
    BY <1>4, <2>1, <2>2 DEF OwnKnown, TakesOver, Unconfirmed
<1>5. CASE Raise(h) \/ Continue(h) \/ Acknowledge(h)
  BY <1>5, AfterEnd, AtRestOwns
<1>6. CASE SyncLot(h)
  <2>1. Goes(h, "open") => OwnKnown(h)'
    BY AfterGoes, AtRestOwns
  <2>2. ASSUME NEW l, HasLot(h, l, "name")
        PROVE  OwnKnown(h)'
    <3>1. SameEvent(h) /\ thread'[h].step = "name"
      BY <2>2, AfterHasLot
    <3>2. Unconfirmed(h)
      BY <1>6 DEF SyncLot, Unconfirmed
    <3> QED
      BY <1>4, <3>1, <3>2
  <2> QED
    BY <1>5, <1>6, <2>1, <2>2 DEF SyncLot
<1>7. CASE CheckDuplicate(h)
  <2>1. Goes(h, "lot") => OwnKnown(h)'
    BY AfterGoes, AtRestOwns
  <2> QED
    BY <1>5, <1>7, <2>1 DEF CheckDuplicate
<1>8. CASE FindLot(h)
  <2>1. Goes(h, "open") => OwnKnown(h)'
    BY AfterGoes, AtRestOwns
  <2>2. \A l : HasLot(h, l, "check") => OwnKnown(h)'
    BY AfterHasLot, AtRestOwns
  <2> QED
    BY <1>5, <1>8, <2>1, <2>2 DEF FindLot
<1>9. CASE OpenLot(h)
  <2>1. ASSUME NEW l, NEW n, Opened(h, l, n)
        PROVE  OwnKnown(h)'
    BY <2>1, AfterOpened, AtRestOwns
  <2>2. Continue(h) \/ Opened(h, UpsertedLot(Ev(h).lot), Ev(h).lot)
    BY <1>9 DEF OpenLot, Opened
  <2> QED
    BY <1>5, <2>1, <2>2
<1>10. CASE NameLot(h)
  <2>1. ASSUME NEW n, Named(h, n)
        PROVE  OwnKnown(h)'
    <3>1. SameEvent(h) /\ thread'[h].step = "find"
      BY <2>1, AfterNamed
    <3>2. Unconfirmed(h)
      BY <1>10 DEF NameLot, OwnKnown, Unconfirmed
    <3> QED
      BY <1>4, <3>1, <3>2
  <2>2. Raise(h) \/ Continue(h) \/ Named(h, Ev(h).lot)
    BY <1>10 DEF NameLot, Named
  <2> QED
    BY <1>5, <2>1, <2>2
<1>11. CASE CheckRecorded(h)
  <2>1. CASE Ev(h).lot # NoNumber /\ Confirmed(Ev(h).lot) # {}
    BY <1>5, <1>11, <2>1 DEF CheckRecorded
  <2>2. CASE ~(Ev(h).lot # NoNumber /\ Confirmed(Ev(h).lot) # {})
    <3>1. Unconfirmed(h)
      BY <2>2 DEF Unconfirmed
    <3>2. ASSUME NEW r, HasResult(h, r, "lookup")
          PROVE  OwnKnown(h)'
      BY <1>4, <3>1, <3>2, AfterHasResult
    <3>3. ASSUME NEW s \in {"find", "name"}, Goes(h, s)
          PROVE  OwnKnown(h)'
      BY <1>4, <3>1, <3>3, AfterGoes
    <3>4. \/ \E r : HasResult(h, r, "lookup")
          \/ \E s \in {"find", "name"} : Goes(h, s)
      BY <1>11, <2>2 DEF CheckRecorded
    <3> QED
      BY <3>2, <3>3, <3>4
  <2> QED
    BY <2>1, <2>2
<1>12. CASE FindResult(h)
  <2>1. PICK r, row : Found(h, r, row)
    BY <1>12 DEF FindResult, Found
  <2>2. SameEvent(h) /\ thread'[h].step = "record"
    BY <2>1, AfterFound
  <2>3. Unconfirmed(h)
    BY <1>12 DEF FindResult, OwnKnown, Unconfirmed
  <2> QED
    BY <1>4, <2>2, <2>3
<1> QED
  BY <1>6, <1>7, <1>8, <1>9, <1>10, <1>11, <1>12

(***************************************************************************)
(* While a request records its result, no winner takes a result over.      *)
(***************************************************************************)
LEMMA NoneTakesOver ==
  ASSUME NEW h \in Threads, OthersIdle(h), thread[h].step \notin {"lookup", "queue"}
  PROVE  \A k \in Threads : ~TakesOver(k)
BY DEF OthersIdle, TakesOver

(***************************************************************************)
(* A recorded result keeps its lot and number.                             *)
(***************************************************************************)
LEMMA ResultsKeepLots ==
  ASSUME IngestInv, NEW h \in Threads, InsertResult(h) \/ UpgradeResult(h)
  PROVE  /\ UNCHANGED <<events, tickets>>
         /\ \A r \in DOMAIN results :
              /\ r \in DOMAIN results'
              /\ results'[r].lot = results[r].lot /\ results'[r].number = results[r].number
<1>1. UNCHANGED <<events, tickets>> /\ results \in Seq(ResultRow)
  BY InvParts DEF InsertResult, UpgradeResult, TablesOK
<1>2. CASE InsertResult(h)
  <2>1. results' = results \/ \E row : results' = Append(results, row)
    BY <1>2 DEF InsertResult
  <2> QED
    BY <1>1, <2>1
<1>3. CASE UpgradeResult(h)
  <2> DEFINE q == thread[h].result
             new == [results[q] EXCEPT !.price = Ev(h).price, !.buyer = Ev(h).buyer,
                                       !.source = Current(h), !.at = now]
  <2>1. results' = results \/ results' = [results EXCEPT ![q] = new]
    BY <1>3 DEF UpgradeResult
  <2>2. q \in DOMAIN results =>
          new.lot = results[q].lot /\ new.number = results[q].number
    <3>1. q \in DOMAIN results => results[q] \in ResultRow
      BY <1>1, ElementOfSeq
    <3> QED
      BY <3>1 DEF ResultRow
  <2> HIDE DEF new, q
  <2> QED
    BY <1>1, <2>1, <2>2
<1> QED
  BY <1>1, <1>2, <1>3

LEMMA OwnsInsertResult ==
  ASSUME IngestInv, NEW h \in Threads, LotKnown(h), OthersIdle(h), TicketsAgree, TicketsOwn,
         OwnKnown(h), InsertResult(h)
  PROVE  TicketsOwn' /\ OwnKnown(h)'
<1>1. /\ TablesOK /\ UNCHANGED <<events, tickets>>
      /\ thread[h].step = "record" /\ thread[h].batch # << >>
      /\ Current(h) \in Winners /\ Unrecorded(h)
  <2>1. thread[h].step = "record" /\ UNCHANGED <<events, tickets>>
    BY DEF InsertResult
  <2> QED
    BY <2>1, WinnerOfThread, InvParts DEF LotKnown
<1> DEFINE i == Len(results) + 1
<1>2. /\ \E row : results' = Append(results, row)
      /\ Inserted(h, i, results'[i])
  BY <1>1 DEF InsertResult, Inserted, Unrecorded
<1>3. /\ \A r \in DOMAIN results : r \in DOMAIN results' /\ results'[r] = results[r]
      /\ i \notin DOMAIN results
  BY <1>1, <1>2 DEF TablesOK
<1>4. /\ thread'[h].step = "lookup" /\ thread'[h].mode = "new" /\ thread'[h].result = i
      /\ Current(h)' = Current(h) /\ Ev(h)' = Ev(h)
  BY <1>1, <1>2, AfterInserted, EventStays
<1> HIDE DEF i
<1>5. \A t \in DOMAIN tickets : tickets[t].result \in DOMAIN results
  BY DEF TicketsAgree
<1>6. \A k \in Threads : ~TakesOver(k)
  BY <1>1, NoneTakesOver
<1>7. TicketsOwn'
  <2>1. UnnumberedOwn'
    BY <1>1, <1>3, <1>5, <1>6 DEF TicketsOwn, UnnumberedOwn
  <2>2. TicketsPriced'
    <3>1. ASSUME NEW t \in DOMAIN tickets
          PROVE  \E r \in DOMAIN results' :
                   /\ results'[r].number = tickets[t].number
                   /\ results'[r].price >= events[tickets[t].source].price
      <4>1. PICK r \in DOMAIN results :
              /\ results[r].number = tickets[t].number
              /\ results[r].price >= events[tickets[t].source].price
        BY DEF TicketsOwn, TicketsPriced
      <4> QED
        BY <1>3, <4>1
    <3> QED
      BY <1>1, <3>1 DEF TicketsPriced
  <2>3. OneOfUnpriced'
    BY <1>1, <1>3, <1>5 DEF TicketsOwn, OneOfUnpriced
  <2> QED
    BY <2>1, <2>2, <2>3 DEF TicketsOwn
<1>8. OwnKnown(h)'
  <2>1. Confirmed(Ev(h).lot)' = Confirmed(Ev(h).lot)
    BY <1>1, <1>4 DEF Confirmed
  <2>2. Ev(h).lot = NoNumber => TicketOf(Current(h)) = {}
    <3>1. ASSUME Ev(h).lot = NoNumber, NEW t \in DOMAIN tickets,
                 tickets[t].source = Current(h)
          PROVE  FALSE
      <4>1. results[tickets[t].result].source = Current(h)
        BY <1>6, <3>1 DEF TicketsOwn, UnnumberedOwn, Ev
      <4> QED
        BY <1>1, <1>5, <4>1 DEF Unrecorded, ResultOf
    <3> QED
      BY <3>1 DEF TicketOf
  <2>3. TicketOf(Current(h))' = TicketOf(Current(h))
    BY <1>1, <1>4 DEF TicketOf
  <2>4. \A t \in DOMAIN tickets : tickets[t].result # i
    BY <1>3, <1>5
  <2>5. Ev(h).type = "auction_winner" /\ Ev(h).lot # NoNumber => Confirmed(Ev(h).lot) = {}
    BY <1>1 DEF OwnKnown
  <2>6. ~TakesOver(h)'
    BY <1>4 DEF TakesOver
  <2> QED
    BY <1>1, <1>4, <2>1, <2>2, <2>3, <2>4, <2>5, <2>6 DEF OwnKnown
<1> QED
  BY <1>7, <1>8

(***************************************************************************)
(* A winner takes over only a result without a price, which one ticket is  *)
(* for at most, and has no ticket then.                                    *)
(***************************************************************************)
LEMMA OwnsUpgradeResult ==
  ASSUME IngestInv, NEW h \in Threads, LotKnown(h), OthersIdle(h), TicketsAgree, TicketsOwn,
         OwnKnown(h), UpgradeResult(h), ~Raise(h)
  PROVE  TicketsOwn' /\ OwnKnown(h)'
<1>1. /\ TablesOK /\ UNCHANGED <<events, tickets>>
      /\ thread[h].step = "record" /\ thread[h].batch # << >> /\ thread[h].result # NoId
      /\ Ev(h).price \in Nat /\ Current(h) \in Winners
  <2>1. /\ thread[h].step = "record" /\ thread[h].result # NoId
        /\ UNCHANGED <<events, tickets>>
    BY DEF UpgradeResult
  <2> QED
    BY <2>1, WinnerOfThread, InvParts
<1>2. /\ RecordKnown(h) /\ Unrecorded(h)
      /\ thread[h].row = results[thread[h].result]
      /\ thread[h].row.number = Ev(h).lot
      /\ Stands(h) \/ Improves(h)
  BY <1>1 DEF LotKnown, RecordKnown
<1> DEFINE r == thread[h].result
<1>3. /\ r \in DOMAIN results /\ DOMAIN results' = DOMAIN results
      /\ \A q \in DOMAIN results : q # r => results'[q] = results[q]
      /\ results'[r].lot = results[r].lot /\ results'[r].number = results[r].number
      /\ ~Outbids(h) => results'[r] = results[r]
      /\ Outbids(h) => results'[r].price = Ev(h).price /\ results'[r].source = Current(h)
      /\ Upgraded(h, results'[r])
  BY <1>2, ResultUpgraded
<1>4. /\ thread'[h].step = "lookup" /\ thread'[h].mode = "known"
      /\ thread'[h].row = results'[r] /\ thread'[h].result = r
      /\ Current(h)' = Current(h) /\ Ev(h)' = Ev(h)
  BY <1>1, <1>3, AfterUpgraded, EventStays
<1>5. /\ \A q \in DOMAIN results : results[q].price \in Nat
      /\ results[r].number # NoNumber
  <2>1. results[r] \in ResultRow
    BY <1>1, <1>3, ResultIds
  <2> QED
    BY <1>1, <2>1, ResultPrices DEF ResultRow
<1>6. thread[h].row = results[r]
  BY <1>2
<1> HIDE DEF r
<1>7. \A q \in DOMAIN results :
        /\ results'[q].lot = results[q].lot /\ results'[q].number = results[q].number
        /\ results'[q].price \in Nat /\ results'[q].price >= results[q].price
  BY <1>1, <1>3, <1>5, <1>6 DEF Outbids
<1>8. \A t \in DOMAIN tickets :
        tickets[t].result \in DOMAIN results /\ tickets[t].source \in Winners
  BY DEF TicketsAgree
<1>9. \A k \in Threads : ~TakesOver(k)
  BY <1>1, NoneTakesOver
<1>10. TicketsOwn'
  <2>1. UnnumberedOwn'
    <3>1. ASSUME NEW t \in DOMAIN tickets, events[tickets[t].source].lot = NoNumber
          PROVE  \/ results'[tickets[t].result].source = tickets[t].source
                 \/ TakesOver(h)' /\ thread'[h].result = tickets[t].result
      <4>1. results[tickets[t].result].source = tickets[t].source
        BY <1>9, <3>1 DEF TicketsOwn, UnnumberedOwn
      <4>2. CASE tickets[t].result = r /\ Outbids(h)
        BY <1>3, <1>4, <4>2 DEF TakesOver
      <4>3. CASE ~(tickets[t].result = r /\ Outbids(h))
        BY <1>3, <1>8, <4>1, <4>3
      <4> QED
        BY <4>2, <4>3
    <3> QED
      BY <1>1, <3>1 DEF UnnumberedOwn
  <2>2. TicketsPriced'
    <3>1. ASSUME NEW t \in DOMAIN tickets
          PROVE  \E q \in DOMAIN results' :
                   /\ results'[q].number = tickets[t].number
                   /\ results'[q].price >= events[tickets[t].source].price
      <4>1. PICK q \in DOMAIN results :
              /\ results[q].number = tickets[t].number
              /\ results[q].price >= events[tickets[t].source].price
        BY DEF TicketsOwn, TicketsPriced
      <4>2. events[tickets[t].source].price \in Nat
        <5>1. events[tickets[t].source] \in Event /\ tickets[t].source \in Winners
          BY <1>1, <1>8 DEF TablesOK, Winners
        <5> QED
          BY <5>1, EventFields, IngestConstants DEF Winners
      <4> QED
        BY <1>3, <1>5, <1>7, <4>1, <4>2
    <3> QED
      BY <1>1, <3>1 DEF TicketsPriced
  <2>3. OneOfUnpriced'
    <3>1. \A q \in DOMAIN results : results'[q].price = 0 => results[q].price = 0
      BY <1>5, <1>7
    <3> QED
      BY <1>1, <1>8, <3>1 DEF TicketsOwn, OneOfUnpriced
  <2> QED
    BY <2>1, <2>2, <2>3 DEF TicketsOwn
<1>11. TakesOver(h)' => /\ TicketOf(Current(h)) = {}
                        /\ \A t, u \in DOMAIN tickets :
                             tickets[t].result = r /\ tickets[u].result = r => t = u
  <2> SUFFICES ASSUME TakesOver(h)'
               PROVE  /\ TicketOf(Current(h)) = {}
                      /\ \A t, u \in DOMAIN tickets :
                           tickets[t].result = r /\ tickets[u].result = r => t = u
    OBVIOUS
  <2>1. results'[r].source = Current(h)
    BY <1>4 DEF TakesOver
  <2>2. Outbids(h)
    BY <1>2, <1>3, <2>1 DEF Unrecorded, ResultOf
  <2>3. /\ results[r].price = 0
        /\ \A q \in DOMAIN results :
             results[q].number = results[r].number => results[q].price < Ev(h).price
    BY <1>1, <1>2, <1>3, <1>5, <1>6, <2>2 DEF Stands, Outbids, Improves
  <2>4. ASSUME NEW t \in DOMAIN tickets, tickets[t].source = Current(h)
        PROVE  FALSE
    <3>1. tickets[t].number = results[r].number
      BY <1>2, <1>5, <1>6, <2>4 DEF TicketsAgree, Fits, Ev
    <3>2. PICK q \in DOMAIN results :
            results[q].number = tickets[t].number /\ results[q].price >= Ev(h).price
      BY <2>4 DEF TicketsOwn, TicketsPriced, Ev
    <3> QED
      BY <1>1, <1>5, <2>3, <3>1, <3>2
  <2> QED
    BY <2>3, <2>4 DEF TicketOf, TicketsOwn, OneOfUnpriced
<1>12. OwnKnown(h)'
  <2>1. /\ Confirmed(Ev(h).lot)' = Confirmed(Ev(h).lot)
        /\ TicketOf(Current(h))' = TicketOf(Current(h))
    BY <1>1, <1>4 DEF Confirmed, TicketOf
  <2>2. Ev(h).type = "auction_winner" /\ Ev(h).lot # NoNumber => Confirmed(Ev(h).lot) = {}
    BY <1>1 DEF OwnKnown
  <2> QED
    BY <1>1, <1>4, <1>11, <2>1, <2>2 DEF OwnKnown
<1> QED
  BY <1>10, <1>12

(***************************************************************************)
(* The lookup of the ticket takes a result over with the next step: the    *)
(* winner's lot has no confirmed ticket.                                   *)
(***************************************************************************)
LEMMA OwnsLookUpTicket ==
  ASSUME IngestInv, Recorded, NEW h \in Threads, LotKnown(h), OwnKnown(h), LookUpTicket(h)
  PROVE  /\ UNCHANGED <<results, tickets>> /\ OwnKnown(h)'
         /\ TakesOver(h) => TakesOver(h)' /\ thread'[h].result = thread[h].result
<1>1. /\ thread[h].step = "lookup" /\ UNCHANGED <<events, results, tickets>>
      /\ thread[h].batch # << >>
  BY InvParts DEF LookUpTicket, ThreadOK
<1>2. CASE thread' = [thread EXCEPT ![h].step = "queue", ![h].ticket = TicketFor(h)]
  <2>1. /\ SameFindings(h) /\ thread'[h].step = "queue"
        /\ Current(h)' = Current(h) /\ Ev(h)' = Ev(h)
    BY <1>1, <1>2, AfterLookUp, EventStays
  <2>2. TakesOver(h)' <=> TakesOver(h)
    BY <1>1, <2>1 DEF TakesOver, SameFindings
  <2>3. /\ Confirmed(Ev(h).lot)' = Confirmed(Ev(h).lot)
        /\ TicketOf(Current(h))' = TicketOf(Current(h))
    BY <1>1, <2>1 DEF Confirmed, TicketOf
  <2>4. OwnKnown(h)'
    BY <1>1, <2>1, <2>2, <2>3 DEF OwnKnown, SameFindings
  <2> QED
    BY <1>1, <2>1, <2>2, <2>4 DEF SameFindings
<1>3. CASE /\ Asked(h).number # NoNumber /\ Confirmed(Asked(h).number) # {}
           /\ Queued(h)
  <2>1. thread'[h].step \in {"sell", "idle", "next"}
    <3>1. Goes(h, "sell") => thread'[h].step = "sell"
      BY AfterGoes
    <3> QED
      BY <1>3, <3>1, AfterEnd DEF Queued
  <2>2. ~TakesOver(h)
    <3> SUFFICES ASSUME TakesOver(h)
                 PROVE  FALSE
      OBVIOUS
    <3>1. thread[h].mode = "known" /\ thread[h].row.number = Ev(h).lot
      BY <1>1 DEF TakesOver, LotKnown, ResultKnown
    <3>2. Asked(h).number = Ev(h).lot
      BY <3>1 DEF Asked
    <3>3. Ev(h).type = "auction_winner"
      BY <1>1, InvParts DEF ThreadOK, Handles
    <3> QED
      BY <1>1, <1>3, <3>2, <3>3 DEF OwnKnown
  <2> QED
    BY <1>1, <2>1, <2>2, AtRestOwns
<1> QED
  BY <1>2, <1>3 DEF LookUpTicket

(***************************************************************************)
(* The ticket that is written: its number and lot are those of the result, *)
(* and no other ticket is for that result as long as it has no price or is *)
(* taken over.                                                             *)
(***************************************************************************)
LEMMA OwnsQueueTicket ==
  ASSUME RequestInv, Orderly, Recorded, TicketsInv, NEW h \in Threads, LotKnown(h),
         OthersIdle(h), QueueTicket(h)
  PROVE  /\ TicketsAgree'
         /\ "broken" \notin history => TicketsOwn' /\ OwnKnown(h)'
<1>1. /\ IngestInv /\ TablesOK /\ Alone /\ thread[h].step = "queue"
      /\ UNCHANGED <<events, results>>
      /\ thread[h].ticket = TicketFor(h)
      /\ ResultKnown(h)
  BY InvParts DEF RequestInv, OneRequest, QueueKnows, Orderly, QueueTicket, LotKnown
<1>2. TicketOf(Current(h)) \ {thread[h].ticket} = {}
  BY <1>1, QueueSucceeds DEF TicketsInv
<1>3. PICK k : Queued(h) /\ Written(h, k)
  BY <1>1, <1>2, QueueWritten
<1>4. PICK a, r : a = Asked(h) /\ r = thread[h].result
  OBVIOUS
<1>5. /\ r \in DOMAIN results /\ thread[h].row = results[r]
      /\ a.result = r /\ a.source = Current(h)
      /\ a.lot = results[r].lot /\ a.number = results[r].number
      /\ a.number # NoNumber
      /\ Current(h) \in Winners /\ Fits(Current(h), a.number)
      /\ results[r].price >= Ev(h).price
  BY <1>1, <1>4, AskedMeans
<1>6. /\ DOMAIN tickets' = DOMAIN tickets \cup {k}
      /\ \A t \in DOMAIN tickets : t # k => tickets'[t] = tickets[t]
      /\ tickets'[k].lot = a.lot /\ tickets'[k].result = r
      /\ tickets'[k].source = Current(h)
  BY <1>3, <1>4, <1>5 DEF Written
<1>7. NoId \notin DOMAIN tickets
  BY <1>1 DEF TablesOK, NoId
<1>8. /\ k \in DOMAIN tickets => k = TicketFor(h) /\ tickets'[k].number = tickets[k].number
      /\ k \notin DOMAIN tickets => TicketFor(h) = NoId /\ tickets'[k].number = a.number
  BY <1>1, <1>3, <1>4 DEF Written
<1>9. k \in DOMAIN tickets => tickets[k].number = a.number /\ tickets[k].lot = a.lot
  <2> SUFFICES ASSUME k \in DOMAIN tickets
               PROVE  tickets[k].number = a.number /\ tickets[k].lot = a.lot
    OBVIOUS
  <2>1. TicketFor(h) = k /\ TicketFor(h) # NoId
    BY <1>7, <1>8
  <2> QED
    BY <1>1, <1>4, <2>1, QueuedNumber
<1>10. tickets'[k].number = a.number
  BY <1>8, <1>9
<1>11. TicketsAgree'
  <2>1. TicketsAgree
    BY DEF TicketsInv
  <2>2. ASSUME NEW t \in DOMAIN tickets'
        PROVE  /\ tickets'[t].result \in DOMAIN results
               /\ tickets'[t].lot = results[tickets'[t].result].lot
               /\ tickets'[t].number = results[tickets'[t].result].number
               /\ tickets'[t].source \in Winners
               /\ Fits(tickets'[t].source, tickets'[t].number)
    BY <1>5, <1>6, <1>10, <2>1 DEF TicketsAgree
  <2> QED
    BY <1>1, <2>2 DEF TicketsAgree, Winners, Fits
<1>12. ASSUME "broken" \notin history
       PROVE  TicketsOwn' /\ OwnKnown(h)'
  <2>1. TicketsAgree /\ TicketsOwn /\ OwnKnown(h)
    BY <1>12 DEF TicketsInv
  <2>2. ASSUME NEW t \in DOMAIN tickets, tickets[t].result = r
        PROVE  /\ k \in DOMAIN tickets
               /\ tickets[k].result = r \/ tickets[k].source = Current(h)
    <3>1. PICK f : f = TicketFor(h)
      OBVIOUS
    <3>2. /\ f = NoId => \A u \in DOMAIN tickets : tickets[u].result # r
          /\ f # NoId =>
               \/ tickets[f].source = Current(h)
               \/ tickets[f].result = r
               \/ \A u \in DOMAIN tickets : tickets[u].result # r
      BY <1>1, <1>4, <1>5, <3>1, TicketForMeans
    <3> QED
      BY <1>8, <2>2, <3>1, <3>2
  <2>3. UnnumberedOwn'
    <3>1. ASSUME NEW t \in DOMAIN tickets, t # k,
                 events[tickets[t].source].lot = NoNumber
          PROVE  results[tickets[t].result].source = tickets[t].source
      <4> SUFFICES ASSUME results[tickets[t].result].source # tickets[t].source
                   PROVE  FALSE
        OBVIOUS
      <4>1. PICK x \in Threads : TakesOver(x) /\ thread[x].result = tickets[t].result
        BY <2>1, <3>1 DEF TicketsOwn, UnnumberedOwn
      <4>2. x = h
        BY <4>1 DEF OthersIdle, TakesOver
      <4>3. /\ tickets[t].result = r /\ TicketOf(Current(h)) = {}
            /\ \A u \in DOMAIN tickets : tickets[u].result = r => u = t
        BY <1>4, <2>1, <4>1, <4>2 DEF OwnKnown
      <4>4. k \in DOMAIN tickets /\ tickets[k].result = r
        BY <2>2, <4>3 DEF TicketOf
      <4> QED
        BY <3>1, <4>3, <4>4
    <3>2. events[Current(h)].lot = NoNumber => results[r].source = Current(h)
      BY <1>1, <1>5 DEF ResultKnown, Ev
    <3>3. ASSUME NEW t \in DOMAIN tickets', events[tickets'[t].source].lot = NoNumber
          PROVE  results[tickets'[t].result].source = tickets'[t].source
      BY <1>6, <3>1, <3>2, <3>3
    <3> QED
      BY <1>1, <3>3 DEF UnnumberedOwn
  <2>4. TicketsPriced'
    <3>1. ASSUME NEW t \in DOMAIN tickets'
          PROVE  \E q \in DOMAIN results :
                   /\ results[q].number = tickets'[t].number
                   /\ results[q].price >= events[tickets'[t].source].price
      <4>1. CASE t = k
        BY <1>5, <1>6, <1>10, <4>1 DEF Ev
      <4>2. CASE t # k
        BY <1>6, <2>1, <4>2 DEF TicketsOwn, TicketsPriced
      <4> QED
        BY <4>1, <4>2
    <3> QED
      BY <1>1, <3>1 DEF TicketsPriced
  <2>5. OneOfUnpriced'
    <3>1. ASSUME NEW u \in DOMAIN tickets, u # k, tickets[u].result = r,
                 results[r].price = 0
          PROVE  FALSE
      <4>1. k \in DOMAIN tickets
        BY <2>2, <3>1
      <4>2. results[tickets[k].result].lot = results[r].lot
            /\ tickets[k].result \in DOMAIN results
        BY <1>5, <1>9, <2>1, <4>1 DEF TicketsAgree
      <4>3. tickets[k].result = r
        BY <1>5, <3>1, <4>2 DEF Recorded, OneUnpriced
      <4> QED
        BY <2>1, <3>1, <4>1, <4>3 DEF TicketsOwn, OneOfUnpriced
    <3>2. ASSUME NEW t \in DOMAIN tickets', NEW u \in DOMAIN tickets',
                 tickets'[t].result = tickets'[u].result,
                 results[tickets'[t].result].price = 0
          PROVE  t = u
      <4>1. CASE t # k /\ u # k
        BY <1>6, <2>1, <3>2, <4>1 DEF TicketsOwn, OneOfUnpriced
      <4>2. CASE t = k \/ u = k
        BY <1>6, <3>1, <3>2, <4>2
      <4> QED
        BY <4>1, <4>2
    <3> QED
      BY <1>1, <3>2 DEF OneOfUnpriced
  <2>6. OwnKnown(h)'
    <3>1. Goes(h, "sell") => thread'[h].step = "sell"
      BY <1>1, AfterGoes
    <3>2. thread'[h].step \in {"sell", "idle", "next"}
      BY <1>1, <1>3, <3>1, AfterEnd DEF Queued, ResultKnown
    <3> QED
      BY <3>2, AtRestOwns
  <2> QED
    BY <2>3, <2>4, <2>5, <2>6 DEF TicketsOwn
<1> QED
  BY <1>11, <1>12

-----------------------------------------------------------------------------
(* Tickets stay in order *)

(***************************************************************************)
(* What a request knows of the tickets still holds while it waits.         *)
(***************************************************************************)
LEMMA OwnKnownStill ==
  ASSUME IngestInv, NEW k \in Threads, thread'[k] = thread[k], UNCHANGED tickets,
         \A e \in DOMAIN events : events'[e] = events[e], OwnKnown(k)
  PROVE  OwnKnown(k)'
<1>1. CASE thread[k].step \in {"idle", "next"}
  BY <1>1, AtRestOwns
<1>2. CASE thread[k].step \notin {"idle", "next"}
  <2>1. Current(k)' = Current(k) /\ Ev(k)' = Ev(k)
    BY <1>2, InvParts, EventStays DEF ThreadOK, SameEvent
  <2>2. /\ Confirmed(Ev(k).lot)' = Confirmed(Ev(k).lot)
        /\ TicketOf(Current(k))' = TicketOf(Current(k))
        /\ TakesOver(k)' <=> TakesOver(k)
    BY <2>1 DEF Confirmed, TicketOf, TakesOver
  <2> QED
    BY <2>1, <2>2 DEF OwnKnown
<1> QED
  BY <1>1, <1>2

LEMMA IdleOwns ==
  ASSUME NEW h \in Threads, OthersIdle(h), OwnKnown(h)'
  PROVE  \A k \in Threads : OwnKnown(k)'
BY AtRestOwns DEF OthersIdle

(***************************************************************************)
(* The operator changes no more than a status, and only while no request   *)
(* is under way.                                                           *)
(***************************************************************************)
LEMMA Reviewed ==
  ASSUME IngestInv, Operate
  PROVE  /\ UNCHANGED <<events, lots, results, thread>>
         /\ DOMAIN tickets' = DOMAIN tickets
         /\ \A t \in DOMAIN tickets :
              /\ tickets'[t].lot = tickets[t].lot
              /\ tickets'[t].result = tickets[t].result
              /\ tickets'[t].number = tickets[t].number
              /\ tickets'[t].buyer = tickets[t].buyer
              /\ tickets'[t].price = tickets[t].price
              /\ tickets'[t].source = tickets[t].source
         /\ Alone' => \A k \in Threads : thread[k].step = "idle"
         /\ "takenBack" \notin history' => \A t \in DOMAIN tickets :
              tickets[t].status = "confirmed" => tickets'[t].status = "confirmed"
<1>1. /\ DOMAIN tickets' = DOMAIN tickets /\ tickets \in Seq(TicketRow)
      /\ \A t \in DOMAIN tickets :
           \E s \in TicketStatuses : tickets'[t] = [tickets[t] EXCEPT !.status = s]
  BY TypeReview, InvParts DEF Operate, TablesOK
<1>2. \A t \in DOMAIN tickets : tickets[t] \in TicketRow
  BY <1>1, ElementOfSeq
<1>3. /\ UNCHANGED <<events, lots, results, thread>>
      /\ Alone' => Busy = {}
      /\ "takenBack" \notin history' => ~TakesBack
  BY DEF Operate, Review, Notes, Alone
<1>4. \A t \in DOMAIN tickets :
        /\ tickets'[t].lot = tickets[t].lot
        /\ tickets'[t].result = tickets[t].result
        /\ tickets'[t].number = tickets[t].number
        /\ tickets'[t].buyer = tickets[t].buyer
        /\ tickets'[t].price = tickets[t].price
        /\ tickets'[t].source = tickets[t].source
  BY <1>1, <1>2 DEF TicketRow
<1>5. ~TakesBack => \A t \in DOMAIN tickets :
        tickets[t].status = "confirmed" => tickets'[t].status = "confirmed"
  BY DEF TakesBack
<1> QED
  BY <1>1, <1>3, <1>4, <1>5 DEF Busy

LEMMA OwnsReviewed ==
  ASSUME IngestInv, Operate, Alone', TicketsAgree
  PROVE  /\ TicketsAgree'
         /\ TicketsOwn => TicketsOwn' /\ \A k \in Threads : OwnKnown(k)'
<1>1. /\ UNCHANGED <<events, results, thread>>
      /\ DOMAIN tickets' = DOMAIN tickets
      /\ \A t \in DOMAIN tickets :
           /\ tickets'[t].lot = tickets[t].lot
           /\ tickets'[t].result = tickets[t].result
           /\ tickets'[t].number = tickets[t].number
           /\ tickets'[t].source = tickets[t].source
      /\ \A k \in Threads : thread[k].step = "idle"
  BY Reviewed
<1>2. TicketsAgree'
  BY <1>1 DEF TicketsAgree, Winners, Fits
<1>3. ASSUME TicketsOwn
      PROVE  TicketsOwn'
  <2>1. UnnumberedOwn'
    BY <1>1, <1>3 DEF TicketsOwn, UnnumberedOwn, TakesOver
  <2>2. TicketsPriced'
    BY <1>1, <1>3 DEF TicketsOwn, TicketsPriced
  <2>3. OneOfUnpriced'
    BY <1>1, <1>3 DEF TicketsOwn, OneOfUnpriced
  <2> QED
    BY <2>1, <2>2, <2>3 DEF TicketsOwn
<1> QED
  BY <1>1, <1>2, <1>3, AtRestOwns

LEMMA UpgradeRaised ==
  ASSUME IngestInv, NEW h \in Threads, UpgradeResult(h), Raise(h)
  PROVE  results' = results /\ thread'[h].step = "idle"
<1>1. thread'[h].step = "idle"
  BY FieldsThere DEF Raise, IdleThread
<1>2. results' # results => \E row : Upgraded(h, row)
  BY DEF UpgradeResult, Upgraded
<1>3. \A row : ~Upgraded(h, row)
  BY <1>1, AfterUpgraded
<1> QED
  BY <1>1, <1>2, <1>3

LEMMA OwnsWork ==
  ASSUME RequestInv, Orderly, Recorded, TicketsInv, NEW h \in Threads, LotKnown(h),
         OthersIdle(h), Work(h)
  PROVE  /\ TicketsAgree'
         /\ "broken" \notin history => TicketsOwn' /\ OwnKnown(h)'
<1>1. /\ IngestInv /\ Ingest(h) /\ TicketsAgree
      /\ \A e \in DOMAIN events : e \in DOMAIN events' /\ events'[e] = events[e]
      /\ "broken" \notin history => TicketsOwn /\ OwnKnown(h)
  BY StepOfThread DEF RequestInv, Work, TicketsInv
<1>2. CASE QueueTicket(h)
  BY <1>2, OwnsQueueTicket
<1>3. ASSUME UNCHANGED <<results, tickets>>,
             TicketsOwn /\ OwnKnown(h) =>
               /\ OwnKnown(h)'
               /\ TakesOver(h) => TakesOver(h)' /\ thread'[h].result = thread[h].result
      PROVE  /\ TicketsAgree'
             /\ "broken" \notin history => TicketsOwn' /\ OwnKnown(h)'
  <2>1. /\ TicketsAgree'
        /\ TicketsPriced => TicketsPriced'
        /\ OneOfUnpriced => OneOfUnpriced'
    BY <1>1, <1>3, TicketsStayInOrder
  <2>2. ASSUME "broken" \notin history
        PROVE  UnnumberedOwn' /\ OwnKnown(h)'
    <3>1. \A k \in Threads :
            TakesOver(k) => TakesOver(k)' /\ thread'[k].result = thread[k].result
      BY <1>1, <1>3, <2>2 DEF OthersIdle, TakesOver
    <3> QED
      BY <1>1, <1>3, <2>2, <3>1, OwnStays DEF TicketsOwn
  <2> QED
    BY <1>1, <2>1, <2>2 DEF TicketsOwn
<1>4. CASE \/ SyncLot(h) \/ CheckDuplicate(h) \/ FindLot(h) \/ OpenLot(h) \/ NameLot(h)
           \/ CheckRecorded(h) \/ FindResult(h)
  <2>1. UNCHANGED <<results, tickets>> /\ ~TakesOver(h)
    BY <1>4 DEF SyncLot, CheckDuplicate, FindLot, OpenLot, NameLot, CheckRecorded,
       FindResult, tables, TakesOver
  <2>2. OwnKnown(h) => OwnKnown(h)'
    BY <1>1, <1>4, OwnsSearch
  <2> QED
    BY <1>3, <2>1, <2>2
<1>5. CASE InsertResult(h) \/ (UpgradeResult(h) /\ ~Raise(h))
  <2>1. /\ UNCHANGED <<events, tickets>>
        /\ \A r \in DOMAIN results :
             /\ r \in DOMAIN results'
             /\ results'[r].lot = results[r].lot /\ results'[r].number = results[r].number
    BY <1>1, <1>5, ResultsKeepLots
  <2>2. TicketsAgree'
    BY <1>1, <2>1 DEF TicketsAgree, Winners, Fits
  <2>3. "broken" \notin history => TicketsOwn' /\ OwnKnown(h)'
    BY <1>1, <1>5, OwnsInsertResult, OwnsUpgradeResult
  <2> QED
    BY <2>2, <2>3
<1>6. CASE UpgradeResult(h) /\ Raise(h)
  <2>1. /\ UNCHANGED <<results, tickets>> /\ thread'[h].step = "idle"
        /\ thread[h].step = "record"
    BY <1>1, <1>6, UpgradeRaised DEF UpgradeResult
  <2>2. OwnKnown(h)' /\ ~TakesOver(h)
    BY <2>1, AtRestOwns DEF TakesOver
  <2> QED
    BY <1>3, <2>1, <2>2
<1>7. CASE LookUpTicket(h)
  <2>1. UNCHANGED <<results, tickets>>
    BY <1>7 DEF LookUpTicket
  <2>2. OwnKnown(h) =>
          /\ OwnKnown(h)'
          /\ TakesOver(h) => TakesOver(h)' /\ thread'[h].result = thread[h].result
    BY <1>1, <1>7, OwnsLookUpTicket
  <2> QED
    BY <1>3, <2>1, <2>2
<1>8. CASE SellLot(h) \/ Finish(h)
  <2>1. /\ UNCHANGED <<results, tickets>> /\ thread[h].step \in {"sell", "next"}
        /\ thread'[h].step \in {"idle", "next"}
    <3>1. CASE SellLot(h)
      BY <1>1, <3>1, AfterEnd DEF SellLot
    <3>2. CASE Finish(h)
      BY <1>1, <3>2, FieldsThere DEF Finish, tables, IdleThread
    <3> QED
      BY <1>8, <3>1, <3>2
  <2>2. OwnKnown(h)' /\ ~TakesOver(h)
    BY <2>1, AtRestOwns DEF TakesOver
  <2> QED
    BY <1>3, <2>1, <2>2
<1> QED
  BY <1>1, <1>2, <1>4, <1>5, <1>6, <1>7, <1>8 DEF Ingest

LEMMA TicketsInvKept ==
  ASSUME RequestInv, LotsInv, TicketsInv, [SessionNext]_sessionVars
  PROVE  TicketsInv'
<1>1. /\ IngestInv /\ history \subseteq history' /\ TicketsApart'
      /\ \A e \in DOMAIN events : e \in DOMAIN events' /\ events'[e] = events[e]
  BY EventsGrow, HistoryGrows, TicketsApartKept DEF RequestInv, TicketsInv
<1> SUFFICES ASSUME Orderly'
             PROVE  /\ TicketsAgree'
                    /\ "broken" \notin history' =>
                         TicketsOwn' /\ \A k \in Threads : OwnKnown(k)'
  BY <1>1 DEF TicketsInv
<1>2. /\ Orderly /\ Recorded /\ \A k \in Threads : LotKnown(k)
      /\ TicketsAgree
      /\ "broken" \notin history => TicketsOwn /\ \A k \in Threads : OwnKnown(k)
  BY <1>1, OrderlyBefore DEF LotsInv, TicketsInv
<1>3. CASE OutsideStep /\ tickets' = tickets
  <2>1. UNCHANGED <<thread, results, tickets>>
    BY <1>3 DEF OutsideStep
  <2>2. /\ TicketsAgree'
        /\ TicketsPriced => TicketsPriced'
        /\ OneOfUnpriced => OneOfUnpriced'
    BY <1>1, <1>2, <2>1, TicketsStayInOrder
  <2>3. ASSUME "broken" \notin history'
        PROVE  UnnumberedOwn' /\ \A k \in Threads : OwnKnown(k)'
    <3>1. TicketsOwn /\ \A k \in Threads : OwnKnown(k)
      BY <1>1, <1>2, <2>3
    <3>2. \A k \in Threads : OwnKnown(k)'
      BY <1>1, <2>1, <3>1, OwnKnownStill
    <3>3. \A k \in Threads : TakesOver(k) => TakesOver(k)'
      <4>1. ASSUME NEW k \in Threads, TakesOver(k)
            PROVE  TakesOver(k)'
        BY <2>1, <4>1 DEF TakesOver, Current
      <4> QED
        BY <4>1
    <3>4. UnnumberedOwn'
      BY <1>1, <1>2, <2>1, <3>1, <3>3, OwnStays DEF TicketsOwn
    <3> QED
      BY <3>2, <3>4
  <2> QED
    BY <1>1, <1>2, <2>2, <2>3 DEF TicketsOwn
<1>4. CASE Operate
  BY <1>1, <1>2, <1>4, OwnsReviewed DEF Orderly
<1>5. ASSUME NEW h \in Threads, Poll(h) \/ Work(h) \/ Fault(h)
      PROVE  /\ TicketsAgree'
             /\ "broken" \notin history' =>
                  TicketsOwn' /\ \A k \in Threads : OwnKnown(k)'
  <2>1. OthersIdle(h)
    BY <1>5, AloneStep DEF Orderly, Alone
  <2>2. CASE Work(h)
    BY <1>1, <1>2, <2>1, <2>2, OwnsWork, IdleOwns
  <2>3. CASE Poll(h) \/ Fault(h)
    <3>1. /\ UNCHANGED <<results, tickets>> /\ thread'[h].step \in {"idle", "next"}
          /\ Poll(h) => thread[h].step = "idle"
          /\ Fault(h) => "broken" \in history'
      BY <1>1, <2>3, RestStep
    <3>2. /\ TicketsAgree'
          /\ TicketsPriced => TicketsPriced'
          /\ OneOfUnpriced => OneOfUnpriced'
      BY <1>1, <1>2, <3>1, TicketsStayInOrder
    <3>3. ASSUME "broken" \notin history'
          PROVE  TicketsOwn' /\ \A k \in Threads : OwnKnown(k)'
      <4>1. TicketsOwn /\ thread[h].step = "idle"
        BY <1>1, <1>2, <2>3, <3>1, <3>3
      <4>2. \A k \in Threads : ~TakesOver(k)
        BY <2>1, <4>1, NoneTakesOver
      <4>3. UnnumberedOwn'
        BY <1>1, <1>2, <3>1, <4>1, <4>2, OwnStays DEF TicketsOwn
      <4> QED
        BY <2>1, <3>1, <3>2, <4>1, <4>3, AtRestOwns, IdleOwns DEF TicketsOwn
    <3> QED
      BY <3>2, <3>3
  <2> QED
    BY <1>5, <2>2, <2>3
<1> QED
  BY <1>3, <1>4, <1>5, StepKinds DEF OutsideStep

-----------------------------------------------------------------------------
(* Tickets of sold lots and answered winners *)

(***************************************************************************)
(* A ticket that is there for the number that is asked for, or that is     *)
(* written, has the lot that is asked for and stands for the winner.       *)
(***************************************************************************)
Serves(h, t) ==
  /\ t \in DOMAIN tickets' /\ tickets'[t].lot = Asked(h).lot
  /\ Ev(h).lot \in {tickets'[t].number, NoNumber}
  /\ tickets'[t].price >= Ev(h).price \/ tickets'[t].status = "confirmed"

LEMMA LookUpServes ==
  ASSUME IngestInv, Recorded, TicketsAgree, NEW h \in Threads, LotKnown(h),
         LookUpTicket(h), thread'[h].step # "queue"
  PROVE  \E t : Serves(h, t)
<1>1. thread[h].step = "lookup" /\ UNCHANGED tickets
  BY DEF LookUpTicket
<1>2. Confirmed(Asked(h).number) # {}
  <2>1. thread' = [thread EXCEPT ![h].step = "queue", ![h].ticket = TicketFor(h)]
          => thread'[h].step = "queue"
    BY AfterLookUp
  <2> QED
    BY <2>1 DEF LookUpTicket
<1>3. PICK t \in DOMAIN tickets :
        tickets[t].number = Asked(h).number /\ tickets[t].status = "confirmed"
  BY <1>2 DEF Confirmed
<1>4. PICK a, r, q : a = Asked(h) /\ r = thread[h].result /\ q = tickets[t].result
  OBVIOUS
<1>5. /\ r \in DOMAIN results /\ a.lot = results[r].lot /\ a.number = results[r].number
      /\ Fits(Current(h), a.number)
  BY <1>1, <1>4, AskedMeans
<1>6. /\ q \in DOMAIN results /\ tickets[t].lot = results[q].lot
      /\ tickets[t].number = results[q].number
  BY <1>4 DEF TicketsAgree
<1>7. tickets[t].lot = a.lot
  <2>1. /\ lots[results[r].lot].number = results[r].number
        /\ lots[results[q].lot].number = results[q].number
        /\ results[r].lot \in DOMAIN lots /\ results[q].lot \in DOMAIN lots
    BY <1>5, <1>6 DEF Recorded, ResultsNamed
  <2>2. results[q].number = results[r].number => results[q].lot = results[r].lot
    BY <2>1 DEF Recorded, LotsApart
  <2> QED
    BY <1>3, <1>4, <1>5, <1>6, <2>2
<1>8. Serves(h, t)
  BY <1>1, <1>3, <1>4, <1>5, <1>7 DEF Serves, Fits, Ev
<1> QED
  BY <1>8

LEMMA QueueServes ==
  ASSUME RequestInv, Orderly, Recorded, TicketsInv, NEW h \in Threads, LotKnown(h),
         OthersIdle(h), QueueTicket(h)
  PROVE  \E t : Serves(h, t)
<1>1. /\ IngestInv /\ Alone /\ thread[h].step = "queue" /\ TablesOK
      /\ thread[h].ticket = TicketFor(h)
  BY InvParts DEF RequestInv, OneRequest, QueueKnows, Orderly, QueueTicket
<1>2. TicketOf(Current(h)) \ {thread[h].ticket} = {}
  BY <1>1, QueueSucceeds DEF TicketsInv
<1>3. PICK k : Written(h, k)
  BY <1>1, <1>2, QueueWritten
<1>4. PICK a : a = Asked(h)
  OBVIOUS
<1>5. Fits(Current(h), a.number) /\ a.price >= Ev(h).price
  BY <1>1, <1>4, AskedMeans
<1>6. /\ k \in DOMAIN tickets' /\ tickets'[k].lot = a.lot /\ tickets'[k].price >= a.price
      /\ k \in DOMAIN tickets => k = TicketFor(h) /\ tickets'[k].number = tickets[k].number
      /\ k \notin DOMAIN tickets => tickets'[k] = a
  BY <1>1, <1>3, <1>4 DEF Written
<1>7. tickets'[k].number = a.number
  <2>1. NoId \notin DOMAIN tickets
    BY <1>1 DEF TablesOK, NoId
  <2>2. k \in DOMAIN tickets => tickets[k].number = a.number
    BY <1>1, <1>4, <1>6, <2>1, QueuedNumber
  <2> QED
    BY <1>6, <2>2
<1>8. tickets'[k].price >= Ev(h).price
  <2>1. IngestInv' /\ Asked(h) \in TicketRow
    BY <1>1, TypeQueueTicket, AskedType
  <2>2. tickets'[k] \in TicketRow /\ a \in TicketRow
    BY <1>4, <1>6, <2>1, ElementOfSeq DEF IngestInv, IngestTypeOK
  <2>3. tickets'[k].price \in Nat /\ a.price \in Nat /\ Ev(h).price \in Nat
    BY <1>1, <2>2, WinnerOfThread, IngestConstants DEF TicketRow
  <2> QED
    BY <1>5, <1>6, <2>3
<1>9. Serves(h, k)
  BY <1>4, <1>5, <1>6, <1>7, <1>8 DEF Serves, Fits, Ev
<1> QED
  BY <1>9

(***************************************************************************)
(* The steps that close a lot, come to that, or answer a winner.           *)
(***************************************************************************)
LEMMA SellReached ==
  ASSUME IngestInv, NEW h \in Threads, LotKnown(h), Ingest(h), thread'[h].step = "sell"
  PROVE  /\ LookUpTicket(h) \/ QueueTicket(h)
         /\ SameEvent(h) /\ thread'[h].lot = thread[h].lot /\ thread[h].mode = "new"
         /\ thread[h].batch # << >>
<1>1. /\ ~Raise(h) /\ ~Continue(h) /\ ~Acknowledge(h)
      /\ \A s : Goes(h, s) => s = "sell"
      /\ \A l, s : HasLot(h, l, s) => s = "sell"
      /\ \A r, s : HasResult(h, r, s) => s = "sell"
      /\ \A l, n : ~Opened(h, l, n)
      /\ \A n : ~Named(h, n)
      /\ \A r, row : ~Found(h, r, row)
      /\ \A r, row : ~Inserted(h, r, row)
      /\ \A row : ~Upgraded(h, row)
  <2>1. /\ ~Raise(h) /\ ~Continue(h) /\ ~Acknowledge(h)
        /\ \A s : Goes(h, s) => s = "sell"
        /\ \A l, s : HasLot(h, l, s) => s = "sell"
        /\ \A r, s : HasResult(h, r, s) => s = "sell"
    BY AfterEnd, AfterGoes, AfterHasLot, AfterHasResult
  <2>2. /\ \A l, n : ~Opened(h, l, n)
        /\ \A n : ~Named(h, n)
        /\ \A r, row : ~Found(h, r, row)
        /\ \A r, row : ~Inserted(h, r, row)
        /\ \A row : ~Upgraded(h, row)
    BY AfterOpened, AfterNamed, AfterFound, AfterInserted, AfterUpgraded
  <2> QED
    BY <2>1, <2>2
<1>2. ~SyncLot(h) /\ ~FindLot(h) /\ ~CheckDuplicate(h) /\ ~CheckRecorded(h)
  BY <1>1 DEF SyncLot, FindLot, CheckDuplicate, CheckRecorded
<1>3. ~OpenLot(h) /\ ~NameLot(h)
  BY <1>1, Opens, Names
<1>4. ~FindResult(h) /\ ~InsertResult(h) /\ ~UpgradeResult(h)
  BY <1>1, Finds, Inserts, Upgrades, FieldsThere
<1>5. ~SellLot(h) /\ ~Finish(h)
  BY <1>1, FieldsThere DEF SellLot, Finish, IdleThread
<1>6. LookUpTicket(h) \/ QueueTicket(h)
  BY <1>2, <1>3, <1>4, <1>5 DEF Ingest
<1>7. /\ thread[h].step \in {"lookup", "queue"} /\ thread[h].batch # << >>
      /\ thread[h].mode \in {"new", "known", "again"}
  BY <1>6, InvParts DEF LookUpTicket, QueueTicket, ThreadOK, LotKnown, ResultKnown
<1>8. Queued(h)
  <2>1. thread' = [thread EXCEPT ![h].step = "queue", ![h].ticket = TicketFor(h)]
          => thread'[h].step = "queue"
    BY AfterLookUp
  <2> QED
    BY <1>1, <1>6, <2>1 DEF LookUpTicket, QueueTicket
<1>9. thread[h].mode = "new" /\ Goes(h, "sell")
  BY <1>1, <1>7, <1>8 DEF Queued
<1> QED
  BY <1>6, <1>7, <1>9, AfterGoes DEF SameFindings

LEMMA AnswerReached ==
  ASSUME IngestInv, NEW h \in Threads, Ingest(h), NEW e \in Answers(h)
  PROVE  /\ e = Current(h)
         /\ \/ CheckDuplicate(h) /\ SeenLately(h)
            \/ CheckRecorded(h) /\ Ev(h).lot # NoNumber /\ Confirmed(Ev(h).lot) # {}
            \/ (LookUpTicket(h) \/ QueueTicket(h)) /\ thread'[h].step = "next"
            \/ SellLot(h)
<1>1. /\ e \in Winners /\ e = Current(h) /\ Ev(h).type = "auction_winner"
      /\ thread[h].batch # << >> /\ thread[h].step # "lot" /\ thread'[h].step = "next"
  BY DEF Answers, Winners, Ev
<1>2. /\ ~Raise(h)
      /\ \A s : Goes(h, s) => s = "next"
      /\ \A l, s : HasLot(h, l, s) => s = "next"
      /\ \A r, s : HasResult(h, r, s) => s = "next"
      /\ \A l, n : ~Opened(h, l, n)
      /\ \A n : ~Named(h, n)
      /\ \A r, row : ~Found(h, r, row)
      /\ \A r, row : ~Inserted(h, r, row)
      /\ \A row : ~Upgraded(h, row)
  <2>1. Raise(h) => thread'[h].step = "idle"
    BY FieldsThere DEF Raise, IdleThread
  <2>2. /\ \A s : Goes(h, s) => s = "next"
        /\ \A l, s : HasLot(h, l, s) => s = "next"
        /\ \A r, s : HasResult(h, r, s) => s = "next"
    BY <1>1, AfterGoes, AfterHasLot, AfterHasResult
  <2>3. /\ \A l, n : ~Opened(h, l, n)
        /\ \A n : ~Named(h, n)
        /\ \A r, row : ~Found(h, r, row)
        /\ \A r, row : ~Inserted(h, r, row)
        /\ \A row : ~Upgraded(h, row)
    BY <1>1, AfterOpened, AfterNamed, AfterFound, AfterInserted, AfterUpgraded
  <2> QED
    BY <1>1, <2>1, <2>2, <2>3
<1>3. ~SyncLot(h) /\ ~FindLot(h) /\ ~Finish(h)
  BY <1>1 DEF SyncLot, FindLot, Finish
<1>4. ~OpenLot(h) /\ ~NameLot(h)
  <2>1. OpenLot(h) => \E l, n : Opened(h, l, n)
    <3>1. OpenLot(h) => Opened(h, UpsertedLot(Ev(h).lot), Ev(h).lot)
      BY <1>1 DEF OpenLot, Opened
    <3> QED
      BY <3>1
  <2>2. NameLot(h) => Raise(h) \/ Named(h, Ev(h).lot)
    BY <1>1 DEF NameLot, Named
  <2> QED
    BY <1>2, <2>1, <2>2
<1>5. ~FindResult(h) /\ ~InsertResult(h) /\ ~UpgradeResult(h)
  BY <1>2, Finds, Inserts, Upgrades, FieldsThere
<1>6. CheckDuplicate(h) => SeenLately(h)
  BY <1>2 DEF CheckDuplicate
<1>7. CheckRecorded(h) => Ev(h).lot # NoNumber /\ Confirmed(Ev(h).lot) # {}
  BY <1>2 DEF CheckRecorded
<1> QED
  BY <1>1, <1>3, <1>4, <1>5, <1>6, <1>7 DEF Ingest

(***************************************************************************)
(* Only the sale of a lot closes it.                                       *)
(***************************************************************************)
LEMMA LotClosed ==
  ASSUME IngestInv, NEW h \in Threads, Ingest(h), NEW l \in DOMAIN lots',
         lots'[l].status = "sold"
  PROVE  \/ l \in DOMAIN lots /\ lots[l].status = "sold"
         \/ SellLot(h) /\ l = thread[h].lot
<1>1. TablesOK /\ lots \in Seq(LotRow)
  BY InvParts DEF TablesOK
<1>2. CASE lots' = lots
  BY <1>2
<1>3. CASE SellLot(h)
  <2>1. thread[h].lot \in DOMAIN lots
    BY <1>3, InvParts, ThreadShape DEF SellLot, ThreadOK, Handles
  <2> QED
    BY <1>1, <1>3, <2>1, LotRowKept DEF SellLot
<1>4. CASE NameLot(h)
  <2>1. thread[h].lot \in DOMAIN lots
    BY <1>4, InvParts, ThreadShape DEF NameLot, ThreadOK, Handles
  <2>2. lots' = lots \/ lots' = [lots EXCEPT ![thread[h].lot].number = Ev(h).lot]
    BY <1>4 DEF NameLot
  <2> QED
    BY <1>1, <1>2, <2>1, <2>2, LotRowKept
<1>5. CASE OpenLot(h)
  <2>1. PICK m, n : \/ lots' = Append(lots, [number |-> n, status |-> "open"])
                    \/ lots' = [lots EXCEPT ![m].status = "open"]
    BY <1>5 DEF OpenLot
  <2>2. CASE lots' = Append(lots, [number |-> n, status |-> "open"])
    BY <1>1, <2>2
  <2>3. CASE lots' = [lots EXCEPT ![m].status = "open"]
    <3>1. l \in DOMAIN lots
      BY <1>1, <2>3
    <3>2. m \in DOMAIN lots => m # l
      BY <1>1, <2>3, LotRowKept
    <3> QED
      BY <2>3, <3>1, <3>2
  <2> QED
    BY <2>1, <2>2, <2>3
<1>6. \/ lots' = lots \/ SellLot(h) \/ NameLot(h) \/ OpenLot(h)
  BY DEF Ingest, SyncLot, CheckDuplicate, FindLot, CheckRecorded, FindResult,
     InsertResult, UpgradeResult, LookUpTicket, QueueTicket, Finish, tables
<1> QED
  BY <1>2, <1>3, <1>4, <1>5, <1>6

(***************************************************************************)
(* A ticket keeps its lot while requests are orderly, and a winner that it *)
(* stands for as long as no decision is taken back.                        *)
(***************************************************************************)
LEMMA TicketLotsKept ==
  ASSUME RequestInv, LotsInv, TicketsInv, [SessionNext]_sessionVars, Orderly',
         NEW t \in DOMAIN tickets
  PROVE  /\ t \in DOMAIN tickets' /\ tickets'[t].lot = tickets[t].lot
         /\ "takenBack" \notin history' /\ tickets[t].status = "confirmed"
              => tickets'[t].status = "confirmed"
<1>1. CASE tickets' = tickets
  BY <1>1
<1>2. CASE Operate
  BY <1>2, Reviewed DEF RequestInv
<1>3. ASSUME NEW h \in Threads, Work(h), QueueTicket(h)
      PROVE  /\ t \in DOMAIN tickets' /\ tickets'[t].lot = tickets[t].lot
             /\ tickets'[t].status = tickets[t].status
  <2>1. /\ IngestInv /\ thread[h].step = "queue" /\ Alone /\ Orderly
        /\ Recorded /\ LotKnown(h) /\ OthersIdle(h) /\ TicketsApart
        /\ thread[h].ticket = TicketFor(h)
    <3>1. IngestInv /\ Orderly
      BY EventsGrow, OrderlyBefore DEF RequestInv
    <3>2. Alone /\ OthersIdle(h)
      BY <1>3, AloneStep DEF Orderly, Alone
    <3> QED
      BY <1>3, <3>1, <3>2 DEF RequestInv, OneRequest, QueueKnows, QueueTicket, LotsInv,
         TicketsInv
  <2>2. PICK k : Written(h, k)
    BY <1>3, <2>1, QueueSucceeds, QueueWritten
  <2>3. NoId \notin DOMAIN tickets
    BY <2>1, InvParts DEF TablesOK, NoId
  <2>4. k \in DOMAIN tickets => tickets[k].lot = Asked(h).lot
    BY <2>1, <2>2, <2>3, QueuedNumber DEF Written
  <2> QED
    BY <2>2, <2>4 DEF Written
<1> QED
  BY <1>1, <1>2, <1>3, TicketWriters

LEMMA TicketsStand ==
  ASSUME RequestInv, LotsInv, TicketsInv, [SessionNext]_sessionVars, Orderly',
         "takenBack" \notin history', answered \subseteq Winners,
         NEW t \in DOMAIN tickets, NEW e \in Winners, StandsFor(t, e)
  PROVE  t \in DOMAIN tickets' /\ StandsFor(t, e)'
<1>1. /\ IngestInv /\ t \in DOMAIN tickets' /\ TablesOK
      /\ tickets[t].status = "confirmed" => tickets'[t].status = "confirmed"
      /\ tickets'[t].price >= tickets[t].price
      /\ tickets'[t].number = tickets[t].number
      /\ tickets'[t].buyer = tickets[t].buyer
      /\ events'[e] = events[e]
  BY InvParts, TicketLotsKept, TicketsStay, EventsGrow DEF RequestInv, Winners
<1>2. tickets[t].price \in Nat /\ tickets'[t].price \in Nat /\ events[e].price \in Nat
  <2>1. IngestInv'
    BY <1>1, TypeNext
  <2>2. tickets[t] \in TicketRow /\ tickets'[t] \in TicketRow /\ events[e] \in Event
    BY <1>1, <2>1, ElementOfSeq DEF IngestInv, IngestTypeOK, TablesOK, Winners
  <2> QED
    BY <2>2, EventFields, IngestConstants DEF TicketRow, Winners
<1> QED
  BY <1>1, <1>2 DEF StandsFor

LEMMA TicketServes ==
  ASSUME RequestInv, Orderly, LotsInv, TicketsInv, NEW h \in Threads, OthersIdle(h),
         \/ QueueTicket(h)
         \/ LookUpTicket(h) /\ thread'[h].step # "queue"
  PROVE  \E t : Serves(h, t)
BY LookUpServes, QueueServes DEF RequestInv, LotsInv, TicketsInv

LEMMA SoldKept ==
  ASSUME RequestInv, LotsInv, TicketsInv, [SessionNext]_sessionVars, Orderly', Orderly,
         SoldTicketed
  PROVE  SoldTicketed'
<1>1. \A t \in DOMAIN tickets : t \in DOMAIN tickets' /\ tickets'[t].lot = tickets[t].lot
  BY TicketLotsKept
<1>2. \A l : (\E t \in DOMAIN tickets : tickets[t].lot = l)
               => \E t \in DOMAIN tickets' : tickets'[t].lot = l
  BY <1>1
<1>3. CASE OutsideStep
  BY <1>2, <1>3 DEF OutsideStep, SoldTicketed
<1>4. ASSUME NEW h \in Threads, Poll(h) \/ Work(h) \/ Fault(h)
      PROVE  SoldTicketed'
  <2>1. OthersIdle(h) /\ IngestInv /\ LotKnown(h)
    BY <1>4, AloneStep DEF Orderly, Alone, RequestInv, LotsInv
  <2>2. CASE Work(h)
    <3>1. Ingest(h)
      BY <2>2 DEF Work
    <3>2. ASSUME NEW l \in DOMAIN lots', lots'[l].status = "sold"
          PROVE  \E t \in DOMAIN tickets : tickets[t].lot = l
      <4>1. \/ l \in DOMAIN lots /\ lots[l].status = "sold"
            \/ thread[h].step = "sell" /\ l = thread[h].lot
        BY <2>1, <3>1, <3>2, LotClosed DEF SellLot
      <4> QED
        BY <4>1 DEF SoldTicketed
    <3>3. ASSUME NEW k \in Threads, thread'[k].step = "sell"
          PROVE  \E t \in DOMAIN tickets' : tickets'[t].lot = thread'[k].lot
      <4>1. k = h
        BY <2>1, <3>3 DEF OthersIdle
      <4>2. /\ LookUpTicket(h) \/ QueueTicket(h)
            /\ thread'[h].lot = thread[h].lot /\ thread[h].mode = "new"
        BY <2>1, <3>1, <3>3, <4>1, SellReached
      <4>3. Asked(h).lot = thread[h].lot
        BY <4>2 DEF Asked, TicketLot
      <4>4. PICK t : Serves(h, t)
        BY <2>1, <3>3, <4>1, <4>2, TicketServes
      <4> QED
        BY <4>1, <4>2, <4>3, <4>4 DEF Serves
    <3> QED
      BY <1>2, <3>2, <3>3 DEF SoldTicketed
  <2>3. CASE Poll(h) \/ Fault(h)
    <3>1. UNCHANGED lots /\ thread'[h].step \in {"idle", "next"}
      BY <2>1, <2>3, RestStep
    <3>2. \A k \in Threads : thread'[k].step # "sell"
      BY <2>1, <3>1 DEF OthersIdle
    <3> QED
      BY <1>2, <3>1, <3>2 DEF SoldTicketed
  <2> QED
    BY <1>4, <2>2, <2>3
<1> QED
  BY <1>3, <1>4, StepKinds

(***************************************************************************)
(* The routes to an answer: a ticket of the same sale, a confirmed ticket  *)
(* of the lot, the ticket that was queued.                                 *)
(***************************************************************************)
LEMMA AnswerServed ==
  ASSUME RequestInv, LotsInv, TicketsInv, Orderly, Answered, NEW h \in Threads,
         OthersIdle(h), Work(h), NEW e \in Answers(h)
  PROVE  \/ \E t \in DOMAIN tickets : StandsFor(t, e) /\ e \in Winners
         \/ e = Current(h) /\ \E t : Serves(h, t)
<1>1. /\ IngestInv /\ e = Current(h) /\ e \in Winners
      /\ \/ CheckDuplicate(h) /\ SeenLately(h)
         \/ CheckRecorded(h) /\ Ev(h).lot # NoNumber /\ Confirmed(Ev(h).lot) # {}
         \/ (LookUpTicket(h) \/ QueueTicket(h)) /\ thread'[h].step = "next"
         \/ SellLot(h)
  BY AnswerReached DEF RequestInv, Work, Answers
<1>2. CASE SeenLately(h)
  <2>1. PICK t \in DOMAIN tickets :
          tickets[t].buyer = Ev(h).buyer /\ tickets[t].price = Ev(h).price
    BY <1>2 DEF SeenLately
  <2>2. Ev(h).price \in Nat
    <3>1. events[e] \in Event /\ events[e].type = "auction_winner"
      BY <1>1, InvParts, ElementOfSeq DEF TablesOK, Winners
    <3> QED
      BY <1>1, <3>1, EventFields, IngestConstants DEF Ev
  <2>3. StandsFor(t, e)
    BY <1>1, <2>1, <2>2 DEF StandsFor, Ev
  <2> QED
    BY <1>1, <2>3
<1>3. CASE Confirmed(Ev(h).lot) # {}
  <2>1. PICK t \in DOMAIN tickets :
          tickets[t].number = Ev(h).lot /\ tickets[t].status = "confirmed"
    BY <1>3 DEF Confirmed
  <2>2. StandsFor(t, e)
    BY <1>1, <2>1 DEF StandsFor, Ev
  <2> QED
    BY <1>1, <2>2
<1>4. CASE (LookUpTicket(h) \/ QueueTicket(h)) /\ thread'[h].step = "next"
  BY <1>1, <1>4, TicketServes
<1>5. CASE SellLot(h)
  BY <1>1, <1>5 DEF SellLot, Answered
<1> QED
  BY <1>1, <1>2, <1>3, <1>4, <1>5

LEMMA AnsweredKept ==
  ASSUME RequestInv, LotsInv, TicketsInv, [SessionNext]_sessionVars, Orderly', Orderly,
         "takenBack" \notin history', answered \subseteq Winners, Answered
  PROVE  Answered'
<1>1. /\ IngestInv
      /\ \A e \in DOMAIN events : e \in DOMAIN events' /\ events'[e] = events[e]
  BY EventsGrow DEF RequestInv
<1>2. \A e \in Winners : (\E t \in DOMAIN tickets : StandsFor(t, e))
                           => \E t \in DOMAIN tickets' : StandsFor(t, e)'
  BY TicketsStand
<1>3. \A e \in answered : \E t \in DOMAIN tickets' : StandsFor(t, e)'
  BY <1>2 DEF Answered
<1>4. CASE OutsideStep
  <2>1. ASSUME NEW k \in Threads, thread'[k].step = "sell"
        PROVE  \E t \in DOMAIN tickets' : StandsFor(t, Current(k))'
    <3>1. thread'[k] = thread[k] /\ thread[k].step = "sell"
      BY <1>4, <2>1 DEF OutsideStep
    <3>2. Current(k)' = Current(k) /\ Current(k) \in Winners
      BY <1>1, <3>1, WinnerOfThread DEF Current
    <3>3. PICK e : e = Current(k)
      OBVIOUS
    <3>4. \E t \in DOMAIN tickets' : StandsFor(t, e)'
      BY <1>2, <3>1, <3>2, <3>3 DEF Answered
    <3> QED
      BY <3>2, <3>3, <3>4 DEF StandsFor
  <2>2. answered' = answered
    BY <1>4 DEF OutsideStep
  <2> QED
    BY <1>3, <2>1, <2>2 DEF Answered
<1>5. ASSUME NEW h \in Threads, Poll(h) \/ Work(h) \/ Fault(h)
      PROVE  Answered'
  <2>1. OthersIdle(h) /\ LotKnown(h)
    BY <1>5, AloneStep DEF Orderly, Alone, LotsInv
  <2>2. CASE Work(h)
    <3>1. Ingest(h) /\ answered' = answered \cup Answers(h)
      BY <2>2 DEF Work
    <3>2. ASSUME NEW t, Serves(h, t), NEW e, e = Current(h), e \in DOMAIN events
          PROVE  t \in DOMAIN tickets' /\ StandsFor(t, e)'
      BY <1>1, <3>2 DEF Serves, StandsFor, Ev
    <3>3. ASSUME NEW e \in Answers(h)
          PROVE  \E t \in DOMAIN tickets' : StandsFor(t, e)'
      <4>1. \/ \E t \in DOMAIN tickets : StandsFor(t, e) /\ e \in Winners
            \/ e = Current(h) /\ \E t : Serves(h, t)
        BY <2>1, <2>2, <3>3, AnswerServed
      <4>2. e \in Winners /\ e \in DOMAIN events
        BY <3>3 DEF Answers, Winners
      <4> QED
        BY <1>2, <3>2, <4>1, <4>2
    <3>4. ASSUME NEW k \in Threads, thread'[k].step = "sell"
          PROVE  \E t \in DOMAIN tickets' : StandsFor(t, Current(k))'
      <4>1. k = h
        BY <2>1, <3>4 DEF OthersIdle
      <4>2. /\ LookUpTicket(h) \/ QueueTicket(h)
            /\ SameEvent(h) /\ thread[h].batch # << >>
        BY <1>1, <2>1, <3>1, <3>4, <4>1, SellReached
      <4>3. Current(h)' = Current(h) /\ Current(h) \in DOMAIN events
        BY <1>1, <4>2, EventStays
      <4>4. PICK e : e = Current(h)
        OBVIOUS
      <4>5. PICK t : Serves(h, t)
        BY <2>1, <3>4, <4>1, <4>2, TicketServes
      <4>6. t \in DOMAIN tickets' /\ StandsFor(t, e)'
        BY <3>2, <4>3, <4>4, <4>5
      <4> QED
        BY <4>1, <4>3, <4>4, <4>6 DEF StandsFor
    <3> QED
      BY <1>3, <3>1, <3>3, <3>4 DEF Answered
  <2>3. CASE Poll(h) \/ Fault(h)
    <3>1. thread'[h].step \in {"idle", "next"} /\ answered' = answered
      BY <1>1, <2>3, RestStep DEF Poll, Fault
    <3>2. \A k \in Threads : thread'[k].step # "sell"
      BY <2>1, <3>1 DEF OthersIdle
    <3> QED
      BY <1>3, <3>1, <3>2 DEF Answered
  <2> QED
    BY <1>5, <2>2, <2>3
<1> QED
  BY <1>4, <1>5, StepKinds

-----------------------------------------------------------------------------
(* Sold lots have tickets, and answered winners *)

OrderInv ==
  /\ LotsInv /\ TicketsInv
  /\ Orderly => SoldTicketed
  /\ Orderly /\ "takenBack" \notin history => Answered

LEMMA OrderInit == SessionInit => OrderInv
<1> SUFFICES ASSUME SessionInit
             PROVE  OrderInv
  OBVIOUS
<1>1. /\ DOMAIN lots = {} /\ DOMAIN results = {} /\ DOMAIN tickets = {} /\ answered = {}
      /\ \A h \in Threads : thread[h].step = "idle"
  BY DEF SessionInit, IngestInit, IdleThread
<1>2. LotsInv
  <2>1. LotsApart /\ ResultsNamed /\ ResultsOwn /\ OneUnpriced /\ ResultsClose
    BY <1>1 DEF LotsApart, ResultsNamed, ResultsOwn, OneUnpriced, ResultsClose
  <2>2. \A h \in Threads : LotKnown(h)
    BY <1>1 DEF LotKnown
  <2> QED
    BY <2>1, <2>2 DEF LotsInv, Recorded
<1>3. TicketsInv
  <2>1. TicketsApart /\ TicketsAgree /\ TicketsOwn
    BY <1>1 DEF TicketsApart, TicketsAgree, TicketsOwn, UnnumberedOwn, TicketsPriced,
       OneOfUnpriced
  <2>2. \A h \in Threads : OwnKnown(h)
    BY <1>1 DEF OwnKnown, TakesOver
  <2> QED
    BY <2>1, <2>2 DEF TicketsInv
<1>4. SoldTicketed /\ Answered
  BY <1>1 DEF SoldTicketed, Answered
<1> QED
  BY <1>2, <1>3, <1>4 DEF OrderInv

LEMMA OrderKept ==
  ASSUME RequestInv, answered \subseteq Winners, OrderInv, [SessionNext]_sessionVars
  PROVE  OrderInv'
<1>1. LotsInv' /\ TicketsInv'
  BY LotsInvKept, TicketsInvKept DEF OrderInv, TicketsInv
<1>2. /\ Orderly' => Orderly
      /\ "takenBack" \notin history' => "takenBack" \notin history
  BY EventsGrow, OrderlyBefore, HistoryGrows DEF RequestInv
<1>3. Orderly' => SoldTicketed'
  BY <1>2, SoldKept DEF OrderInv
<1>4. (Orderly /\ "takenBack" \notin history)' => Answered'
  BY <1>2, AnsweredKept DEF OrderInv
<1> QED
  BY <1>1, <1>3, <1>4 DEF OrderInv

LEMMA OrderAlways == SessionSpec => []OrderInv
<1>1. RequestInv /\ (answered \subseteq Winners) /\ OrderInv /\ [SessionNext]_sessionVars
        => OrderInv'
  BY OrderKept
<1> QED
  BY <1>1, OrderInit, RequestAlways, InvAlways, PTL DEF SessionSpec

(***************************************************************************)
(* While requests are orderly, a lot is closed only when a ticket names it *)
(* as its own: the winner of a new result closes its lot after its ticket  *)
(* is queued, or refused because the lot has a confirmed one, and no       *)
(* ticket is moved to another lot afterwards.                              *)
(***************************************************************************)
THEOREM SoldLotsTicketed == SessionSpec => []SoldLotsHaveTicket
<1>1. OrderInv => SoldLotsHaveTicket
  BY DEF OrderInv, SoldTicketed, SoldLotsHaveTicket
<1> QED
  BY <1>1, OrderAlways, PTL

(***************************************************************************)
(* While requests are orderly and no decision was taken back, a winner     *)
(* that _maybe_ingest_winner_event has answered with True has a ticket     *)
(* that stands for it, by whatever route the answer came and however often *)
(* the events are replayed, retried or broken off.                         *)
(***************************************************************************)
THEOREM WinnersHaveTickets == SessionSpec => []AnsweredWinnersQueued
<1>1. OrderInv => AnsweredWinnersQueued
  BY DEF OrderInv, Answered, AnsweredWinnersQueued
<1> QED
  BY <1>1, OrderAlways, PTL
=============================================================================
