------------------------------ MODULE MCWinner ------------------------------
(***************************************************************************)
(* Instances of WinnerAssignment for TLC.                                  *)
(***************************************************************************)
EXTENDS WinnerAssignment, TLC

CONSTANTS a1, a2, p1, p2, h1, h2

StockAtOpening == [p \in Products |-> 3]

\* threads differ in nothing but their names
Threads == Permutations({h1, h2})

\* one operator, a crash between any two transactions
Alone ==
  [source |-> "whatnot", lots |-> {a1}, handlers |-> {h1},
   routes |-> {"scan", "confirm", "undo", "status", "order", "remove", "delete"},
   statuses |-> {"payment_cancelled", "confirmed"}, failures |-> {"crash"},
   scans |-> 2]

\* two operators on one lot, errors swallowed
Crossing(source) ==
  [source |-> source, lots |-> {a1}, handlers |-> {h1, h2},
   routes |-> {"scan", "confirm", "undo", "delete", "order", "approve",
               "status", "overdue", "reserve"},
   statuses |-> {"payment_review", "confirmed"}, failures |-> {"error"},
   scans |-> 1]

\* two units of one lot, one unit of each of two, then two operators
AloneAndCrossing ==
  {Alone, [Alone EXCEPT !.lots = {a1, a2}, !.scans = 1]}
    \cup {Crossing(source) : source \in {"whatnot", "tiktok_live"}}

\* a lot of a TikTok session that is scanned, reserved, removed or deleted
PendingOnly ==
  {[source |-> "tiktok_live", lots |-> {a1}, handlers |-> {h1},
    routes |-> {"scan", "reserve", "remove", "delete"}, statuses |-> {},
    failures |-> {}, scans |-> 1]}
=============================================================================
