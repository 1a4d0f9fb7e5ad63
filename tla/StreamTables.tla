---------------------------- MODULE StreamTables ----------------------------
(***************************************************************************)
(* The tables events and lots of a stream and the transactions that write  *)
(* them (server/ingest_cutover.py).  A number of 0, a price of 0, the      *)
(* product "" and an end of -1 stand for NULL.                             *)
(***************************************************************************)
EXTENDS Integers, Sequences, FiniteSetsExt

CONSTANT NoOne   \* no winner

Event(type, number, product, winner, price, state, at) ==
  [type |-> type, lot |-> number, product |-> product, winner |-> winner,
   price |-> price, state |-> state, at |-> at]

LotRow(number, product, winner, price, ended) ==
  [number |-> number, product |-> product, winner |-> winner, price |-> price, ended |-> ended]

\* The latest row a SELECT .. ORDER BY id DESC LIMIT 1 finds, or 0.
Latest(ids) == IF ids = {} THEN 0 ELSE Max(ids)

\* upsert_ingest_lot_open: the row of the number and product, or a new one.
LotToOpen(table, number, product) ==
  Latest({i \in DOMAIN table : table[i].number = number /\ table[i].product = product})

WithOpenLot(table, number, product) ==
  IF LotToOpen(table, number, product) # 0 THEN table
  ELSE Append(table, LotRow(number, product, NoOne, 0, -1))

NextRow(table, number, product) == Len(table) + 1

OpenedLot(table, number, product) ==
  LotToOpen(WithOpenLot(table, number, product), number, product)

\* close_ingest_lot: a row that has a winner keeps it.
WithClosedLot(table, id, winner, price, at) ==
  IF table[id].winner # NoOne THEN table
  ELSE [table EXCEPT ![id].winner = winner, ![id].price = price, ![id].ended = at]

(***************************************************************************)
(* upsert_reconstructed_ingest_lot: the row of the number, else one of the *)
(* product that ended at the same time; what it lacks is filled in.        *)
(***************************************************************************)
LotToFill(table, lot) ==
  LET numbered == Latest({i \in DOMAIN table : lot.lot # 0 /\ table[i].number = lot.lot})
      named    == Latest({i \in DOMAIN table : lot.product # "" /\ table[i].product = lot.product
                                                 /\ table[i].ended = lot.at})
  IN IF numbered # 0 THEN numbered ELSE named

Filled(row, lot) ==
  [row EXCEPT !.winner = IF @ = NoOne THEN lot.winner ELSE @,
              !.price = IF @ = 0 THEN lot.price ELSE @,
              !.ended = IF @ = -1 THEN lot.at ELSE @,
              !.product = IF @ = "" THEN lot.product ELSE @]

WithSoldLot(table, lot) ==
  LET i == LotToFill(table, lot)
  IN IF i # 0 THEN [table EXCEPT ![i] = Filled(@, lot)]
     ELSE Append(table, LotRow(lot.lot, lot.product, lot.winner, lot.price, lot.at))
=============================================================================
