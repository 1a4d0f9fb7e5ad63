---------------------------- MODULE StockLedger ----------------------------
(***************************************************************************)
(* What the inventory promises, whichever handler moves the stock: the     *)
(* quantity on hand of a product changes only together with rows appended  *)
(* to inventory_movements, by exactly the sum of those rows' qty_delta,    *)
(* and a recorded movement is never altered or dropped.  A transaction may *)
(* append several rows at once.  The detailed modules implement this one.  *)
(***************************************************************************)
EXTENDS Integers, Sequences, Functions

CONSTANTS Products,   \* products.id
          Opening     \* the quantity on hand before the first movement

VARIABLES onHand,     \* products.on_hand_qty
          movements   \* inventory_movements, in the order they commit

(***************************************************************************)
(* The net effect of the rows at some positions of a sequence, and of all  *)
(* its rows on product p.                                                  *)
(***************************************************************************)
NetOfRows(rows, positions) ==
  SumFunctionOnSet([i \in DOMAIN rows |-> rows[i].delta], positions)

NetQty(p, rows) ==
  NetOfRows(rows, {i \in DOMAIN rows : rows[i].product = p})

(***************************************************************************)
(* The quantities on hand after the rows have been recorded.               *)
(***************************************************************************)
Moved(quantity, rows) ==
  [p \in Products |-> quantity[p] + NetQty(p, rows)]

ledgerVars == <<onHand, movements>>

LedgerInit ==
  /\ onHand = Opening
  /\ movements = << >>

(***************************************************************************)
(* Rows recorded by a step: those of movements' beyond movements.          *)
(***************************************************************************)
Recorded == SubSeq(movements', Len(movements) + 1, Len(movements'))

Record ==
  /\ Len(movements') >= Len(movements)
  /\ SubSeq(movements', 1, Len(movements)) = movements
  /\ onHand' = Moved(onHand, Recorded)

LedgerSpec == LedgerInit /\ [][Record]_ledgerVars
=============================================================================
