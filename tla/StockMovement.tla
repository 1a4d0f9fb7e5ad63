--------------------------- MODULE StockMovement ---------------------------
(***************************************************************************)
(* The stock and its movements as the counter sale, the purchase and the   *)
(* TikTok handlers share them.  Every handler of theirs moves stock        *)
(* through one function, inside the transaction that changes its own rows, *)
(* so that the rows a transaction records take effect together, when it    *)
(* commits.                                                                *)
(***************************************************************************)
EXTENDS Integers, Sequences, FiniteSets

CONSTANTS Products,   \* products.id
          Opening     \* products.on_hand_qty at first

VARIABLES onHand,     \* products.on_hand_qty
          movements   \* inventory_movements, in the order they commit

ASSUME OpeningType == Opening \in [Products -> Int]

Ledger == INSTANCE StockLedger WITH onHand <- onHand, movements <- movements

(***************************************************************************)
(* A movement row: what it is recorded for, the product and the change.    *)
(***************************************************************************)
MovementRow ==
  [reference : {"in_house_sale", "purchase_order",
                "sale_order_line", "sale_order_cancel",
                "sale_order_line_swap_in", "sale_order_line_swap_out"},
   id : Nat, product : Products, delta : Int]

StockType ==
  /\ onHand \in [Products -> Int]
  /\ movements \in Seq(MovementRow)

StockInit ==
  /\ onHand = Opening
  /\ movements = << >>

(***************************************************************************)
(* A transaction that records the rows commits: UPDATE products SET        *)
(* on_hand_qty = on_hand_qty + delta, relative to what others committed.   *)
(***************************************************************************)
RecordOneRow(rows) ==
  /\ movements' = movements \o rows
  /\ onHand' = Ledger!Moved(onHand, SelectSeq(rows, LAMBDA row : row = rows[1]))

RecordMovements(rows) ==
  /\ movements' = movements \o rows
  /\ onHand' = Ledger!Moved(onHand, rows)

NoMovement == UNCHANGED <<onHand, movements>>

-----------------------------------------------------------------------------
(* Rows by id, as SELECT ... ORDER BY id returns them. *)

Ascending(s) == \A m, n \in DOMAIN s : m < n => s[m] < s[n]

InIdOrder(ids) == CHOOSE s \in [1 .. Cardinality(ids) -> ids] : Ascending(s)

MapSeq(s, f(_)) == [n \in DOMAIN s |-> f(s[n])]

(***************************************************************************)
(* The net quantity of a product moved for one kind of reference.          *)
(***************************************************************************)
NetOf(kind, p) ==
  Ledger!NetOfRows(movements,
    {i \in DOMAIN movements :
       movements[i].reference = kind /\ movements[i].product = p})
=============================================================================
