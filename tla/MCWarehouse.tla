---------------------------- MODULE MCWarehouse ----------------------------
(***************************************************************************)
(* Instances of Warehouse for TLC.                                         *)
(***************************************************************************)
EXTENDS Warehouse, TLC

CONSTANTS p1, p2, h1, h2

\* threads differ in nothing but their names
Threads == Permutations({h1, h2})

StockAtOpening == [p \in Products |-> 3]

\* two units of one product and one of another on an invoice
OneCart == {<<[product |-> p1, qty |-> 2], [product |-> p2, qty |-> 1]>>}

\* a purchase of both products, or of one
TwoBaskets ==
  {<<[product |-> p1, ordered |-> 2], [product |-> p2, ordered |-> 1]>>,
   <<[product |-> p2, ordered |-> 1]>>}

\* a lot with a product, a lot nothing was scanned for, and two orders of the
\* shop, one with a unit of a product and one with two
LotsAndShop == <<<<p1>>, << >>, <<p1>>, <<p2, p2>>>>

\* events with an id of their own that name the items, and others
Whole == [named |-> TRUE, items |-> TRUE]
NoIds == [named |-> FALSE, items |-> TRUE]
NoItems == [named |-> TRUE, items |-> FALSE]
ThreePostings == {Whole, NoIds, NoItems}

Quiet ==
  [clerks |-> {}, sales |-> 0, buyers |-> {}, purchases |-> 0,
   agents |-> {}, imports |-> 0, orders |-> {}, posting |-> Whole]

Selling(hs, n) == [Quiet EXCEPT !.clerks = hs, !.sales = n]

Buying(hs, n) == [Quiet EXCEPT !.buyers = hs, !.purchases = n]

Importing(hs, n, orders) ==
  [Quiet EXCEPT !.agents = hs, !.imports = n, !.orders = orders]

\* each side alone: a long history on one thread, a shorter one on two;
\* then two sides at once
SidesAloneAndTogether ==
  {Selling({h1}, 4), Selling({h1, h2}, 3),
   Buying({h1}, 4), Buying({h1, h2}, 3),
   Importing({h1}, 4, {1}), Importing({h1}, 4, {2}), Importing({h1, h2}, 3, {1}),
   Importing({h1}, 5, {3}), Importing({h1, h2}, 4, {3}), Importing({h1}, 4, {4}),
   [Importing({h1}, 4, {3}) EXCEPT !.posting = NoIds],
   [Importing({h1}, 4, {3}) EXCEPT !.posting = NoItems],
   [Selling({h1}, 2) EXCEPT !.buyers = {h2}, !.purchases = 2],
   [Selling({h1}, 1) EXCEPT !.agents = {h2}, !.imports = 2, !.orders = {3}]}

\* the page of a live session and its corrections, on one thread
OneLot == {Importing({h1}, 3, {1})}
=============================================================================
