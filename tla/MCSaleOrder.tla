---------------------------- MODULE MCSaleOrder ----------------------------
(***************************************************************************)
(* Instances of SaleOrderInventory for TLC.                                *)
(***************************************************************************)
EXTENDS SaleOrderInventory

CONSTANTS o1, o2, o3, p1, p2, h1, h2

Live(o, p, q) ==
  [presence |-> "live", order |-> o, product |-> p, qty |-> q, applied |-> FALSE,
   given |-> {}, altered |-> FALSE]

Unused ==
  [Live(o1, NoProduct, 1) EXCEPT !.presence = "unused"]

\* a line that the request which added it has flagged
Flagged(o, p) == [Live(o, p, 1) EXCEPT !.applied = TRUE, !.given = {p}]

Whatnot == [o \in Orders |-> "whatnot"]

\* two Whatnot orders and a TikTok live one
OneLive == (o1 :> "whatnot") @@ (o2 :> "tiktok_live") @@ (o3 :> "whatnot")

StockAtOpening == [p \in Products |-> 3]

\* a line of two units, one id left for a further line
ALineAndAnId == {<<Live(o1, p1, 2), Unused>>}

\* Either two orders hold the same two products, in opposite order, or the
\* third holds one line.
CrossedOrEdited ==
  {<<Live(o1, p1, 1), Live(o2, p2, 1), Live(o1, p2, 1), Live(o2, p1, 1), Unused>>,
   <<Unused, Unused, Unused, Unused, Live(o3, p1, 1)>>,
   <<Unused, Unused, Unused, Unused, Flagged(o3, p1)>>}

\* two lines of one product
TwoLines == {<<Live(o1, p1, 1), Live(o1, p1, 1)>>}

OneLine == {<<Live(o1, p1, 1)>>}

Pay == <<"sale", "paid">>

Cancel == <<"cancel", "keep">>

\* another quantity, or another product and quantity, for the first line,
\* and the first line's product for the second
SomeEdits == {<<1, p1, 1>>, <<1, p2, 2>>, <<2, p1, 2>>}

\* the client saves the fifth line as it is
SaveFifth == {<<5, p1, 1>>}

PayOrCancel == [o \in Orders |-> {Pay, Cancel}]

CancelThird == [o \in Orders |-> IF o = o3 THEN {Pay, Cancel} ELSE {Pay}]

PayDraftOrCancel ==
  [o \in Orders |-> {Pay, Cancel, <<"sale", "keep">>, <<"draft", "unpaid">>}]
=============================================================================
