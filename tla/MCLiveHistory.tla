--------------------------- MODULE MCLiveHistory ---------------------------
(***************************************************************************)
(* Instances of LiveHistory for TLC.                                       *)
(***************************************************************************)
EXTENDS LiveHistory

CONSTANTS ann, bob

\* No workload names a buyer.
AnyBuyers == Permutations({ann, bob})

Item(product, number) == [product |-> product, number |-> number]

\* two lots; one title twice; a lot, then one without a number
Two == <<Item("rose #1", 1), Item("musk #2", 2)>>
Again == <<Item("rose #1", 1), Item("rose #1", 1)>>
Bare == <<Item("rose #1", 1), Item("musk", 0)>>

Calm ==
  [show |-> Two, bids |-> {1}, waits |-> {FALSE}, misread |-> FALSE,
   lost |-> 0, losses |-> 0, skips |-> 0, restarts |-> 0, started |-> 0,
   backfills |-> 0, ticks |-> 0]

\* a rising price, a title twice, no number, and one disturbance at a time
Watched ==
  {[Calm EXCEPT !.show = Again], [Calm EXCEPT !.show = Bare],
   [Calm EXCEPT !.ticks = 1], [Calm EXCEPT !.skips = 1],
   [Calm EXCEPT !.waits = BOOLEAN], [Calm EXCEPT !.misread = TRUE],
   [Calm EXCEPT !.restarts = 1, !.started = 1],
   [Calm EXCEPT !.lost = 1, !.losses = 1],
   [Calm EXCEPT !.backfills = 1, !.bids = {1, 2}]}
=============================================================================
