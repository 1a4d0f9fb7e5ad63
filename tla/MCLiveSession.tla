--------------------------- MODULE MCLiveSession ---------------------------
(***************************************************************************)
(* Instances of LiveSession for TLC.                                       *)
(***************************************************************************)
EXTENDS LiveSession

CONSTANTS h1, h2, ann, bob

\* one buyer wins two lots at one price
Twice == << <<1>>, <<1, ann, 1>>, <<2>>, <<2, ann, 1>> >>
\* a provisional price, then the final one
Rising == << <<1>>, <<1, ann, 1>>, <<1, ann, 2>>, <<2>>, <<2, bob, 1>> >>
\* the final price, then a weaker one of another buyer
Falling == << <<1>>, <<1, ann, 2>>, <<1, bob, 1>>, <<2>>, <<2, bob, 2>> >>
\* a winner before any lot number is known
Unnumbered == << <<0, ann, 1>>, <<1>>, <<1, bob, 1>>, <<2>> >>
\* a lot that is passed
Passed == << <<1>>, <<2>>, <<2, ann, 1>>, <<2, bob, 2>> >>
\* a winner without a price
Unpriced0 == << <<1>>, <<1, ann, 0>>, <<1, ann, 1>>, <<1, bob, 2>> >>
\* a winner with neither lot nor price, then the final price
Provisional == << <<0, ann, 0>>, <<1>>, <<1, ann, 1>>, <<2>> >>

Streams == {Twice, Rising, Falling, Unnumbered, Passed, Unpriced0, Provisional}

Load(streams, feed, stats, retry, breaks, reviews, ticks) ==
  {[stream |-> s, feed |-> feed, stats |-> stats, retry |-> retry,
    breaks |-> breaks, reviews |-> reviews, ticks |-> ticks] : s \in streams}

\* /events alone; all routes one after another, with an operator and with a
\* failure; and /events and the stats at the same time
AllRoutes ==
  Load(Streams, {h1}, {}, {}, 0, 0, 1)
    \cup Load(Streams, {h1}, {h1}, {h1}, 0, 1, 0)
    \cup Load({Falling}, {h1}, {h1}, {}, 0, 2, 0)
    \cup Load(Streams, {h1}, {h1}, {h1}, 1, 0, 1)
    \cup Load({Rising, Passed, Unpriced0}, {h1}, {h2}, {}, 0, 0, 0)
=============================================================================
