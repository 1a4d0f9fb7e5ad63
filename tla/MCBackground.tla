---------------------------- MODULE MCBackground ----------------------------
(***************************************************************************)
(* Instances of Background for TLC.                                        *)
(***************************************************************************)
EXTENDS Background

CONSTANTS h1, h2, s1, s2, w1, w2, w3, i1, i2

Quiet ==
  [threads |-> {}, streams |-> {}, stops |-> FALSE, launches |-> 0,
   workers |-> {}, items |-> {}, drafts |-> 0, extras |-> 0, faults |-> {}]

OneThread ==
  [Quiet EXCEPT !.threads = {h1}, !.streams = {s1, s2}, !.stops = TRUE, !.launches = 5,
                !.faults = {"relaunch", "exit"}]

TwoThreads ==
  [Quiet EXCEPT !.threads = {h1, h2}, !.streams = {s1}, !.launches = 3]

StopThreads == [TwoThreads EXCEPT !.stops = TRUE]

ExitThreads == [TwoThreads EXCEPT !.faults = {"exit"}]

CutOffThread ==
  [Quiet EXCEPT !.threads = {h1}, !.streams = {s1}, !.stops = TRUE, !.launches = 3,
                !.faults = {"start", "server", "exit"}]

BulkTasks == [Quiet EXCEPT !.workers = {w1, w2}, !.items = {i1, i2}, !.drafts = 3]

AskedDrafts ==
  [Quiet EXCEPT !.workers = {w1}, !.items = {i1}, !.drafts = 3, !.extras = 2]

SlowTasks == [Quiet EXCEPT !.workers = {w1, w2, w3}, !.faults = {"overrun"}]

FailingTasks ==
  [Quiet EXCEPT !.workers = {w1, w2}, !.items = {i1}, !.drafts = 1,
                !.faults = {"raise", "die", "redis", "lost"}]

AllWork ==
  {OneThread, StopThreads, ExitThreads, CutOffThread,
   BulkTasks, AskedDrafts, SlowTasks, FailingTasks}
=============================================================================
