----------------------------- MODULE Background -----------------------------
(***************************************************************************)
(* What runs beside the request handlers: the collectors under their       *)
(* supervisor, and the workers' tasks with the requests about the shop's   *)
(* drafts.  They share nothing but the passing of time, by which the write *)
(* lease and the task locks expire.                                        *)
(***************************************************************************)
EXTENDS CollectorHA, ShopDrafts

CONSTANT
  Workloads    \* who is there, and what may go wrong: one is chosen at first

VARIABLE work

vars == <<haVars, shopVars, work>>

Faults ==
  {"relaunch", "start", "server", "exit", "raise", "die", "redis", "lost", "overrun"}

Workload ==
  [threads : SUBSET Servers, streams : SUBSET Streams, stops : BOOLEAN,
   launches : 0..MaxPid, workers : SUBSET Workers, items : SUBSET Items,
   drafts : 0..MaxDrafts, extras : 0..MaxDrafts, faults : SUBSET Faults]

ASSUME BackgroundConstants == Workloads \subseteq Workload

Init == HAInit /\ ShopInit /\ work \in Workloads

-----------------------------------------------------------------------------
(* The steps of the one leave the other alone *)

Request(h) ==
  /\ \/ RequestStatus(h)
     \/ work.stops /\ RequestStop(h)
     \/ \E s \in work.streams : RequestStart(h, s)
  /\ UNCHANGED <<shopVars, work>>

Supervise(h) ==
  /\ ServerStep(h)
  /\ launched' <= work.launches
  /\ UNCHANGED <<shopVars, work>>

Collect(c) == CollectorStep(c) /\ UNCHANGED <<shopVars, work>>

LaunchFails(h) ==
  /\ \/ "relaunch" \in work.faults /\ FailRelaunch(h)
     \/ "start" \in work.faults /\ FailStart(h)
  /\ UNCHANGED <<shopVars, work>>

ProcessFails ==
  /\ \/ "exit" \in work.faults /\ \E c \in Pids : Exit(c)
     \/ "server" \in work.faults /\ RestartServer
  /\ UNCHANGED <<shopVars, work>>

InBounds ==
  /\ Len(draft') <= work.drafts
  /\ \A d \in DOMAIN draft' : draft'[d].item \in work.items
  /\ \A i \in Items : extra'[i] <= work.extras

RunTask(w) ==
  /\ AroundBody(w) \/ BodyStep(w)
  /\ InBounds
  /\ UNCHANGED <<haVars, work>>

AskShop == work.extras > 0 /\ ShopRequest /\ InBounds /\ UNCHANGED <<haVars, work>>

TaskFails(w) ==
  /\ \/ "raise" \in work.faults /\ Raise(w)
     \/ "die" \in work.faults /\ DieInTask(w)
     \/ "redis" \in work.faults /\ RedisFails(w)
     \/ "lost" \in work.faults /\ (MappingLost(w) \/ \E d \in unsaved : OneLost(d))
  /\ UNCHANGED <<haVars, work>>

(***************************************************************************)
(* Time passes for the lease and the locks alike, while there is anything  *)
(* to expire.                                                              *)
(***************************************************************************)
Clock ==
  /\ \/ lease.owner # 0 /\ lease.age <= Ttl
     \/ \E t \in Tasks : lock[t] # Free
  /\ \/ "overrun" \in work.faults
     \/ \A t \in Tasks : ~Overrun(t)
  /\ LeaseAges /\ LocksAge
  /\ UNCHANGED <<draft, mapped, body, requestVars, extra, work>>

Next ==
  \/ \E h \in work.threads : Request(h) \/ Supervise(h) \/ LaunchFails(h)
  \/ \E c \in Pids : Collect(c)
  \/ \E w \in work.workers : RunTask(w) \/ TaskFails(w)
  \/ AskShop \/ ProcessFails \/ Clock

(***************************************************************************)
(* Time goes on, and so does a collector's loop; requests, tasks and       *)
(* faults owe nothing.                                                     *)
(***************************************************************************)
Spec ==
  /\ Init /\ [][Next]_vars
  /\ WF_vars(Clock) /\ \A c \in Pids : WF_vars(Collect(c))

-----------------------------------------------------------------------------
(* Properties *)

BackgroundTypeOK == HATypeOK /\ ShopTypeOK /\ work \in Workload

(***************************************************************************)
(* With one request thread that is not cut off, CollectorHA's processes    *)
(* are always known between requests (live_collector_status,               *)
(* start_live_collector, stop_live_collector).                             *)
(***************************************************************************)
SerialCollectorsKnown ==
  Cardinality(work.threads) = 1 /\ work.faults \cap {"start", "server"} = {}
    => CollectorsKnown

(***************************************************************************)
(* The calls to the shop are answered, neither a worker nor Redis fails,   *)
(* and no bulk push has outlived its lock.                                 *)
(***************************************************************************)
TasksUndisturbed ==
  /\ work.faults \cap {"raise", "die", "redis", "lost"} = {}
  /\ overruns["push"] = 0

(***************************************************************************)
(* Then no product is listed twice, but for pushes by name or by force and *)
(* for enrichments, whichever pushes, deletions and enrichments cross (the *)
(* bulk tasks, push_product_to_tiktok).                                    *)
(***************************************************************************)
OneDraftUndisturbed == TasksUndisturbed => DraftsAccounted

(***************************************************************************)
(* Then, too, no draft that is live at TikTok is lost track of, but for    *)
(* the same pushes and enrichments (upsert_tiktok_product_map,             *)
(* delete_tiktok_product_maps).                                            *)
(***************************************************************************)
DraftsMappedUndisturbed == TasksUndisturbed => StraysAccounted
=============================================================================
