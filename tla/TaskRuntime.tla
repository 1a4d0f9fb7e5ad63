---------------------------- MODULE TaskRuntime ----------------------------
(***************************************************************************)
(* run_tracked_task: a Celery worker runs a task's body under a Redis lock *)
(* with a time to live, skips the task when the lock is taken, and runs    *)
(* the body again, without the lock, when anything in the locked part has  *)
(* raised.  What a body does is the extending module's business.           *)
(***************************************************************************)
EXTENDS Integers, FiniteSets

CONSTANTS
  Workers,   \* Celery worker processes
  NoWorker,
  Tasks,     \* task names; each has a lock of its own
  LockTtl    \* a lock's time to live, in ticks

VARIABLES
  lock,      \* task -> the Redis key
  worker,    \* worker -> the task it runs, and where it is
  overruns   \* task -> how often its lock has expired under a body

taskVars == <<lock, worker, overruns>>

-----------------------------------------------------------------------------
(* Types *)

Lock == [owner : Workers \cup {NoWorker}, age : 0..LockTtl]

(***************************************************************************)
(* locked: the body runs inside held_lock; raised: it has raised there.    *)
(***************************************************************************)
Worker ==
  [task : Tasks, at : {"idle", "acquire", "body", "release"},
   locked : BOOLEAN, raised : BOOLEAN]

ASSUME TaskConstants ==
  /\ Tasks # {} /\ LockTtl \in Nat
  /\ IsFiniteSet(Workers) /\ NoWorker \notin Workers

Free == [owner |-> NoWorker, age |-> 0]

NoTask ==
  [task |-> CHOOSE t \in Tasks : TRUE, at |-> "idle", locked |-> FALSE,
   raised |-> FALSE]

TaskInit ==
  /\ lock = [t \in Tasks |-> Free]
  /\ worker = [w \in Workers |-> NoTask]
  /\ overruns = [t \in Tasks |-> 0]

-----------------------------------------------------------------------------
(* Taking the lock *)

(***************************************************************************)
(* The broker hands a queued task to a worker, as often as it was queued.  *)
(***************************************************************************)
Deliver(w, t) ==
  /\ worker[w].at = "idle"
  /\ worker' = [worker EXCEPT ![w] = [NoTask EXCEPT !.task = t, !.at = "acquire"]]
  /\ UNCHANGED <<lock, overruns>>

(***************************************************************************)
(* SET NX EX; a worker that does not get the lock skips the task.          *)
(***************************************************************************)
AlwaysAcquired(t) == TRUE

MayAcquire(t) == lock[t].owner = NoWorker

Acquire(w) ==
  /\ worker[w].at = "acquire"
  /\ LET t == worker[w].task IN
       IF MayAcquire(t)
       THEN /\ lock' = [lock EXCEPT ![t] = [owner |-> w, age |-> 0]]
            /\ worker' = [worker EXCEPT ![w].at = "body", ![w].locked = TRUE]
       ELSE /\ worker' = [worker EXCEPT ![w] = NoTask]
            /\ UNCHANGED lock
  /\ UNCHANGED overruns

(***************************************************************************)
(* Redis cannot be reached: the body runs all the same.                    *)
(***************************************************************************)
AcquireRaises(w) ==
  /\ worker[w].at = "acquire"
  /\ worker' = [worker EXCEPT ![w].at = "body"]
  /\ UNCHANGED <<lock, overruns>>

-----------------------------------------------------------------------------
(* The end of the body, for the module that has one *)

InBody(w, t) == worker[w].at = "body" /\ worker[w].task = t

BodyReturns(w) ==
  worker' = [worker EXCEPT ![w] =
    IF @.locked THEN [@ EXCEPT !.at = "release"] ELSE NoTask]

BodyRaises(w) ==
  worker' = [worker EXCEPT ![w] =
    IF @.locked THEN [@ EXCEPT !.at = "release", !.raised = TRUE] ELSE NoTask]

-----------------------------------------------------------------------------
(* Giving the lock back *)

Unlocked(x) ==
  [x EXCEPT !.at = "body", !.locked = FALSE, !.raised = FALSE]

(***************************************************************************)
(* held_lock deletes the key, whoever has set it; a body that raised is    *)
(* run again.                                                              *)
(***************************************************************************)
Release(w) ==
  /\ worker[w].at = "release"
  /\ lock' = [lock EXCEPT ![worker[w].task] = Free]
  /\ worker' = [worker EXCEPT ![w] = IF @.raised THEN Unlocked(@) ELSE NoTask]
  /\ UNCHANGED overruns

(***************************************************************************)
(* The deletion fails: the key stays until it expires, and the body is run *)
(* again, also when it had succeeded.                                      *)
(***************************************************************************)
ReleaseRaises(w) ==
  /\ worker[w].at = "release"
  /\ worker' = [worker EXCEPT ![w] = Unlocked(@)]
  /\ UNCHANGED <<lock, overruns>>

(***************************************************************************)
(* The worker process is killed; its lock stays until it expires.          *)
(***************************************************************************)
WorkerDies(w) ==
  /\ worker[w].at # "idle"
  /\ worker' = [worker EXCEPT ![w] = NoTask]
  /\ UNCHANGED <<lock, overruns>>

Locked(w, t) ==
  worker[w].at \in {"body", "release"} /\ worker[w].locked /\ worker[w].task = t

LockedBodies(t) == {w \in Workers : Locked(w, t)}

(***************************************************************************)
(* Time passes, and a key expires when its time to live is over (two to    *)
(* thirty minutes), also under a body that is still running: no body has a *)
(* time limit.  That is counted, up to the number of workers.              *)
(***************************************************************************)
AgedOn(k) ==
  IF k.owner = NoWorker THEN k ELSE [k EXCEPT !.age = @ + 1]

Aged(k) ==
  IF k.owner = NoWorker THEN k
  ELSE IF k.age < LockTtl THEN [k EXCEPT !.age = @ + 1] ELSE Free

Overrun(t) == lock[t].age = LockTtl /\ lock[t].owner \in LockedBodies(t)

LocksAge ==
  /\ lock' = [t \in Tasks |-> Aged(lock[t])]
  /\ overruns' = [t \in Tasks |->
       IF Overrun(t) /\ overruns[t] < Cardinality(Workers)
       THEN overruns[t] + 1 ELSE overruns[t]]
  /\ UNCHANGED worker

LockStep(w) == Acquire(w) \/ Release(w)

-----------------------------------------------------------------------------
(* Properties *)

TaskTypeOK ==
  /\ lock \in [Tasks -> Lock]
  /\ worker \in [Workers -> Worker]
  /\ overruns \in [Tasks -> 0..Cardinality(Workers)]

(***************************************************************************)
(* A lock lets in one body, and each time it expires under a running body  *)
(* at most one more, although a release deletes the key without looking    *)
(* whose it is, so that a body that has lost its lock takes away the lock  *)
(* of the next one.  In particular, no two workers run one task's body     *)
(* under its lock until a lock has expired under one.                      *)
(***************************************************************************)
LockedBodiesBounded ==
  \A t \in Tasks : Cardinality(LockedBodies(t)) <= 1 + overruns[t]
=============================================================================
