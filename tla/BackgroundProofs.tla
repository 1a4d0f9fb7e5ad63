-------------------------- MODULE BackgroundProofs --------------------------
(***************************************************************************)
(* What is proved of CollectorHA and of Background, which adds the tasks   *)
(* to the collectors. First the collectors alone, for every number of      *)
(* collectors, request threads and streams, and every time to live: their  *)
(* types, that of two of one role that write at the same time one has      *)
(* outlived its lease, and how a single request thread keeps track of the  *)
(* collectors it launches. Then the tasks and requests of ShopDrafts       *)
(* alone: what each step does to the locks, and to the drafts and their    *)
(* mappings. Last both: each step of Background is one of the collectors'  *)
(* or one of the tasks', or the clock's, which is both.                    *)
(***************************************************************************)
EXTENDS Background, FiniteSetTheorems, TLAPS

(***************************************************************************)
(* The clock of a module that has more than the lease to age also ticks    *)
(* when there is no lease file.                                            *)
(***************************************************************************)
HAStep == HANext \/ LeaseAges

-----------------------------------------------------------------------------
(* Types *)

LEMMA HAIdleValues ==
  /\ NoState \in StateFile
  /\ IdleThread \in Thread
BY HAConstants, SMTT(30) DEF HAConstants, NoState, IdleThread, StateFile, Thread, Places

LEMMA NothingNoted ==
  ASSUME NEW f \in StateFile
  PROVE  /\ [f EXCEPT !.running = FALSE, !.pid = 0, !.standby = 0] \in StateFile
         /\ [f EXCEPT !.running = FALSE, !.pid = 0, !.standby = 0, !.stopped = TRUE]
              \in StateFile
<1>1. 0 \in 0..MaxPid
  BY HAConstants DEF HAConstants
<1>2. ASSUME NEW no \in BOOLEAN, NEW yes \in BOOLEAN, NEW z \in 0..MaxPid
      PROVE  /\ [f EXCEPT !.running = no, !.pid = z, !.standby = z] \in StateFile
             /\ [f EXCEPT !.running = no, !.pid = z, !.standby = z, !.stopped = yes]
                  \in StateFile
  BY DEF StateFile
<1> QED
  BY <1>1, <1>2

(***************************************************************************)
(* A request thread keeps its type when one record replaces its own.       *)
(***************************************************************************)
LEMMA MoveType ==
  ASSUME HATypeOK, NEW h \in Servers, NEW t \in Thread, Move(h, t)
  PROVE  server' \in [Servers -> Thread]
BY DEF HATypeOK, Move

LEMMA ReturnedType ==
  ASSUME NEW t \in Thread
  PROVE  Returned(t) \in Thread
BY HAIdleValues DEF Returned, Thread, Places

LEMMA DoneType ==
  ASSUME NEW t \in Thread
  PROVE  Done(t) \in Thread
<1> DEFINE s == [t EXCEPT !.state.running = t.active \/ t.standby]
<1>1. [t.state EXCEPT !.running = t.active \/ t.standby] \in StateFile
  BY DEF Thread, StateFile
<1>2. s \in Thread
  BY <1>1 DEF Thread
<1>3. [s EXCEPT !.at = "save"] \in Thread
  BY <1>2 DEF Thread, Places
<1>4. Returned(s) \in Thread
  BY <1>2, ReturnedType
<1> QED
  BY <1>3, <1>4 DEF Done

LEMMA ReapedType ==
  ASSUME NEW p \in Process
  PROVE  Reaped(p) \in Process
BY DEF Reaped, Process

LEMMA DeadType ==
  ASSUME NEW p \in Process
  PROVE  Dead(p) \in Process
<1>1. 0 \in 0..Overdue
  BY HAConstants DEF HAConstants, Overdue
<1>2. (IF p.child THEN "zombie" ELSE "gone") \in {"unborn", "alive", "zombie", "gone"}
  BY Zenon
<1> QED
  BY <1>1, <1>2 DEF Dead, Process

LEMMA LaunchType ==
  ASSUME HATypeOK, NEW role \in Roles, Launch(role)
  PROVE  /\ proc' \in [Pids -> Process]
         /\ launched' \in 0..MaxPid
<1>1. [role |-> role, life |-> "alive", child |-> TRUE, busy |-> 0] \in Process
  BY HAConstants DEF HAConstants, Process, Overdue
<1>2. \A c \in Pids : Reaped(proc[c]) \in Process
  BY ReapedType DEF HATypeOK
<1>3. proc' \in [Pids -> Process]
  BY <1>1, <1>2 DEF Launch
<1>4. launched' \in 0..MaxPid
  BY HAConstants DEF HAConstants, HATypeOK, Launch
<1> QED
  BY <1>3, <1>4

(***************************************************************************)
(* The actions that only move a request thread.                            *)
(***************************************************************************)
LEMMA ThreadTypes ==
  ASSUME HATypeOK, NEW h \in Servers,
         \/ RequestStatus(h) \/ RequestStop(h)
         \/ \E s \in Streams : RequestStart(h, s)
         \/ StatusRead(h) \/ Decide(h) \/ FailRelaunch(h) \/ FailStart(h)
  PROVE  HATypeOK'
<1> DEFINE t == server[h]
<1>1. t \in Thread /\ file \in StateFile
  BY DEF HATypeOK
<1>2. ASSUME \E u \in Thread : Move(h, u)
      PROVE  HATypeOK'
  <2>1. UNCHANGED <<proc, launched, file, lease, leaseCut>>
    BY DEF RequestStatus, RequestStop, RequestStart, StatusRead, Decide, FailRelaunch,
           FailStart
  <2>2. ASSUME NEW u \in Thread, Move(h, u)
        PROVE  server' \in [Servers -> Thread]
    BY <2>2, MoveType
  <2> QED
    BY <1>2, <2>1, <2>2 DEF HATypeOK
<1>3. CASE RequestStatus(h) \/ RequestStop(h)
  <2>1. /\ [IdleThread EXCEPT !.at = "status"] \in Thread
        /\ [IdleThread EXCEPT !.at = "kill"] \in Thread
    BY HAIdleValues DEF Thread, Places
  <2> QED
    BY <1>2, <1>3, <2>1 DEF RequestStatus, RequestStop
<1>4. ASSUME NEW s \in Streams, RequestStart(h, s)
      PROVE  \E u \in Thread : Move(h, u)
  <2>1. [IdleThread EXCEPT !.at = "status", !.after = "decide", !.stream = s] \in Thread
    BY HAIdleValues DEF Thread, Places
  <2> QED
    BY <1>4, <2>1 DEF RequestStart
<1>5. CASE StatusRead(h)
  <2> DEFINE a == IsRunning(file.pid)
             b == IsRunning(file.standby)
             r == [t EXCEPT !.state = file, !.active = a, !.standby = b,
                            !.changed = FALSE]
  <2>1. a \in BOOLEAN /\ b \in BOOLEAN
    BY DEF IsRunning
  <2>2. r \in Thread
    <3> HIDE DEF a, b
    <3> QED
      BY <1>1, <2>1 DEF Thread
  <2>3. r.state = file
    BY <1>1 DEF Thread
  <2>4. CASE Move(h, [r EXCEPT !.at = "clear", !.state.running = FALSE,
                               !.state.pid = 0, !.state.standby = 0])
    <3> HIDE DEF r
    <3>1. [r.state EXCEPT !.running = FALSE, !.pid = 0, !.standby = 0] \in StateFile
      BY <2>2, NothingNoted DEF Thread
    <3>2. [r EXCEPT !.at = "clear", !.state.running = FALSE, !.state.pid = 0,
                    !.state.standby = 0] \in Thread
      BY <2>2, <3>1 DEF Thread, Places
    <3> QED
      BY <1>2, <2>4, <3>2
  <2>5. CASE Move(h, [r EXCEPT !.at = "relaunch"])
    <3> HIDE DEF r
    <3>1. [r EXCEPT !.at = "relaunch"] \in Thread
      BY <2>2 DEF Thread, Places
    <3> QED
      BY <1>2, <2>5, <3>1
  <2>6. CASE Move(h, [r EXCEPT !.at = "save", !.state.running = a \/ b,
                        !.state.pid = IF a THEN @ ELSE 0,
                        !.state.standby = IF b THEN @ ELSE 0])
    <3> HIDE DEF r, a, b
    <3> DEFINE n == IF a THEN r.state.pid ELSE 0
               m == IF b THEN r.state.standby ELSE 0
    <3>1. n \in 0..MaxPid /\ m \in 0..MaxPid
      BY <2>2, HAConstants DEF HAConstants, Thread, StateFile
    <3>2. [r EXCEPT !.at = "save", !.state.running = a \/ b, !.state.pid = n,
                    !.state.standby = m] \in Thread
      <4> HIDE DEF n, m
      <4>1. [r.state EXCEPT !.running = a \/ b, !.pid = n, !.standby = m] \in StateFile
        BY <2>2, <3>1 DEF Thread, StateFile
      <4> QED
        BY <2>2, <4>1 DEF Thread, Places
    <3> QED
      BY <1>2, <2>6, <3>2
  <2>7. CASE Move(h, Returned(r))
    BY <1>2, <2>2, <2>7, ReturnedType
  <2> QED
    BY <1>5, <2>4, <2>5, <2>6, <2>7 DEF StatusRead
<1>6. CASE Decide(h)
  <2>1. /\ [t EXCEPT !.at = "kill", !.after = "start"] \in Thread
        /\ [t EXCEPT !.at = "start"] \in Thread
    BY <1>1 DEF Thread, Places
  <2> QED
    BY <1>2, <1>6, <2>1, HAIdleValues DEF Decide
<1>7. CASE FailRelaunch(h)
  <2>1. [t.state EXCEPT !.pid = 0] \in StateFile /\ [t.state EXCEPT !.standby = 0] \in StateFile
    BY <1>1, HAConstants DEF HAConstants, Thread, StateFile
  <2>2. /\ [t EXCEPT !.at = "relaunchStandby", !.state.pid = 0] \in Thread
        /\ [t EXCEPT !.state.standby = 0] \in Thread
    BY <1>1, <2>1 DEF Thread, Places
  <2> QED
    BY <1>1, <1>2, <1>7, <2>2, DoneType DEF FailRelaunch
<1>8. CASE FailStart(h)
  BY <1>2, <1>8, HAIdleValues DEF FailStart
<1> QED
  BY <1>2, <1>3, <1>4, <1>5, <1>6, <1>7, <1>8

(***************************************************************************)
(* The actions that launch a process.                                      *)
(***************************************************************************)
LEMMA LaunchingTypes ==
  ASSUME HATypeOK, NEW h \in Servers,
         Relaunch(h) \/ RelaunchStandby(h) \/ Start(h) \/ StartStandby(h)
  PROVE  HATypeOK'
<1> DEFINE t == server[h]
<1>1. t \in Thread /\ t.state \in StateFile
  BY DEF HATypeOK, Thread
<1>2. UNCHANGED <<file, lease, leaseCut>>
  BY DEF Relaunch, RelaunchStandby, Start, StartStandby
<1>3. ASSUME proc' \in [Pids -> Process], launched' \in 0..MaxPid,
             \E u \in Thread : Move(h, u)
      PROVE  HATypeOK'
  <2>1. server' \in [Servers -> Thread]
    BY <1>3, MoveType
  <2> QED
    BY <1>2, <1>3, <2>1 DEF HATypeOK
<1>4. ASSUME UNCHANGED <<proc, launched>>, NEW u \in Thread, Move(h, u)
      PROVE  HATypeOK'
  BY <1>3, <1>4 DEF HATypeOK
<1>5. ASSUME NEW role \in Roles, Launch(role), \E u \in Thread : Move(h, u)
      PROVE  HATypeOK'
  BY <1>3, <1>5, LaunchType
<1>6. ASSUME launched' \in 0..MaxPid
      PROVE  [t.state EXCEPT !.standby = launched'] \in StateFile
  BY <1>1, <1>6 DEF StateFile
<1>7. CASE Relaunch(h)
  <2>1. CASE UNCHANGED <<proc, launched>> /\ Move(h, [t EXCEPT !.at = "relaunchStandby"])
    <3>1. [t EXCEPT !.at = "relaunchStandby"] \in Thread
      BY <1>1 DEF Thread, Places
    <3> QED
      BY <1>4, <2>1, <3>1
  <2>2. CASE /\ Launch("active")
             /\ Move(h, [t EXCEPT !.at = "relaunchStandby", !.active = TRUE,
                  !.changed = TRUE, !.state.pid = launched', !.state.running = TRUE])
    <3>1. launched' \in 0..MaxPid
      BY <2>2, LaunchType DEF Roles
    <3>2. [t.state EXCEPT !.pid = launched', !.running = TRUE] \in StateFile
      BY <1>1, <3>1 DEF StateFile
    <3>3. [t EXCEPT !.at = "relaunchStandby", !.active = TRUE, !.changed = TRUE,
                    !.state.pid = launched', !.state.running = TRUE] \in Thread
      BY <1>1, <3>2 DEF Thread, Places
    <3> QED
      BY <1>5, <2>2, <3>3 DEF Roles
  <2> QED
    BY <1>7, <2>1, <2>2 DEF Relaunch
<1>8. CASE RelaunchStandby(h)
  <2>1. CASE UNCHANGED <<proc, launched>> /\ Move(h, Done(t))
    BY <1>1, <1>4, <2>1, DoneType
  <2>2. CASE /\ Launch("standby")
             /\ Move(h, Done([t EXCEPT !.standby = TRUE, !.changed = TRUE,
                                       !.state.standby = launched']))
    <3>1. launched' \in 0..MaxPid
      BY <2>2, LaunchType DEF Roles
    <3>2. [t EXCEPT !.standby = TRUE, !.changed = TRUE, !.state.standby = launched']
            \in Thread
      BY <1>1, <1>6, <3>1 DEF Thread
    <3> QED
      BY <1>5, <2>2, <3>2, DoneType DEF Roles
  <2> QED
    BY <1>8, <2>1, <2>2 DEF RelaunchStandby
<1>9. CASE Start(h)
  <2> DEFINE s == [NoState EXCEPT !.pid = launched', !.url = t.stream, !.running = TRUE]
  <2>1. launched' \in 0..MaxPid
    BY <1>9, LaunchType DEF Start, Roles
  <2>2. t.stream \in Streams \cup {NoStream}
    BY <1>1 DEF Thread
  <2>3. s \in StateFile
    BY <2>1, <2>2, HAIdleValues DEF StateFile
  <2>4. [t EXCEPT !.at = "startStandby", !.state = s] \in Thread
    <3> HIDE DEF s
    <3> QED
      BY <1>1, <2>3 DEF Thread, Places
  <2> QED
    BY <1>5, <1>9, <2>4 DEF Start, Roles
<1>10. CASE StartStandby(h)
  <2>1. launched' \in 0..MaxPid
    BY <1>10, LaunchType DEF StartStandby, Roles
  <2>2. [t EXCEPT !.at = "startSave", !.state.standby = launched'] \in Thread
    BY <1>1, <1>6, <2>1 DEF Thread, Places
  <2> QED
    BY <1>5, <1>10, <2>2 DEF StartStandby, Roles
<1> QED
  BY <1>7, <1>8, <1>9, <1>10

(***************************************************************************)
(* The actions that write the state file or the lease file, or stop the    *)
(* processes.                                                              *)
(***************************************************************************)
LEMMA SavingTypes ==
  ASSUME HATypeOK, NEW h \in Servers,
         Clear(h) \/ Save(h) \/ StartSave(h) \/ Kill(h) \/ Forget(h) \/ Unlease(h)
  PROVE  HATypeOK'
<1> DEFINE t == server[h]
<1>1. t \in Thread /\ t.state \in StateFile /\ file \in StateFile
  BY DEF HATypeOK, Thread
<1>2. \E u \in Thread : Move(h, u)
  <2>1. /\ [t EXCEPT !.at = "relaunch"] \in Thread
        /\ [t EXCEPT !.at = "status", !.after = "reply"] \in Thread
        /\ [t EXCEPT !.at = "unlease"] \in Thread
        /\ [t EXCEPT !.at = "status"] \in Thread
    BY <1>1 DEF Thread, Places
  <2>2. [file EXCEPT !.running = FALSE, !.pid = 0, !.standby = 0, !.stopped = TRUE]
          \in StateFile
    BY <1>1, NothingNoted
  <2>3. [t EXCEPT !.at = "forget", !.state =
          [file EXCEPT !.running = FALSE, !.pid = 0, !.standby = 0, !.stopped = TRUE]]
          \in Thread
    BY <1>1, <2>2 DEF Thread, Places
  <2> QED
    BY <1>1, <2>1, <2>3, ReturnedType
    DEF Clear, Save, StartSave, Kill, Forget, Unlease
<1>3. server' \in [Servers -> Thread]
  BY <1>2, MoveType
<1>4. CASE Clear(h) \/ Save(h) \/ StartSave(h) \/ Forget(h)
  BY <1>1, <1>3, <1>4 DEF HATypeOK, Clear, Save, StartSave, Forget
<1>5. CASE Kill(h)
  <2>1. proc' \in [Pids -> Process]
    BY <1>5, DeadType DEF HATypeOK, Kill
  <2> QED
    BY <1>3, <1>5, <2>1 DEF HATypeOK, Kill
<1>6. CASE Unlease(h)
  <2>1. lease' \in Lease
    BY <1>6, HAConstants DEF HAConstants, Lease, Unlease
  <2>2. leaseCut' \in BOOLEAN
    BY <1>6 DEF Unlease
  <2> QED
    BY <1>3, <1>6, <2>1, <2>2 DEF HATypeOK, Unlease
<1> QED
  BY <1>4, <1>5, <1>6

(***************************************************************************)
(* The collectors' actions, the clock and the server's restart.            *)
(***************************************************************************)
LEMMA ProcessTypes ==
  ASSUME HATypeOK,
         \/ \E c \in Pids : CollectorStep(c) \/ Exit(c)
         \/ LeaseAges \/ RestartServer
  PROVE  HATypeOK'
<1>1. ASSUME NEW c \in Pids, CollectorStep(c) \/ Exit(c)
      PROVE  HATypeOK'
  <2>1. CASE Refresh(c)
    <3>1. lease' \in Lease
      BY <2>1, HAConstants DEF HAConstants, Refresh, Lease, Pids
    <3>2. proc' \in [Pids -> Process]
      BY <2>1, HAConstants DEF HAConstants, Overdue, Refresh, HATypeOK, Process
    <3> QED
      BY <2>1, <3>1, <3>2 DEF HATypeOK, Refresh
  <2>2. CASE FinishIteration(c)
    BY <2>2, HAConstants DEF HAConstants, Overdue, FinishIteration, HATypeOK, Process
  <2>3. CASE Exit(c)
    BY <2>3, DeadType DEF Exit, HATypeOK
  <2> QED
    BY <1>1, <2>1, <2>2, <2>3 DEF CollectorStep
<1>2. CASE LeaseAges
  <2>1. lease' \in Lease
    BY <1>2, HAConstants DEF HAConstants, LeaseAges, HATypeOK, Lease
  <2>2. proc' \in [Pids -> Process]
    <3>1. ASSUME NEW c \in Pids, proc[c].busy \in 1..Overdue - 1
          PROVE  [proc[c] EXCEPT !.busy = @ + 1] \in Process
      BY <3>1, HAConstants DEF HAConstants, Overdue, HATypeOK, Process
    <3> QED
      BY <1>2, <3>1 DEF LeaseAges, HATypeOK
  <2> QED
    BY <1>2, <2>1, <2>2 DEF LeaseAges, HATypeOK
<1>3. CASE RestartServer
  <2>1. ASSUME NEW c \in Pids
        PROVE  [Reaped(proc[c]) EXCEPT !.child = FALSE] \in Process
    <3>1. Reaped(proc[c]) \in Process
      BY ReapedType DEF HATypeOK
    <3> QED
      BY <3>1 DEF Process
  <2> QED
    BY <1>3, <2>1, HAIdleValues DEF RestartServer, HATypeOK
<1> QED
  BY <1>1, <1>2, <1>3

LEMMA HATypeInit == HAInit => HATypeOK
<1> SUFFICES ASSUME HAInit PROVE HATypeOK
  OBVIOUS
<1>1. [role |-> "active", life |-> "unborn", child |-> FALSE, busy |-> 0] \in Process
  <2>1. "active" \in Roles /\ 0 \in 0..Overdue
    BY HAConstants DEF HAConstants, Overdue, Roles
  <2>2. ASSUME NEW r \in Roles, NEW n \in 0..Overdue, NEW no \in BOOLEAN
        PROVE  [role |-> r, life |-> "unborn", child |-> no, busy |-> n] \in Process
    BY DEF Process
  <2> QED
    BY <2>1, <2>2
<1>2. proc \in [Pids -> Process]
  BY <1>1 DEF HAInit
<1>3. launched \in 0..MaxPid /\ lease \in Lease /\ leaseCut \in BOOLEAN
  <2>1. leaseCut \in BOOLEAN
    BY Zenon DEF HAInit
  <2>2. launched \in 0..MaxPid
    BY HAConstants DEF HAConstants, HAInit
  <2>3. 0 \in 0..MaxPid /\ 0 \in 0..Ttl + 1
    BY HAConstants DEF HAConstants
  <2>4. lease \in Lease
    BY <2>3 DEF HAInit, Lease
  <2> QED
    BY <2>1, <2>2, <2>4
<1>4. server \in [Servers -> Thread] /\ file \in StateFile
  BY HAIdleValues DEF HAInit
<1> QED
  BY <1>2, <1>3, <1>4 DEF HATypeOK

LEMMA HATypeStep == HATypeOK /\ [HAStep]_haVars => HATypeOK'
<1> SUFFICES ASSUME HATypeOK, [HAStep]_haVars
             PROVE  HATypeOK'
  OBVIOUS
<1>1. CASE UNCHANGED haVars
  BY <1>1 DEF haVars, HATypeOK
<1>2. ASSUME NEW h \in Servers, ServerStep(h)
      PROVE  HATypeOK'
  BY <1>2, ThreadTypes, LaunchingTypes, SavingTypes DEF ServerStep
<1>3. CASE Tick
  BY <1>3, ProcessTypes DEF Tick, LeaseAges
<1> QED
  BY <1>1, <1>2, <1>3, ThreadTypes, ProcessTypes DEF HAStep, HANext

-----------------------------------------------------------------------------
(* One writer per role *)

(***************************************************************************)
(* The strengthening of OneWriterPerRole.  A pid that is not given out has *)
(* no process, and the lease names only pids that are: so the role of its  *)
(* owner stays.  An iteration has lasted at least as long as the lease is  *)
(* old, hence the lease is not expired while one goes on in time; and the  *)
(* lease is then the writer's own or, when the writer is a standby, an     *)
(* active's that has displaced it.                                         *)
(***************************************************************************)
WritersAlive == \A c \in Pids : Writing(c) => Alive(c)

PidsInOrder ==
  /\ \A c \in Pids : c > launched => proc[c].life = "unborn"
  /\ lease.owner <= launched

LeaseCoversWriters ==
  ~leaseCut =>
    \A c \in Pids : Writing(c) /\ ~Late(c) =>
      /\ lease.owner # 0 /\ lease.age < proc[c].busy
      /\ proc[c].role = "active" => lease.owner = c
      /\ lease.owner = c \/ proc[lease.owner].role = "active"

WriterInv == WritersAlive /\ PidsInOrder /\ LeaseCoversWriters /\ OneWriterPerRole

LEMMA WriterInit == HAInit => WriterInv
BY HAConstants
DEF HAConstants, HAInit, WriterInv, WritersAlive, PidsInOrder, LeaseCoversWriters,
    OneWriterPerRole, Writing, Pids

(***************************************************************************)
(* What most steps do to the processes, at most: the role of a pid that is *)
(* given out stays, and no iteration begins; the lease stays.              *)
(***************************************************************************)
Calm ==
  /\ UNCHANGED <<lease, leaseCut>>
  /\ launched <= launched'
  /\ \A c \in Pids :
       /\ proc'[c].busy \in {0, proc[c].busy}
       /\ c <= launched => proc'[c].role = proc[c].role
       /\ c > launched' => proc'[c].life = "unborn"
       /\ proc[c].life = "alive" /\ proc'[c].busy > 0 => proc'[c].life = "alive"

LEMMA CalmStep ==
  ASSUME HATypeOK, HATypeOK', WriterInv, Calm
  PROVE  WriterInv'
<1>1. \A c \in Pids : Writing(c)' => Writing(c) /\ c <= launched
  <2>1. ASSUME NEW c \in Pids, Writing(c)'
        PROVE  Writing(c) /\ c <= launched
    <3>1. proc'[c].busy > 0 /\ proc[c].busy = proc'[c].busy
      BY <2>1 DEF Writing, Calm
    <3>2. Writing(c) /\ Alive(c)
      BY <3>1 DEF Writing, WriterInv, WritersAlive
    <3>3. proc[c].life # "unborn"
      BY <3>2 DEF Alive
    <3>4. c \in Nat /\ launched \in Nat
      BY HAConstants DEF HAConstants, Pids, HATypeOK
    <3> QED
      BY <3>2, <3>3, <3>4 DEF WriterInv, PidsInOrder
  <2> QED
    BY <2>1
<1>2. \A c \in Pids : Writing(c)' =>
        /\ proc'[c].role = proc[c].role /\ proc'[c].busy = proc[c].busy
        /\ proc'[c].life = "alive"
  BY <1>1 DEF Calm, Writing, WriterInv, WritersAlive, Alive
<1>3. lease.owner # 0 => proc'[lease.owner].role = proc[lease.owner].role
  <2>1. lease.owner # 0 => lease.owner \in Pids
    BY HAConstants DEF HAConstants, HATypeOK, Lease, Pids
  <2> QED
    BY <2>1 DEF Calm, WriterInv, PidsInOrder
<1>4. WritersAlive'
  BY <1>2 DEF WritersAlive, Alive
<1>5. PidsInOrder'
  BY HAConstants DEF HAConstants, HATypeOK, Lease, Calm, WriterInv, PidsInOrder
<1>6. LeaseCoversWriters'
  <2>1. lease' = lease /\ leaseCut' = leaseCut
    BY DEF Calm
  <2>2. SUFFICES ASSUME ~leaseCut, NEW c \in Pids, Writing(c)', ~Late(c)'
                 PROVE  /\ lease.owner # 0 /\ lease.age < proc'[c].busy
                        /\ proc'[c].role = "active" => lease.owner = c
                        /\ lease.owner = c \/ proc'[lease.owner].role = "active"
    BY <2>1 DEF LeaseCoversWriters
  <2>3. /\ lease.owner # 0 /\ lease.age < proc[c].busy
        /\ proc[c].role = "active" => lease.owner = c
        /\ lease.owner = c \/ proc[lease.owner].role = "active"
    BY <1>1, <1>2, <2>2 DEF WriterInv, LeaseCoversWriters, Late
  <2> QED
    BY <1>2, <1>3, <2>2, <2>3
<1>7. OneWriterPerRole'
  BY <1>1, <1>2 DEF Calm, WriterInv, OneWriterPerRole, Late
<1> QED
  BY <1>4, <1>5, <1>6, <1>7 DEF WriterInv

LEMMA LaunchCalm ==
  ASSUME HATypeOK, WriterInv, NEW role \in Roles, Launch(role),
         UNCHANGED <<lease, leaseCut>>
  PROVE  Calm
<1>1. launched \in Nat /\ launched' = launched + 1 /\ Pids \subseteq Nat
  BY HAConstants DEF HAConstants, HATypeOK, Launch, Pids
<1>2. ASSUME NEW c \in Pids, c # launched + 1
      PROVE  /\ proc'[c].busy = proc[c].busy
             /\ proc'[c].role = proc[c].role
             /\ proc[c].life \in {"alive", "unborn"} => proc'[c].life = proc[c].life
  BY <1>2 DEF Launch, Reaped, HATypeOK, Process
<1>3. ASSUME NEW c \in Pids, c = launched + 1
      PROVE  proc'[c].busy = 0
  BY <1>3 DEF Launch
<1>4. ASSUME NEW c \in Pids
      PROVE  /\ proc'[c].busy \in {0, proc[c].busy}
             /\ c <= launched => proc'[c].role = proc[c].role
             /\ c > launched' => proc'[c].life = "unborn"
             /\ proc[c].life = "alive" /\ proc'[c].busy > 0 => proc'[c].life = "alive"
  <2>1. CASE c = launched + 1
    BY <1>1, <1>3, <2>1
  <2>2. CASE c # launched + 1
    BY <1>1, <1>2, <2>2 DEF WriterInv, PidsInOrder
  <2> QED
    BY <2>1, <2>2
<1>5. launched <= launched'
  BY <1>1
<1> QED
  BY <1>4, <1>5 DEF Calm

LEMMA DeadFields ==
  ASSUME NEW p \in Process
  PROVE  Dead(p).busy = 0 /\ Dead(p).role = p.role
BY DEF Dead, Process

LEMMA ReapedFields ==
  ASSUME NEW p \in Process
  PROVE  /\ Reaped(p).busy = p.busy /\ Reaped(p).role = p.role
         /\ p.life # "zombie" => Reaped(p).life = p.life
BY DEF Reaped, Process

(***************************************************************************)
(* Every step but a refresh, the clock and the removal of the lease is     *)
(* calm.                                                                   *)
(***************************************************************************)
LEMMA ServerCalm ==
  ASSUME HATypeOK, WriterInv, NEW h \in Servers,
         \/ RequestStatus(h) \/ RequestStop(h)
         \/ \E s \in Streams : RequestStart(h, s)
         \/ StatusRead(h) \/ Clear(h) \/ Relaunch(h) \/ RelaunchStandby(h) \/ Save(h)
         \/ Decide(h) \/ Start(h) \/ StartStandby(h) \/ StartSave(h)
         \/ Forget(h) \/ FailRelaunch(h) \/ FailStart(h)
  PROVE  Calm
<1>1. ASSUME UNCHANGED <<proc, launched, lease, leaseCut>>
      PROVE  Calm
  BY <1>1, HAConstants, SMTT(30) DEF HAConstants, HATypeOK, Calm, WriterInv, PidsInOrder
<1>2. UNCHANGED <<lease, leaseCut>>
  BY DEF RequestStatus, RequestStop, RequestStart, StatusRead, Clear, Relaunch,
         RelaunchStandby, Save, Decide, Start, StartStandby, StartSave, Forget,
         FailRelaunch, FailStart
<1>3. UNCHANGED <<proc, launched>> \/ Launch("active") \/ Launch("standby")
  BY DEF RequestStatus, RequestStop, RequestStart, StatusRead, Clear, Relaunch,
         RelaunchStandby, Save, Decide, Start, StartStandby, StartSave, Forget,
         FailRelaunch, FailStart
<1> QED
  BY <1>1, <1>2, <1>3, LaunchCalm DEF Roles

LEMMA DeathCalm ==
  ASSUME HATypeOK, WriterInv,
         \/ \E c \in Pids : FinishIteration(c) \/ Exit(c)
         \/ \E h \in Servers : Kill(h)
         \/ RestartServer
  PROVE  Calm
<1>0. /\ launched \in Nat /\ Pids \subseteq Nat
      /\ \A c \in Pids : proc[c] \in Process
      /\ \A c \in Pids : c > launched => proc[c].life = "unborn"
  BY HAConstants DEF HAConstants, HATypeOK, Pids, WriterInv, PidsInOrder
<1>1. ASSUME NEW c \in Pids, FinishIteration(c)
      PROVE  Calm
  BY <1>0, <1>1 DEF FinishIteration, Calm, Alive, Process, HATypeOK
<1>2. ASSUME NEW c \in Pids, Exit(c)
      PROVE  Calm
  BY <1>0, <1>2, DeadFields DEF Exit, Calm, Alive, HATypeOK
<1>3. ASSUME NEW h \in Servers, Kill(h)
      PROVE  Calm
  <2>1. ASSUME NEW c \in Pids
        PROVE  \/ proc'[c] = proc[c]
               \/ proc[c].life = "alive" /\ proc'[c] = Dead(proc[c])
    BY <1>3 DEF Kill, Alive
  <2>2. UNCHANGED <<launched, lease, leaseCut>>
    BY <1>3 DEF Kill
  <2>3. ASSUME NEW c \in Pids
        PROVE  /\ proc'[c].busy \in {0, proc[c].busy}
               /\ proc'[c].role = proc[c].role
               /\ c > launched => proc'[c].life = "unborn"
               /\ proc'[c].busy > 0 => proc'[c].life = proc[c].life
    <3>1. proc[c] \in Process /\ Dead(proc[c]).busy = 0 /\ Dead(proc[c]).role = proc[c].role
      BY <1>0, DeadFields
    <3> QED
      BY <1>0, <2>1, <3>1
  <2>4. launched' = launched /\ launched <= launched'
    BY <1>0, <2>2
  <2>5. ASSUME NEW c \in Pids
        PROVE  /\ proc'[c].busy \in {0, proc[c].busy}
               /\ c <= launched => proc'[c].role = proc[c].role
               /\ c > launched' => proc'[c].life = "unborn"
               /\ proc[c].life = "alive" /\ proc'[c].busy > 0 => proc'[c].life = "alive"
    BY <2>3, <2>4
  <2> QED
    BY <2>2, <2>4, <2>5 DEF Calm
<1>4. CASE RestartServer
  <2>1. ASSUME NEW c \in Pids
        PROVE  /\ proc'[c].busy = proc[c].busy /\ proc'[c].role = proc[c].role
               /\ proc[c].life # "zombie" => proc'[c].life = proc[c].life
    <3>1. Reaped(proc[c]) \in Process
      BY <1>0, ReapedType
    <3>2. proc'[c] = [Reaped(proc[c]) EXCEPT !.child = FALSE]
      BY <1>4 DEF RestartServer
    <3>3. /\ proc'[c].busy = Reaped(proc[c]).busy /\ proc'[c].role = Reaped(proc[c]).role
          /\ proc'[c].life = Reaped(proc[c]).life
      BY <3>1, <3>2 DEF Process
    <3> QED
      BY <1>0, <3>3, ReapedFields
  <2> QED
    BY <1>0, <1>4, <2>1 DEF RestartServer, Calm
<1> QED
  BY <1>1, <1>2, <1>3, <1>4

(***************************************************************************)
(* A refresh: whoever writes of its role held the lease, which the         *)
(* collector could take only from itself or from the other role.           *)
(***************************************************************************)
LEMMA RefreshKeeps ==
  ASSUME HATypeOK, WriterInv, NEW c \in Pids, Refresh(c)
  PROVE  WriterInv'
<1>1. /\ Ttl \in Nat /\ launched \in Nat /\ Pids \subseteq Nat /\ 0 \notin Pids
      /\ lease.age \in Nat
      /\ \A d \in Pids : proc[d] \in Process
      /\ \A d \in Pids : proc[d].busy \in Nat /\ (~Late(d) => proc[d].busy <= Ttl + 1)
  BY HAConstants DEF HAConstants, HATypeOK, Pids, Lease, Process, Late, Overdue
<1>2. /\ Alive(c) /\ proc[c].busy = 0 /\ MayClaim(c)
      /\ lease' = [owner |-> c, age |-> 0]
      /\ proc' = [proc EXCEPT ![c].busy = 1]
      /\ UNCHANGED <<launched, leaseCut>>
  BY DEF Refresh
<1>3. ASSUME NEW d \in Pids
      PROVE  /\ proc'[d].role = proc[d].role /\ proc'[d].life = proc[d].life
             /\ d # c => proc'[d].busy = proc[d].busy
             /\ d = c => proc'[d].busy = 1
  BY <1>1, <1>2 DEF HATypeOK, Process
<1>4. c <= launched
  BY <1>1, <1>2 DEF Alive, WriterInv, PidsInOrder
<1>5. WritersAlive'
  BY <1>2, <1>3 DEF WritersAlive, Writing, Alive, WriterInv
<1>6. PidsInOrder'
  BY <1>2, <1>3, <1>4 DEF PidsInOrder, WriterInv
<1>7. ASSUME ~leaseCut, NEW d \in Pids, d # c, Writing(d), ~Late(d)
      PROVE  proc[d].role = "standby" /\ proc[c].role = "active"
  <2>1. /\ lease.owner # 0 /\ lease.age < proc[d].busy
        /\ proc[d].role = "active" => lease.owner = d
        /\ lease.owner = d \/ proc[lease.owner].role = "active"
    BY <1>7 DEF WriterInv, LeaseCoversWriters
  <2>2. ~Expired
    <3>1. lease.age < proc[d].busy /\ proc[d].busy <= Ttl + 1 /\ proc[d].busy \in Nat
      BY <1>1, <1>7, <2>1
    <3>2. ~(lease.age > Ttl)
      BY <1>1, <3>1
    <3> QED
      BY <2>1, <3>2 DEF Expired
  <2>3. lease.owner \in Pids
    BY <2>1, HAConstants DEF HAConstants, HATypeOK, Lease, Pids
  <2>4. proc[c].role \in {"active", "standby"} /\ proc[d].role \in {"active", "standby"}
    BY <1>1 DEF Process, Roles
  <2>5. CASE lease.owner = c
    BY <1>7, <2>1, <2>4, <2>5
  <2>6. CASE Promoted(c)
    BY <1>7, <2>1, <2>4, <2>6 DEF Promoted
  <2> QED
    BY <1>2, <2>2, <2>5, <2>6 DEF MayClaim
<1>8. LeaseCoversWriters'
  <2> SUFFICES ASSUME ~leaseCut, NEW d \in Pids, Writing(d)', ~Late(d)'
               PROVE  /\ lease'.owner # 0 /\ lease'.age < proc'[d].busy
                      /\ proc'[d].role = "active" => lease'.owner = d
                      /\ lease'.owner = d \/ proc'[lease'.owner].role = "active"
    BY <1>2 DEF LeaseCoversWriters
  <2>1. lease'.owner = c /\ lease'.age = 0
    BY <1>2
  <2>2. CASE d = c
    BY <1>1, <1>3, <2>1, <2>2
  <2>3. CASE d # c
    <3>1. Writing(d) /\ ~Late(d) /\ proc'[d].busy > 0
      BY <1>3, <2>3 DEF Writing, Late
    <3>2. proc[d].role = "standby" /\ proc[c].role = "active"
      BY <1>7, <2>3, <3>1
    <3> QED
      BY <1>1, <1>3, <2>1, <3>1, <3>2
  <2> QED
    BY <2>2, <2>3
<1>9. OneWriterPerRole'
  <2> SUFFICES ASSUME ~leaseCut, NEW d \in Pids, NEW e \in Pids,
                      Writing(d)', Writing(e)', proc'[d].role = proc'[e].role,
                      ~Late(d)', ~Late(e)'
               PROVE  d = e
    BY <1>2 DEF OneWriterPerRole
  <2>1. ASSUME NEW f \in Pids, f # c, Writing(f)', ~Late(f)'
        PROVE  Writing(f) /\ ~Late(f) /\ proc[f].role = "standby" /\ proc[c].role = "active"
    BY <1>3, <1>7, <2>1 DEF Writing, Late
  <2> QED
    BY <1>3, <2>1 DEF WriterInv, OneWriterPerRole
<1> QED
  BY <1>5, <1>6, <1>8, <1>9 DEF WriterInv

(***************************************************************************)
(* The clock: the lease and the iteration it covers grow older together.   *)
(***************************************************************************)
LEMMA TimeKeeps ==
  ASSUME HATypeOK, WriterInv, LeaseAges
  PROVE  WriterInv'
<1>1. /\ lease \in Lease /\ lease.age \in Nat /\ Ttl \in Nat
      /\ \A d \in Pids : proc[d] \in Process /\ proc[d].busy \in Nat
  BY HAConstants DEF HAConstants, HATypeOK, Lease, Process
<1>2. ASSUME NEW d \in Pids
      PROVE  /\ proc'[d].role = proc[d].role /\ proc'[d].life = proc[d].life
             /\ proc[d].busy = 0 => proc'[d].busy = 0
             /\ proc[d].busy > 0 /\ ~Late(d)' =>
                  ~Late(d) /\ proc'[d].busy = proc[d].busy + 1
  BY <1>1 DEF LeaseAges, Process, Late, Overdue
<1>3. /\ lease'.owner = lease.owner
      /\ lease'.age \in {lease.age, lease.age + 1}
  BY <1>1 DEF LeaseAges, Lease
<1>4. UNCHANGED <<launched, leaseCut>>
  BY DEF LeaseAges
<1>5. \A d \in Pids : (Writing(d)' => Writing(d)) /\ (~Late(d)' /\ Writing(d) => ~Late(d))
  BY <1>1, <1>2 DEF Writing
<1>6. lease.owner # 0 => lease.owner \in Pids
  BY <1>1, HAConstants DEF HAConstants, Lease, Pids
<1>7. WritersAlive' /\ PidsInOrder' /\ OneWriterPerRole'
  BY <1>2, <1>3, <1>4, <1>5
  DEF WriterInv, WritersAlive, Alive, PidsInOrder, OneWriterPerRole
<1>8. LeaseCoversWriters'
  <2> SUFFICES ASSUME ~leaseCut, NEW d \in Pids, Writing(d)', ~Late(d)'
               PROVE  /\ lease'.owner # 0 /\ lease'.age < proc'[d].busy
                      /\ proc'[d].role = "active" => lease'.owner = d
                      /\ lease'.owner = d \/ proc'[lease'.owner].role = "active"
    BY <1>4 DEF LeaseCoversWriters
  <2>1. /\ Writing(d) /\ ~Late(d) /\ lease.owner # 0 /\ lease.age < proc[d].busy
        /\ proc[d].role = "active" => lease.owner = d
        /\ lease.owner = d \/ proc[lease.owner].role = "active"
    BY <1>5 DEF WriterInv, LeaseCoversWriters
  <2>2. proc'[d].busy = proc[d].busy + 1
    BY <1>2, <2>1 DEF Writing
  <2> QED
    BY <1>1, <1>2, <1>3, <1>6, <2>1, <2>2
<1> QED
  BY <1>7, <1>8 DEF WriterInv

(***************************************************************************)
(* The lease goes: either some collector lived, and nothing is promised    *)
(* any more, or none did, and none was writing.                            *)
(***************************************************************************)
LEMMA UnleaseKeeps ==
  ASSUME HATypeOK, WriterInv, NEW h \in Servers, Unlease(h)
  PROVE  WriterInv'
<1>1. /\ lease' = [owner |-> 0, age |-> 0] /\ UNCHANGED <<proc, launched>>
      /\ leaseCut' = (leaseCut \/ \E c \in Pids : Alive(c))
  BY DEF Unlease
<1>2. launched \in Nat
  BY HAConstants DEF HAConstants, HATypeOK
<1>3. ~leaseCut' => \A c \in Pids : ~Writing(c)
  BY <1>1 DEF WriterInv, WritersAlive
<1>4. WritersAlive' /\ PidsInOrder'
  BY <1>1, <1>2 DEF WriterInv, WritersAlive, Writing, Alive, PidsInOrder
<1>5. LeaseCoversWriters' /\ OneWriterPerRole'
  BY <1>1, <1>3 DEF LeaseCoversWriters, OneWriterPerRole, Writing
<1> QED
  BY <1>4, <1>5 DEF WriterInv

LEMMA WriterStep ==
  HATypeOK /\ HATypeOK' /\ WriterInv /\ [HAStep]_haVars => WriterInv'
<1> SUFFICES ASSUME HATypeOK, HATypeOK', WriterInv, [HAStep]_haVars
             PROVE  WriterInv'
  OBVIOUS
<1>1. CASE UNCHANGED haVars
  BY <1>1
  DEF haVars, WriterInv, WritersAlive, PidsInOrder, LeaseCoversWriters,
      OneWriterPerRole, Writing, Alive, Late
<1>2. ASSUME NEW h \in Servers,
             \/ RequestStatus(h) \/ RequestStop(h)
             \/ \E s \in Streams : RequestStart(h, s)
             \/ ServerStep(h) \/ FailRelaunch(h) \/ FailStart(h)
      PROVE  WriterInv'
  <2>1. CASE Kill(h)
    BY <2>1, DeathCalm, CalmStep
  <2>2. CASE Unlease(h)
    BY <2>2, UnleaseKeeps
  <2> QED
    BY <1>2, <2>1, <2>2, ServerCalm, CalmStep DEF ServerStep
<1>3. ASSUME NEW c \in Pids, CollectorStep(c) \/ Exit(c)
      PROVE  WriterInv'
  BY <1>3, RefreshKeeps, DeathCalm, CalmStep DEF CollectorStep
<1>4. CASE Tick \/ LeaseAges
  BY <1>4, TimeKeeps DEF Tick, LeaseAges
<1>5. CASE RestartServer
  BY <1>5, DeathCalm, CalmStep
<1> QED
  BY <1>1, <1>2, <1>3, <1>4, <1>5 DEF HAStep, HANext

-----------------------------------------------------------------------------
(* The state file names the collectors *)

AllIn(S) == \A c \in Pids : Alive(c) => c \in S

(***************************************************************************)
(* The processes a status call has found running or launched.              *)
(***************************************************************************)
Held(t) ==
  (IF t.active THEN {t.state.pid} ELSE {}) \cup
  (IF t.standby THEN {t.state.standby} ELSE {})

Noted(f) == {f.pid, f.standby}

Empty(f) == ~f.running /\ f.pid = 0 /\ f.standby = 0

(***************************************************************************)
(* CollectorsKnown is about threads at rest.  At work, the only thread has *)
(* in its own copy what the file does not name yet: by the place it has    *)
(* come to, the collectors that live are those of the file, of its copy,   *)
(* those it has found or launched, or none.                                *)
(***************************************************************************)
KnownAt(t) ==
  /\ t.at \in {"idle", "status", "decide", "kill"} => AllIn(Noted(file))
  /\ t.at \in {"clear", "forget", "unlease", "start"} => AllIn({})
  /\ t.at \in {"clear", "relaunch", "relaunchStandby"} =>
       /\ AllIn(Held(t)) /\ t.after # "start"
       /\ ~t.changed => AllIn(Noted(file))
  /\ t.at = "startStandby" => AllIn({t.state.pid})
  /\ t.at \in {"save", "startSave"} => AllIn(Noted(t.state))
  /\ t.at = "save" => t.after # "start"
  /\ t.at \in {"save", "decide"} /\ ~t.state.running => AllIn({})
  /\ t.at = "forget" => Empty(t.state)
  /\ t.at = "unlease" \/ (t.at = "status" /\ t.after = "start") =>
       Empty(file) /\ AllIn({})

LEMMA ThreadFields ==
  ASSUME HATypeOK, NEW h \in Servers
  PROVE  /\ server[h] \in Thread /\ server[h].state \in StateFile /\ file \in StateFile
         /\ server[h].active \in BOOLEAN /\ server[h].standby \in BOOLEAN
         /\ server[h].changed \in BOOLEAN /\ server[h].at \in Places
         /\ server[h].after \in {"reply", "decide", "start"}
BY DEF HATypeOK, Thread

LEMMA MoveGives ==
  ASSUME HATypeOK, NEW h \in Servers, NEW u, Move(h, u)
  PROVE  server'[h] = u
BY DEF HATypeOK, Move

(***************************************************************************)
(* A launch adds the new pid to the living; nothing else comes to life.    *)
(***************************************************************************)
LEMMA LaunchLives ==
  ASSUME HATypeOK, NEW role, Launch(role), NEW c \in Pids, Alive(c)'
  PROVE  Alive(c) \/ c = launched'
BY DEF Launch, Alive, Reaped, HATypeOK, Process

(***************************************************************************)
(* What a status call returns to.                                          *)
(***************************************************************************)
LEMMA ReturnKnown ==
  ASSUME NEW t \in Thread, AllIn(Noted(file)), ~t.state.running => AllIn({}),
         t.after = "start" => AllIn({})
  PROVE  KnownAt(Returned(t))
<1>1. CASE t.after = "reply"
  <2>1. Returned(t).at = "idle"
    BY <1>1 DEF Returned, IdleThread
  <2> QED
    BY <2>1 DEF KnownAt
<1>2. CASE t.after = "decide"
  <2>1. Returned(t).at = "decide" /\ Returned(t).state = t.state
    BY <1>2 DEF Returned, Thread
  <2> QED
    BY <2>1 DEF KnownAt
<1>3. CASE t.after = "start"
  <2>1. Returned(t).at = "start"
    BY <1>3 DEF Returned, Thread
  <2> QED
    BY <1>3, <2>1 DEF KnownAt
<1> QED
  BY <1>1, <1>2, <1>3 DEF Thread

(***************************************************************************)
(* Steps of others: collectors end, time passes.                           *)
(***************************************************************************)
LEMMA OthersKnown ==
  ASSUME NEW h \in Servers, KnownAt(server[h]),
         \A c \in Pids : Alive(c)' => Alive(c),
         file' = file, server'[h] = server[h]
  PROVE  KnownAt(server[h])'
BY DEF KnownAt, AllIn, Held, Noted, Empty

LEMMA RequestKnown ==
  ASSUME HATypeOK, NEW h \in Servers, KnownAt(server[h]),
         \/ RequestStatus(h) \/ RequestStop(h)
         \/ \E s \in Streams : RequestStart(h, s)
  PROVE  KnownAt(server[h])'
<1>1. /\ server[h].at = "idle" /\ proc' = proc /\ file' = file
  BY DEF RequestStatus, RequestStop, RequestStart
<1>2. server'[h].at \in {"status", "kill"} /\ server'[h].after # "start"
  <2>1. \/ server'[h] = [IdleThread EXCEPT !.at = "status"]
        \/ server'[h] = [IdleThread EXCEPT !.at = "kill"]
        \/ \E s \in Streams : server'[h] =
             [IdleThread EXCEPT !.at = "status", !.after = "decide", !.stream = s]
    BY MoveGives DEF RequestStatus, RequestStop, RequestStart
  <2> QED
    BY <2>1 DEF IdleThread
<1>3. AllIn(Noted(file))
  BY <1>1 DEF KnownAt
<1>4. AllIn(Noted(file))'
  BY <1>1, <1>3 DEF AllIn, Alive, Noted
<1> QED
  BY <1>2, <1>4 DEF KnownAt

LEMMA StatusKnown ==
  ASSUME HATypeOK, HATypeOK', NEW h \in Servers, KnownAt(server[h]), StatusRead(h)
  PROVE  KnownAt(server[h])'
<1> DEFINE a == IsRunning(file.pid)
           b == IsRunning(file.standby)
           t == [server[h] EXCEPT !.state = file, !.active = a, !.standby = b,
                                  !.changed = FALSE]
<1>1. /\ proc' = proc /\ file' = file /\ server[h].at = "status"
      /\ a \in BOOLEAN /\ b \in BOOLEAN
  BY DEF StatusRead, IsRunning
<1>2. /\ AllIn(Noted(file))
      /\ server[h].after = "start" => Empty(file) /\ AllIn({})
  BY <1>1 DEF KnownAt
<1>3. \A c \in Pids : Alive(c) => (c = file.pid /\ a) \/ (c = file.standby /\ b)
  <2>1. ASSUME NEW c \in Pids, Alive(c)
        PROVE  IsRunning(c)
    BY <2>1, HAConstants DEF HAConstants, IsRunning, Alive, Pids
  <2> QED
    BY <1>2, <2>1 DEF AllIn, Noted
<1>4. Empty(file) => ~file.running /\ ~a /\ ~b
  BY DEF Empty, IsRunning
<1>5. /\ t \in Thread /\ t.state = file /\ t.active = a /\ t.standby = b /\ ~t.changed
      /\ t.after = server[h].after
  <2> HIDE DEF a, b
  <2> QED
    BY <1>1, ThreadFields DEF Thread
<1>6. \/ /\ ExpectedRunning(file) /\ ~a /\ ~b
         /\ Move(h, [t EXCEPT !.at = "clear", !.state.running = FALSE,
                              !.state.pid = 0, !.state.standby = 0])
      \/ /\ ExpectedRunning(file) /\ (a \/ b)
         /\ Move(h, [t EXCEPT !.at = "relaunch"])
      \/ /\ ~ExpectedRunning(file) /\ file.running # (a \/ b)
         /\ Move(h, [t EXCEPT !.at = "save", !.state.running = a \/ b,
              !.state.pid = IF a THEN @ ELSE 0,
              !.state.standby = IF b THEN @ ELSE 0])
      \/ /\ ~ExpectedRunning(file) /\ file.running = (a \/ b)
         /\ Move(h, Returned(t))
  BY DEF StatusRead
<1>7. file \in StateFile /\ file.running \in BOOLEAN
  BY ThreadFields DEF StateFile
<1> HIDE DEF a, b, t
<1> DEFINE u == server'[h]
<1>8. CASE /\ ExpectedRunning(file) /\ ~a /\ ~b
           /\ Move(h, [t EXCEPT !.at = "clear", !.state.running = FALSE,
                                !.state.pid = 0, !.state.standby = 0])
  <2>1. u = [t EXCEPT !.at = "clear", !.state.running = FALSE,
                      !.state.pid = 0, !.state.standby = 0]
    BY <1>8, MoveGives
  <2>2. /\ u.at = "clear" /\ u.active = a /\ u.standby = b /\ ~u.changed
        /\ u.after = t.after
    BY <1>5, <2>1 DEF Thread
  <2>3. t.after # "start"
    BY <1>2, <1>4, <1>5, <1>8 DEF ExpectedRunning
  <2>4. \A c \in Pids : ~Alive(c)'
    BY <1>1, <1>3, <1>8 DEF Alive
  <2> QED
    BY <2>2, <2>3, <2>4 DEF KnownAt, AllIn
<1>9. CASE /\ ExpectedRunning(file) /\ (a \/ b)
           /\ Move(h, [t EXCEPT !.at = "relaunch"])
  <2>1. u = [t EXCEPT !.at = "relaunch"]
    BY <1>9, MoveGives
  <2>2. /\ u.at = "relaunch" /\ u.active = a /\ u.standby = b /\ ~u.changed
        /\ u.after = t.after /\ u.state = file
    BY <1>5, <2>1 DEF Thread
  <2>3. t.after # "start"
    BY <1>2, <1>4, <1>5, <1>9 DEF ExpectedRunning
  <2>4. AllIn(Held(server[h]))'
    BY <1>1, <1>3, <2>2 DEF AllIn, Alive, Held
  <2>5. AllIn(Noted(file))'
    BY <1>1, <1>2 DEF AllIn, Alive, Noted
  <2> QED
    BY <2>2, <2>3, <2>4, <2>5 DEF KnownAt
<1>10. CASE /\ ~ExpectedRunning(file) /\ file.running # (a \/ b)
            /\ Move(h, [t EXCEPT !.at = "save", !.state.running = a \/ b,
                 !.state.pid = IF a THEN @ ELSE 0,
                 !.state.standby = IF b THEN @ ELSE 0])
  <2>1. u = [t EXCEPT !.at = "save", !.state.running = a \/ b,
               !.state.pid = IF a THEN @ ELSE 0,
               !.state.standby = IF b THEN @ ELSE 0]
    BY <1>10, MoveGives
  <2>2. /\ u.at = "save" /\ u.after = t.after
        /\ u.state = [t.state EXCEPT !.running = a \/ b, !.pid = IF a THEN @ ELSE 0,
                                     !.standby = IF b THEN @ ELSE 0]
    BY <1>5, <2>1 DEF Thread
  <2>3. /\ u.state.running = (a \/ b)
        /\ a => u.state.pid = file.pid
        /\ b => u.state.standby = file.standby
    BY <1>5, <1>7, <2>2 DEF StateFile
  <2>4. t.after # "start"
    BY <1>2, <1>4, <1>5, <1>7, <1>10
  <2>5. AllIn(Noted(server[h].state))'
    BY <1>1, <1>3, <2>3 DEF AllIn, Alive, Noted
  <2>6. ~u.state.running => AllIn({})'
    BY <1>1, <1>3, <2>3 DEF AllIn, Alive
  <2> QED
    BY <2>2, <2>4, <2>5, <2>6 DEF KnownAt
<1>11. CASE /\ ~ExpectedRunning(file) /\ file.running = (a \/ b)
            /\ Move(h, Returned(t))
  <2>1. u = Returned(t)
    BY <1>11, MoveGives
  <2>2. ~file.running => AllIn({})
    BY <1>3, <1>11 DEF AllIn
  <2>3. KnownAt(Returned(t))
    BY <1>2, <1>5, <2>2, ReturnKnown
  <2>4. proc' = proc /\ file' = file
    BY <1>1
  <2> HIDE DEF u
  <2>5. KnownAt(u)
    BY <2>1, <2>3
  <2> QED
    BY <2>4, <2>5 DEF u, KnownAt, AllIn, Alive, Held, Noted, Empty
<1> QED
  BY <1>6, <1>8, <1>9, <1>10, <1>11

(***************************************************************************)
(* After the last of its launches a status call saves what it has changed, *)
(* or returns.                                                             *)
(***************************************************************************)
LEMMA DoneKnown ==
  ASSUME NEW t \in Thread, AllIn(Held(t)), t.after # "start",
         ~t.changed => AllIn(Noted(file))
  PROVE  KnownAt(Done(t))
<1> DEFINE s == [t EXCEPT !.state.running = t.active \/ t.standby]
<1>1. /\ s \in Thread /\ s.state = [t.state EXCEPT !.running = t.active \/ t.standby]
      /\ s.changed = t.changed /\ s.after = t.after
  <2>1. [t.state EXCEPT !.running = t.active \/ t.standby] \in StateFile
    BY DEF Thread, StateFile
  <2> QED
    BY <2>1 DEF Thread
<1>2. /\ s.state.running = (t.active \/ t.standby)
      /\ s.state.pid = t.state.pid /\ s.state.standby = t.state.standby
  BY <1>1 DEF Thread, StateFile
<1>3. AllIn(Noted(s.state)) /\ (~s.state.running => AllIn({}))
  BY <1>2 DEF AllIn, Noted, Held
<1>4. Done(t) = IF s.changed THEN [s EXCEPT !.at = "save"] ELSE Returned(s)
  BY DEF Done
<1> HIDE DEF s
<1>5. CASE s.changed
  <2>1. Done(t).at = "save" /\ Done(t).state = s.state /\ Done(t).after = s.after
    BY <1>1, <1>4, <1>5 DEF Thread
  <2> QED
    BY <1>1, <1>3, <2>1 DEF KnownAt
<1>6. CASE ~s.changed
  BY <1>1, <1>3, <1>4, <1>6, ReturnKnown
<1> QED
  BY <1>5, <1>6

(***************************************************************************)
(* What is known of a thread's next record stays known, when no more       *)
(* processes live than before.                                             *)
(***************************************************************************)
LEMMA KnownOnward ==
  ASSUME NEW h \in Servers, NEW u, server'[h] = u, KnownAt(u),
         proc' = proc, file' = file
  PROVE  KnownAt(server[h])'
BY DEF KnownAt, AllIn, Alive, Held, Noted, Empty

LEMMA ClearKnown ==
  ASSUME HATypeOK, NEW h \in Servers, KnownAt(server[h]), Clear(h)
  PROVE  KnownAt(server[h])'
<1>1. /\ server[h].at = "clear" /\ proc' = proc /\ file' = server[h].state
      /\ server'[h] = [server[h] EXCEPT !.at = "relaunch"]
  BY MoveGives DEF Clear
<1>2. /\ server'[h].at = "relaunch" /\ server'[h].after = server[h].after
  BY <1>1, ThreadFields DEF Thread
<1>3. AllIn({}) /\ server[h].after # "start"
  BY <1>1 DEF KnownAt
<1>4. \A c \in Pids : ~Alive(c)'
  BY <1>1, <1>3 DEF AllIn, Alive
<1> QED
  BY <1>2, <1>3, <1>4 DEF KnownAt, AllIn

LEMMA RelaunchKnown ==
  ASSUME HATypeOK, NEW h \in Servers, KnownAt(server[h]), Relaunch(h)
  PROVE  KnownAt(server[h])'
<1> DEFINE t == server[h]
<1>1. /\ t \in Thread /\ t.state \in StateFile /\ t.at = "relaunch" /\ file' = file
      /\ t.active \in BOOLEAN
  BY ThreadFields DEF Relaunch
<1>2. /\ AllIn(Held(t)) /\ t.after # "start"
      /\ ~t.changed => AllIn(Noted(file))
  BY <1>1 DEF KnownAt
<1>3. CASE t.active
  <2>1. server'[h] = [t EXCEPT !.at = "relaunchStandby"] /\ proc' = proc
    BY <1>3, MoveGives DEF Relaunch
  <2> DEFINE u == [t EXCEPT !.at = "relaunchStandby"]
  <2>2. /\ u.at = "relaunchStandby" /\ u.after = t.after /\ u.changed = t.changed
        /\ u.active = t.active /\ u.standby = t.standby /\ u.state = t.state
    BY <1>1 DEF Thread
  <2> HIDE DEF u
  <2>3. KnownAt(u)
    BY <1>2, <2>2 DEF KnownAt, Held
  <2> QED
    BY <1>1, <2>1, <2>3, KnownOnward DEF u
<1>4. CASE ~t.active
  <2>1. /\ Launch("active")
        /\ server'[h] = [t EXCEPT !.at = "relaunchStandby", !.active = TRUE,
             !.changed = TRUE, !.state.pid = launched', !.state.running = TRUE]
    BY <1>4, MoveGives DEF Relaunch
  <2>2. /\ server'[h].at = "relaunchStandby" /\ server'[h].after = t.after
        /\ server'[h].changed /\ server'[h].active
        /\ server'[h].standby = t.standby
        /\ server'[h].state = [t.state EXCEPT !.pid = launched', !.running = TRUE]
    BY <1>1, <2>1 DEF Thread
  <2>3. /\ server'[h].state.pid = launched'
        /\ server'[h].state.standby = t.state.standby
    BY <1>1, <2>2 DEF StateFile
  <2>4. AllIn(Held(server[h]))'
    BY <1>2, <1>4, <2>1, <2>2, <2>3, LaunchLives DEF AllIn, Held
  <2> QED
    BY <1>2, <2>2, <2>4 DEF KnownAt
<1> QED
  BY <1>1, <1>3, <1>4

LEMMA RelaunchStandbyKnown ==
  ASSUME HATypeOK, NEW h \in Servers, KnownAt(server[h]), RelaunchStandby(h)
  PROVE  KnownAt(server[h])'
<1> DEFINE t == server[h]
<1>1. /\ t \in Thread /\ t.state \in StateFile /\ t.at = "relaunchStandby" /\ file' = file
      /\ t.standby \in BOOLEAN
  BY ThreadFields DEF RelaunchStandby
<1>2. /\ AllIn(Held(t)) /\ t.after # "start"
      /\ ~t.changed => AllIn(Noted(file))
  BY <1>1 DEF KnownAt
<1>3. CASE t.standby
  <2>1. server'[h] = Done(t) /\ proc' = proc
    BY <1>3, MoveGives DEF RelaunchStandby
  <2>2. KnownAt(Done(t))
    BY <1>1, <1>2, DoneKnown
  <2> QED
    BY <1>1, <2>1, <2>2, KnownOnward
<1>4. CASE ~t.standby
  <2> DEFINE n == launched'
             s == [t EXCEPT !.standby = TRUE, !.changed = TRUE, !.state.standby = n]
  <2>1. /\ Launch("standby") /\ server'[h] = Done(s) /\ n \in 0..MaxPid
    BY <1>4, MoveGives, LaunchType DEF RelaunchStandby, Roles
  <2> HIDE DEF n
  <2>2. /\ s.after = t.after /\ s.changed /\ s.standby /\ s.active = t.active
        /\ s.state = [t.state EXCEPT !.standby = n]
    BY <1>1 DEF Thread
  <2>3. s.state.standby = n /\ s.state.pid = t.state.pid /\ s.state \in StateFile
    BY <1>1, <2>1, <2>2 DEF StateFile
  <2>4. s \in Thread
    BY <1>1, <2>2, <2>3 DEF Thread
  <2> HIDE DEF s
  <2> DEFINE r == [s EXCEPT !.state.running = s.active \/ s.standby]
  <2>5. /\ r.changed /\ r.after = s.after
        /\ r.state = [s.state EXCEPT !.running = s.active \/ s.standby]
    BY <2>2, <2>4 DEF Thread
  <2>6. /\ r.state.pid = t.state.pid /\ r.state.standby = n
        /\ r.state.running = (s.active \/ s.standby)
    BY <2>3, <2>5 DEF StateFile
  <2>7. server'[h] = [r EXCEPT !.at = "save"]
    BY <2>1, <2>2, <2>5 DEF Done
  <2>8. /\ server'[h].at = "save" /\ server'[h].after = t.after
        /\ server'[h].state = r.state
    BY <2>2, <2>4, <2>5, <2>7 DEF Thread
  <2>9. \A c \in Pids : Alive(c)' =>
          (t.active /\ c = t.state.pid) \/ c = n
    BY <1>2, <1>4, <2>1, LaunchLives DEF AllIn, Held, n
  <2>10. AllIn(Noted(server[h].state))' /\ server'[h].state.running
    BY <2>2, <2>6, <2>8, <2>9 DEF AllIn, Noted
  <2> QED
    BY <1>2, <2>8, <2>10 DEF KnownAt
<1> QED
  BY <1>1, <1>3, <1>4

LEMMA FailRelaunchKnown ==
  ASSUME HATypeOK, NEW h \in Servers, KnownAt(server[h]), FailRelaunch(h)
  PROVE  KnownAt(server[h])'
<1> DEFINE t == server[h]
<1>1. /\ t \in Thread /\ t.state \in StateFile /\ file' = file /\ proc' = proc
      /\ t.at \in {"relaunch", "relaunchStandby"}
  BY ThreadFields DEF FailRelaunch
<1>2. /\ AllIn(Held(t)) /\ t.after # "start"
      /\ ~t.changed => AllIn(Noted(file))
  BY <1>1 DEF KnownAt
<1>3. 0 \in 0..MaxPid
  BY HAConstants DEF HAConstants
<1>4. CASE /\ ~t.active
           /\ server'[h] = [t EXCEPT !.at = "relaunchStandby", !.state.pid = 0]
  <2> DEFINE u == [t EXCEPT !.at = "relaunchStandby", !.state.pid = 0]
  <2>1. /\ u.at = "relaunchStandby" /\ u.after = t.after /\ u.changed = t.changed
        /\ u.active = t.active /\ u.standby = t.standby
        /\ u.state = [t.state EXCEPT !.pid = 0]
    BY <1>1 DEF Thread
  <2>2. u.state.standby = t.state.standby
    BY <1>1, <2>1 DEF StateFile
  <2> HIDE DEF u
  <2>3. KnownAt(u)
    BY <1>2, <1>4, <2>1, <2>2 DEF KnownAt, Held, AllIn
  <2> QED
    BY <1>1, <1>4, <2>3, KnownOnward DEF u
<1>5. CASE ~t.standby /\ server'[h] = Done([t EXCEPT !.state.standby = 0])
  <2> DEFINE s == [t EXCEPT !.state.standby = 0]
  <2>1. [t.state EXCEPT !.standby = 0] \in StateFile
    BY <1>1, <1>3 DEF StateFile
  <2>2. /\ s \in Thread /\ s.after = t.after /\ s.changed = t.changed
        /\ s.active = t.active /\ s.standby = t.standby
        /\ s.state = [t.state EXCEPT !.standby = 0]
    BY <1>1, <2>1 DEF Thread
  <2>3. s.state.pid = t.state.pid
    BY <1>1, <2>2 DEF StateFile
  <2>4. server'[h] = Done(s)
    BY <1>5
  <2> HIDE DEF s
  <2>5. AllIn(Held(s))
    BY <1>2, <1>5, <2>2, <2>3 DEF AllIn, Held
  <2>6. KnownAt(Done(s))
    BY <1>2, <2>2, <2>5, DoneKnown
  <2> QED
    BY <1>1, <2>4, <2>6, KnownOnward
<1> QED
  BY <1>4, <1>5, MoveGives DEF FailRelaunch

LEMMA SaveKnown ==
  ASSUME HATypeOK, NEW h \in Servers, KnownAt(server[h]),
         Save(h) \/ StartSave(h) \/ Forget(h)
  PROVE  KnownAt(server[h])'
<1> DEFINE t == server[h]
<1>1. /\ t \in Thread /\ proc' = proc /\ file' = t.state
  BY ThreadFields DEF Save, StartSave, Forget
<1>2. CASE Save(h)
  <2>1. t.at = "save" /\ server'[h] = Returned(t)
    BY <1>2, MoveGives DEF Save
  <2>2. /\ AllIn(Noted(t.state)) /\ t.after # "start"
        /\ ~t.state.running => AllIn({})
    BY <2>1 DEF KnownAt
  <2>3. CASE t.after = "reply"
    <3>1. server'[h].at = "idle"
      BY <2>1, <2>3 DEF Returned, IdleThread
    <3>2. AllIn(Noted(file))'
      BY <1>1, <2>2 DEF AllIn, Alive, Noted
    <3> QED
      BY <3>1, <3>2 DEF KnownAt
  <2>4. CASE t.after = "decide"
    <3>1. server'[h].at = "decide" /\ server'[h].state = t.state
      BY <1>1, <2>1, <2>4 DEF Returned, Thread
    <3>2. AllIn(Noted(file))'
      BY <1>1, <2>2 DEF AllIn, Alive, Noted
    <3>3. ~server'[h].state.running => AllIn({})'
      BY <1>1, <2>2, <3>1 DEF AllIn, Alive
    <3> QED
      BY <3>1, <3>2, <3>3 DEF KnownAt
  <2> QED
    BY <1>1, <2>2, <2>3, <2>4 DEF Thread
<1>3. CASE StartSave(h)
  <2>1. /\ t.at = "startSave"
        /\ server'[h] = [t EXCEPT !.at = "status", !.after = "reply"]
    BY <1>3, MoveGives DEF StartSave
  <2>2. server'[h].at = "status" /\ server'[h].after = "reply"
    BY <1>1, <2>1 DEF Thread
  <2>3. AllIn(Noted(t.state))
    BY <2>1 DEF KnownAt
  <2>4. AllIn(Noted(file))'
    BY <1>1, <2>3 DEF AllIn, Alive, Noted
  <2> QED
    BY <2>2, <2>4 DEF KnownAt
<1>4. CASE Forget(h)
  <2>1. t.at = "forget" /\ server'[h] = [t EXCEPT !.at = "unlease"]
    BY <1>4, MoveGives DEF Forget
  <2>2. server'[h].at = "unlease"
    BY <1>1, <2>1 DEF Thread
  <2>3. AllIn({}) /\ Empty(t.state)
    BY <2>1 DEF KnownAt
  <2>4. AllIn({})' /\ Empty(file)'
    BY <1>1, <2>3 DEF AllIn, Alive, Empty
  <2> QED
    BY <2>2, <2>4 DEF KnownAt
<1> QED
  BY <1>2, <1>3, <1>4

LEMMA DecideKnown ==
  ASSUME HATypeOK, NEW h \in Servers, KnownAt(server[h]), Decide(h)
  PROVE  KnownAt(server[h])'
<1> DEFINE t == server[h]
<1>1. /\ t \in Thread /\ t.at = "decide" /\ proc' = proc /\ file' = file
  BY ThreadFields DEF Decide
<1>2. AllIn(Noted(file)) /\ (~t.state.running => AllIn({}))
  BY <1>1 DEF KnownAt
<1>3. \/ server'[h] = IdleThread
      \/ server'[h] = [t EXCEPT !.at = "kill", !.after = "start"]
      \/ ~t.state.running /\ server'[h] = [t EXCEPT !.at = "start"]
  BY MoveGives DEF Decide
<1>4. \/ server'[h].at \in {"idle", "kill"}
      \/ ~t.state.running /\ server'[h].at = "start"
  <2>1. IdleThread.at = "idle"
    BY DEF IdleThread
  <2>2. /\ [t EXCEPT !.at = "kill", !.after = "start"].at = "kill"
        /\ [t EXCEPT !.at = "start"].at = "start"
    BY <1>1 DEF Thread
  <2> HIDE DEF t
  <2> QED
    BY <1>3, <2>1, <2>2
<1>5. AllIn(Noted(file))'
  BY <1>1, <1>2 DEF AllIn, Alive, Noted
<1>6. ~t.state.running => AllIn({})'
  BY <1>1, <1>2 DEF AllIn, Alive
<1> QED
  BY <1>4, <1>5, <1>6 DEF KnownAt

LEMMA StartKnown ==
  ASSUME HATypeOK, NEW h \in Servers, KnownAt(server[h]), Start(h) \/ StartStandby(h)
  PROVE  KnownAt(server[h])'
<1> DEFINE t == server[h]
           n == launched'
<1>1. t \in Thread /\ t.state \in StateFile
  BY ThreadFields
<1>2. CASE Start(h)
  <2> DEFINE s == [NoState EXCEPT !.pid = n, !.url = t.stream, !.running = TRUE]
  <2>1. /\ t.at = "start" /\ Launch("active")
        /\ server'[h] = [t EXCEPT !.at = "startStandby", !.state = s]
    BY <1>2, MoveGives DEF Start
  <2> HIDE DEF n
  <2>2. s.pid = n
    BY DEF NoState
  <2> HIDE DEF s
  <2>3. server'[h].at = "startStandby" /\ server'[h].state = s
    BY <1>1, <2>1 DEF Thread
  <2>4. AllIn({})
    BY <2>1 DEF KnownAt
  <2>5. \A c \in Pids : Alive(c)' => c = n
    BY <2>1, <2>4, LaunchLives DEF AllIn, n
  <2> QED
    BY <2>2, <2>3, <2>5 DEF KnownAt, AllIn
<1>3. CASE StartStandby(h)
  <2>1. /\ t.at = "startStandby" /\ Launch("standby")
        /\ server'[h] = [t EXCEPT !.at = "startSave", !.state.standby = n]
    BY <1>3, MoveGives DEF StartStandby
  <2> HIDE DEF n
  <2>2. /\ server'[h].at = "startSave"
        /\ server'[h].state = [t.state EXCEPT !.standby = n]
    BY <1>1, <2>1 DEF Thread
  <2>3. server'[h].state.standby = n /\ server'[h].state.pid = t.state.pid
    BY <1>1, <2>2 DEF StateFile
  <2>4. AllIn({t.state.pid})
    BY <2>1 DEF KnownAt
  <2>5. \A c \in Pids : Alive(c)' => c = n \/ c = t.state.pid
    BY <2>1, <2>4, LaunchLives DEF AllIn, n
  <2> QED
    BY <2>2, <2>3, <2>5 DEF KnownAt, AllIn, Noted
<1> QED
  BY <1>2, <1>3

LEMMA StopKnown ==
  ASSUME HATypeOK, NEW h \in Servers, KnownAt(server[h]), Kill(h) \/ Unlease(h)
  PROVE  KnownAt(server[h])'
<1> DEFINE t == server[h]
<1>1. t \in Thread /\ file \in StateFile
  BY ThreadFields
<1>2. CASE Kill(h)
  <2> DEFINE f == [file EXCEPT !.running = FALSE, !.pid = 0, !.standby = 0,
                               !.stopped = TRUE]
  <2>1. /\ t.at = "kill" /\ server'[h] = [t EXCEPT !.at = "forget", !.state = f]
    BY <1>2, MoveGives DEF Kill
  <2>2. Empty(f)
    BY <1>1 DEF StateFile, Empty
  <2> HIDE DEF f
  <2>3. server'[h].at = "forget" /\ server'[h].state = f
    BY <1>1, <2>1 DEF Thread
  <2>4. AllIn(Noted(file))
    BY <2>1 DEF KnownAt
  <2>5. ASSUME NEW c \in Pids
        PROVE  ~Alive(c)'
    <3>1. proc[c] \in Process
      BY DEF HATypeOK
    <3>2. CASE Alive(c)
      <4>1. proc'[c] = Dead(proc[c])
        BY <1>2, <2>4, <3>2 DEF Kill, AllIn, Noted
      <4> QED
        BY <3>1, <4>1 DEF Dead, Process, Alive
    <3>3. CASE ~Alive(c)
      BY <1>2, <3>3 DEF Kill, Alive
    <3> QED
      BY <3>2, <3>3
  <2> QED
    BY <2>2, <2>3, <2>5 DEF KnownAt, AllIn, Empty
<1>3. CASE Unlease(h)
  <2>1. /\ t.at = "unlease" /\ server'[h] = [t EXCEPT !.at = "status"]
        /\ proc' = proc /\ file' = file
    BY <1>3, MoveGives DEF Unlease
  <2>2. server'[h].at = "status"
    BY <1>1, <2>1 DEF Thread
  <2>3. AllIn({}) /\ Empty(file)
    BY <2>1 DEF KnownAt
  <2>4. AllIn({})' /\ Empty(file)' /\ AllIn(Noted(file))'
    BY <2>1, <2>3 DEF AllIn, Alive, Empty
  <2> QED
    BY <2>2, <2>4 DEF KnownAt
<1> QED
  BY <1>2, <1>3

LEMMA ServerKnown ==
  ASSUME HATypeOK, HATypeOK', NEW h \in Servers, KnownAt(server[h]),
         \/ RequestStatus(h) \/ RequestStop(h)
         \/ \E s \in Streams : RequestStart(h, s)
         \/ ServerStep(h) \/ FailRelaunch(h)
  PROVE  KnownAt(server[h])'
BY RequestKnown, StatusKnown, ClearKnown, RelaunchKnown, RelaunchStandbyKnown,
   FailRelaunchKnown, SaveKnown, DecideKnown, StartKnown, StopKnown DEF ServerStep

(***************************************************************************)
(* No collector comes to life but by a launch.                             *)
(***************************************************************************)
LEMMA NoneLaunched ==
  ASSUME HATypeOK, (\E c \in Pids : CollectorStep(c) \/ Exit(c)) \/ LeaseAges
  PROVE  /\ \A d \in Pids : Alive(d)' => Alive(d)
         /\ file' = file /\ server' = server
<1>1. file' = file /\ server' = server
  BY DEF CollectorStep, Refresh, FinishIteration, Exit, LeaseAges, LeaseAges
<1>2. ASSUME NEW d \in Pids, ~Alive(d)
      PROVE  ~Alive(d)'
  <2>1. proc[d] \in Process
    BY DEF HATypeOK
  <2> QED
    BY <1>2, <2>1 DEF CollectorStep, Refresh, FinishIteration, Exit, LeaseAges,
       Alive, HATypeOK, Process
<1> QED
  BY <1>1, <1>2

-----------------------------------------------------------------------------
(***************************************************************************)
(* The state of the collectors, of the lease and of the request threads    *)
(* stays of its type (collector_manager.py, _refresh_write_lease).         *)
(***************************************************************************)
THEOREM CollectorsTyped == HASpec => []HATypeOK
<1>1. HATypeOK /\ [HANext]_haVars => HATypeOK'
  BY HATypeStep DEF HAStep
<1> QED
  BY HATypeInit, <1>1, PTL DEF HASpec

(***************************************************************************)
(* Whatever processes the request threads, failed launches and restarts of *)
(* the server leave behind, and however long iterations take, of two       *)
(* collectors of one role that are in an iteration at once one has         *)
(* outlived the lease it began under, as long as no stop removed the lease *)
(* of a running collector (_refresh_write_lease, stop_live_collector).     *)
(***************************************************************************)
THEOREM OneCollectorWrites == HASpec => []OneWriterPerRole
<1>1. HATypeOK /\ HATypeOK' /\ WriterInv /\ [HANext]_haVars => WriterInv'
  BY WriterStep DEF HAStep
<1>2. WriterInv => OneWriterPerRole
  BY DEF WriterInv
<1> QED
  BY WriterInit, CollectorsTyped, <1>1, <1>2, PTL DEF HASpec
-----------------------------------------------------------------------------
(* The locks of the tasks *)

(***************************************************************************)
(* Time passes for the locks.                                              *)
(***************************************************************************)
LockTime == LocksAge /\ UNCHANGED <<draft, mapped, body, requestVars, extra>>

QuietStep ==
  (\E w \in Workers : AroundBody(w) \/ BodyStep(w)) \/ ShopRequest \/ LockTime

FaultStep ==
  \/ \E w \in Workers : Raise(w) \/ DieInTask(w) \/ RedisFails(w) \/ MappingLost(w)
  \/ \E d \in unsaved : OneLost(d)

-----------------------------------------------------------------------------
(* Types *)

LEMMA ShopIdleValues ==
  /\ NoTask \in Worker /\ Free \in Lock /\ NoBody \in Body
  /\ NoTask.at = "idle" /\ NoTask.locked = FALSE /\ NoTask.raised = FALSE
  /\ NoBody.at = "read"
<1>1. (CHOOSE t \in Tasks : TRUE) \in Tasks
  BY TaskConstants DEF TaskConstants
<1>2. (CHOOSE i \in Items : TRUE) \in Items
  BY ShopConstants DEF ShopConstants
<1>3. 0 \in 0..LockTtl /\ 0 \in 0..MaxDrafts
  BY TaskConstants, ShopConstants DEF TaskConstants, ShopConstants
<1>4. ASSUME NEW no \in BOOLEAN, NEW t \in Tasks
      PROVE  [task |-> t, at |-> "idle", locked |-> no, raised |-> no] \in Worker
  BY DEF Worker
<1>5. NoTask \in Worker
  BY <1>1, <1>4 DEF NoTask
<1>6. Free \in Lock
  BY <1>3 DEF Free, Lock
<1>7. NoBody \in Body
  BY <1>2, <1>3 DEF NoBody, Body
<1> QED
  BY <1>5, <1>6, <1>7 DEF NoTask, NoBody

(***************************************************************************)
(* A worker keeps its type when a step replaces its record.                *)
(***************************************************************************)
LEMMA WorkerType ==
  ASSUME TaskTypeOK, NEW w \in Workers, NEW x \in Worker,
         worker' = [worker EXCEPT ![w] = x]
  PROVE  worker' \in [Workers -> Worker]
BY DEF TaskTypeOK

LEMMA BodyEndType ==
  ASSUME TaskTypeOK, NEW w \in Workers, BodyReturns(w) \/ BodyRaises(w)
  PROVE  worker' \in [Workers -> Worker]
<1>1. /\ [worker[w] EXCEPT !.at = "release"] \in Worker
      /\ [worker[w] EXCEPT !.at = "release", !.raised = TRUE] \in Worker
  BY DEF TaskTypeOK, Worker
<1> QED
  BY <1>1, WorkerType, ShopIdleValues DEF BodyReturns, BodyRaises, TaskTypeOK

LEMMA AroundType ==
  ASSUME TaskTypeOK, NEW w \in Workers,
         \/ LockStep(w) \/ \E t \in Tasks : Deliver(w, t)
         \/ AcquireRaises(w) \/ ReleaseRaises(w) \/ WorkerDies(w)
  PROVE  TaskTypeOK'
<1>1. /\ worker[w] \in Worker /\ worker[w].task \in Tasks
      /\ UNCHANGED overruns
  BY DEF TaskTypeOK, Worker, LockStep, Acquire, Release, Deliver, AcquireRaises,
         ReleaseRaises, WorkerDies
<1>2. Unlocked(worker[w]) \in Worker
  <2>1. ASSUME NEW no \in BOOLEAN
        PROVE  [worker[w] EXCEPT !.at = "body", !.locked = no, !.raised = no] \in Worker
    BY <1>1 DEF Worker
  <2> QED
    BY <2>1 DEF Unlocked
<1>3. CASE Acquire(w)
  <2>1. [owner |-> w, age |-> 0] \in Lock
    BY TaskConstants DEF TaskConstants, Lock
  <2>2. [worker[w] EXCEPT !.at = "body", !.locked = TRUE] \in Worker
    BY <1>1 DEF Worker
  <2> QED
    BY <1>1, <1>3, <2>1, <2>2, ShopIdleValues DEF Acquire, TaskTypeOK
<1>4. CASE Release(w)
  BY <1>1, <1>2, <1>4, ShopIdleValues DEF Release, TaskTypeOK
<1>5. ASSUME NEW t \in Tasks, Deliver(w, t)
      PROVE  TaskTypeOK'
  <2>1. [NoTask EXCEPT !.task = t, !.at = "acquire"] \in Worker
    BY ShopIdleValues DEF Worker
  <2> QED
    BY <1>1, <1>5, <2>1 DEF Deliver, TaskTypeOK
<1>6. CASE AcquireRaises(w)
  <2>1. [worker[w] EXCEPT !.at = "body"] \in Worker
    BY <1>1 DEF Worker
  <2> QED
    BY <1>1, <1>6, <2>1 DEF AcquireRaises, TaskTypeOK
<1>7. CASE ReleaseRaises(w) \/ WorkerDies(w)
  BY <1>1, <1>2, <1>7, ShopIdleValues DEF ReleaseRaises, WorkerDies, TaskTypeOK
<1> QED
  BY <1>3, <1>4, <1>5, <1>6, <1>7 DEF LockStep

LEMMA LocksAgeType ==
  ASSUME TaskTypeOK, LocksAge
  PROVE  TaskTypeOK'
<1>1. ASSUME NEW k \in Lock
      PROVE  Aged(k) \in Lock
  <2>1. CASE k.owner # NoWorker /\ k.age < LockTtl
    <3>1. k.age + 1 \in 0..LockTtl
      BY <2>1, TaskConstants DEF TaskConstants, Lock
    <3> QED
      BY <2>1, <3>1 DEF Aged, Lock
  <2> QED
    BY <2>1, ShopIdleValues DEF Aged
<1>2. Cardinality(Workers) \in Nat
  BY TaskConstants, FS_CardinalityType DEF TaskConstants
<1>3. overruns' \in [Tasks -> 0..Cardinality(Workers)]
  <2> DEFINE n == Cardinality(Workers)
  <2>1. ASSUME NEW k \in 0..n, k < n
        PROVE  k + 1 \in 0..n
    BY <1>2, <2>1
  <2>2. overruns \in [Tasks -> 0..n]
    BY DEF TaskTypeOK
  <2>3. overruns' = [t \in Tasks |->
          IF Overrun(t) /\ overruns[t] < n THEN overruns[t] + 1 ELSE overruns[t]]
    BY DEF LocksAge
  <2> HIDE DEF n
  <2>4. overruns' \in [Tasks -> 0..n]
    BY <2>1, <2>2, <2>3
  <2> QED
    BY <2>4 DEF n
<1> QED
  BY <1>1, <1>3 DEF LocksAge, TaskTypeOK

(***************************************************************************)
(* One draft, and one extra, more.                                         *)
(***************************************************************************)
LEMMA NewDraftType ==
  ASSUME ShopTypeOK, NEW i \in Items, NewDraft(i)
  PROVE  /\ draft' \in Seq(Draft) /\ Len(draft') = Len(draft) + 1
         /\ Len(draft') <= MaxDrafts
         /\ DOMAIN draft = 1..Len(draft) /\ DOMAIN draft' = 1..Len(draft) + 1
         /\ DOMAIN draft \subseteq DOMAIN draft'
         /\ Len(draft) + 1 \in DOMAIN draft' /\ Len(draft) + 1 \notin DOMAIN draft
         /\ draft'[Len(draft) + 1] = [item |-> i, live |-> TRUE]
         /\ \A d \in DOMAIN draft : draft'[d] = draft[d]
<1>1. [item |-> i, live |-> TRUE] \in Draft
  BY DEF Draft
<1>2. /\ draft \in Seq(Draft) /\ Len(draft) \in Nat /\ MaxDrafts \in Nat
      /\ Len(draft) < MaxDrafts
      /\ draft' = Append(draft, [item |-> i, live |-> TRUE])
  BY ShopConstants DEF ShopConstants, ShopTypeOK, NewDraft
<1> DEFINE r == [item |-> i, live |-> TRUE]
<1>3. r \in Draft /\ draft' = Append(draft, r)
  BY <1>1, <1>2
<1> HIDE DEF r
<1>4. /\ draft' \in Seq(Draft) /\ Len(draft') = Len(draft) + 1
      /\ DOMAIN draft = 1..Len(draft) /\ DOMAIN draft' = 1..Len(draft) + 1
      /\ draft'[Len(draft) + 1] = r
      /\ \A d \in DOMAIN draft : draft'[d] = draft[d]
  BY <1>2, <1>3
<1> QED
  BY <1>2, <1>4 DEF r

LEMMA OneMoreType ==
  ASSUME extra \in [Items -> 0..MaxDrafts], NEW i \in Items, OneMore(i) \/ UNCHANGED extra
  PROVE  extra' \in [Items -> 0..MaxDrafts]
<1>1. CASE OneMore(i)
  <2>1. extra[i] + 1 \in 0..MaxDrafts
    BY <1>1, ShopConstants DEF ShopConstants, OneMore
  <2> QED
    BY <1>1, <2>1 DEF OneMore
<1> QED
  BY <1>1

LEMMA FunctionIsSequence ==
  ASSUME NEW S, NEW n \in Nat, NEW f \in [1..n -> S]
  PROVE  f \in Seq(S) /\ Len(f) = n /\ DOMAIN f = 1..n
OBVIOUS

(***************************************************************************)
(* The steps of a body.                                                    *)
(***************************************************************************)
LEMMA BodyTypes ==
  ASSUME ShopTypeOK, NEW w \in Workers, BodyStep(w) \/ MappingLost(w) \/ Raise(w)
  PROVE  ShopTypeOK'
<1>1. /\ body[w] \in Body /\ body[w].now \in Items /\ body[w].new \in 0..MaxDrafts
      /\ MaxDrafts \in Nat /\ 0 \in 0..MaxDrafts
      /\ draft \in Seq(Draft) /\ Len(draft) \in Nat /\ Len(draft) <= MaxDrafts
      /\ mapped \in [Items -> 0..MaxDrafts] /\ extra \in [Items -> 0..MaxDrafts]
      /\ unsaved \subseteq DOMAIN draft /\ fetched \subseteq DOMAIN draft
  BY ShopConstants DEF ShopConstants, ShopTypeOK, Body
<1>2. ASSUME NEW b \in Body, body' = [body EXCEPT ![w] = b]
      PROVE  body' \in [Workers -> Body]
  BY <1>2 DEF ShopTypeOK
<1>3. ASSUME UNCHANGED taskVars
      PROVE  TaskTypeOK'
  BY <1>3 DEF taskVars, ShopTypeOK, TaskTypeOK
<1>4. ASSUME BodyReturns(w) \/ BodyRaises(w), UNCHANGED <<lock, overruns>>
      PROVE  TaskTypeOK'
  BY <1>4, BodyEndType DEF ShopTypeOK, TaskTypeOK
<1>5. ASSUME NEW b \in Body
      PROVE  [b EXCEPT !.at = "push", !.todo = @ \ {b.now}, !.new = 0] \in Body
  BY <1>1 DEF Body
<1>6. ASSUME NEW again \in SUBSET Items, ReadMaps(w, again)
      PROVE  ShopTypeOK'
  <2>1. Unmapped \cup again \subseteq Items
    BY DEF Unmapped
  <2>2. [body[w] EXCEPT !.at = "push", !.todo = Unmapped \cup again, !.forced = again] \in Body
    BY <1>1, <2>1 DEF Body
  <2> QED
    BY <1>1, <1>2, <1>3, <1>6, <2>2 DEF ReadMaps, ShopTypeOK, requestVars
<1>7. ASSUME NEW i \in Items, CreateDraft(w, i)
      PROVE  ShopTypeOK'
  <2>1. NewDraft(i) /\ (OneMore(i) \/ UNCHANGED extra)
    BY <1>7 DEF CreateDraft
  <2>2. Len(draft) + 1 \in 0..MaxDrafts
    BY <1>1, <2>1 DEF NewDraft
  <2>3. [body[w] EXCEPT !.at = "map", !.new = Len(draft) + 1, !.now = i] \in Body
    BY <1>1, <2>2 DEF Body
  <2>4. body' \in [Workers -> Body] /\ TaskTypeOK'
    BY <1>2, <1>3, <1>7, <2>3 DEF CreateDraft
  <2>5. /\ draft' \in Seq(Draft) /\ Len(draft') <= MaxDrafts
        /\ DOMAIN draft \subseteq DOMAIN draft'
    BY <2>1, NewDraftType
  <2>6. extra' \in [Items -> 0..MaxDrafts]
    BY <2>1, OneMoreType DEF ShopTypeOK
  <2> QED
    BY <1>1, <1>7, <2>4, <2>5, <2>6 DEF CreateDraft, ShopTypeOK, requestVars
<1>8. ASSUME NEW i \in Items, PushRefused(w, i)
      PROVE  ShopTypeOK'
  <2>1. [body[w] EXCEPT !.todo = @ \ {i}] \in Body
    BY <1>1 DEF Body
  <2> QED
    BY <1>1, <1>2, <1>3, <1>8, <2>1 DEF PushRefused, ShopTypeOK, requestVars
<1>9. CASE MappingLost(w)
  BY <1>1, <1>2, <1>3, <1>5, <1>9 DEF MappingLost, ShopTypeOK, requestVars
<1>10. CASE SaveMapping(w)
  BY <1>1, <1>2, <1>3, <1>5, <1>10 DEF SaveMapping, ShopTypeOK, requestVars
<1>11. CASE PushDone(w) \/ DeleteRefused(w) \/ Raise(w)
  BY <1>1, <1>2, <1>4, <1>11, ShopIdleValues
  DEF PushDone, DeleteRefused, Raise, ShopTypeOK, requestVars
<1>12. ASSUME NEW targets \in SUBSET DraftIds, ReadTargets(w, targets)
       PROVE  ShopTypeOK'
  <2>1. [body[w] EXCEPT !.at = "delete", !.targets = targets] \in Body
    BY <1>1 DEF Body
  <2>2. body' \in [Workers -> Body]
    BY <1>2, <1>12, <2>1 DEF ReadTargets, ShopTypeOK
  <2>3. TaskTypeOK'
    BY <1>3, <1>4, <1>12 DEF ReadTargets
  <2> QED
    BY <1>1, <1>12, <2>2, <2>3 DEF ReadTargets, ShopTypeOK, requestVars
<1>13. CASE DeleteDrafts(w)
  <2>1. draft' \in Seq(Draft) /\ Len(draft') = Len(draft) /\ DOMAIN draft' = DOMAIN draft
    <3>1. \A d \in 1..Len(draft) : draft[d] \in Draft
      BY <1>1
    <3>2. draft' = [d \in 1..Len(draft) |->
            IF d \in body[w].targets THEN [draft[d] EXCEPT !.live = FALSE] ELSE draft[d]]
      BY <1>1, <1>13 DEF DeleteDrafts
    <3>3. \A d \in 1..Len(draft) : [draft[d] EXCEPT !.live = FALSE] \in Draft
      BY <3>1 DEF Draft
    <3>4. draft' \in [1..Len(draft) -> Draft]
      BY <3>1, <3>2, <3>3
    <3>5. DOMAIN draft = 1..Len(draft)
      BY <1>1
    <3> QED
      BY <1>1, <3>4, <3>5, FunctionIsSequence
  <2>2. [body[w] EXCEPT !.at = "unmap"] \in Body
    BY <1>1 DEF Body
  <2> QED
    BY <1>1, <1>2, <1>3, <1>13, <2>1, <2>2 DEF DeleteDrafts, ShopTypeOK, requestVars
<1>14. CASE Unmap(w)
  <2>1. mapped' \in [Items -> 0..MaxDrafts]
    BY <1>1, <1>14 DEF Unmap, Remaining
  <2> QED
    BY <1>1, <1>2, <1>4, <1>14, <2>1, ShopIdleValues DEF Unmap, ShopTypeOK, requestVars
<1> QED
  BY <1>6, <1>7, <1>8, <1>9, <1>10, <1>11, <1>12, <1>13, <1>14 DEF BodyStep

LEMMA DraftItems ==
  ASSUME ShopTypeOK
  PROVE  \A d \in DOMAIN draft : draft[d].item \in Items /\ d \in 0..MaxDrafts
<1>1. /\ draft \in Seq(Draft) /\ Len(draft) \in Nat /\ Len(draft) <= MaxDrafts
      /\ MaxDrafts \in Nat /\ DOMAIN draft = 1..Len(draft)
  BY ShopConstants DEF ShopConstants, ShopTypeOK
<1>2. \A d \in DOMAIN draft : draft[d] \in Draft
  BY <1>1
<1> QED
  BY <1>1, <1>2 DEF Draft

LEMMA RequestTypes ==
  ASSUME ShopTypeOK, ShopRequest \/ \E d \in unsaved : OneLost(d)
  PROVE  ShopTypeOK'
<1>1. /\ draft \in Seq(Draft) /\ Len(draft) <= MaxDrafts
      /\ unsaved \subseteq DOMAIN draft /\ fetched \subseteq DOMAIN draft
      /\ extra \in [Items -> 0..MaxDrafts] /\ mapped \in [Items -> 0..MaxDrafts]
      /\ \A d \in DOMAIN draft : draft[d].item \in Items /\ d \in 0..MaxDrafts
  BY DraftItems DEF ShopTypeOK
<1>2. TaskTypeOK' /\ body' \in [Workers -> Body]
  BY DEF ShopRequest, PushOne, SaveOne, FetchDrafts, MapFetched, OneLost, taskVars,
         ShopTypeOK, TaskTypeOK
<1>3. ASSUME NEW i \in Items, PushOne(i)
      PROVE  ShopTypeOK'
  <2>1. NewDraft(i) /\ OneMore(i) /\ UNCHANGED <<mapped, fetched>>
        /\ unsaved' = unsaved \cup {Len(draft) + 1}
    BY <1>3 DEF PushOne
  <2>2. /\ draft' \in Seq(Draft) /\ Len(draft') <= MaxDrafts
        /\ DOMAIN draft \subseteq DOMAIN draft' /\ Len(draft) + 1 \in DOMAIN draft'
    BY <2>1, NewDraftType
  <2>3. extra' \in [Items -> 0..MaxDrafts]
    BY <1>1, <2>1, OneMoreType
  <2> QED
    BY <1>1, <1>2, <2>1, <2>2, <2>3 DEF ShopTypeOK
<1>4. ASSUME NEW d \in DOMAIN draft, MapTo(d)
      PROVE  mapped' \in [Items -> 0..MaxDrafts]
  BY <1>1, <1>4 DEF MapTo
<1>5. ASSUME NEW d \in unsaved, SaveOne(d) \/ OneLost(d)
      PROVE  ShopTypeOK'
  BY <1>1, <1>2, <1>4, <1>5 DEF SaveOne, OneLost, ShopTypeOK
<1>6. CASE FetchDrafts
  BY <1>1, <1>2, <1>6 DEF FetchDrafts, ShopTypeOK
<1>7. ASSUME NEW d \in fetched, MapFetched(d)
      PROVE  ShopTypeOK'
  <2>1. extra' \in [Items -> 0..MaxDrafts]
    BY <1>1, <1>7, OneMoreType DEF MapFetched
  <2> QED
    BY <1>1, <1>2, <1>4, <1>7, <2>1 DEF MapFetched, ShopTypeOK
<1> QED
  BY <1>3, <1>5, <1>6, <1>7 DEF ShopRequest

LEMMA ShopTypeStep ==
  ASSUME ShopTypeOK, QuietStep \/ FaultStep
  PROVE  ShopTypeOK'
<1>1. ASSUME NEW w \in Workers, AroundBody(w)
      PROVE  ShopTypeOK'
  BY <1>1, AroundType DEF AroundBody, ShopTypeOK, requestVars
<1>2. ASSUME NEW w \in Workers, DieInTask(w)
      PROVE  ShopTypeOK'
  <2>1. body' \in [Workers -> Body]
    BY <1>2, ShopIdleValues DEF DieInTask, ShopTypeOK
  <2> QED
    BY <1>2, <2>1, AroundType DEF DieInTask, ShopTypeOK, requestVars
<1>3. ASSUME NEW w \in Workers, RedisFails(w)
      PROVE  ShopTypeOK'
  BY <1>3, AroundType DEF RedisFails, ShopTypeOK, requestVars
<1>4. CASE LockTime
  BY <1>4, LocksAgeType DEF LockTime, ShopTypeOK, requestVars
<1> QED
  BY <1>1, <1>2, <1>3, <1>4, BodyTypes, RequestTypes DEF QuietStep, FaultStep

-----------------------------------------------------------------------------
(* The locks *)

LEMMA LockedBodiesFinite ==
  ASSUME NEW t \in Tasks
  PROVE  /\ IsFiniteSet(LockedBodies(t)) /\ Cardinality(LockedBodies(t)) \in Nat
         /\ Cardinality(LockedBodies(t)) <= Cardinality(Workers)
         /\ Cardinality(Workers) \in Nat
<1>1. IsFiniteSet(Workers) /\ LockedBodies(t) \subseteq Workers
  BY TaskConstants DEF TaskConstants, LockedBodies
<1> QED
  BY <1>1, FS_Subset, FS_CardinalityType

(***************************************************************************)
(* A set that grows by one element, or shrinks by one, at least or at      *)
(* most.                                                                   *)
(***************************************************************************)
LEMMA AtMostOneMore ==
  ASSUME NEW S, NEW T, IsFiniteSet(T), NEW x, S \subseteq T \cup {x}
  PROVE  /\ IsFiniteSet(S) /\ Cardinality(S) \in Nat /\ Cardinality(T) \in Nat
         /\ Cardinality(S) <= Cardinality(T) + 1
<1>1. IsFiniteSet(T \cup {x}) /\ Cardinality(T \cup {x}) <= Cardinality(T) + 1
  <2>1. Cardinality(T) \in Nat
    BY FS_CardinalityType
  <2> QED
    BY <2>1, FS_AddElement
<1> QED
  BY <1>1, FS_Subset, FS_CardinalityType

LEMMA AtLeastOneLess ==
  ASSUME NEW S, NEW T, IsFiniteSet(T), NEW x \in T, S \subseteq T \ {x}
  PROVE  /\ IsFiniteSet(S) /\ Cardinality(S) \in Nat /\ Cardinality(T) \in Nat
         /\ Cardinality(S) + 1 <= Cardinality(T)
<1>1. IsFiniteSet(T \ {x}) /\ Cardinality(T \ {x}) = Cardinality(T) - 1
  BY FS_RemoveElement
<1>2. Cardinality(T) \in Nat
  BY FS_CardinalityType
<1>3. IsFiniteSet(S) /\ Cardinality(S) <= Cardinality(T \ {x}) /\ Cardinality(S) \in Nat
  BY <1>1, FS_Subset, FS_CardinalityType
<1> QED
  BY <1>1, <1>2, <1>3

(***************************************************************************)
(* The strengthening of LockedBodiesBounded: of the bodies under a lock    *)
(* all but the one that owns the key, if one does, are counted by its      *)
(* expiries under a body.                                                  *)
(***************************************************************************)
PlacesLocked ==
  \A w \in Workers :
    /\ worker[w].at \in {"idle", "acquire"} => ~worker[w].locked
    /\ worker[w].at = "release" => worker[w].locked

BodiesCounted(t) ==
  /\ lock[t].owner \in LockedBodies(t) => Cardinality(LockedBodies(t)) <= overruns[t] + 1
  /\ lock[t].owner \notin LockedBodies(t) => Cardinality(LockedBodies(t)) <= overruns[t]

LocksCounted == PlacesLocked /\ \A t \in Tasks : BodiesCounted(t)

LEMMA LocksCountedBounded ==
  ASSUME ShopTypeOK, LocksCounted
  PROVE  LockedBodiesBounded
<1> SUFFICES ASSUME NEW t \in Tasks
             PROVE  Cardinality(LockedBodies(t)) <= 1 + overruns[t]
  BY DEF LockedBodiesBounded
<1>1. overruns[t] \in Nat /\ Cardinality(LockedBodies(t)) \in Nat /\ BodiesCounted(t)
  BY LockedBodiesFinite DEF ShopTypeOK, TaskTypeOK, LocksCounted
<1> QED
  BY <1>1 DEF BodiesCounted

LEMMA LocksCountedInit == ShopInit => LocksCounted
<1> SUFFICES ASSUME ShopInit PROVE LocksCounted
  OBVIOUS
<1>1. PlacesLocked
  BY ShopIdleValues DEF ShopInit, TaskInit, PlacesLocked
<1>2. ASSUME NEW t \in Tasks
      PROVE  BodiesCounted(t)
  <2>1. LockedBodies(t) = {}
    BY ShopIdleValues DEF ShopInit, TaskInit, LockedBodies, Locked
  <2>2. overruns[t] = 0 /\ Cardinality({}) = 0
    BY FS_EmptySet DEF ShopInit, TaskInit
  <2> QED
    BY <2>1, <2>2 DEF BodiesCounted
<1> QED
  BY <1>1, <1>2 DEF LocksCounted

(***************************************************************************)
(* The bodies of a task, when none of them and nothing of its lock changes *)
(* or when w leaves them.                                                  *)
(***************************************************************************)
LEMMA SameBodies ==
  ASSUME NEW t \in Tasks, BodiesCounted(t), LockedBodies(t)' = LockedBodies(t),
         lock'[t] = lock[t], overruns'[t] = overruns[t]
  PROVE  BodiesCounted(t)'
BY DEF BodiesCounted

LEMMA OneBodyLess ==
  ASSUME ShopTypeOK, NEW t \in Tasks, BodiesCounted(t), NEW w \in LockedBodies(t),
         LockedBodies(t)' \subseteq LockedBodies(t) \ {w}, overruns'[t] = overruns[t]
  PROVE  BodiesCounted(t)'
<1>1. /\ IsFiniteSet(LockedBodies(t))
      /\ overruns[t] \in Nat
  BY LockedBodiesFinite DEF ShopTypeOK, TaskTypeOK
<1>2. /\ Cardinality(LockedBodies(t)') + 1 <= Cardinality(LockedBodies(t))
      /\ Cardinality(LockedBodies(t)') \in Nat /\ Cardinality(LockedBodies(t)) \in Nat
  BY <1>1, AtLeastOneLess
<1>3. Cardinality(LockedBodies(t)) <= overruns[t] + 1
  BY <1>1, <1>2 DEF BodiesCounted
<1> QED
  BY <1>1, <1>2, <1>3 DEF BodiesCounted

(***************************************************************************)
(* What becomes of the bodies when one worker moves.                       *)
(***************************************************************************)
LEMMA OthersStay ==
  ASSUME NEW w \in Workers, \A v \in Workers : v # w => worker'[v] = worker[v], NEW t \in Tasks
  PROVE  /\ LockedBodies(t)' \ {w} = LockedBodies(t) \ {w}
         /\ Locked(w, t)' = Locked(w, t) => LockedBodies(t)' = LockedBodies(t)
BY DEF LockedBodies, Locked

(***************************************************************************)
(* A step that leaves the keys alone, and at most ends a locked body.      *)
(***************************************************************************)
LEMMA LocksCountedBody ==
  ASSUME ShopTypeOK, LocksCounted, NEW w \in Workers, UNCHANGED <<lock, overruns>>,
         \/ UNCHANGED worker
         \/ worker[w].at = "body" /\ (BodyReturns(w) \/ BodyRaises(w))
  PROVE  LocksCounted'
<1>1. CASE UNCHANGED worker
  <2>1. \A t \in Tasks : LockedBodies(t)' = LockedBodies(t)
    BY <1>1 DEF LockedBodies, Locked
  <2> QED
    BY <1>1, <2>1, SameBodies DEF LocksCounted, PlacesLocked
<1>2. CASE worker[w].at = "body" /\ (BodyReturns(w) \/ BodyRaises(w))
  <2>1. /\ \A v \in Workers : v # w => worker'[v] = worker[v]
        /\ worker[w] \in Worker /\ w \in DOMAIN worker
    BY <1>2 DEF BodyReturns, BodyRaises, ShopTypeOK, TaskTypeOK
  <2>2. CASE worker[w].locked
    <3>1. /\ worker'[w].at = "release" /\ worker'[w].locked
          /\ worker'[w].task = worker[w].task
      <4>1. \/ worker'[w] = [worker[w] EXCEPT !.at = "release"]
            \/ worker'[w] = [worker[w] EXCEPT !.at = "release", !.raised = TRUE]
        BY <1>2, <2>1, <2>2 DEF BodyReturns, BodyRaises
      <4> QED
        BY <2>1, <2>2, <4>1, ZenonT(30) DEF Worker
    <3>2. \A t \in Tasks : Locked(w, t)' = Locked(w, t)
      BY <1>2, <2>2, <3>1 DEF Locked
    <3>3. \A t \in Tasks : LockedBodies(t)' = LockedBodies(t)
      BY <2>1, <3>2, OthersStay
    <3>4. PlacesLocked'
      BY <2>1, <3>1 DEF LocksCounted, PlacesLocked
    <3> QED
      BY <3>3, <3>4, SameBodies DEF LocksCounted
  <2>3. CASE ~worker[w].locked
    <3>1. worker'[w] = NoTask
      BY <1>2, <2>1, <2>3 DEF BodyReturns, BodyRaises
    <3>2. \A t \in Tasks : Locked(w, t)' = Locked(w, t)
      BY <2>3, <3>1, ShopIdleValues DEF Locked
    <3>3. \A t \in Tasks : LockedBodies(t)' = LockedBodies(t)
      BY <2>1, <3>2, OthersStay
    <3>4. PlacesLocked'
      BY <2>1, <3>1, ShopIdleValues DEF LocksCounted, PlacesLocked
    <3> QED
      BY <3>3, <3>4, SameBodies DEF LocksCounted
  <2> QED
    BY <2>2, <2>3
<1> QED
  BY <1>1, <1>2

LEMMA LocksCountedAround ==
  ASSUME ShopTypeOK, LocksCounted, NEW w \in Workers,
         \/ LockStep(w) \/ \E t \in Tasks : Deliver(w, t)
         \/ AcquireRaises(w) \/ ReleaseRaises(w) \/ WorkerDies(w)
  PROVE  LocksCounted'
<1>1. /\ worker[w] \in Worker /\ worker[w].task \in Tasks
      /\ DOMAIN worker = Workers /\ DOMAIN lock = Tasks
      /\ UNCHANGED overruns
  BY DEF ShopTypeOK, TaskTypeOK, Worker, LockStep, Acquire, Release, Deliver,
         AcquireRaises, ReleaseRaises, WorkerDies
<1>2. /\ \A v \in Workers : v # w => worker'[v] = worker[v]
      /\ \A t \in Tasks : t # worker[w].task => lock'[t] = lock[t]
  BY <1>1 DEF LockStep, Acquire, Release, Deliver, AcquireRaises, ReleaseRaises, WorkerDies
<1>3. ASSUME worker'[w].at # "release", ~worker'[w].locked,
             \/ UNCHANGED lock
             \/ Locked(w, worker[w].task)
      PROVE  LocksCounted'
  <2>1. PlacesLocked'
    BY <1>2, <1>3 DEF LocksCounted, PlacesLocked
  <2>2. ASSUME NEW t \in Tasks
        PROVE  BodiesCounted(t)'
    <3>1. ~Locked(w, t)' /\ w \notin LockedBodies(t)'
      BY <1>3 DEF Locked, LockedBodies
    <3>2. LockedBodies(t)' \subseteq LockedBodies(t) \ {w} /\ overruns'[t] = overruns[t]
      BY <1>1, <1>2, <3>1, OthersStay
    <3>3. BodiesCounted(t)
      BY DEF LocksCounted
    <3>4. CASE Locked(w, t)
      <4>1. w \in LockedBodies(t)
        BY <3>4 DEF LockedBodies
      <4> QED
        BY <3>2, <3>3, <4>1, OneBodyLess
    <3>5. CASE ~Locked(w, t)
      <4>1. LockedBodies(t)' = LockedBodies(t)
        <5>1. Locked(w, t)' = Locked(w, t)
          BY <3>1, <3>5 DEF Locked
        <5> QED
          BY <1>2, <5>1, OthersStay
      <4>2. lock'[t] = lock[t]
        <5>1. CASE t = worker[w].task
          <6>1. ~Locked(w, worker[w].task)
            BY <3>5, <5>1 DEF Locked
          <6> QED
            BY <1>3, <6>1
        <5>2. CASE t # worker[w].task
          BY <1>2, <5>2
        <5> QED
          BY <5>1, <5>2
      <4> QED
        BY <3>2, <3>3, <4>1, <4>2, SameBodies
    <3> QED
      BY <3>4, <3>5
  <2> QED
    BY <2>1, <2>2 DEF LocksCounted
<1>4. Unlocked(worker[w]).at = "body" /\ ~Unlocked(worker[w]).locked
  BY <1>1 DEF Unlocked, Worker
<1>5. CASE Acquire(w) /\ MayAcquire(worker[w].task)
  <2>0. PICK u \in Tasks : u = worker[w].task
    BY <1>1
  <2>1. /\ lock' = [lock EXCEPT ![u] = [owner |-> w, age |-> 0]]
        /\ worker' = [worker EXCEPT ![w].at = "body", ![w].locked = TRUE]
        /\ lock[u].owner = NoWorker /\ worker[w].at = "acquire" /\ ~worker[w].locked
    BY <1>1, <1>5, <2>0 DEF Acquire, MayAcquire, LocksCounted, PlacesLocked
  <2>2. /\ worker'[w].at = "body" /\ worker'[w].locked /\ worker'[w].task = u
        /\ lock'[u].owner = w /\ u \in Tasks
    BY <1>1, <2>0, <2>1 DEF Worker
  <2>3. PlacesLocked'
    BY <1>2, <2>2 DEF LocksCounted, PlacesLocked
  <2>4. BodiesCounted(u)'
    <3>1. lock[u].owner \notin LockedBodies(u)
      BY <2>1, TaskConstants DEF TaskConstants, LockedBodies
    <3>2. Cardinality(LockedBodies(u)) <= overruns[u] /\ overruns[u] \in Nat
      BY <1>1, <3>1 DEF LocksCounted, BodiesCounted, ShopTypeOK, TaskTypeOK
    <3>3. LockedBodies(u)' \subseteq LockedBodies(u) \cup {w} /\ w \in LockedBodies(u)'
      BY <1>2, <2>2, OthersStay DEF LockedBodies, Locked
    <3>4. IsFiniteSet(LockedBodies(u))
      BY <2>2, LockedBodiesFinite
    <3>5. /\ Cardinality(LockedBodies(u)') <= Cardinality(LockedBodies(u)) + 1
          /\ Cardinality(LockedBodies(u)') \in Nat /\ Cardinality(LockedBodies(u)) \in Nat
      BY <3>3, <3>4, AtMostOneMore
    <3>6. overruns'[u] = overruns[u]
      BY <1>1
    <3> QED
      BY <2>2, <3>2, <3>3, <3>5, <3>6 DEF BodiesCounted
  <2>5. ASSUME NEW t \in Tasks, t # u
        PROVE  BodiesCounted(t)'
    <3>1. LockedBodies(t)' = LockedBodies(t)
      BY <1>2, <2>0, <2>1, <2>2, <2>5, OthersStay DEF Locked
    <3> QED
      BY <1>1, <1>2, <2>0, <2>5, <3>1, SameBodies DEF LocksCounted
  <2> QED
    BY <2>3, <2>4, <2>5 DEF LocksCounted
<1>6. CASE Acquire(w) /\ ~MayAcquire(worker[w].task)
  BY <1>1, <1>3, <1>6, ShopIdleValues DEF Acquire
<1>7. CASE Release(w)
  <2>1. Locked(w, worker[w].task)
    BY <1>7 DEF Release, LocksCounted, PlacesLocked, Locked
  <2>2. worker'[w].at # "release" /\ ~worker'[w].locked
    BY <1>1, <1>4, <1>7, ShopIdleValues DEF Release
  <2> QED
    BY <1>3, <2>1, <2>2
<1>8. ASSUME NEW t \in Tasks, Deliver(w, t)
      PROVE  LocksCounted'
  <2>1. worker'[w].at = "acquire" /\ ~worker'[w].locked
    BY <1>1, <1>8, ShopIdleValues DEF Deliver, Worker
  <2> QED
    BY <1>3, <1>8, <2>1 DEF Deliver
<1>9. CASE AcquireRaises(w)
  <2>1. worker'[w].at = "body" /\ ~worker'[w].locked
    BY <1>1, <1>9 DEF AcquireRaises, LocksCounted, PlacesLocked, Worker
  <2> QED
    BY <1>3, <1>9, <2>1 DEF AcquireRaises
<1>10. CASE ReleaseRaises(w) \/ WorkerDies(w)
  <2>1. worker'[w].at # "release" /\ ~worker'[w].locked
    BY <1>1, <1>4, <1>10, ShopIdleValues DEF ReleaseRaises, WorkerDies
  <2> QED
    BY <1>3, <1>10, <2>1 DEF ReleaseRaises, WorkerDies
<1> QED
  BY <1>5, <1>6, <1>7, <1>8, <1>9, <1>10 DEF LockStep

(***************************************************************************)
(* The clock: a key that expires under its owner's body is counted, unless *)
(* the count says already that every worker may run one.                   *)
(***************************************************************************)
LEMMA LocksCountedTime ==
  ASSUME ShopTypeOK, LocksCounted, LocksAge
  PROVE  LocksCounted'
<1>1. PlacesLocked'
  BY DEF LocksAge, LocksCounted, PlacesLocked
<1>2. ASSUME NEW t \in Tasks
      PROVE  BodiesCounted(t)'
  <2> DEFINE n == Cardinality(Workers)
             b == Cardinality(LockedBodies(t))
  <2>1. /\ LockedBodies(t)' = LockedBodies(t)
        /\ b \in Nat /\ n \in Nat /\ b <= n
        /\ overruns[t] \in Nat /\ LockTtl \in Nat /\ lock[t] \in Lock
        /\ BodiesCounted(t)
    <3>1. LockedBodies(t)' = LockedBodies(t)
      BY DEF LocksAge, LockedBodies, Locked
    <3>2. overruns[t] \in Nat /\ LockTtl \in Nat /\ lock[t] \in Lock
      <4>1. n \in Nat /\ overruns[t] \in 0..n
        BY LockedBodiesFinite DEF ShopTypeOK, TaskTypeOK
      <4> QED
        BY <4>1, TaskConstants DEF ShopTypeOK, TaskTypeOK, TaskConstants
    <3> QED
      BY <3>1, <3>2, LockedBodiesFinite DEF LocksCounted
  <2>2. /\ lock'[t] = Aged(lock[t])
        /\ overruns'[t] = IF Overrun(t) /\ overruns[t] < n
                          THEN overruns[t] + 1 ELSE overruns[t]
    BY DEF LocksAge
  <2>3. CASE lock[t].owner \notin LockedBodies(t)
    <3>1. lock'[t].owner \notin LockedBodies(t)
      BY <2>1, <2>2, <2>3, TaskConstants
      DEF Aged, Free, Lock, TaskConstants, LockedBodies
    <3>2. overruns'[t] = overruns[t]
      BY <2>2, <2>3 DEF Overrun
    <3> QED
      BY <2>1, <2>3, <3>1, <3>2 DEF BodiesCounted
  <2>4. CASE lock[t].owner \in LockedBodies(t) /\ lock[t].age < LockTtl
    <3>1. lock[t].owner # NoWorker
      BY <2>4, TaskConstants DEF TaskConstants, LockedBodies
    <3>2. lock'[t].owner = lock[t].owner
      BY <2>1, <2>2, <2>4, <3>1 DEF Aged, Lock
    <3>3. overruns'[t] = overruns[t]
      BY <2>1, <2>2, <2>4 DEF Overrun
    <3> QED
      BY <2>1, <2>4, <3>2, <3>3 DEF BodiesCounted
  <2>5. CASE lock[t].owner \in LockedBodies(t) /\ ~(lock[t].age < LockTtl)
    <3>1. lock[t].owner # NoWorker
      BY <2>5, TaskConstants DEF TaskConstants, LockedBodies
    <3>2. lock'[t] = Free /\ lock[t].age = LockTtl
      BY <2>1, <2>2, <2>5, <3>1 DEF Aged, Lock
    <3>3. lock'[t].owner \notin LockedBodies(t)
      BY <3>2, TaskConstants DEF Free, TaskConstants, LockedBodies
    <3>4. Overrun(t)
      BY <2>5, <3>2 DEF Overrun
    <3>5. b <= overruns[t] + 1
      BY <2>1, <2>5 DEF BodiesCounted
    <3>6. b <= overruns'[t]
      <4> HIDE DEF b, n
      <4> QED
        BY <2>1, <2>2, <3>4, <3>5
    <3> QED
      BY <2>1, <3>3, <3>6 DEF BodiesCounted
  <2> QED
    BY <2>3, <2>4, <2>5
<1> QED
  BY <1>1, <1>2 DEF LocksCounted

LEMMA LocksCountedStep ==
  ASSUME ShopTypeOK, LocksCounted, QuietStep \/ FaultStep
  PROVE  LocksCounted'
<1>1. ASSUME NEW w \in Workers, BodyStep(w) \/ Raise(w) \/ MappingLost(w)
      PROVE  LocksCounted'
  <2>1. UNCHANGED <<lock, overruns>>
    BY <1>1 DEF BodyStep, ReadMaps, SaveMapping, PushDone, CreateDraft, PushRefused,
                ReadTargets, DeleteDrafts, DeleteRefused, Unmap, Raise, MappingLost, taskVars
  <2>2. \/ UNCHANGED worker
        \/ worker[w].at = "body" /\ (BodyReturns(w) \/ BodyRaises(w))
    BY <1>1 DEF BodyStep, ReadMaps, SaveMapping, PushDone, CreateDraft, PushRefused,
                ReadTargets, DeleteDrafts, DeleteRefused, Unmap, Raise, MappingLost,
                taskVars, InBody
  <2> QED
    BY <2>1, <2>2, LocksCountedBody
<1>2. ASSUME NEW w \in Workers, AroundBody(w) \/ DieInTask(w) \/ RedisFails(w)
      PROVE  LocksCounted'
  BY <1>2, LocksCountedAround DEF AroundBody, DieInTask, RedisFails
<1>3. ASSUME UNCHANGED taskVars
      PROVE  LocksCounted'
  BY <1>3 DEF taskVars, LocksCounted, PlacesLocked, BodiesCounted, LockedBodies, Locked
<1>4. CASE ShopRequest \/ \E d \in unsaved : OneLost(d)
  BY <1>3, <1>4 DEF ShopRequest, PushOne, SaveOne, FetchDrafts, MapFetched, OneLost
<1> QED
  BY <1>1, <1>2, <1>4, LocksCountedTime DEF QuietStep, FaultStep, LockTime

-----------------------------------------------------------------------------
(* The drafts, when no fault disturbs a task *)

(***************************************************************************)
(* Every body runs under its lock, so one push and one deletion at most    *)
(* until a lock has expired under one.                                     *)
(***************************************************************************)
BodiesLocked ==
  \A w \in Workers :
    ~worker[w].raised /\ (worker[w].at = "body" => worker[w].locked)

BodiesInPlace ==
  \A w \in Workers :
    /\ body[w].at \in {"push", "map"} => InBody(w, "push")
    /\ body[w].at \in {"delete", "unmap"} => InBody(w, "delete")

KnownDrafts ==
  /\ \A i \in Items : mapped[i] <= Len(draft)
  /\ \A w \in Workers : body[w].targets \subseteq DOMAIN draft

PushesPlaced ==
  \A w \in Workers : body[w].at = "map" =>
    /\ body[w].new \in DOMAIN draft /\ body[w].new \notin unsaved
    /\ draft[body[w].new].item = body[w].now
    /\ body[w].now \in body[w].todo

(***************************************************************************)
(* What a deletion unmaps is gone from the shop.                           *)
(***************************************************************************)
DeletionsDone ==
  \A w \in Workers : body[w].at = "unmap" =>
    \A d \in DOMAIN draft : d \in body[w].targets => ~draft[d].live

(***************************************************************************)
(* A draft a bulk push has created, and is about to map, for a product it  *)
(* read without a mapping; one that was asked for by name or by force; and *)
(* a product that a bulk push may yet map, having read it without one.     *)
(***************************************************************************)
Creating(w, d) == body[w].at = "map" /\ body[w].new = d

FreshPending(d) ==
  \E w \in Workers : Creating(w, d) /\ body[w].now \notin body[w].forced

AskedPending(d) ==
  \/ d \in unsaved
  \/ \E w \in Workers : Creating(w, d) /\ body[w].now \in body[w].forced

Candidate(i) ==
  \E w \in Workers :
    body[w].at \in {"push", "map"} /\ i \in body[w].todo /\ i \notin body[w].forced

(***************************************************************************)
(* The drafts of a product that its extras have to account for: those      *)
(* asked for, until they are mapped, and those that have lost, or never    *)
(* got, their mapping.  While a bulk push may yet overwrite a mapping that *)
(* was not there when it read, one extra is left over for that.            *)
(***************************************************************************)
OwedAs(i, d) ==
  AskedPending(d) \/ (draft[d].live /\ mapped[i] # d /\ ~FreshPending(d))

Owed(i) == {d \in DOMAIN draft : draft[d].item = i /\ OwedAs(i, d)}

Tight(i) == mapped[i] # 0 /\ Candidate(i)

OwedFew(i) ==
  /\ Cardinality(Owed(i)) <= extra[i]
  /\ Tight(i) => Cardinality(Owed(i)) + 1 <= extra[i]

PlaceInv == BodiesLocked /\ BodiesInPlace

DraftInv ==
  KnownDrafts /\ PushesPlaced /\ DeletionsDone /\ \A i \in Items : OwedFew(i)

LEMMA OwedFinite ==
  ASSUME ShopTypeOK, NEW i \in Items
  PROVE  /\ IsFiniteSet(Owed(i)) /\ Cardinality(Owed(i)) \in Nat
         /\ extra[i] \in Nat /\ MaxDrafts \in Nat
<1>1. /\ Len(draft) \in Nat /\ DOMAIN draft = 1..Len(draft)
      /\ extra[i] \in 0..MaxDrafts /\ MaxDrafts \in Nat
  BY ShopConstants DEF ShopConstants, ShopTypeOK
<1>2. IsFiniteSet(1..Len(draft))
  BY <1>1, FS_Interval
<1>3. Owed(i) \subseteq 1..Len(draft)
  BY <1>1 DEF Owed
<1> QED
  BY <1>1, <1>2, <1>3, FS_Subset, FS_CardinalityType

(***************************************************************************)
(* Two pushes between their first read and their end would both hold the   *)
(* lock, and neither has outlived it.                                      *)
(***************************************************************************)
LEMMA OnePush ==
  ASSUME ShopTypeOK, LocksCounted, overruns["push"] = 0, PlaceInv,
         NEW v \in Workers, NEW w \in Workers,
         body[v].at \in {"push", "map"}, body[w].at \in {"push", "map"}
  PROVE  v = w
<1>1. "push" \in Tasks
  BY ShopConstants DEF ShopConstants
<1>2. v \in LockedBodies("push") /\ w \in LockedBodies("push")
  BY DEF InBody, LockedBodies, Locked, PlaceInv, BodiesLocked, BodiesInPlace
<1>3. /\ IsFiniteSet(LockedBodies("push"))
      /\ Cardinality(LockedBodies("push")) \in Nat
      /\ Cardinality(LockedBodies("push")) <= 1
  BY <1>1, LockedBodiesFinite, LocksCountedBounded DEF LockedBodiesBounded
<1>4. ASSUME v # w
      PROVE  FALSE
  <2>1. {w} \subseteq LockedBodies("push") \ {v} /\ Cardinality({w}) = 1
    BY <1>2, <1>4, FS_Singleton
  <2>2. Cardinality({w}) + 1 <= Cardinality(LockedBodies("push"))
    BY <1>2, <1>3, <2>1, AtLeastOneLess
  <2> QED
    BY <1>3, <2>1, <2>2
<1> QED
  BY <1>4

(***************************************************************************)
(* What the invariant says of the shop.                                    *)
(***************************************************************************)
LEMMA LiveAccounted ==
  ASSUME ShopTypeOK, LocksCounted, overruns["push"] = 0, PlaceInv, DraftInv
  PROVE  DraftsAccounted
<1> SUFFICES ASSUME NEW i \in Items
             PROVE  Cardinality(LiveDrafts(i)) <= 1 + extra[i]
  BY DEF DraftsAccounted
<1>1. /\ IsFiniteSet(Owed(i)) /\ Cardinality(Owed(i)) \in Nat /\ extra[i] \in Nat
      /\ OwedFew(i) /\ \A d \in DOMAIN draft : d # 0
  BY OwedFinite DEF DraftInv, ShopTypeOK
<1>2. \A d \in LiveDrafts(i) : d \in Owed(i) \/ mapped[i] = d \/ FreshPending(d)
  BY DEF LiveDrafts, Owed, OwedAs
<1>3. ASSUME \A d \in LiveDrafts(i) : ~FreshPending(d)
      PROVE  Cardinality(LiveDrafts(i)) <= 1 + extra[i]
  <2>1. LiveDrafts(i) \subseteq Owed(i) \cup {mapped[i]}
    BY <1>2, <1>3
  <2>2. /\ Cardinality(LiveDrafts(i)) <= Cardinality(Owed(i)) + 1
        /\ Cardinality(LiveDrafts(i)) \in Nat
    BY <1>1, <2>1, AtMostOneMore
  <2> QED
    BY <1>1, <2>2 DEF OwedFew
<1>4. ASSUME NEW f \in LiveDrafts(i), FreshPending(f)
      PROVE  Cardinality(LiveDrafts(i)) <= 1 + extra[i]
  <2>1. PICK w \in Workers : Creating(w, f) /\ body[w].now \notin body[w].forced
    BY <1>4 DEF FreshPending
  <2>2. body[w].now = i /\ i \in body[w].todo /\ body[w].at = "map"
    BY <2>1 DEF DraftInv, PushesPlaced, Creating, LiveDrafts
  <2>3. Candidate(i)
    BY <2>1, <2>2 DEF Candidate
  <2>4. \A d \in LiveDrafts(i) : FreshPending(d) => d = f
    BY <2>1, <2>2, OnePush DEF FreshPending, Creating
  <2>5. CASE mapped[i] = 0
    <3>1. LiveDrafts(i) \subseteq Owed(i) \cup {f}
      BY <1>1, <1>2, <2>4, <2>5 DEF LiveDrafts
    <3>2. /\ Cardinality(LiveDrafts(i)) <= Cardinality(Owed(i)) + 1
          /\ Cardinality(LiveDrafts(i)) \in Nat
      BY <1>1, <3>1, AtMostOneMore
    <3> QED
      BY <1>1, <3>2 DEF OwedFew
  <2>6. CASE mapped[i] # 0
    <3> DEFINE S == Owed(i) \cup {mapped[i]}
    <3>1. S \subseteq Owed(i) \cup {mapped[i]} /\ LiveDrafts(i) \subseteq S \cup {f}
      BY <1>2, <2>4
    <3>2. /\ IsFiniteSet(S) /\ Cardinality(S) \in Nat
          /\ Cardinality(S) <= Cardinality(Owed(i)) + 1
      BY <1>1, <3>1, AtMostOneMore
    <3> HIDE DEF S
    <3>3. /\ Cardinality(LiveDrafts(i)) <= Cardinality(S) + 1
          /\ Cardinality(LiveDrafts(i)) \in Nat
      BY <3>1, <3>2, AtMostOneMore
    <3>4. Cardinality(Owed(i)) + 1 <= extra[i]
      BY <1>1, <2>3, <2>6 DEF OwedFew, Tight
    <3> QED
      BY <1>1, <3>2, <3>3, <3>4
  <2> QED
    BY <2>5, <2>6
<1> QED
  BY <1>3, <1>4

LEMMA StrayAccounted ==
  ASSUME ShopTypeOK, DraftInv
  PROVE  StraysAccounted
<1> SUFFICES ASSUME NEW i \in Items
             PROVE  Cardinality(Stray(i)) <= extra[i]
  BY DEF StraysAccounted
<1>1. /\ IsFiniteSet(Owed(i)) /\ Cardinality(Owed(i)) \in Nat /\ extra[i] \in Nat
      /\ Cardinality(Owed(i)) <= extra[i]
  BY OwedFinite DEF DraftInv, OwedFew
<1>2. Stray(i) \subseteq Owed(i)
  BY DEF Stray, LiveDrafts, BeingMapped, Owed, OwedAs, FreshPending, Creating
<1>3. Cardinality(Stray(i)) <= Cardinality(Owed(i)) /\ Cardinality(Stray(i)) \in Nat
  BY <1>1, <1>2, FS_Subset, FS_CardinalityType
<1> QED
  BY <1>1, <1>3

LEMMA DraftInvInit == ShopInit => PlaceInv /\ DraftInv
<1> SUFFICES ASSUME ShopInit PROVE PlaceInv /\ DraftInv
  OBVIOUS
<1>1. PlaceInv /\ KnownDrafts /\ PushesPlaced /\ DeletionsDone
  BY ShopIdleValues
  DEF ShopInit, TaskInit, PlaceInv, BodiesLocked, BodiesInPlace, InBody,
      KnownDrafts, PushesPlaced, DeletionsDone, NoBody
<1>2. ASSUME NEW i \in Items
      PROVE  OwedFew(i)
  <2>1. Owed(i) = {} /\ extra[i] = 0 /\ mapped[i] = 0
    BY <1>2 DEF ShopInit, Owed
  <2>2. Cardinality({}) = 0
    BY FS_EmptySet
  <2> QED
    BY <2>1, <2>2 DEF OwedFew, Tight
<1> QED
  BY <1>1, <1>2 DEF DraftInv

(***************************************************************************)
(* How the drafts held, and the extras, of a product may change.           *)
(***************************************************************************)
LEMMA FewStay ==
  ASSUME ShopTypeOK, NEW i \in Items, OwedFew(i),
         Owed(i)' \subseteq Owed(i), extra'[i] = extra[i], Tight(i)' => Tight(i)
  PROVE  OwedFew(i)'
<1>1. /\ IsFiniteSet(Owed(i)) /\ Cardinality(Owed(i)) \in Nat /\ extra[i] \in Nat
  BY OwedFinite
<1>2. Cardinality(Owed(i)') <= Cardinality(Owed(i)) /\ Cardinality(Owed(i)') \in Nat
  BY <1>1, FS_Subset, FS_CardinalityType
<1> QED
  BY <1>1, <1>2 DEF OwedFew

LEMMA FewMore ==
  ASSUME ShopTypeOK, NEW i \in Items, OwedFew(i), NEW x,
         Owed(i)' \subseteq Owed(i) \cup {x}, extra'[i] = extra[i] + 1,
         Tight(i)' => Tight(i) \/ Owed(i)' \subseteq Owed(i)
  PROVE  OwedFew(i)'
<1>1. /\ IsFiniteSet(Owed(i)) /\ Cardinality(Owed(i)) \in Nat /\ extra[i] \in Nat
  BY OwedFinite
<1>2. /\ Cardinality(Owed(i)') <= Cardinality(Owed(i)) + 1
      /\ Cardinality(Owed(i)') \in Nat
  BY <1>1, AtMostOneMore
<1>3. CASE Owed(i)' \subseteq Owed(i)
  <2>1. Cardinality(Owed(i)') <= Cardinality(Owed(i))
    BY <1>1, <1>3, FS_Subset
  <2> QED
    BY <1>1, <1>2, <2>1 DEF OwedFew
<1>4. CASE Tight(i)' => Tight(i)
  BY <1>1, <1>2, <1>4 DEF OwedFew
<1> QED
  BY <1>3, <1>4

LEMMA FewSwap ==
  ASSUME ShopTypeOK, NEW i \in Items, OwedFew(i), NEW x \in Owed(i), NEW y,
         Owed(i)' \subseteq (Owed(i) \ {x}) \cup {y}, extra'[i] = extra[i],
         Tight(i)' => Tight(i) \/ Owed(i)' \subseteq Owed(i) \ {x}
  PROVE  OwedFew(i)'
<1> DEFINE S == Owed(i) \ {x}
<1>1. /\ IsFiniteSet(Owed(i)) /\ Cardinality(Owed(i)) \in Nat /\ extra[i] \in Nat
  BY OwedFinite
<1>2. /\ IsFiniteSet(S) /\ Cardinality(S) \in Nat
      /\ Cardinality(S) + 1 <= Cardinality(Owed(i))
  BY <1>1, AtLeastOneLess
<1>3. /\ Cardinality(Owed(i)') <= Cardinality(S) + 1
      /\ Cardinality(Owed(i)') \in Nat
  <2>1. Owed(i)' \subseteq S \cup {y}
    OBVIOUS
  <2> HIDE DEF S
  <2> QED
    BY <1>2, <2>1, AtMostOneMore
<1>4. CASE Owed(i)' \subseteq Owed(i) \ {x}
  <2>1. Cardinality(Owed(i)') <= Cardinality(S)
    BY <1>2, <1>4, FS_Subset
  <2> HIDE DEF S
  <2> QED
    BY <1>1, <1>2, <1>3, <2>1 DEF OwedFew
<1>5. CASE Tight(i)' => Tight(i)
  <2> HIDE DEF S
  <2> QED
    BY <1>1, <1>2, <1>3, <1>5 DEF OwedFew
<1> QED
  BY <1>4, <1>5

LEMMA FewOverwritten ==
  ASSUME ShopTypeOK, NEW i \in Items, OwedFew(i), NEW y,
         Owed(i)' \subseteq Owed(i) \cup {y}, extra'[i] = extra[i],
         ~Tight(i)', Tight(i) \/ Owed(i)' \subseteq Owed(i)
  PROVE  OwedFew(i)'
<1>1. /\ IsFiniteSet(Owed(i)) /\ Cardinality(Owed(i)) \in Nat /\ extra[i] \in Nat
  BY OwedFinite
<1>2. /\ Cardinality(Owed(i)') <= Cardinality(Owed(i)) + 1
      /\ Cardinality(Owed(i)') \in Nat
  BY <1>1, AtMostOneMore
<1>3. CASE Tight(i)
  BY <1>1, <1>2, <1>3 DEF OwedFew
<1>4. CASE Owed(i)' \subseteq Owed(i)
  <2>1. Cardinality(Owed(i)') <= Cardinality(Owed(i))
    BY <1>1, <1>4, FS_Subset
  <2> QED
    BY <1>1, <1>2, <2>1 DEF OwedFew
<1> QED
  BY <1>3, <1>4

(***************************************************************************)
(* The steps that leave the drafts, their mappings and the bodies alone.   *)
(***************************************************************************)
LEMMA PlaceAround ==
  ASSUME ShopTypeOK, PlaceInv, NEW w \in Workers, AroundBody(w)
  PROVE  PlaceInv'
<1>1. /\ worker[w] \in Worker /\ DOMAIN worker = Workers
      /\ UNCHANGED <<draft, mapped, body>>
  BY DEF ShopTypeOK, TaskTypeOK, AroundBody
<1>2. ASSUME \A v \in Workers : v # w => worker'[v] = worker[v],
             worker[w].at # "body", ~worker'[w].raised,
             worker'[w].at = "body" => worker'[w].locked
      PROVE  PlaceInv'
  BY <1>1, <1>2 DEF PlaceInv, BodiesLocked, BodiesInPlace, InBody
<1>3. CASE Acquire(w)
  <2>1. CASE MayAcquire(worker[w].task)
    <3>1. worker' = [worker EXCEPT ![w].at = "body", ![w].locked = TRUE]
      BY <1>3, <2>1 DEF Acquire
    <3>2. worker'[w].locked /\ worker'[w].raised = worker[w].raised
      BY <1>1, <3>1 DEF Worker
    <3>3. \A v \in Workers : v # w => worker'[v] = worker[v]
      BY <1>1, <3>1
    <3>4. worker[w].at # "body" /\ ~worker'[w].raised
      BY <1>3, <3>2 DEF Acquire, PlaceInv, BodiesLocked
    <3> QED
      BY <1>2, <3>2, <3>3, <3>4
  <2>2. CASE ~MayAcquire(worker[w].task)
    BY <1>1, <1>2, <1>3, <2>2, ShopIdleValues DEF Acquire
  <2> QED
    BY <2>1, <2>2
<1>4. CASE Release(w)
  <2>1. worker' = [worker EXCEPT ![w] = NoTask]
    BY <1>1, <1>4 DEF Release, PlaceInv, BodiesLocked
  <2> QED
    BY <1>1, <1>2, <1>4, <2>1, ShopIdleValues DEF Release
<1>5. ASSUME NEW t \in Tasks, Deliver(w, t)
      PROVE  PlaceInv'
  <2>1. worker'[w].at = "acquire" /\ ~worker'[w].raised
    BY <1>1, <1>5, ShopIdleValues DEF Deliver, Worker
  <2> QED
    BY <1>1, <1>2, <1>5, <2>1 DEF Deliver
<1> QED
  BY <1>3, <1>4, <1>5 DEF AroundBody, LockStep

LEMMA DraftAround ==
  ASSUME DraftInv, UNCHANGED <<draft, mapped, body, unsaved, extra>>
  PROVE  DraftInv'
<1>1. KnownDrafts' /\ PushesPlaced' /\ DeletionsDone'
  BY DEF DraftInv, KnownDrafts, PushesPlaced, DeletionsDone
<1>2. ASSUME NEW i \in Items
      PROVE  OwedFew(i)'
  BY DEF DraftInv, OwedFew, Owed, OwedAs, Tight, AskedPending, FreshPending, Creating,
         Candidate
<1> QED
  BY <1>1, <1>2 DEF DraftInv

(***************************************************************************)
(* What a body's step does to its place.                                   *)
(***************************************************************************)
LEMMA PlaceBody ==
  ASSUME ShopTypeOK, PlaceInv, NEW w \in Workers, BodyStep(w)
  PROVE  PlaceInv'
<1>1. /\ worker[w] \in Worker /\ DOMAIN worker = Workers
      /\ body[w] \in Body /\ DOMAIN body = Workers
  BY DEF ShopTypeOK, TaskTypeOK
<1>2. \A v \in Workers : v # w => worker'[v] = worker[v] /\ body'[v] = body[v]
  BY <1>1 DEF BodyStep, ReadMaps, SaveMapping, PushDone, CreateDraft, PushRefused,
              ReadTargets, DeleteDrafts, DeleteRefused, Unmap, BodyReturns, taskVars
<1>3. CASE /\ worker'[w] = worker[w]
           /\ \/ InBody(w, "push") /\ body'[w].at \in {"push", "map"}
              \/ InBody(w, "delete") /\ body'[w].at \in {"delete", "unmap"}
  BY <1>2, <1>3 DEF PlaceInv, BodiesLocked, BodiesInPlace, InBody
<1>4. CASE BodyReturns(w) /\ worker[w].at = "body" /\ body'[w].at = "read"
  <2>1. worker'[w].at = "release" /\ ~worker'[w].raised
    BY <1>1, <1>4 DEF BodyReturns, PlaceInv, BodiesLocked, Worker
  <2> QED
    BY <1>2, <1>4, <2>1 DEF PlaceInv, BodiesLocked, BodiesInPlace, InBody
<1>5. CASE \E again \in SUBSET Items : ReadMaps(w, again)
  BY <1>1, <1>3, <1>5 DEF ReadMaps, Body, taskVars
<1>6. CASE \E i \in Items : CreateDraft(w, i) \/ PushRefused(w, i)
  BY <1>1, <1>3, <1>6 DEF CreateDraft, PushRefused, Body, taskVars
<1>7. CASE SaveMapping(w)
  BY <1>1, <1>3, <1>7 DEF SaveMapping, Body, taskVars
<1>8. CASE PushDone(w) \/ DeleteRefused(w) \/ Unmap(w)
  BY <1>1, <1>4, <1>8, ShopIdleValues DEF PushDone, DeleteRefused, Unmap, InBody
<1>9. CASE \E targets \in SUBSET DraftIds : ReadTargets(w, targets)
  BY <1>1, <1>3, <1>4, <1>9 DEF ReadTargets, InBody, Body, taskVars
<1>10. CASE DeleteDrafts(w)
  BY <1>1, <1>3, <1>10 DEF DeleteDrafts, Body, taskVars
<1> QED
  BY <1>5, <1>6, <1>7, <1>8, <1>9, <1>10 DEF BodyStep

(***************************************************************************)
(* A body that creates nothing and maps nothing: it reads, skips a product *)
(* or ends, or it deletes from the shop what it read as mapped, and then   *)
(* the mappings of just these drafts.                                      *)
(***************************************************************************)
LEMMA BodyAside ==
  ASSUME ShopTypeOK, DraftInv, NEW w \in Workers,
         \A v \in Workers : v # w => body'[v] = body[v],
         body[w].at # "map", body'[w].at # "map", UNCHANGED <<unsaved, extra>>,
         DOMAIN draft' = DOMAIN draft, Len(draft') = Len(draft),
         \A d \in DOMAIN draft :
           draft'[d].item = draft[d].item /\ (draft'[d].live => draft[d].live),
         \A i \in Items : mapped'[i] \in {0, mapped[i]},
         \A i \in Items : \A d \in DOMAIN draft :
           draft'[d].live /\ mapped[i] = d => mapped'[i] = d,
         \A i \in Items :
           body'[w].at = "push" /\ i \in body'[w].todo /\ i \notin body'[w].forced =>
             \/ mapped[i] = 0
             \/ body[w].at = "push" /\ i \in body[w].todo /\ i \notin body[w].forced,
         body'[w].targets \subseteq DOMAIN draft,
         body'[w].at = "unmap" =>
           \A d \in DOMAIN draft : d \in body'[w].targets => ~draft'[d].live
  PROVE  DraftInv'
<1>1. KnownDrafts'
  <2>1. ASSUME NEW i \in Items
        PROVE  mapped'[i] <= Len(draft')
    <3>1. Len(draft) \in Nat /\ mapped[i] <= Len(draft)
      BY DEF ShopTypeOK, DraftInv, KnownDrafts
    <3> QED
      BY <3>1
  <2>2. \A v \in Workers : body'[v].targets \subseteq DOMAIN draft'
    BY DEF DraftInv, KnownDrafts
  <2> QED
    BY <2>1, <2>2 DEF KnownDrafts
<1>2. PushesPlaced'
  <2> SUFFICES ASSUME NEW v \in Workers, body'[v].at = "map"
               PROVE  /\ body'[v].new \in DOMAIN draft' /\ body'[v].new \notin unsaved'
                      /\ draft'[body'[v].new].item = body'[v].now
                      /\ body'[v].now \in body'[v].todo
    BY DEF PushesPlaced
  <2>1. body'[v] = body[v]
    OBVIOUS
  <2>2. /\ body[v].new \in DOMAIN draft /\ body[v].new \notin unsaved
        /\ draft[body[v].new].item = body[v].now
        /\ body[v].now \in body[v].todo
    BY <2>1 DEF DraftInv, PushesPlaced
  <2> QED
    BY <2>1, <2>2
<1>3. DeletionsDone'
  <2> SUFFICES ASSUME NEW v \in Workers, body'[v].at = "unmap",
                      NEW d \in DOMAIN draft, d \in body'[v].targets
               PROVE  ~draft'[d].live
    BY DEF DeletionsDone
  <2>1. CASE v = w
    BY <2>1
  <2>2. CASE v # w
    BY <2>2 DEF DraftInv, DeletionsDone
  <2> QED
    BY <2>1, <2>2
<1>4. ASSUME NEW i \in Items
      PROVE  OwedFew(i)'
  <2>1. \A d \in DOMAIN draft :
          FreshPending(d)' = FreshPending(d) /\ AskedPending(d)' = AskedPending(d)
    BY DEF FreshPending, AskedPending, Creating
  <2>2. Owed(i)' \subseteq Owed(i)
    <3> SUFFICES ASSUME NEW d \in DOMAIN draft, draft'[d].item = i, OwedAs(i, d)'
                 PROVE  OwedAs(i, d)
      BY DEF Owed
    <3> QED
      BY <2>1 DEF OwedAs
  <2>3. Tight(i)' => Tight(i)
    BY DEF Tight, Candidate
  <2>4. OwedFew(i) /\ extra'[i] = extra[i]
    BY DEF DraftInv
  <2> QED
    BY <2>2, <2>3, <2>4, FewStay
<1> QED
  BY <1>1, <1>2, <1>3, <1>4 DEF DraftInv

LEMMA PushKeeps ==
  ASSUME ShopTypeOK, DraftInv, NEW w \in Workers,
         \/ PushDone(w)
         \/ \E again \in SUBSET Items : ReadMaps(w, again)
         \/ \E i \in Items : PushRefused(w, i)
  PROVE  DraftInv'
<1>1. /\ UNCHANGED <<draft, mapped, unsaved, extra>> /\ body[w].at \in {"read", "push"}
      /\ body[w] \in Body /\ DOMAIN body = Workers
      /\ body[w].targets \subseteq DOMAIN draft
      /\ \A v \in Workers : v # w => body'[v] = body[v]
  BY DEF PushDone, ReadMaps, PushRefused, ShopTypeOK, requestVars, DraftInv, KnownDrafts
<1>2. CASE \E again \in SUBSET Items : ReadMaps(w, again)
  <2>1. PICK again \in SUBSET Items : ReadMaps(w, again)
    BY <1>2
  <2>2. /\ body'[w].at = "push" /\ body'[w].todo = Unmapped \cup again
        /\ body'[w].forced = again /\ body'[w].targets = body[w].targets
    BY <1>1, <2>1 DEF ReadMaps, Body
  <2>3. \A i \in Items : i \in body'[w].todo /\ i \notin body'[w].forced => mapped[i] = 0
    BY <2>2 DEF Unmapped
  <2> QED
    BY <1>1, <2>2, <2>3, BodyAside
<1>3. CASE \E i \in Items : PushRefused(w, i)
  <2>1. /\ body'[w].at = "push" /\ body'[w].todo \subseteq body[w].todo
        /\ body'[w].forced = body[w].forced /\ body'[w].targets = body[w].targets
        /\ body[w].at = "push"
    BY <1>1, <1>3 DEF PushRefused, Body
  <2> QED
    BY <1>1, <2>1, BodyAside
<1>4. CASE PushDone(w)
  <2>1. body'[w].at = "read" /\ body'[w].targets = {}
    BY <1>1, <1>4 DEF PushDone, NoBody
  <2> QED
    BY <1>1, <2>1, BodyAside
<1> QED
  BY <1>2, <1>3, <1>4

LEMMA DeletionKeeps ==
  ASSUME ShopTypeOK, PlaceInv, DraftInv, NEW w \in Workers,
         \/ \E targets \in SUBSET DraftIds : ReadTargets(w, targets)
         \/ DeleteDrafts(w) \/ DeleteRefused(w) \/ Unmap(w)
  PROVE  DraftInv'
<1>1. /\ draft \in Seq(Draft) /\ Len(draft) \in Nat /\ DOMAIN draft = 1..Len(draft)
      /\ \A d \in DOMAIN draft : draft[d] \in Draft
      /\ body[w] \in Body /\ DOMAIN body = Workers
      /\ \A i \in Items : mapped[i] \in Nat
      /\ body[w].targets \subseteq DOMAIN draft
  BY ShopConstants DEF ShopConstants, ShopTypeOK, DraftInv, KnownDrafts
<1>2. /\ body[w].at \notin {"push", "map"} /\ UNCHANGED <<unsaved, extra>>
      /\ \A v \in Workers : v # w => body'[v] = body[v]
  BY <1>1 DEF ReadTargets, DeleteDrafts, DeleteRefused, Unmap, requestVars
<1>3. CASE \E targets \in SUBSET DraftIds : ReadTargets(w, targets)
  <2>1. PICK targets \in SUBSET DraftIds : ReadTargets(w, targets)
    BY <1>3
  <2>2. UNCHANGED <<draft, mapped>> /\ targets \subseteq DOMAIN draft
    BY <1>1, <2>1 DEF ReadTargets, MappedDrafts, DraftInv, KnownDrafts
  <2>3. /\ body'[w].at \in {"read", "delete"}
        /\ body'[w].targets \subseteq DOMAIN draft
    BY <1>1, <2>1, <2>2 DEF ReadTargets, Body
  <2> QED
    BY <1>2, <2>2, <2>3, BodyAside
<1>4. CASE DeleteRefused(w)
  <2>1. UNCHANGED <<draft, mapped>> /\ body'[w].at = "read" /\ body'[w].targets = {}
    BY <1>1, <1>4 DEF DeleteRefused, NoBody
  <2> QED
    BY <1>2, <2>1, BodyAside
<1>5. CASE DeleteDrafts(w)
  <2>1. /\ draft' = [d \in 1..Len(draft) |->
             IF d \in body[w].targets THEN [draft[d] EXCEPT !.live = FALSE] ELSE draft[d]]
        /\ UNCHANGED mapped
    BY <1>1, <1>5 DEF DeleteDrafts
  <2>2. Len(draft') = Len(draft) /\ DOMAIN draft' = DOMAIN draft
    <3>1. \A d \in 1..Len(draft) : draft'[d] \in Draft
      BY <1>1, <2>1 DEF Draft
    <3>2. draft' \in [1..Len(draft) -> Draft]
      BY <2>1, <3>1
    <3> QED
      BY <1>1, <3>2
  <2>3. \A d \in DOMAIN draft :
          /\ draft'[d].item = draft[d].item /\ (draft'[d].live => draft[d].live)
          /\ d \in body[w].targets => ~draft'[d].live
    BY <1>1, <2>1 DEF Draft
  <2>4. body'[w].at = "unmap" /\ body'[w].targets = body[w].targets
    BY <1>1, <1>5 DEF DeleteDrafts, Body
  <2> QED
    BY <1>1, <1>2, <2>1, <2>2, <2>3, <2>4, BodyAside
<1>6. CASE Unmap(w)
  <2>1. /\ UNCHANGED draft /\ body'[w].at = "read" /\ body'[w].targets = {}
        /\ body[w].at = "unmap" /\ mapped' = Remaining(w)
    BY <1>1, <1>6 DEF Unmap, NoBody
  <2>2. \A i \in Items : mapped'[i] \in {0, mapped[i]}
    BY <2>1 DEF Remaining
  <2>3. ASSUME NEW i \in Items, NEW d \in DOMAIN draft, draft[d].live, mapped[i] = d
        PROVE  mapped'[i] = d
    <3>1. d \notin body[w].targets
      BY <2>1, <2>3 DEF DraftInv, DeletionsDone
    <3> QED
      BY <2>1, <2>3, <3>1 DEF Remaining
  <2> QED
    BY <1>2, <2>1, <2>2, <2>3, BodyAside
<1> QED
  BY <1>3, <1>4, <1>5, <1>6

(***************************************************************************)
(* A draft is created, and counted if it was asked for; no other draft's   *)
(* case changes.                                                           *)
(***************************************************************************)
LEMMA CreatedFew ==
  ASSUME ShopTypeOK, DraftInv, NEW i \in Items, NewDraft(i), UNCHANGED mapped,
         NEW n, n = Len(draft) + 1,
         \A d \in DOMAIN draft :
           FreshPending(d)' = FreshPending(d) /\ AskedPending(d)' = AskedPending(d),
         \A j \in Items : Candidate(j)' => Candidate(j),
         \/ OneMore(i)
         \/ /\ UNCHANGED extra
            /\ FreshPending(n)' /\ ~AskedPending(n)'
  PROVE  \A j \in Items : OwedFew(j)'
<1>1. /\ DOMAIN draft' = DOMAIN draft \cup {n} /\ n \notin DOMAIN draft
      /\ draft'[n].item = i
      /\ \A d \in DOMAIN draft : draft'[d] = draft[d]
  <2>1. /\ DOMAIN draft = 1..Len(draft) /\ DOMAIN draft' = 1..Len(draft) + 1
        /\ n \notin DOMAIN draft /\ draft'[n] = [item |-> i, live |-> TRUE]
        /\ \A d \in DOMAIN draft : draft'[d] = draft[d]
    BY NewDraftType
  <2>2. Len(draft) \in Nat
    BY DEF ShopTypeOK
  <2> QED
    BY <2>1, <2>2
<1>2. \A j \in Items : extra'[j] = extra[j] \/ (j = i /\ extra'[i] = extra[i] + 1)
  BY DEF OneMore, ShopTypeOK
<1>3. ASSUME NEW j \in Items
      PROVE  OwedFew(j)'
  <2>1. OwedFew(j) /\ (Tight(j)' => Tight(j))
    BY DEF DraftInv, Tight
  <2>2. Owed(j)' \subseteq Owed(j) \cup {n}
    BY <1>1 DEF Owed, OwedAs
  <2>3. CASE j # i
    <3>1. Owed(j)' \subseteq Owed(j)
      BY <1>1, <2>2, <2>3 DEF Owed
    <3> QED
      BY <1>2, <2>1, <2>3, <3>1, FewStay
  <2>4. CASE j = i /\ OneMore(i)
    <3>1. extra'[i] = extra[i] + 1
      BY <2>4 DEF OneMore, ShopTypeOK
    <3> QED
      BY <2>1, <2>2, <2>4, <3>1, FewMore
  <2>5. CASE j = i /\ UNCHANGED extra /\ FreshPending(n)' /\ ~AskedPending(n)'
    <3>1. Owed(j)' \subseteq Owed(j)
      BY <2>2, <2>5 DEF Owed, OwedAs
    <3> QED
      BY <2>1, <2>5, <3>1, FewStay
  <2> QED
    BY <2>3, <2>4, <2>5
<1> QED
  BY <1>3

LEMMA CreateKeeps ==
  ASSUME ShopTypeOK, DraftInv, NEW w \in Workers, NEW i \in Items, CreateDraft(w, i)
  PROVE  DraftInv'
<1>0. PICK n \in Nat : n = Len(draft) + 1
  BY DEF ShopTypeOK
<1>1. /\ NewDraft(i) /\ body[w].at = "push" /\ i \in body[w].todo
      /\ UNCHANGED <<mapped, unsaved>>
      /\ IF i \in body[w].forced THEN OneMore(i) ELSE UNCHANGED extra
  BY DEF CreateDraft, requestVars
<1>2. /\ Len(draft') = n /\ DOMAIN draft \subseteq DOMAIN draft' /\ n \in DOMAIN draft'
      /\ n \notin DOMAIN draft /\ draft'[n].item = i
      /\ \A d \in DOMAIN draft : draft'[d] = draft[d]
  <2>1. draft'[n] = [item |-> i, live |-> TRUE]
    BY <1>0, <1>1, NewDraftType
  <2> QED
    BY <1>0, <1>1, <2>1, NewDraftType
<1>3. /\ body'[w].at = "map" /\ body'[w].new = n /\ body'[w].now = i
      /\ body'[w].todo = body[w].todo /\ body'[w].forced = body[w].forced
      /\ body'[w].targets = body[w].targets
      /\ \A v \in Workers : v # w => body'[v] = body[v]
  <2>1. /\ body' = [body EXCEPT ![w].at = "map", ![w].new = n, ![w].now = i]
        /\ DOMAIN body = Workers /\ body[w] \in Body
    BY <1>0 DEF CreateDraft, ShopTypeOK
  <2> QED
    BY <2>1 DEF Body
<1>4. /\ unsaved \subseteq DOMAIN draft /\ Len(draft) \in Nat
      /\ \A v \in Workers : body[v].at = "map" => body[v].new \in DOMAIN draft
  BY DEF ShopTypeOK, DraftInv, PushesPlaced
<1>5. KnownDrafts'
  <2>1. ASSUME NEW j \in Items
        PROVE  mapped'[j] <= Len(draft')
    <3>1. mapped[j] <= Len(draft) /\ mapped[j] \in 0..MaxDrafts /\ MaxDrafts \in Nat
      BY ShopConstants DEF ShopConstants, DraftInv, KnownDrafts, ShopTypeOK
    <3> QED
      BY <1>0, <1>1, <1>2, <1>4, <3>1
  <2>2. \A v \in Workers : body'[v].targets \subseteq DOMAIN draft'
    BY <1>2, <1>3 DEF DraftInv, KnownDrafts
  <2> QED
    BY <2>1, <2>2 DEF KnownDrafts
<1>6. PushesPlaced'
  <2> SUFFICES ASSUME NEW v \in Workers, body'[v].at = "map"
               PROVE  /\ body'[v].new \in DOMAIN draft' /\ body'[v].new \notin unsaved'
                      /\ draft'[body'[v].new].item = body'[v].now
                      /\ body'[v].now \in body'[v].todo
    BY DEF PushesPlaced
  <2>1. CASE v = w
    BY <1>1, <1>2, <1>3, <1>4, <2>1
  <2>2. CASE v # w
    BY <1>1, <1>2, <1>3, <2>2 DEF DraftInv, PushesPlaced
  <2> QED
    BY <2>1, <2>2
<1>7. DeletionsDone'
  <2> SUFFICES ASSUME NEW v \in Workers, body'[v].at = "unmap",
                      NEW d \in DOMAIN draft', d \in body'[v].targets
               PROVE  ~draft'[d].live
    BY DEF DeletionsDone
  <2>1. v # w /\ body'[v] = body[v]
    BY <1>3
  <2>2. d \in DOMAIN draft
    BY <2>1 DEF DraftInv, KnownDrafts
  <2> QED
    BY <1>2, <2>1, <2>2 DEF DraftInv, DeletionsDone
<1>8. \A j \in Items : OwedFew(j)'
  <2>1. \A d \in DOMAIN draft :
          FreshPending(d)' = FreshPending(d) /\ AskedPending(d)' = AskedPending(d)
    BY <1>1, <1>2, <1>3 DEF FreshPending, AskedPending, Creating
  <2>2. \A j \in Items : Candidate(j)' => Candidate(j)
    BY <1>1, <1>3 DEF Candidate
  <2>3. CASE i \in body[w].forced
    BY <1>0, <1>1, <2>1, <2>2, <2>3, CreatedFew
  <2>4. CASE i \notin body[w].forced
    <3>1. FreshPending(n)'
      BY <1>3, <2>4 DEF FreshPending, Creating
    <3>2. ~AskedPending(n)'
      BY <1>1, <1>2, <1>3, <1>4, <2>4 DEF AskedPending, Creating
    <3> QED
      BY <1>0, <1>1, <2>1, <2>2, <2>4, <3>1, <3>2, CreatedFew
  <2> QED
    BY <2>3, <2>4
<1> QED
  BY <1>5, <1>6, <1>7, <1>8 DEF DraftInv

(***************************************************************************)
(* A draft is mapped, over the product's mapping if it has one.            *)
(***************************************************************************)
LEMMA MappedOver ==
  ASSUME ShopTypeOK, DraftInv, NEW e \in DOMAIN draft, NEW i \in Items, draft[e].item = i,
         UNCHANGED draft, mapped' = [mapped EXCEPT ![i] = e],
         \A d \in DOMAIN draft :
           /\ AskedPending(d)' => AskedPending(d)
           /\ d # e => FreshPending(d)' = FreshPending(d),
         \A j \in Items : Candidate(j)' => Candidate(j)
  PROVE  /\ Owed(i)' \subseteq Owed(i) \cup {mapped[i]}
         /\ mapped[i] = 0 => Owed(i)' \subseteq Owed(i)
         /\ ~AskedPending(e)' => e \notin Owed(i)'
         /\ Tight(i)' => Tight(i) \/ mapped[i] = 0
         /\ \A j \in Items : j # i /\ extra'[j] = extra[j] => OwedFew(j)'
<1>1. /\ mapped'[i] = e /\ \A j \in Items : j # i => mapped'[j] = mapped[j]
      /\ \A d \in DOMAIN draft : d # 0
  BY DEF ShopTypeOK
<1>2. ASSUME NEW d \in Owed(i)', d # mapped[i]
      PROVE  d \in Owed(i)
  BY <1>1, <1>2 DEF Owed, OwedAs
<1>3. ~AskedPending(e)' => e \notin Owed(i)'
  BY <1>1 DEF Owed, OwedAs
<1>4. mapped[i] = 0 => Owed(i)' \subseteq Owed(i)
  BY <1>1, <1>2 DEF Owed
<1>5. Tight(i)' => Tight(i) \/ mapped[i] = 0
  BY DEF Tight
<1>6. ASSUME NEW j \in Items, j # i, extra'[j] = extra[j]
      PROVE  OwedFew(j)'
  <2>1. Owed(j)' \subseteq Owed(j)
    BY <1>1, <1>6 DEF Owed, OwedAs
  <2>2. Tight(j)' => Tight(j)
    BY <1>1, <1>6 DEF Tight
  <2> QED
    BY <1>6, <2>1, <2>2, FewStay DEF DraftInv
<1> QED
  BY <1>2, <1>3, <1>4, <1>5, <1>6

LEMMA SaveKeeps ==
  ASSUME ShopTypeOK, LocksCounted, overruns["push"] = 0, PlaceInv, DraftInv,
         NEW w \in Workers, SaveMapping(w)
  PROVE  DraftInv'
<1>0. PICK i \in Items, e \in 0..MaxDrafts : i = body[w].now /\ e = body[w].new
  BY DEF ShopTypeOK, Body
<1>1. /\ body[w].at = "map" /\ UNCHANGED <<draft, unsaved, extra>>
      /\ body[w] \in Body /\ DOMAIN body = Workers /\ i \in Items
      /\ mapped' = [mapped EXCEPT ![i] = e] /\ mapped \in [Items -> 0..MaxDrafts]
  BY <1>0 DEF SaveMapping, requestVars, ShopTypeOK, Body
<1>2. /\ e \in DOMAIN draft /\ e \notin unsaved /\ draft[e].item = i
      /\ i \in body[w].todo
  BY <1>0, <1>1 DEF DraftInv, PushesPlaced
<1>3. /\ body'[w].at = "push" /\ body'[w].todo = body[w].todo \ {i}
      /\ body'[w].forced = body[w].forced /\ body'[w].targets = body[w].targets
      /\ \A v \in Workers : v # w => body'[v] = body[v]
  BY <1>0, <1>1 DEF SaveMapping, Body
<1>4. \A v \in Workers : v # w => body[v].at \notin {"push", "map"}
  BY <1>1, OnePush
<1>5. KnownDrafts'
  <2>1. ASSUME NEW j \in Items
        PROVE  mapped'[j] <= Len(draft')
    <3>1. e <= Len(draft) /\ mapped[j] <= Len(draft)
      BY <1>2 DEF ShopTypeOK, DraftInv, KnownDrafts
    <3> QED
      BY <1>1, <3>1
  <2>2. \A v \in Workers : body'[v].targets \subseteq DOMAIN draft'
    BY <1>1, <1>3 DEF DraftInv, KnownDrafts
  <2> QED
    BY <2>1, <2>2 DEF KnownDrafts
<1>6. PushesPlaced'
  BY <1>3, <1>4 DEF PushesPlaced
<1>7. DeletionsDone'
  BY <1>1, <1>3 DEF DraftInv, DeletionsDone
<1>8. \A j \in Items : OwedFew(j)'
  <2>1. /\ \A d \in DOMAIN draft :
             /\ AskedPending(d)' => AskedPending(d)
             /\ d # e => FreshPending(d)' = FreshPending(d)
        /\ ~AskedPending(e)' /\ ~Candidate(i)'
        /\ \A j \in Items : Candidate(j)' => Candidate(j)
    <3>1. \A v \in Workers, d \in DOMAIN draft : ~Creating(v, d)'
      BY <1>3, <1>4 DEF Creating
    <3>2. \A v \in Workers, d \in DOMAIN draft : Creating(v, d) => d = e
      BY <1>0, <1>4 DEF Creating
    <3>3. ~Candidate(i)' /\ \A j \in Items : Candidate(j)' => Candidate(j)
      BY <1>1, <1>3, <1>4 DEF Candidate
    <3> QED
      BY <1>1, <1>2, <3>1, <3>2, <3>3 DEF AskedPending, FreshPending
  <2>2. /\ Owed(i)' \subseteq Owed(i) \cup {mapped[i]}
        /\ mapped[i] = 0 => Owed(i)' \subseteq Owed(i)
        /\ e \notin Owed(i)'
        /\ \A j \in Items : j # i => OwedFew(j)'
    BY <1>1, <1>2, <2>1, MappedOver
  <2>3. OwedFew(i) /\ extra'[i] = extra[i] /\ ~Tight(i)'
    BY <1>1, <2>1 DEF DraftInv, Tight
  <2>4. CASE i \in body[w].forced
    <3>1. e \in Owed(i)
      BY <1>0, <1>1, <1>2, <2>4 DEF Owed, OwedAs, AskedPending, Creating
    <3>2. Owed(i)' \subseteq (Owed(i) \ {e}) \cup {mapped[i]}
      BY <2>2
    <3>3. OwedFew(i)'
      BY <1>1, <2>3, <3>1, <3>2, FewSwap
    <3> QED
      BY <2>2, <3>3
  <2>5. CASE i \notin body[w].forced
    <3>1. Candidate(i)
      BY <1>1, <1>2, <2>5 DEF Candidate
    <3>2. Tight(i) \/ Owed(i)' \subseteq Owed(i)
      BY <2>2, <3>1 DEF Tight
    <3>3. OwedFew(i)'
      BY <1>1, <2>2, <2>3, <3>2, FewOverwritten
    <3> QED
      BY <2>2, <3>3
  <2> QED
    BY <2>4, <2>5
<1> QED
  BY <1>5, <1>6, <1>7, <1>8 DEF DraftInv

(***************************************************************************)
(* The requests.                                                           *)
(***************************************************************************)
LEMMA RequestKeeps ==
  ASSUME ShopTypeOK, DraftInv, ShopRequest
  PROVE  DraftInv'
<1>0. UNCHANGED body
  BY DEF ShopRequest, PushOne, SaveOne, FetchDrafts, MapFetched
<1>1. /\ UNCHANGED body
      /\ unsaved \subseteq DOMAIN draft /\ fetched \subseteq DOMAIN draft
      /\ draft \in Seq(Draft) /\ Len(draft) \in Nat /\ DOMAIN draft = 1..Len(draft)
      /\ \A d \in DOMAIN draft : draft[d].item \in Items
      /\ mapped \in [Items -> 0..MaxDrafts] /\ MaxDrafts \in Nat
  BY <1>0, DraftItems, ShopConstants DEF ShopTypeOK, ShopConstants
<1>2. \A j \in Items : Candidate(j)' => Candidate(j)
  BY <1>1 DEF Candidate
<1>3. ASSUME NEW i \in Items, PushOne(i)
      PROVE  DraftInv'
  <2>0. PICK n \in Nat : n = Len(draft) + 1
    BY <1>1
  <2>1. /\ NewDraft(i) /\ OneMore(i) /\ UNCHANGED mapped
        /\ unsaved' = unsaved \cup {n}
    BY <1>3, <2>0 DEF PushOne
  <2>2. /\ Len(draft') = n /\ DOMAIN draft \subseteq DOMAIN draft' /\ n \notin DOMAIN draft
        /\ \A d \in DOMAIN draft : draft'[d] = draft[d]
    BY <2>0, <2>1, NewDraftType
  <2>3. \A j \in Items : mapped'[j] <= Len(draft')
    BY <1>1, <2>0, <2>1, <2>2 DEF DraftInv, KnownDrafts
  <2>4. KnownDrafts'
    BY <1>1, <2>2, <2>3 DEF DraftInv, KnownDrafts
  <2>5. PushesPlaced'
    BY <1>1, <2>1, <2>2 DEF DraftInv, PushesPlaced
  <2>6. DeletionsDone'
    <3> SUFFICES ASSUME NEW v \in Workers, body'[v].at = "unmap",
                        NEW d \in DOMAIN draft', d \in body'[v].targets
                 PROVE  ~draft'[d].live
      BY DEF DeletionsDone
    <3>1. d \in DOMAIN draft
      BY <1>1 DEF DraftInv, KnownDrafts
    <3> QED
      BY <1>1, <2>2, <3>1 DEF DraftInv, DeletionsDone
  <2>7. \A d \in DOMAIN draft :
          FreshPending(d)' = FreshPending(d) /\ AskedPending(d)' = AskedPending(d)
    BY <1>1, <2>1, <2>2 DEF FreshPending, AskedPending, Creating
  <2>8. \A j \in Items : OwedFew(j)'
    BY <1>2, <2>0, <2>1, <2>7, CreatedFew
  <2> QED
    BY <2>4, <2>5, <2>6, <2>8 DEF DraftInv
<1>4. ASSUME NEW e \in DOMAIN draft, MapTo(e), UNCHANGED draft, unsaved' \subseteq unsaved
      PROVE  KnownDrafts' /\ PushesPlaced' /\ DeletionsDone'
  <2>1. \A j \in Items : mapped'[j] <= Len(draft')
    BY <1>1, <1>4 DEF MapTo, DraftInv, KnownDrafts
  <2>2. KnownDrafts'
    BY <1>1, <1>4, <2>1 DEF DraftInv, KnownDrafts
  <2> QED
    BY <1>1, <1>4, <2>2 DEF DraftInv, PushesPlaced, DeletionsDone
<1>5. ASSUME NEW e \in unsaved, SaveOne(e)
      PROVE  DraftInv'
  <2>0. PICK i \in Items : draft[e].item = i
    BY <1>1, <1>5
  <2>1. /\ e \in DOMAIN draft /\ i \in Items /\ draft[e].item = i
        /\ UNCHANGED <<draft, extra>> /\ unsaved' = unsaved \ {e}
        /\ MapTo(e) /\ mapped' = [mapped EXCEPT ![i] = e]
    BY <1>1, <1>5, <2>0 DEF SaveOne, MapTo
  <2>2. \A v \in Workers : ~Creating(v, e)
    BY DEF Creating, DraftInv, PushesPlaced
  <2>3. /\ \A d \in DOMAIN draft :
             /\ AskedPending(d)' => AskedPending(d)
             /\ d # e => FreshPending(d)' = FreshPending(d)
        /\ ~AskedPending(e)'
    BY <1>1, <2>1, <2>2 DEF AskedPending, FreshPending, Creating
  <2>4. /\ Owed(i)' \subseteq Owed(i) \cup {mapped[i]}
        /\ mapped[i] = 0 => Owed(i)' \subseteq Owed(i)
        /\ e \notin Owed(i)'
        /\ Tight(i)' => Tight(i) \/ mapped[i] = 0
        /\ \A j \in Items : j # i => OwedFew(j)'
    BY <1>2, <2>1, <2>3, MappedOver
  <2>5. e \in Owed(i)
    BY <1>5, <2>1 DEF Owed, OwedAs, AskedPending
  <2>6. OwedFew(i)'
    <3>1. OwedFew(i) /\ extra'[i] = extra[i]
      BY <2>1 DEF DraftInv
    <3>2. /\ Owed(i)' \subseteq (Owed(i) \ {e}) \cup {mapped[i]}
          /\ Tight(i)' => Tight(i) \/ Owed(i)' \subseteq Owed(i) \ {e}
      BY <2>4
    <3> QED
      BY <2>1, <2>5, <3>1, <3>2, FewSwap
  <2>7. KnownDrafts' /\ PushesPlaced' /\ DeletionsDone'
    BY <1>4, <2>1
  <2> QED
    BY <2>4, <2>6, <2>7 DEF DraftInv
<1>6. ASSUME NEW e \in fetched, MapFetched(e)
      PROVE  DraftInv'
  <2>0. PICK i \in Items : draft[e].item = i
    BY <1>1, <1>6
  <2>1. /\ e \in DOMAIN draft /\ i \in Items /\ draft[e].item = i
        /\ UNCHANGED <<draft, unsaved>> /\ OneMore(i)
        /\ MapTo(e) /\ mapped' = [mapped EXCEPT ![i] = e]
    BY <1>1, <1>6, <2>0 DEF MapFetched, MapTo
  <2>2. \A d \in DOMAIN draft :
          AskedPending(d)' = AskedPending(d) /\ FreshPending(d)' = FreshPending(d)
    BY <1>1, <2>1 DEF AskedPending, FreshPending, Creating
  <2>3. /\ extra'[i] = extra[i] + 1
        /\ \A j \in Items : j # i => extra'[j] = extra[j]
    BY <2>1 DEF OneMore, ShopTypeOK
  <2>4. /\ Owed(i)' \subseteq Owed(i) \cup {mapped[i]}
        /\ mapped[i] = 0 => Owed(i)' \subseteq Owed(i)
        /\ Tight(i)' => Tight(i) \/ mapped[i] = 0
        /\ \A j \in Items : j # i => OwedFew(j)'
    BY <1>2, <2>1, <2>2, <2>3, MappedOver
  <2>5. OwedFew(i)'
    <3>1. OwedFew(i)
      BY <2>1 DEF DraftInv
    <3> QED
      BY <2>1, <2>3, <2>4, <3>1, FewMore
  <2>6. KnownDrafts' /\ PushesPlaced' /\ DeletionsDone'
    BY <1>4, <2>1
  <2> QED
    BY <2>4, <2>5, <2>6 DEF DraftInv
<1>7. CASE FetchDrafts
  BY <1>7, DraftAround DEF FetchDrafts
<1> QED
  BY <1>3, <1>5, <1>6, <1>7 DEF ShopRequest

LEMMA DraftInvStep ==
  ASSUME ShopTypeOK, LocksCounted, overruns["push"] = 0, PlaceInv, DraftInv, QuietStep
  PROVE  PlaceInv' /\ DraftInv'
<1>1. ASSUME NEW w \in Workers, AroundBody(w)
      PROVE  PlaceInv' /\ DraftInv'
  BY <1>1, PlaceAround, DraftAround DEF AroundBody, requestVars
<1>2. ASSUME NEW w \in Workers, BodyStep(w)
      PROVE  PlaceInv' /\ DraftInv'
  BY <1>2, PlaceBody, CreateKeeps, PushKeeps, SaveKeeps, DeletionKeeps DEF BodyStep
<1>3. ASSUME UNCHANGED <<worker, body>>
      PROVE  PlaceInv'
  BY <1>3 DEF PlaceInv, BodiesLocked, BodiesInPlace, InBody
<1>4. CASE ShopRequest
  <2>1. UNCHANGED <<worker, body>>
    BY <1>4 DEF ShopRequest, PushOne, SaveOne, FetchDrafts, MapFetched, taskVars
  <2> QED
    BY <1>3, <1>4, <2>1, RequestKeeps
<1>5. CASE LockTime
  <2>1. UNCHANGED <<worker, draft, mapped, body, unsaved, extra>>
    BY <1>5 DEF LockTime, LocksAge, requestVars
  <2> QED
    BY <1>3, <2>1, DraftAround
<1> QED
  BY <1>1, <1>2, <1>4, <1>5 DEF QuietStep

-----------------------------------------------------------------------------
(* The composition *)

ShopStep == QuietStep \/ FaultStep

LEMMA WorkStays ==
  ASSUME BackgroundTypeOK, [Next]_vars
  PROVE  work' = work
BY DEF Next, vars, Request, Supervise, Collect, LaunchFails, ProcessFails, RunTask,
       TaskFails, Clock, AskShop

(***************************************************************************)
(* The collectors' part of a step.                                         *)
(***************************************************************************)
LEMMA StepOfCollectors ==
  ASSUME BackgroundTypeOK, [Next]_vars
  PROVE  [HAStep]_haVars
<1>1. /\ work.threads \subseteq Servers /\ work.streams \subseteq Streams
  BY DEF BackgroundTypeOK, Workload
<1>2. ASSUME NEW h \in work.threads, Request(h) \/ Supervise(h) \/ LaunchFails(h)
      PROVE  HANext
  BY <1>1, <1>2 DEF Request, Supervise, LaunchFails, HANext
<1>3. ASSUME NEW c \in Pids, Collect(c)
      PROVE  HANext
  BY <1>3 DEF Collect, HANext
<1>4. CASE ProcessFails
  BY <1>4 DEF ProcessFails, HANext, HAStep
<1>5. CASE Clock
  BY <1>5 DEF Clock, LeaseAges, HAStep
<1>6. ASSUME NEW w \in work.workers, RunTask(w) \/ TaskFails(w)
      PROVE  UNCHANGED haVars
  BY <1>6 DEF RunTask, TaskFails
<1>7. CASE AskShop
  BY <1>7 DEF AskShop
<1> QED
  BY <1>2, <1>3, <1>4, <1>5, <1>6, <1>7 DEF Next, vars, HAStep

(***************************************************************************)
(* The tasks' part of a step.                                              *)
(***************************************************************************)
LEMMA StepOfTasks ==
  ASSUME BackgroundTypeOK, [Next]_vars
  PROVE  /\ ShopStep \/ UNCHANGED shopVars
         /\ TasksUndisturbed => QuietStep \/ UNCHANGED shopVars
<1>1. work.workers \subseteq Workers
  BY DEF BackgroundTypeOK, Workload
<1>2. ASSUME NEW w \in work.workers, RunTask(w)
      PROVE  QuietStep
  BY <1>1, <1>2 DEF RunTask, QuietStep
<1>3. ASSUME NEW w \in work.workers, TaskFails(w)
      PROVE  FaultStep /\ ~TasksUndisturbed
  BY <1>1, <1>3 DEF TaskFails, FaultStep, TasksUndisturbed
<1>4. CASE Clock \/ AskShop
  BY <1>4 DEF Clock, AskShop, LockTime, QuietStep, ShopStep
<1>5. \/ UNCHANGED shopVars
      \/ Clock \/ AskShop
      \/ \E w \in work.workers : RunTask(w) \/ TaskFails(w)
  BY DEF Next, vars, Request, Supervise, Collect, LaunchFails, ProcessFails
<1> QED
  BY <1>2, <1>3, <1>4, <1>5 DEF ShopStep

-----------------------------------------------------------------------------
(* Types *)

LEMMA BackgroundTypeInit == Init => BackgroundTypeOK
<1> SUFFICES ASSUME Init PROVE BackgroundTypeOK
  OBVIOUS
<1>1. HATypeOK
  BY HATypeInit DEF Init
<1>2. TaskTypeOK
  <2>1. 0 \in 0..Cardinality(Workers)
    BY TaskConstants, FS_CardinalityType DEF TaskConstants
  <2> QED
    BY <2>1, ShopIdleValues DEF Init, ShopInit, TaskInit, TaskTypeOK
<1>3. /\ draft \in Seq(Draft) /\ Len(draft) = 0
  BY DEF Init, ShopInit
<1>4. /\ mapped \in [Items -> 0..MaxDrafts] /\ body \in [Workers -> Body]
      /\ extra \in [Items -> 0..MaxDrafts]
      /\ unsaved \subseteq DOMAIN draft /\ fetched \subseteq DOMAIN draft
  <2>1. 0 \in 0..MaxDrafts
    BY ShopConstants DEF ShopConstants
  <2> QED
    BY <2>1, ShopIdleValues DEF Init, ShopInit
<1>5. ShopTypeOK
  BY <1>2, <1>3, <1>4, ShopConstants DEF ShopConstants, ShopTypeOK
<1> QED
  BY <1>1, <1>5, BackgroundConstants DEF Init, BackgroundConstants, BackgroundTypeOK

LEMMA BackgroundTypeStep == BackgroundTypeOK /\ [Next]_vars => BackgroundTypeOK'
<1> SUFFICES ASSUME BackgroundTypeOK, [Next]_vars
             PROVE  BackgroundTypeOK'
  OBVIOUS
<1>1. HATypeOK'
  BY StepOfCollectors, HATypeStep DEF BackgroundTypeOK
<1>2. ShopTypeOK'
  <2>1. CASE ShopStep
    BY <2>1, ShopTypeStep DEF BackgroundTypeOK, ShopStep
  <2>2. CASE UNCHANGED shopVars
    BY <2>2 DEF BackgroundTypeOK, shopVars, taskVars, requestVars, ShopTypeOK, TaskTypeOK
  <2> QED
    BY <2>1, <2>2, StepOfTasks
<1>3. work' \in Workload
  BY WorkStays DEF BackgroundTypeOK
<1> QED
  BY <1>1, <1>2, <1>3 DEF BackgroundTypeOK

(***************************************************************************)
(* The collectors, the locks, the drafts and what the tasks know of them   *)
(* stay of their types, whatever fails.                                    *)
(***************************************************************************)
THEOREM BackgroundTyped == Spec => []BackgroundTypeOK
BY BackgroundTypeInit, BackgroundTypeStep, PTL DEF Spec

-----------------------------------------------------------------------------
(* The collectors *)

(***************************************************************************)
(* OneCollectorWrites, beside the tasks and on their clock: of two         *)
(* collectors of one role in an iteration one has outlived its lease, as   *)
(* long as no stop removed the lease of a running one                      *)
(* (_refresh_write_lease).                                                 *)
(***************************************************************************)
THEOREM OneWriter == Spec => []OneWriterPerRole
<1>1. Init => WriterInv
  BY WriterInit DEF Init
<1>2. BackgroundTypeOK /\ BackgroundTypeOK' /\ WriterInv /\ [Next]_vars => WriterInv'
  BY StepOfCollectors, WriterStep DEF BackgroundTypeOK
<1>3. WriterInv => OneWriterPerRole
  BY DEF WriterInv
<1> QED
  BY BackgroundTyped, <1>1, <1>2, <1>3, PTL DEF Spec

(***************************************************************************)
(* KnownAt, of the only request thread there is.                           *)
(***************************************************************************)
OnlyThread(h) ==
  work.threads = {h} /\ work.faults \cap {"start", "server"} = {}

KnownInv == \A h \in Servers : OnlyThread(h) => KnownAt(server[h])

LEMMA KnownInit == Init => KnownInv
<1> SUFFICES ASSUME Init PROVE KnownInv
  OBVIOUS
<1>1. \A h \in Servers : server[h].at = "idle"
  BY DEF Init, HAInit, IdleThread
<1>2. AllIn(Noted(file))
  BY DEF Init, HAInit, AllIn, Alive
<1> QED
  BY <1>1, <1>2 DEF KnownInv, KnownAt

LEMMA KnownStep ==
  ASSUME BackgroundTypeOK, BackgroundTypeOK', KnownInv, [Next]_vars
  PROVE  KnownInv'
<1> SUFFICES ASSUME NEW h \in Servers, OnlyThread(h)'
             PROVE  KnownAt(server[h])'
  BY DEF KnownInv
<1>1. OnlyThread(h) /\ KnownAt(server[h])
  BY WorkStays DEF OnlyThread, KnownInv
<1>2. HATypeOK /\ HATypeOK' /\ work.streams \subseteq Streams
  BY DEF BackgroundTypeOK, Workload
<1>3. ASSUME NEW g \in work.threads, Request(g) \/ Supervise(g) \/ LaunchFails(g)
      PROVE  KnownAt(server[h])'
  <2>1. g = h /\ "start" \notin work.faults
    BY <1>1, <1>3 DEF OnlyThread
  <2>2. \/ RequestStatus(h) \/ RequestStop(h)
        \/ \E s \in Streams : RequestStart(h, s)
        \/ ServerStep(h) \/ FailRelaunch(h)
    BY <1>2, <1>3, <2>1 DEF Request, Supervise, LaunchFails
  <2> QED
    BY <1>1, <1>2, <2>2, ServerKnown
<1>4. CASE (\E c \in Pids : Collect(c)) \/ ProcessFails \/ Clock
  <2>1. "server" \notin work.faults
    BY <1>1 DEF OnlyThread
  <2>2. (\E c \in Pids : CollectorStep(c) \/ Exit(c)) \/ LeaseAges
    BY <1>4, <2>1 DEF Collect, ProcessFails, Clock, LeaseAges
  <2> QED
    BY <1>1, <1>2, <2>2, NoneLaunched, OthersKnown
<1>5. CASE UNCHANGED haVars
  BY <1>1, <1>5, OthersKnown DEF haVars, Alive
<1>6. \/ UNCHANGED haVars
      \/ (\E c \in Pids : Collect(c)) \/ ProcessFails \/ Clock
      \/ \E g \in work.threads : Request(g) \/ Supervise(g) \/ LaunchFails(g)
  BY DEF Next, vars, RunTask, TaskFails, AskShop
<1> QED
  BY <1>3, <1>4, <1>5, <1>6

(***************************************************************************)
(* With one request thread that is not cut off, every collector that runs  *)
(* is named by the state file between requests, whichever processes die    *)
(* and relaunches fail (live_collector_status, start_live_collector,       *)
(* stop_live_collector).                                                   *)
(***************************************************************************)
THEOREM CollectorsStayKnown == Spec => []SerialCollectorsKnown
<1>1. BackgroundTypeOK /\ KnownInv => SerialCollectorsKnown
  <2> SUFFICES ASSUME BackgroundTypeOK, KnownInv,
                      Cardinality(work.threads) = 1,
                      work.faults \cap {"start", "server"} = {},
                      \A h \in Servers : server[h].at = "idle",
                      NEW c \in Pids, Alive(c)
               PROVE  c \in {file.pid, file.standby}
    BY DEF SerialCollectorsKnown, CollectorsKnown
  <2>1. work.threads \subseteq Servers
    BY DEF BackgroundTypeOK, Workload
  <2>2. IsFiniteSet(work.threads)
    BY <2>1, HAConstants, FS_Subset DEF HAConstants
  <2>3. PICK h : work.threads = {h}
    BY <2>2, FS_Singleton
  <2>4. h \in Servers /\ KnownAt(server[h])
    BY <2>1, <2>3 DEF KnownInv, OnlyThread
  <2> QED
    BY <2>4 DEF KnownAt, AllIn, Noted
<1> QED
  BY BackgroundTyped, KnownInit, KnownStep, <1>1, PTL DEF Spec

-----------------------------------------------------------------------------
(* The tasks *)

LEMMA LocksCountedAlways == Spec => []LocksCounted
<1>1. Init => LocksCounted
  BY LocksCountedInit DEF Init
<1>2. BackgroundTypeOK /\ LocksCounted /\ [Next]_vars => LocksCounted'
  <2> SUFFICES ASSUME BackgroundTypeOK, LocksCounted, [Next]_vars
               PROVE  LocksCounted'
    OBVIOUS
  <2>1. CASE ShopStep
    BY <2>1, LocksCountedStep DEF BackgroundTypeOK, ShopStep
  <2>2. CASE UNCHANGED shopVars
    BY <2>2
    DEF shopVars, taskVars, LocksCounted, PlacesLocked, BodiesCounted, LockedBodies, Locked
  <2> QED
    BY <2>1, <2>2, StepOfTasks
<1> QED
  BY BackgroundTyped, <1>1, <1>2, PTL DEF Spec

(***************************************************************************)
(* Of one task's bodies under its lock, with any number of workers,        *)
(* deliveries, failures and expiries, there is at most one, and one more   *)
(* for each time the lock has expired under a running body, although a     *)
(* worker that has lost its lock releases that of the next one             *)
(* (run_tracked_task, held_lock).                                          *)
(***************************************************************************)
THEOREM LockedBodiesCounted == Spec => []LockedBodiesBounded
<1>1. BackgroundTypeOK /\ LocksCounted => LockedBodiesBounded
  BY LocksCountedBounded DEF BackgroundTypeOK
<1> QED
  BY BackgroundTyped, LocksCountedAlways, <1>1, PTL

LEMMA OverrunsStay ==
  ASSUME BackgroundTypeOK, [Next]_vars, overruns'["push"] = 0
  PROVE  overruns["push"] = 0
<1>1. "push" \in Tasks /\ Cardinality(Workers) \in Nat /\ overruns["push"] \in Nat
  BY ShopConstants, TaskConstants, FS_CardinalityType
  DEF ShopConstants, TaskConstants, BackgroundTypeOK, ShopTypeOK, TaskTypeOK
<1>2. CASE LocksAge
  BY <1>1, <1>2 DEF LocksAge
<1>3. CASE UNCHANGED overruns
  BY <1>3, SMTT(30)
<1>4. ASSUME NEW w \in Workers, RunTask(w)
      PROVE  UNCHANGED overruns
  BY <1>4 DEF RunTask, AroundBody, LockStep, Acquire, Release, Deliver, BodyStep,
     ReadMaps, SaveMapping, PushDone, CreateDraft, PushRefused, ReadTargets,
     DeleteDrafts, DeleteRefused, Unmap, taskVars
<1>5. ASSUME NEW w \in Workers, TaskFails(w)
      PROVE  UNCHANGED overruns
  BY <1>5 DEF TaskFails, Raise, DieInTask, WorkerDies, RedisFails, AcquireRaises,
     ReleaseRaises, MappingLost, OneLost, taskVars
<1>6. CASE AskShop
  BY <1>6 DEF AskShop, ShopRequest, PushOne, SaveOne, FetchDrafts, MapFetched, taskVars
<1>7. \/ UNCHANGED shopVars \/ Clock \/ AskShop
      \/ \E w \in Workers : RunTask(w) \/ TaskFails(w)
  BY DEF Next, vars, Request, Supervise, Collect, LaunchFails, ProcessFails,
         BackgroundTypeOK, Workload
<1> QED
  BY <1>2, <1>3, <1>4, <1>5, <1>6, <1>7 DEF Clock, shopVars, taskVars

LEMMA DraftInvAlways == Spec => [](TasksUndisturbed => PlaceInv /\ DraftInv)
<1> DEFINE Undisturbed == TasksUndisturbed => PlaceInv /\ DraftInv
<1>1. Init => Undisturbed
  BY DraftInvInit DEF Init
<1>2. BackgroundTypeOK /\ LocksCounted /\ Undisturbed /\ [Next]_vars => Undisturbed'
  <2> SUFFICES ASSUME BackgroundTypeOK, LocksCounted, Undisturbed, [Next]_vars,
                      TasksUndisturbed'
               PROVE  PlaceInv' /\ DraftInv'
    OBVIOUS
  <2>1. TasksUndisturbed /\ overruns["push"] = 0
    BY WorkStays, OverrunsStay DEF TasksUndisturbed
  <2>2. PlaceInv /\ DraftInv
    BY <2>1
  <2>3. CASE QuietStep
    BY <2>1, <2>2, <2>3, DraftInvStep DEF BackgroundTypeOK
  <2>4. CASE UNCHANGED shopVars
    <3>1. UNCHANGED <<worker, draft, mapped, body, unsaved, extra>>
      BY <2>4 DEF shopVars, taskVars, requestVars
    <3> QED
      BY <2>2, <3>1, DraftAround DEF PlaceInv, BodiesLocked, BodiesInPlace, InBody
  <2> QED
    BY <2>1, <2>3, <2>4, StepOfTasks
<1> QED
  BY BackgroundTyped, LocksCountedAlways, <1>1, <1>2, PTL DEF Spec

(***************************************************************************)
(* When no call, worker or Redis fails and no push outlives its lock, a    *)
(* product has one draft in the shop and at most one more for each push by *)
(* name or by force and each mapping by an enrichment, however often the   *)
(* bulk tasks are queued and whatever they cross                           *)
(* (push_missing_image_inventory_to_tiktok_drafts).                        *)
(***************************************************************************)
THEOREM OneDraft == Spec => []OneDraftUndisturbed
<1>1. BackgroundTypeOK /\ LocksCounted /\ (TasksUndisturbed => PlaceInv /\ DraftInv)
        => OneDraftUndisturbed
  BY LiveAccounted DEF BackgroundTypeOK, OneDraftUndisturbed, TasksUndisturbed
<1> QED
  BY BackgroundTyped, LocksCountedAlways, DraftInvAlways, <1>1, PTL

(***************************************************************************)
(* Nor is a draft in the shop then without a mapping, but for one of each  *)
(* of these pushes and enrichments, whichever way a deletion and a push    *)
(* cross (delete_tiktok_products, upsert_tiktok_product_map).              *)
(***************************************************************************)
THEOREM DraftsMapped == Spec => []DraftsMappedUndisturbed
<1>1. BackgroundTypeOK /\ (TasksUndisturbed => PlaceInv /\ DraftInv)
        => DraftsMappedUndisturbed
  BY StrayAccounted DEF BackgroundTypeOK, DraftsMappedUndisturbed
<1> QED
  BY BackgroundTyped, DraftInvAlways, <1>1, PTL
=============================================================================
