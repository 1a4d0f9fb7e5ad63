---------------------------- MODULE CollectorHA ----------------------------
(***************************************************************************)
(* The collectors of a live show and the server that supervises them.  An  *)
(* active and a standby process each poll the page; before it writes, a    *)
(* collector refreshes the write lease, a file all of them share.  The     *)
(* server's request threads launch, watch and stop the processes by way of *)
(* a second file, in which the last launched pids are noted.               *)
(***************************************************************************)
EXTENDS Integers, FiniteSets

CONSTANTS
  MaxPid,    \* bound: collectors ever launched; pids are given out in order
  Servers,   \* request threads of the server process
  Streams,   \* the stream URLs a show may be started with
  NoStream,
  Ttl        \* the lease's time to live, in ticks

VARIABLES
  proc,      \* pid -> the process
  launched,  \* pids given out so far
  file,      \* the collector state file
  lease,     \* the lease file; owner 0 when it is not there
  server,    \* request thread -> where it is and what it has read
  leaseCut   \* the lease was removed while a collector was running

haVars == <<proc, launched, file, lease, server, leaseCut>>

-----------------------------------------------------------------------------
(* Types *)

Pids == 1..MaxPid

Roles == {"active", "standby"}

(***************************************************************************)
(* life: a process whose parent has not waited for it stays a zombie.      *)
(* busy: 0 between two iterations; in an iteration, one more than the      *)
(* ticks it has lasted, up to Overdue, when it has outlived the lease it   *)
(* began under.                                                            *)
(***************************************************************************)
Overdue == Ttl + 2

Process ==
  [role : Roles, life : {"unborn", "alive", "zombie", "gone"},
   child : BOOLEAN, busy : 0..Overdue]

StateFile ==
  [pid : 0..MaxPid, standby : 0..MaxPid, url : Streams \cup {NoStream},
   running : BOOLEAN, stopped : BOOLEAN]

Lease == [owner : 0..MaxPid, age : 0..Ttl + 1]

Places ==
  {"idle", "status", "clear", "relaunch", "relaunchStandby", "save", "decide",
   "kill", "forget", "unlease", "start", "startStandby", "startSave"}

(***************************************************************************)
(* state: the thread's copy of the state file; active, standby: which of   *)
(* the two it found running; after: what follows the status call; stream:  *)
(* the URL of a start.                                                     *)
(***************************************************************************)
Thread ==
  [at : Places, state : StateFile, active : BOOLEAN, standby : BOOLEAN,
   changed : BOOLEAN, after : {"reply", "decide", "start"},
   stream : Streams \cup {NoStream}]

ASSUME HAConstants ==
  /\ MaxPid \in Nat /\ Ttl \in Nat
  /\ IsFiniteSet(Servers)
  /\ NoStream \notin Streams

NoState ==
  [pid |-> 0, standby |-> 0, url |-> NoStream, running |-> FALSE, stopped |-> FALSE]

IdleThread ==
  [at |-> "idle", state |-> NoState, active |-> FALSE, standby |-> FALSE,
   changed |-> FALSE, after |-> "reply", stream |-> NoStream]

HAInit ==
  /\ proc = [c \in Pids |->
       [role |-> "active", life |-> "unborn", child |-> FALSE, busy |-> 0]]
  /\ launched = 0
  /\ file = NoState
  /\ lease = [owner |-> 0, age |-> 0]
  /\ server = [h \in Servers |-> IdleThread]
  /\ leaseCut = FALSE

-----------------------------------------------------------------------------
(* The collectors *)

Alive(c) == proc[c].life = "alive"

(***************************************************************************)
(* _refresh_write_lease, under the lock of the lease's lock file: a        *)
(* collector keeps its lease, takes one that has expired, and an active    *)
(* collector takes a standby's.                                            *)
(***************************************************************************)
Unowned == lease.owner = 0

Expired == lease.owner = 0 \/ lease.age > Ttl

Promoted(c) ==
  /\ proc[c].role = "active"
  /\ lease.owner # 0 /\ proc[lease.owner].role = "standby"

ClaimedByAnyActive(c) == lease.owner = c \/ Expired \/ proc[c].role = "active"

MayClaim(c) == lease.owner = c \/ Expired \/ Promoted(c)

(***************************************************************************)
(* With the lease an iteration begins: all it writes, it writes without    *)
(* another look at the lease.  Without it the collector sleeps.            *)
(***************************************************************************)
Refresh(c) ==
  /\ Alive(c) /\ proc[c].busy = 0
  /\ MayClaim(c)
  /\ lease' = [owner |-> c, age |-> 0]
  /\ proc' = [proc EXCEPT ![c].busy = 1]
  /\ UNCHANGED <<launched, file, server, leaseCut>>

FinishIteration(c) ==
  /\ Alive(c) /\ proc[c].busy > 0
  /\ proc' = [proc EXCEPT ![c].busy = 0]
  /\ UNCHANGED <<launched, file, lease, server, leaseCut>>

Dead(p) ==
  [p EXCEPT !.life = IF p.child THEN "zombie" ELSE "gone", !.busy = 0]

(***************************************************************************)
(* A closed browser page, the end of the stream, or an error: the process  *)
(* exits, and is a zombie as long as its parent does not wait for it.  The *)
(* lease stays as it is.                                                   *)
(***************************************************************************)
Exit(c) ==
  /\ Alive(c)
  /\ proc' = [proc EXCEPT ![c] = Dead(@)]
  /\ UNCHANGED <<launched, file, lease, server, leaseCut>>

(***************************************************************************)
(* Time passes, for an iteration as well: nothing ends one within the time *)
(* to live (a page may take longer to load than the lease lasts).          *)
(***************************************************************************)
LeaseAges ==
  /\ lease' = [lease EXCEPT !.age = IF @ <= Ttl THEN @ + 1 ELSE @]
  /\ proc' = [c \in Pids |->
       IF proc[c].busy \in 1..Overdue - 1 THEN [proc[c] EXCEPT !.busy = @ + 1] ELSE proc[c]]
  /\ UNCHANGED <<launched, file, server, leaseCut>>

Tick ==
  /\ lease.owner # 0 /\ lease.age <= Ttl
  /\ LeaseAges

-----------------------------------------------------------------------------
(* Launching: starting a process makes the server wait for those of its    *)
(* children that have exited (subprocess polls them before it forks).      *)

Reaped(p) == IF p.life = "zombie" THEN [p EXCEPT !.life = "gone"] ELSE p

Launch(role) ==
  /\ launched < MaxPid
  /\ launched' = launched + 1
  /\ proc' = [c \in Pids |->
       IF c = launched + 1
       THEN [role |-> role, life |-> "alive", child |-> TRUE, busy |-> 0]
       ELSE Reaped(proc[c])]

(***************************************************************************)
(* _is_pid_running: kill(pid, 0) also succeeds for a zombie.               *)
(***************************************************************************)
IsRunning(c) == c # 0 /\ proc[c].life \in {"alive", "zombie"}

-----------------------------------------------------------------------------
(* The server's request threads *)

Move(h, t) == server' = [server EXCEPT ![h] = t]

(***************************************************************************)
(* After a status call a request is answered, or a start goes on.          *)
(***************************************************************************)
Returned(t) ==
  IF t.after = "reply" THEN IdleThread
  ELSE [t EXCEPT !.at = t.after]

RequestStatus(h) ==
  /\ server[h].at = "idle"
  /\ Move(h, [IdleThread EXCEPT !.at = "status"])
  /\ UNCHANGED <<proc, launched, file, lease, leaseCut>>

RequestStart(h, s) ==
  /\ server[h].at = "idle"
  /\ Move(h, [IdleThread EXCEPT !.at = "status", !.after = "decide", !.stream = s])
  /\ UNCHANGED <<proc, launched, file, lease, leaseCut>>

RequestStop(h) ==
  /\ server[h].at = "idle"
  /\ Move(h, [IdleThread EXCEPT !.at = "kill"])
  /\ UNCHANGED <<proc, launched, file, lease, leaseCut>>

ExpectedRunning(s) == s.running /\ s.url # NoStream /\ ~s.stopped

(***************************************************************************)
(* live_collector_status reads the file and looks for the two processes.   *)
(* When both should run and neither does, it first saves that nothing      *)
(* runs.                                                                   *)
(***************************************************************************)
StatusRead(h) ==
  /\ server[h].at = "status"
  /\ LET a == IsRunning(file.pid)
         b == IsRunning(file.standby)
         t == [server[h] EXCEPT !.state = file, !.active = a, !.standby = b,
                                !.changed = FALSE]
     IN \/ /\ ExpectedRunning(file) /\ ~a /\ ~b
           /\ Move(h, [t EXCEPT !.at = "clear", !.state.running = FALSE,
                                !.state.pid = 0, !.state.standby = 0])
        \/ /\ ExpectedRunning(file) /\ (a \/ b)
           /\ Move(h, [t EXCEPT !.at = "relaunch"])
        \/ /\ ~ExpectedRunning(file) /\ file.running # (a \/ b)
           /\ Move(h, [t EXCEPT !.at = "save", !.state.running = a \/ b,
                !.state.pid = IF a THEN @ ELSE 0,
                !.state.standby = IF b THEN @ ELSE 0])
        \/ /\ ~ExpectedRunning(file) /\ file.running = (a \/ b)
           /\ Move(h, Returned(t))
  /\ UNCHANGED <<proc, launched, file, lease, leaseCut>>

Clear(h) ==
  /\ server[h].at = "clear"
  /\ file' = server[h].state
  /\ Move(h, [server[h] EXCEPT !.at = "relaunch"])
  /\ UNCHANGED <<proc, launched, lease, leaseCut>>

(***************************************************************************)
(* The status call launches whichever of the two is not running; when a    *)
(* launch fails, its pid is forgotten and the call goes on.                *)
(***************************************************************************)
Relaunch(h) ==
  /\ server[h].at = "relaunch"
  /\ \/ /\ server[h].active
        /\ Move(h, [server[h] EXCEPT !.at = "relaunchStandby"])
        /\ UNCHANGED <<proc, launched>>
     \/ /\ ~server[h].active
        /\ Launch("active")
        /\ Move(h, [server[h] EXCEPT !.at = "relaunchStandby", !.active = TRUE,
             !.changed = TRUE, !.state.pid = launched', !.state.running = TRUE])
  /\ UNCHANGED <<file, lease, leaseCut>>

DoneUnsaved(t) == Returned([t EXCEPT !.state.running = t.active \/ t.standby])

Done(t) ==
  LET s == [t EXCEPT !.state.running = t.active \/ t.standby]
  IN IF s.changed THEN [s EXCEPT !.at = "save"] ELSE Returned(s)

RelaunchStandby(h) ==
  /\ server[h].at = "relaunchStandby"
  /\ \/ /\ server[h].standby
        /\ Move(h, Done(server[h]))
        /\ UNCHANGED <<proc, launched>>
     \/ /\ ~server[h].standby
        /\ Launch("standby")
        /\ Move(h, Done([server[h] EXCEPT !.standby = TRUE, !.changed = TRUE,
                                          !.state.standby = launched']))
  /\ UNCHANGED <<file, lease, leaseCut>>

FailRelaunch(h) ==
  /\ \/ /\ server[h].at = "relaunch" /\ ~server[h].active
        /\ Move(h, [server[h] EXCEPT !.at = "relaunchStandby", !.state.pid = 0])
     \/ /\ server[h].at = "relaunchStandby" /\ ~server[h].standby
        /\ Move(h, Done([server[h] EXCEPT !.state.standby = 0]))
  /\ UNCHANGED <<proc, launched, file, lease, leaseCut>>

Save(h) ==
  /\ server[h].at = "save"
  /\ file' = server[h].state
  /\ Move(h, Returned(server[h]))
  /\ UNCHANGED <<proc, launched, lease, leaseCut>>

(***************************************************************************)
(* start_live_collector: nothing to do when the stream is being collected, *)
(* a stop first when another one is.                                       *)
(***************************************************************************)
Decide(h) ==
  /\ server[h].at = "decide"
  /\ LET t == server[h] IN
       \/ /\ t.state.running /\ t.state.url = t.stream
          /\ Move(h, IdleThread)
       \/ /\ t.state.running /\ t.state.url # t.stream
          /\ Move(h, [t EXCEPT !.at = "kill", !.after = "start"])
       \/ /\ ~t.state.running
          /\ Move(h, [t EXCEPT !.at = "start"])
  /\ UNCHANGED <<proc, launched, file, lease, leaseCut>>

Start(h) ==
  /\ server[h].at = "start"
  /\ Launch("active")
  /\ Move(h, [server[h] EXCEPT !.at = "startStandby",
       !.state = [NoState EXCEPT !.pid = launched', !.url = server[h].stream,
                                 !.running = TRUE]])
  /\ UNCHANGED <<file, lease, leaseCut>>

StartStandby(h) ==
  /\ server[h].at = "startStandby"
  /\ Launch("standby")
  /\ Move(h, [server[h] EXCEPT !.at = "startSave", !.state.standby = launched'])
  /\ UNCHANGED <<file, lease, leaseCut>>

StartSave(h) ==
  /\ server[h].at = "startSave"
  /\ file' = server[h].state
  /\ Move(h, [server[h] EXCEPT !.at = "status", !.after = "reply"])
  /\ UNCHANGED <<proc, launched, lease, leaseCut>>

(***************************************************************************)
(* A launch that fails in a start ends the request: an active collector    *)
(* launched before is noted nowhere.                                       *)
(***************************************************************************)
FailStart(h) ==
  /\ server[h].at \in {"start", "startStandby"}
  /\ Move(h, IdleThread)
  /\ UNCHANGED <<proc, launched, file, lease, leaseCut>>

(***************************************************************************)
(* stop_live_collector: the two processes of the file are terminated, the  *)
(* file says so, and the lease file is removed without its lock.           *)
(***************************************************************************)
Kill(h) ==
  /\ server[h].at = "kill"
  /\ proc' = [c \in Pids |->
       IF Alive(c) /\ c \in {file.pid, file.standby} THEN Dead(proc[c]) ELSE proc[c]]
  /\ Move(h, [server[h] EXCEPT !.at = "forget",
       !.state = [file EXCEPT !.running = FALSE, !.pid = 0, !.standby = 0,
                              !.stopped = TRUE]])
  /\ UNCHANGED <<launched, file, lease, leaseCut>>

Forget(h) ==
  /\ server[h].at = "forget"
  /\ file' = server[h].state
  /\ Move(h, [server[h] EXCEPT !.at = "unlease"])
  /\ UNCHANGED <<proc, launched, lease, leaseCut>>

Unlease(h) ==
  /\ server[h].at = "unlease"
  /\ lease' = [owner |-> 0, age |-> 0]
  /\ leaseCut' = (leaseCut \/ \E c \in Pids : Alive(c))
  /\ Move(h, [server[h] EXCEPT !.at = "status"])
  /\ UNCHANGED <<proc, launched, file>>

(***************************************************************************)
(* The server process ends, in the middle of its requests, and comes back: *)
(* its children go on without a parent that has to wait for them.          *)
(***************************************************************************)
RestartServer ==
  /\ server' = [h \in Servers |-> IdleThread]
  /\ proc' = [c \in Pids |-> [Reaped(proc[c]) EXCEPT !.child = FALSE]]
  /\ UNCHANGED <<launched, file, lease, leaseCut>>

-----------------------------------------------------------------------------
(* The specification *)

ServerStep(h) ==
  \/ StatusRead(h) \/ Clear(h) \/ Relaunch(h) \/ RelaunchStandby(h) \/ Save(h)
  \/ Decide(h) \/ Start(h) \/ StartStandby(h) \/ StartSave(h)
  \/ Kill(h) \/ Forget(h) \/ Unlease(h)

CollectorStep(c) == Refresh(c) \/ FinishIteration(c)

HANext ==
  \/ \E h \in Servers :
       \/ RequestStatus(h) \/ RequestStop(h)
       \/ \E s \in Streams : RequestStart(h, s)
       \/ ServerStep(h) \/ FailRelaunch(h) \/ FailStart(h)
  \/ \E c \in Pids : CollectorStep(c) \/ Exit(c)
  \/ Tick \/ RestartServer

HASpec == HAInit /\ [][HANext]_haVars

-----------------------------------------------------------------------------
(* Properties *)

HATypeOK ==
  /\ proc \in [Pids -> Process]
  /\ launched \in 0..MaxPid
  /\ file \in StateFile
  /\ lease \in Lease
  /\ server \in [Servers -> Thread]
  /\ leaseCut \in BOOLEAN

(***************************************************************************)
(* Of two collectors of one role in their iterations one has outlived the  *)
(* lease it began under, whatever processes request threads and server     *)
(* crashes have left behind: until then the lease is its own, or was taken *)
(* by the other role, and nobody of its role claims it.  (Neither refresh  *)
(* nor loop stops an iteration that takes too long: it goes on to write.)  *)
(* It holds until a stop removes the lease of a collector it did not stop. *)
(***************************************************************************)
Writing(c) == proc[c].busy > 0

Late(c) == proc[c].busy = Overdue

OneWriterPerRole ==
  ~leaseCut =>
    \A c, d \in Pids :
      Writing(c) /\ Writing(d) /\ proc[c].role = proc[d].role
        => c = d \/ Late(c) \/ Late(d)

(***************************************************************************)
(* Between requests the state file names every collector that runs, so     *)
(* that the next stop terminates it; stated for one request thread: two    *)
(* may both launch, and a failing start or a server crash leaves a process *)
(* that nobody has noted.                                                  *)
(***************************************************************************)
CollectorsKnown ==
  (\A h \in Servers : server[h].at = "idle") =>
    \A c \in Pids : Alive(c) => c \in {file.pid, file.standby}

(***************************************************************************)
(* As long as collectors run, one that runs comes to hold the lease: that  *)
(* of a process that has died, or was stopped, expires and is taken over.  *)
(***************************************************************************)
LeaseTakenOver ==
  (\E c \in Pids : Alive(c)) ~>
    (\E c \in Pids : Alive(c) /\ lease.owner = c) \/ (\A c \in Pids : ~Alive(c))
=============================================================================
