----------------------------- MODULE CameraManager -----------------------------
(***************************************************************************)
(* CameraWorkerManager (app/orchestration/manager.py of the desktop        *)
(* backend): start, stop, restart, reconcile and shutdown, run by tasks of *)
(* one event loop.                                                         *)
(*                                                                         *)
(* A step is what a task does between two awaits that can suspend it.  The *)
(* registry lock is free at every such await, so taking it never suspends; *)
(* the camera locks do, and wake their waiters in order.  A worker follows *)
(* WorkerLife.  Its slot is its identity; the generation number and the    *)
(* eviction of old statuses (retained_statuses) are left out.              *)
(***************************************************************************)
EXTENDS SequencesExt, WorkerLife

CONSTANTS Cameras,
          Users,        \* HTTP requests that may be in progress at once
          Definitions,  \* what a camera may be configured to
          Slots,        \* bound: workers of one camera that exist at once
          MaxActive,    \* max_active_workers
          MaxCalls,     \* bound: operations users ask for
          MaxFaults     \* bound: things that go wrong

ASSUME ManagerAssumption ==
  /\ Users \cap {"reconcile", "shutdown"} = {} /\ "off" \notin Definitions
  /\ IsFiniteSet(Cameras) /\ {MaxActive, MaxCalls, MaxFaults} \subseteq Nat
  /\ Slots \subseteq Nat \ {0}

VARIABLES life,      \* every worker: its life and its definition
          owned,     \* _workers: the slot of the camera's worker, or NoSlot
          statuses,  \* _statuses
          line,      \* the camera lock: its holder, then the tasks waiting for it
          ops,       \* the operation each task has in progress on each camera
          closed,    \* _admission_closed
          shut,      \* _shutdown_task
          rec,       \* the reconcile call: its phase, what it wants, whether it failed
          calls, faults

workerVars  == <<life, owned, statuses>>
managerVars == <<workerVars, line, ops, closed, shut, rec, calls, faults>>

NoSlot == 0
Tasks == Users \cup {"reconcile", "shutdown"}
Off == "off"   \* the definition of a camera that is not in the catalog
NoWorker == [life |-> NewLife, def |-> Off]
NoCall == [pc |-> "idle", kind |-> "none", def |-> Off, slot |-> NoSlot]
NoRec == [pc |-> "idle", want |-> [c \in Cameras |-> Off], failed |-> FALSE]

ManagerInit ==
  /\ life = [c \in Cameras |-> [s \in Slots |-> NoWorker]]
  /\ owned = [c \in Cameras |-> NoSlot]
  /\ statuses = [c \in Cameras |-> "NEW"]
  /\ line = [c \in Cameras |-> << >>]
  /\ ops = [t \in Tasks |-> [c \in Cameras |-> NoCall]]
  /\ closed = FALSE /\ shut = "none" /\ rec = NoRec
  /\ calls = 0 /\ faults = 0

Busy(t) == \E c \in Cameras : ops[t][c].pc # "idle"

-----------------------------------------------------------------------------
(* The workers.                                                            *)

\* Variant with a bug: the transition listener is not wired.
PublishForgets(c, s, l) == life' = [life EXCEPT ![c][s].life = l] /\ UNCHANGED statuses

\* Every transition of a worker is remembered as its camera's status.
Publish(c, s, l) ==
  /\ life' = [life EXCEPT ![c][s].life = l]
  /\ statuses' = [statuses EXCEPT ![c] = l.state]

\* A worker gets ready, stops as it was asked to, or fails.
WorkerSteps(c, s) ==
  \E l \in OwnSteps(life[c][s].life) :
     /\ Publish(c, s, l)
     /\ faults' = IF l.state = "FAILED" THEN faults + 1 ELSE faults
     /\ faults' <= MaxFaults
     /\ UNCHANGED <<owned, line, ops, closed, shut, rec, calls>>

\* The steps a worker owes: it does not stay STARTING or STOPPING.
WorkerSettles(c, s) == life[c][s].life.state \in {"STARTING", "STOPPING"} /\ WorkerSteps(c, s)

Over(c, s) == life[c][s].life.state \in Terminal

-----------------------------------------------------------------------------
(* The steps of an operation of task t on camera c.                        *)

Call(t, c, kind, d) == ops' = [ops EXCEPT ![t][c] = [NoCall EXCEPT !.pc = "lock", !.kind = kind, !.def = d]]

Holds(t, c) == line[c] # << >> /\ Head(line[c]) = t

\* The operation returns or raises, and the camera lock is released.
Leaves(t, c, failed) ==
  /\ line' = [line EXCEPT ![c] = Tail(@)]
  /\ ops' = [ops EXCEPT ![t][c] = NoCall]
  /\ rec' = [rec EXCEPT !.failed = @ \/ (failed /\ t = "reconcile")]

Waits(t, c, pc, s) ==
  /\ ops' = [ops EXCEPT ![t][c].pc = pc, ![t][c].slot = s]
  /\ UNCHANGED <<line, rec>>

\* _remove_worker: the worker of slot s, which is over, is forgotten.
Removed(c, s) == [owned EXCEPT ![c] = IF @ = s THEN NoSlot ELSE @]
Forgotten(c, s) == [life EXCEPT ![c][s] = IF Over(c, s) THEN NoWorker ELSE @]

\* _new_worker, started; generations are left out.
NewWorker(d) == [life |-> Begun, def |-> d]

\* _ensure_admission_open: once a shutdown has begun, nothing is started.
AdmissionOpen == ~closed

\* Variant with a bug: no look at the shutdown.
AdmitWhenClosed(t, c, w, v) ==
  IF Cardinality({x \in Cameras : w[x] # NoSlot}) >= MaxActive
  THEN Leaves(t, c, TRUE) /\ owned' = w /\ life' = v /\ UNCHANGED statuses
  ELSE \E s \in {x \in Slots : v[c][x] = NoWorker} :
         /\ owned' = [w EXCEPT ![c] = s]
         /\ life' = [v EXCEPT ![c][s] = NewWorker(ops[t][c].def)]
         /\ statuses' = [statuses EXCEPT ![c] = "STARTING"]
         /\ Waits(t, c, "starting", s)

\* The second half of start and restart, from the worker tables w and v.
Admit(t, c, w, v) ==
  IF ~AdmissionOpen \/ Cardinality({x \in Cameras : w[x] # NoSlot}) >= MaxActive
  THEN Leaves(t, c, TRUE) /\ owned' = w /\ life' = v /\ UNCHANGED statuses
  ELSE \E s \in {x \in Slots : v[c][x] = NoWorker} :
         /\ \A x \in Slots : v[c][x] = NoWorker => s <= x
         /\ owned' = [w EXCEPT ![c] = s]
         /\ life' = [v EXCEPT ![c][s] = NewWorker(ops[t][c].def)]
         /\ statuses' = [statuses EXCEPT ![c] = "STARTING"]
         /\ Waits(t, c, "starting", s)

\* The lock is taken; the camera's worker is looked up.
Enter(t, c) ==
  /\ ops[t][c].pc = "lock" /\ Holds(t, c)
  /\ LET s == owned[c] kind == ops[t][c].kind IN
     \/ /\ s # NoSlot /\ kind = "start" /\ life[c][s].life.state \in {"STARTING", "RUNNING"}
        /\ Leaves(t, c, FALSE) /\ UNCHANGED workerVars
     \/ /\ s # NoSlot /\ ~(kind = "start" /\ life[c][s].life.state \in {"STARTING", "RUNNING"})
        /\ Publish(c, s, AskedToStop(life[c][s].life))
        /\ Waits(t, c, "stopping", s)
        /\ UNCHANGED owned
     \/ /\ s = NoSlot /\ kind \in {"stop", "shutdown"}
        /\ Leaves(t, c, FALSE) /\ UNCHANGED workerVars
     \/ /\ s = NoSlot /\ kind \in {"start", "restart"}
        /\ Admit(t, c, owned, life)
  /\ UNCHANGED <<closed, shut, calls, faults>>

\* The worker's stop has returned; unclean says that closing something had
\* failed.
StopReturns(t, c, unclean) ==
  LET s == ops[t][c].slot kind == ops[t][c].kind IN
  /\ ops[t][c].pc = "stopping" /\ Over(c, s)
  /\ faults' = IF unclean THEN faults + 1 ELSE faults
  /\ faults' <= MaxFaults
  /\ IF kind \in {"start", "restart"} /\ ~unclean
     THEN Admit(t, c, Removed(c, s), Forgotten(c, s))
     ELSE /\ Leaves(t, c, unclean \/ life[c][s].life.state = "FAILED")
          /\ owned' = Removed(c, s) /\ life' = Forgotten(c, s) /\ UNCHANGED statuses
  /\ UNCHANGED <<closed, shut, calls>>

\* The worker's start has returned; if a shutdown has begun it is stopped.
StartReturns(t, c) ==
  LET s == ops[t][c].slot IN
  /\ ops[t][c].pc = "starting" /\ life[c][s].life.ready
  /\ IF ~AdmissionOpen
     THEN Publish(c, s, AskedToStop(life[c][s].life)) /\ Waits(t, c, "refusing", s)
     ELSE Leaves(t, c, FALSE) /\ UNCHANGED <<life, statuses>>
  /\ UNCHANGED <<owned, closed, shut, calls, faults>>

\* Variant with a bug: a cancelled start does not wait for its worker.
StartFailsUnsettled(t, c) ==
  LET s == ops[t][c].slot IN
  /\ \/ ops[t][c].pc = "starting" /\ ~life[c][s].life.ready /\ Over(c, s)
     \/ ops[t][c].pc \in {"refusing", "unwinding"}
  /\ Leaves(t, c, TRUE)
  /\ owned' = Removed(c, s) /\ life' = Forgotten(c, s)
  /\ UNCHANGED <<statuses, closed, shut, calls, faults>>

\* The worker is over before it was ready, or was stopped by its starter.
StartFails(t, c) ==
  LET s == ops[t][c].slot IN
  /\ \/ ops[t][c].pc = "starting" /\ ~life[c][s].life.ready
     \/ ops[t][c].pc \in {"refusing", "unwinding"}
  /\ Over(c, s)
  /\ Leaves(t, c, TRUE)
  /\ owned' = Removed(c, s) /\ life' = Forgotten(c, s)
  /\ UNCHANGED <<statuses, closed, shut, calls, faults>>

-----------------------------------------------------------------------------
(* Cancellation of task t, on all its cameras: it stops waiting for a lock *)
(* or for a worker's stop, but a start stops its worker first.             *)

AfterCancel(o) ==
  CASE o.pc \in {"lock", "stopping", "refusing"} -> NoCall
    [] o.pc = "starting" -> [o EXCEPT !.pc = "unwinding"]
    [] OTHER -> o

\* Variant with a bug: a cancelled operation does not release the camera lock.
CancelOpsKeepsLock(t) ==
  /\ ops' = [ops EXCEPT ![t] = [c \in Cameras |-> AfterCancel(ops[t][c])]]
  /\ UNCHANGED <<line, life, statuses, owned>>

CancelOps(t) ==
  LET stops(c) == ops[t][c].pc = "starting"
      quits(c) == ops[t][c].pc # "idle" /\ AfterCancel(ops[t][c]) = NoCall
      after(c) == AskedToStop(life[c][ops[t][c].slot].life)
  IN  /\ ops' = [ops EXCEPT ![t] = [c \in Cameras |-> AfterCancel(ops[t][c])]]
      /\ line' = [c \in Cameras |-> IF quits(c) THEN RemoveFirst(line[c], t) ELSE line[c]]
      /\ life' = [c \in Cameras |-> IF stops(c) THEN [life[c] EXCEPT ![ops[t][c].slot].life = after(c)]
                                    ELSE life[c]]
      /\ statuses' = [c \in Cameras |-> IF stops(c) THEN after(c).state ELSE statuses[c]]
      /\ UNCHANGED owned

-----------------------------------------------------------------------------
(* Requests.                                                               *)

Request(u, c, kind, d) ==
  /\ ~Busy(u) /\ calls < MaxCalls
  /\ Call(u, c, kind, d)
  /\ line' = [line EXCEPT ![c] = Append(@, u)]
  /\ calls' = calls + 1
  /\ UNCHANGED <<workerVars, closed, shut, rec, faults>>

CancelRequest(u) ==
  /\ \E c \in Cameras : AfterCancel(ops[u][c]) # ops[u][c]
  /\ faults < MaxFaults
  /\ CancelOps(u)
  /\ faults' = faults + 1
  /\ UNCHANGED <<closed, shut, rec, calls>>

-----------------------------------------------------------------------------
(* reconcile: one operation per camera, together.                          *)

Gather(t, K, kind, d) ==
  /\ ops' = [ops EXCEPT ![t] = [c \in Cameras |->
              IF c \in K THEN [NoCall EXCEPT !.pc = "lock", !.kind = kind[c], !.def = d[c]] ELSE NoCall]]
  /\ line' = [c \in Cameras |-> IF c \in K THEN Append(line[c], t) ELSE line[c]]

\* The workers of cameras that are not wanted are stopped.
ReconcileBegins(want) ==
  IF ~AdmissionOpen
  THEN rec' = [rec EXCEPT !.pc = "ended", !.failed = TRUE] /\ UNCHANGED <<ops, line>>
  ELSE /\ Gather("reconcile", {c \in Cameras : owned[c] # NoSlot /\ want[c] = Off},
                 [c \in Cameras |-> "stop"], want)
       /\ rec' = [pc |-> "removing", want |-> want, failed |-> FALSE]

\* Variant with a bug: only cameras without a worker are looked at.
ReconcileStartsAbsent ==
  LET absent == {c \in Cameras : rec.want[c] # Off /\ owned[c] = NoSlot}
  IN  /\ rec.pc = "removing" /\ ~Busy("reconcile")
      /\ IF rec.failed
         THEN rec' = [rec EXCEPT !.pc = "ended"] /\ UNCHANGED <<ops, line>>
         ELSE /\ Gather("reconcile", absent, [c \in Cameras |-> "start"], rec.want)
              /\ rec' = [rec EXCEPT !.pc = "starting"]
      /\ UNCHANGED <<workerVars, closed, shut, calls, faults>>

\* Then wanted ones are started, or restarted if they are not running as
\* they should.
ReconcileStarts ==
  LET wanted == {c \in Cameras : rec.want[c] # Off}
      absent == {c \in wanted : owned[c] = NoSlot}
      wrong  == {c \in wanted \ absent : LET w == life[c][owned[c]]
                                         IN  w.def # rec.want[c] \/ w.life.state # "RUNNING"}
  IN  /\ rec.pc = "removing" /\ ~Busy("reconcile")
      /\ IF rec.failed
         THEN rec' = [rec EXCEPT !.pc = "ended"] /\ UNCHANGED <<ops, line>>
         ELSE /\ Gather("reconcile", absent \cup wrong,
                        [c \in Cameras |-> IF c \in absent THEN "start" ELSE "restart"], rec.want)
              /\ rec' = [rec EXCEPT !.pc = "starting"]
      /\ UNCHANGED <<workerVars, closed, shut, calls, faults>>

ReconcileEnds ==
  /\ rec.pc \in {"starting", "cancelled"} /\ ~Busy("reconcile")
  /\ rec' = [rec EXCEPT !.pc = "ended"]
  /\ UNCHANGED <<workerVars, ops, line, closed, shut, calls, faults>>

-----------------------------------------------------------------------------
(* shutdown: the first call creates the task every caller waits for.       *)

ShutdownCalled ==
  /\ closed' = TRUE
  /\ shut' = IF shut = "none" THEN "created" ELSE shut

ShutdownLists ==
  /\ shut = "created"
  /\ Gather("shutdown", {c \in Cameras : owned[c] # NoSlot},
            [c \in Cameras |-> "shutdown"], [c \in Cameras |-> Off])
  /\ shut' = "stopping"
  /\ UNCHANGED <<workerVars, closed, rec, calls, faults>>

ShutdownEnds ==
  /\ shut = "stopping" /\ ~Busy("shutdown")
  /\ shut' = "done"
  /\ UNCHANGED <<workerVars, line, ops, closed, rec, calls, faults>>

OpStep(t, c) ==
  Enter(t, c) \/ (\E unclean \in BOOLEAN : StopReturns(t, c, unclean)) \/ StartReturns(t, c) \/ StartFails(t, c)

ManagerSteps ==
  \/ \E c \in Cameras, s \in Slots : WorkerSteps(c, s)
  \/ \E t \in Tasks, c \in Cameras : OpStep(t, c)
  \/ \E u \in Users : CancelRequest(u)
  \/ ReconcileStarts \/ ReconcileEnds \/ ShutdownLists \/ ShutdownEnds
=============================================================================
