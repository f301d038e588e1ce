-------------------------- MODULE OrchestrationService --------------------------
(***************************************************************************)
(* CameraOrchestrationService (app/orchestration/service.py of the desktop *)
(* backend) with its periodic scheduler (adapters.py), driving the camera  *)
(* manager: shared start and stop tasks, the initial reconciliation, the   *)
(* reconciliation job, and requests users make meanwhile.                  *)
(*                                                                         *)
(* The state lock is never held across an await that suspends, so it does  *)
(* not appear.  The start task reconciles before the job exists and the    *)
(* job runs one reconciliation at a time, so nothing overlaps and          *)
(* _reconcile_lock is never found locked.                                  *)
(***************************************************************************)
EXTENDS CameraManager

CONSTANT MaxEdits   \* bound: changes of the camera catalog

VARIABLES accepting,   \* _accepting_reconcile
          startTask,   \* _start_task
          stopTask,    \* _stop_task
          started,     \* _started
          job,         \* the scheduler's task for the reconciliation job
          catalog,     \* the enabled cameras and their definitions
          edits

serviceVars == <<accepting, startTask, stopTask, started, job, catalog, edits>>
allVars == <<managerVars, serviceVars>>

\* Any set of cameras may be enabled.  The licence limits them by max_cameras, which is
\* not tied to max_active_workers: there may be more of them than the manager has places.
Catalogs == [Cameras -> Definitions \cup {Off}]

ServiceInit ==
  /\ ManagerInit
  /\ accepting = FALSE /\ startTask = "none" /\ stopTask = "none" /\ started = FALSE
  /\ job = "none" /\ catalog \in Catalogs /\ edits = 0

-----------------------------------------------------------------------------
(* Reconciliation, run by the start task or by the job.                    *)

\* The catalog answers, or raises; the manager reconciles unless the service
\* stops accepting.
CatalogAnswers(ok) ==
  /\ faults' = IF ok THEN faults ELSE faults + 1
  /\ faults' <= MaxFaults
  /\ IF ok /\ accepting THEN ReconcileBegins(catalog) ELSE UNCHANGED <<ops, line, rec>>
  /\ UNCHANGED <<workerVars, calls, stopTask, catalog, edits>>

-----------------------------------------------------------------------------
(* Start.                                                                  *)

Start ==
  /\ startTask = "none" /\ stopTask = "none"
  /\ startTask' = "catalog" /\ accepting' = TRUE
  /\ UNCHANGED <<managerVars, stopTask, started, job, catalog, edits>>

AddJob == job' = "sleeping"

\* The start task after its reconciliation: register the job, or roll back.
\* The scheduler may refuse the job.
StartGoesOn(failed) ==
  \/ /\ failed
     /\ ShutdownCalled /\ startTask' = "rollback" /\ accepting' = FALSE
     /\ UNCHANGED <<started, job>>
  \/ /\ ~failed /\ ~accepting
     /\ startTask' = "done" /\ UNCHANGED <<closed, shut, accepting, started, job>>
  \/ /\ ~failed /\ accepting
     /\ startTask' = "done" /\ AddJob /\ started' = (stopTask = "none")
     /\ UNCHANGED <<closed, shut, accepting>>

StartReadsCatalog(ok) ==
  /\ startTask = "catalog"
  /\ CatalogAnswers(ok)
  /\ IF ok /\ accepting
     THEN startTask' = "reconciling" /\ UNCHANGED <<closed, shut, accepting, started, job>>
     ELSE StartGoesOn(~ok)

StartReconciled(refused) ==
  /\ startTask = "reconciling" /\ rec.pc = "ended"
  /\ faults' = IF refused THEN faults + 1 ELSE faults
  /\ faults' <= MaxFaults /\ (refused => accepting /\ ~rec.failed)
  /\ StartGoesOn(rec.failed \/ refused)
  /\ rec' = NoRec
  /\ UNCHANGED <<workerVars, ops, line, calls, stopTask, catalog, edits>>

StartRolledBack ==
  /\ startTask = "rollback" /\ shut = "done"
  /\ startTask' = "failed"
  /\ UNCHANGED <<managerVars, accepting, stopTask, started, job, catalog, edits>>

-----------------------------------------------------------------------------
(* The reconciliation job.                                                 *)

Tick ==
  /\ job = "sleeping" /\ accepting
  /\ job' = "catalog"
  /\ UNCHANGED <<managerVars, accepting, startTask, stopTask, started, catalog, edits>>

\* The scheduler only logs a failure of the callback.
JobReadsCatalog(ok) ==
  /\ job = "catalog"
  /\ CatalogAnswers(ok)
  /\ job' = IF ok /\ accepting THEN "reconciling" ELSE "sleeping"
  /\ UNCHANGED <<closed, shut, accepting, startTask, started>>

JobReconciled ==
  /\ job \in {"reconciling", "cancelled"} /\ rec.pc = "ended"
  /\ job' = IF job = "cancelled" THEN "gone" ELSE "sleeping"
  /\ rec' = NoRec
  /\ UNCHANGED <<workerVars, ops, line, closed, shut, calls, faults, accepting, startTask,
                 stopTask, started, catalog, edits>>

-----------------------------------------------------------------------------
(* Stop, also called when the caller of start is cancelled.                *)

Stop ==
  /\ stopTask = "none"
  /\ stopTask' = "begun" /\ accepting' = FALSE
  /\ UNCHANGED <<managerVars, startTask, started, job, catalog, edits>>

\* Variant with a bug: the job is awaited but not cancelled.
StopAwaitsJob ==
  /\ stopTask = "begun" /\ startTask \in {"none", "done", "failed"}
  /\ stopTask' = "job"
  /\ UNCHANGED <<managerVars, accepting, startTask, started, job, catalog, edits>>

\* Removing the job cancels its task, and with it what the task awaits.
RemoveJob ==
  IF job = "reconciling"
  THEN /\ CancelOps("reconcile")
       /\ rec' = [rec EXCEPT !.pc = "cancelled"] /\ job' = "cancelled"
  ELSE /\ job' = IF job = "none" THEN "none" ELSE "gone"
       /\ UNCHANGED <<workerVars, ops, line, rec>>

\* The start task is over; the job is removed.
StopRemovesJob ==
  /\ stopTask = "begun" /\ startTask \in {"none", "done", "failed"}
  /\ stopTask' = "job"
  /\ RemoveJob
  /\ UNCHANGED <<closed, shut, calls, faults, accepting, startTask, started, catalog, edits>>

\* Every reconciliation is over.
StopShutsDown ==
  /\ stopTask = "job" /\ job \in {"none", "gone"}
  /\ stopTask' = "shutdown"
  /\ ShutdownCalled
  /\ UNCHANGED <<workerVars, ops, line, rec, calls, faults, accepting, startTask, started, job,
                 catalog, edits>>

StopEnds ==
  /\ stopTask = "shutdown" /\ shut = "done"
  /\ stopTask' = "done" /\ started' = FALSE
  /\ UNCHANGED <<managerVars, accepting, startTask, job, catalog, edits>>

-----------------------------------------------------------------------------
(* The surroundings.                                                       *)

\* Requests are served once the application has started.
UserRequests(u, c) ==
  /\ startTask = "done"
  /\ \/ Request(u, c, "stop", Off)
     \/ catalog[c] # Off /\ \E kind \in {"start", "restart"} : Request(u, c, kind, catalog[c])
  /\ UNCHANGED serviceVars

EditCatalog ==
  /\ edits < MaxEdits
  /\ catalog' \in Catalogs \ {catalog} /\ edits' = edits + 1
  /\ UNCHANGED <<managerVars, accepting, startTask, stopTask, started, job>>

StartTask == \/ \E ok \in BOOLEAN : StartReadsCatalog(ok) \/ StartReconciled(~ok)
             \/ StartRolledBack
Job == JobReconciled \/ \E ok \in BOOLEAN : JobReadsCatalog(ok)
StopTask == StopRemovesJob \/ StopShutsDown \/ StopEnds

ManagerNext == ManagerSteps /\ UNCHANGED serviceVars

ServiceNext ==
  \/ Start \/ StartTask \/ Tick \/ Job \/ Stop \/ StopTask
  \/ (\E u \in Users, c \in Cameras : UserRequests(u, c)) \/ EditCatalog
  \/ ManagerNext

(***************************************************************************)
(* The event loop runs every task that is ready; a worker becomes ready,   *)
(* stops or fails in the end (CameraWorker's StartAndStopReturn); the      *)
(* interval timer fires.  Nobody has to call, edit,                        *)
(* fail or cancel.                                                         *)
(***************************************************************************)
Fairness ==
  /\ WF_allVars(StartTask) /\ WF_allVars(Tick) /\ WF_allVars(Job) /\ WF_allVars(StopTask)
  /\ WF_allVars((ReconcileStarts \/ ReconcileEnds) /\ UNCHANGED serviceVars)
  /\ WF_allVars((ShutdownLists \/ ShutdownEnds) /\ UNCHANGED serviceVars)
  /\ \A t \in Tasks, c \in Cameras : WF_allVars(OpStep(t, c) /\ UNCHANGED serviceVars)
  /\ \A c \in Cameras, s \in Slots : WF_allVars(WorkerSettles(c, s) /\ UNCHANGED serviceVars)

ServiceSpec == ServiceInit /\ [][ServiceNext]_allVars /\ Fairness

-----------------------------------------------------------------------------
(* Properties.                                                             *)

Live(c, s) == life[c][s].life.state \notin Terminal \cup {"NEW"}

\* Type correctness.
ServiceTypeOK ==
  /\ life \in [Cameras -> [Slots -> [life : Lives, def : Definitions \cup {Off}]]]
  /\ owned \in [Cameras -> Slots \cup {NoSlot}] /\ statuses \in [Cameras -> LifeStates]
  /\ \A c \in Cameras : line[c] \in Seq(Tasks) /\ IsInjective(line[c])
  /\ \A t \in Tasks, c \in Cameras :
       /\ ops[t][c].pc \in {"idle", "lock", "stopping", "starting", "refusing", "unwinding"}
       /\ (ops[t][c].pc = "idle") = (\A n \in DOMAIN line[c] : line[c][n] # t)
  /\ shut \in {"none", "created", "stopping", "done"}
  /\ rec.pc \in {"idle", "removing", "starting", "cancelled", "ended"}
  /\ startTask \in {"none", "catalog", "reconciling", "rollback", "done", "failed"}
  /\ stopTask \in {"none", "begun", "job", "shutdown", "done"}
  /\ job \in {"none", "sleeping", "catalog", "reconciling", "cancelled", "gone"}
  /\ catalog \in Catalogs

\* No worker is lost: a worker that is alive is the one registered for its
\* camera.  So a camera has at most one, however operations, failures and
\* cancellations overlap.
LiveIsOwned == \A c \in Cameras, s \in Slots : Live(c, s) => owned[c] = s

\* get_status: a registered camera's status is its worker's, and a camera
\* that is not registered is never reported alive.
StatusIsCurrent ==
  \A c \in Cameras :
     IF owned[c] # NoSlot THEN statuses[c] = life[c][owned[c]].life.state
     ELSE statuses[c] \in Terminal \cup {"NEW"}

\* Once shutdown is over there is no worker, and none ever appears again,
\* whatever was being started, restarted or reconciled when it began.
ShutdownLeavesNothing ==
  shut = "done" => \A c \in Cameras, s \in Slots : owned[c] = NoSlot /\ ~Live(c, s)

\* stop() ends, whatever start, the job and requests were doing.
StopCompletes == stopTask # "none" ~> stopTask = "done"

\* Every request returns.
RequestsReturn == \A u \in Users : Busy(u) ~> ~Busy(u)

Enabled == {c \in Cameras : catalog[c] # Off}
Served == {c \in Cameras : owned[c] # NoSlot}

\* Every worker is one the catalog asks for and runs as it says, and no camera goes
\* without one for any other reason than that every place is taken.
Converged ==
  /\ \A c \in Served :
       life[c][owned[c]].def = catalog[c] /\ life[c][owned[c]].life.state = "RUNNING"
  /\ Enabled \subseteq Served \/ Cardinality(Served) = MaxActive

\* While the service runs, the workers end up as the catalog says once users, edits
\* and faults have ceased (the bounds make them cease): every enabled camera has its
\* worker or, with more enabled cameras than places, every place is filled, although
\* then each reconciliation raises (manager.py:90).
Converges == <>[](started /\ stopTask = "none") => <>[]Converged
=============================================================================
