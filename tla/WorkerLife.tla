------------------------------ MODULE WorkerLife ------------------------------
(***************************************************************************)
(* What a camera worker promises its manager: the steps its status may     *)
(* take.  CameraWorker is checked to follow them, and CameraManager's      *)
(* workers are made of them.  RUNNING stands for both RUNNING_STATES;      *)
(* ready says that start() has returned or will.                           *)
(***************************************************************************)
EXTENDS Naturals

Terminal == {"STOPPED", "FAILED"}
LifeStates == {"NEW", "STARTING", "RUNNING", "STOPPING"} \cup Terminal
Lives == [state : LifeStates, ready : BOOLEAN]

NewLife == [state |-> "NEW", ready |-> FALSE]
Begun == [state |-> "STARTING", ready |-> FALSE]

\* stop() publishes STOPPING on a worker that is not over yet.
AskedToStop(l) == IF l.state \in {"STARTING", "RUNNING"} THEN [l EXCEPT !.state = "STOPPING"] ELSE l

\* The steps the worker takes by itself: it gets ready, stops as it was
\* asked to, or fails.
OwnSteps(l) ==
  CASE l.state = "STARTING" -> {[state |-> "RUNNING", ready |-> TRUE], [l EXCEPT !.state = "FAILED"]}
    [] l.state = "RUNNING"  -> {[l EXCEPT !.state = "FAILED"]}
    [] l.state = "STOPPING" -> {[state |-> "STOPPED", ready |-> TRUE], [l EXCEPT !.state = "FAILED"]}
    [] OTHER -> {}
=============================================================================
