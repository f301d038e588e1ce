----------------------------- MODULE CameraWorker -----------------------------
(***************************************************************************)
(* One generation of a camera worker (app/orchestration/worker.py of the   *)
(* desktop backend): the supervisor task, the capture and analytics loops, *)
(* the event dispatcher, and the callbacks the CV pipeline schedules.      *)
(*                                                                         *)
(* Everything but the factories, the frame reads, the buffer waits and the *)
(* frame processing runs on one event loop, so a step is what a task does  *)
(* between two awaits, or what a thread returns to its task.  An event is  *)
(* a number, in the order the pipeline produced them.  Metrics and error   *)
(* texts are left out.  The sink raises ordinary exceptions only (or times *)
(* out), so the dispatcher does not die before it is told to stop.         *)
(***************************************************************************)
EXTENDS Naturals, Sequences, Streaming, WorkerLife

CONSTANTS EventQueueSize,  \* event_queue_size, also the pipeline's callback limit
          MaxEvents        \* bound: events the pipeline produces

ASSUME WorkerAssumption == EventQueueSize \in Nat \ {0} /\ MaxEvents \in Nat

VARIABLES state,      \* _state
          stopping,   \* _stop_event is set
          accepting,  \* _accepting_events
          started,    \* the future start() waits for
          sup,        \* where the supervisor task _run is
          err,        \* terminal_error is set
          capture,    \* _capture: "none", "open" or "closed"
          pipe,       \* _pipeline: "none", "open", "closing" or "closed"
          cap, ana, disp,  \* where the capture, analytics and event tasks are
          callbacks,  \* callback tasks not yet run, oldest first
          badEvent,   \* a callback task has failed
          queue,      \* _event_queue
          item,       \* the event the dispatcher is handing to the sink, or EventStop
          made,       \* number of events produced
          accepted,   \* history: events put into the queue
          settled,    \* history: events the sink took or failed to take
          asked       \* history: stop() was called

taskVars   == <<sup, err, capture, pipe, cap, ana, disp>>
eventVars  == <<frame, callbacks, badEvent, queue, item, made, accepted, settled>>
vars == <<state, stopping, accepting, started, asked, taskVars, eventVars, captureVars>>

EventStop == 0   \* the _EVENT_STOP sentinel

Init ==
  /\ state = "STOPPED" /\ stopping = FALSE /\ accepting = FALSE /\ started = "none"
  /\ sup = "none" /\ err = FALSE /\ capture = "none" /\ pipe = "none"
  /\ cap = "none" /\ ana = "none" /\ disp = "none"
  /\ StreamingInit /\ callbacks = << >> /\ badEvent = FALSE /\ queue = << >> /\ item = EventStop
  /\ made = 0 /\ accepted = << >> /\ settled = << >> /\ asked = FALSE

Running == {"RUNNING", "RECONNECTING"}

ValidTransitions ==
  [s \in {"STOPPED", "STARTING", "RUNNING", "RECONNECTING", "STOPPING", "FAILED"} |->
     CASE s = "STOPPED"      -> {"STARTING"}
       [] s = "STARTING"     -> {"RUNNING", "RECONNECTING", "FAILED", "STOPPING"}
       [] s = "RUNNING"      -> {"RECONNECTING", "STOPPING", "FAILED"}
       [] s = "RECONNECTING" -> {"RUNNING", "STOPPING", "FAILED"}
       [] s = "STOPPING"     -> {"STOPPED", "FAILED"}
       [] s = "FAILED"       -> {"STOPPING", "STOPPED"}]

\* _transition.  It raises when the change is not a valid one, which FollowsLife
\* excludes.
Transition(s) == state' = s

\* _resolve_started and _reject_started: the first outcome of start() counts.
SettleStarted(outcome) == started' = IF started = "pending" THEN outcome ELSE started

-----------------------------------------------------------------------------
(* start and stop.                                                         *)

Start ==
  /\ sup = "none"
  /\ Transition("STARTING") /\ started' = "pending" /\ sup' = "capture"
  /\ UNCHANGED <<stopping, accepting, captureVars, asked, err, capture, pipe, cap, ana, disp, eventVars>>

\* _close_capture_once; an exception of close() is only recorded.
CloseCaptureOnce ==
  IF capture = "open" THEN capture' = "closed" /\ Close ELSE UNCHANGED <<capture, captureVars>>

\* Variant with a bug: stop does not publish STOPPING.
StopSilently ==
  /\ sup # "none" /\ ~asked
  /\ accepting' = FALSE /\ stopping' = TRUE /\ CloseCaptureOnce /\ asked' = TRUE
  /\ UNCHANGED <<state, started, sup, err, pipe, cap, ana, disp, eventVars>>

\* stop(), also from a start() that is cancelled.  It then waits for the
\* supervisor.
Stop ==
  /\ sup # "none" /\ ~asked
  /\ Transition(IF sup # "done" /\ state \in {"STARTING"} \cup Running THEN "STOPPING" ELSE state)
  /\ accepting' = FALSE /\ stopping' = TRUE /\ CloseCaptureOnce /\ asked' = TRUE
  /\ UNCHANGED <<started, sup, err, pipe, cap, ana, disp, eventVars>>

-----------------------------------------------------------------------------
(* The supervisor.                                                         *)

\* The end of _run: publish the terminal state and settle start(); e says
\* whether there is a terminal error.  The STOPPING the code publishes first
\* when it is missing never is: FollowsLife would fail on this step.
Finish(e) ==
  /\ sup' = "done" /\ err' = e /\ ClearFrames
  /\ Transition(IF e THEN "FAILED" ELSE "STOPPED")
  /\ SettleStarted(IF e THEN "rejected" ELSE "resolved")

\* The finally block up to its first await.
Unwinds == accepting' = FALSE /\ stopping' = TRUE

\* The capture factory returns, or raises.
CaptureBuilt(ok) ==
  /\ sup = "capture"
  /\ IF ok /\ ~stopping
     THEN /\ capture' = "open" /\ sup' = "pipeline"
          /\ UNCHANGED <<state, stopping, accepting, started, err, frame, captureVars>>
     ELSE /\ Unwinds
          /\ IF ok THEN capture' = "closed" /\ Close ELSE UNCHANGED <<capture, captureVars>>
          /\ Finish(~ok)
  /\ UNCHANGED <<asked, pipe, cap, ana, disp, callbacks, badEvent, queue, item, made, accepted,
                 settled>>

\* The pipeline factory returns, or raises; the tasks are created and the
\* worker is running.
PipelineBuilt(ok) ==
  /\ sup = "pipeline"
  /\ \/ /\ ok /\ ~stopping
        /\ pipe' = "open" /\ accepting' = TRUE /\ sup' = "run"
        /\ cap' = "read" /\ ana' = "wait" /\ disp' = "get"
        /\ Transition("RUNNING") /\ SettleStarted("resolved")
        /\ rd' = "begin"
        /\ UNCHANGED <<stopping, err, capture, frame, handle, shut, current, delayed, held, live>>
     \/ /\ ok /\ stopping
        /\ Unwinds /\ CloseCaptureOnce /\ pipe' = "closing" /\ sup' = "aclose"
        /\ UNCHANGED <<state, started, err, cap, ana, disp, frame>>
     \/ /\ ~ok
        /\ Unwinds /\ CloseCaptureOnce
        /\ Finish(TRUE)
        /\ UNCHANGED <<pipe, cap, ana, disp>>
  /\ UNCHANGED <<asked, callbacks, badEvent, queue, item, made, accepted, settled>>

Ended == {"ended", "failed"}

\* Variant with a bug: return_when=ALL_COMPLETED.
SupervisorWakesLate ==
  /\ sup = "run"
  /\ cap \in Ended /\ ana \in Ended
  /\ err' = ("failed" \in {cap, ana} \/ ~stopping)
  /\ Unwinds /\ CloseCaptureOnce /\ sup' = "gather"
  /\ UNCHANGED <<state, started, asked, pipe, cap, ana, disp, eventVars>>

\* asyncio.wait returns: a loop has failed, or both obey the stop.
SupervisorWakes ==
  /\ sup = "run"
  /\ cap \in Ended \/ ana \in Ended
  /\ err' = ("failed" \in {cap, ana} \/ ~stopping)
  /\ Unwinds /\ CloseCaptureOnce /\ sup' = "gather"
  /\ UNCHANGED <<state, started, asked, pipe, cap, ana, disp, eventVars>>

\* Both loops are over; the pipeline's aclose begins.
SupervisorGathers ==
  /\ sup = "gather"
  /\ cap \in Ended /\ ana \in Ended
  /\ err' = (err \/ "failed" \in {cap, ana})
  /\ pipe' = "closing" /\ sup' = "aclose"
  /\ UNCHANGED <<state, stopping, accepting, started, captureVars, asked, capture, cap, ana, disp,
                 eventVars>>

\* aclose has waited for the callback tasks; it raises if one had failed, and
\* it may fail by itself.
PipelineCloses(ok) ==
  /\ sup = "aclose"
  /\ callbacks = << >>
  /\ pipe' = "closed"
  /\ LET e == err \/ badEvent \/ ~ok
     IN  IF disp = "none" THEN Finish(e)
         ELSE sup' = "join" /\ err' = e /\ UNCHANGED <<state, started, frame>>
  /\ UNCHANGED <<stopping, accepting, captureVars, asked, capture, cap, ana, disp, callbacks,
                 badEvent, queue, item, made, accepted, settled>>

\* Every queued event has been handled: _event_queue.join() returns.
QueueJoined ==
  /\ sup = "join"
  /\ queue = << >> /\ disp = "get"
  /\ queue' = <<EventStop>> /\ sup' = "await"
  /\ UNCHANGED <<state, stopping, accepting, started, captureVars, asked, err, capture, pipe, cap,
                 ana, disp, frame, callbacks, badEvent, item, made, accepted, settled>>

SupervisorEnds ==
  /\ sup = "await"
  /\ disp = "ended"
  /\ Finish(err)
  /\ UNCHANGED <<stopping, accepting, captureVars, asked, capture, pipe, cap, ana, disp, callbacks,
                 badEvent, queue, item, made, accepted, settled>>

-----------------------------------------------------------------------------
(* The capture loop.                                                       *)

\* The read in the thread has returned, or raised.  The next one begins at
\* once after a frame.
ReadReturns ==
  /\ cap = "read" /\ rd \in Results
  /\ \/ /\ rd = "frame" /\ ~stopping
        /\ PutFrame /\ rd' = "begin"
        /\ Transition(IF state = "RECONNECTING" THEN "RUNNING" ELSE state)
        /\ UNCHANGED cap
     \/ /\ rd = "nothing" /\ ~stopping
        /\ Transition("RECONNECTING") /\ cap' = "backoff" /\ rd' = "idle"
        /\ UNCHANGED frame
     \/ /\ rd # "raises" /\ stopping
        /\ cap' = "ended" /\ rd' = "idle"
        /\ UNCHANGED <<state, frame>>
     \/ /\ rd = "raises"
        /\ cap' = "failed" /\ rd' = "idle"
        /\ UNCHANGED <<state, frame>>
  /\ UNCHANGED <<stopping, accepting, started, asked, sup, err, capture, pipe, ana, disp,
                 callbacks, badEvent, queue, item, made, accepted, settled,
                 handle, shut, current, delayed, held, live>>

\* The reconnect delay is over, or stop cuts it short.
BackoffEnds ==
  /\ cap = "backoff"
  /\ IF stopping THEN cap' = "ended" /\ UNCHANGED rd ELSE cap' = "read" /\ rd' = "begin"
  /\ UNCHANGED <<state, stopping, accepting, started, asked, sup, err, capture, pipe, ana, disp,
                 eventVars, handle, shut, current, delayed, held, live>>

\* The thread in ResilientCapture.read takes a step.
Reader ==
  /\ Read
  /\ UNCHANGED <<state, stopping, accepting, started, asked, taskVars, eventVars>>

-----------------------------------------------------------------------------
(* The analytics loop and the callbacks of the pipeline.                   *)

\* Variant with a bug: the wait has no timeout, so a stop does not end it.
FrameWaitEndsOnFrame ==
  /\ ana = "wait" /\ frame = "new"
  /\ IF stopping THEN ana' = "ended" /\ UNCHANGED frame
     ELSE frame' = "seen" /\ ana' \in {"process", "wait"}
  /\ UNCHANGED <<state, stopping, accepting, started, captureVars, asked, sup, err, capture, pipe,
                 cap, disp, callbacks, badEvent, queue, item, made, accepted, settled>>

\* The wait for a frame ends; processing starts if a new one is due.
FrameWaitEnds ==
  /\ ana = "wait"
  /\ \/ /\ stopping /\ ana' = "ended" /\ UNCHANGED frame
     \/ /\ ~stopping
        /\ TakesFrame /\ ana' \in {"process", "wait"}
  /\ UNCHANGED <<state, stopping, accepting, started, captureVars, asked, sup, err, capture, pipe,
                 cap, disp, callbacks, badEvent, queue, item, made, accepted, settled>>

\* _emit, in the pipeline's thread: schedule a callback task, or fail when
\* too many are pending.
Emit ==
  /\ ana = "process" /\ made < MaxEvents
  /\ IF Len(callbacks) < EventQueueSize
     THEN callbacks' = Append(callbacks, made + 1) /\ made' = made + 1 /\ UNCHANGED ana
     ELSE ana' = "failed" /\ UNCHANGED <<callbacks, made>>
  /\ UNCHANGED <<state, stopping, accepting, started, captureVars, asked, sup, err, capture, pipe,
                 cap, disp, frame, badEvent, queue, item, accepted, settled>>

\* The frame is done, or detection or an analyzer raises.
ProcessEnds(ok) ==
  /\ ana = "process"
  /\ ana' = IF ~ok THEN "failed" ELSE IF stopping THEN "ended" ELSE "wait"
  /\ UNCHANGED <<state, stopping, accepting, started, captureVars, asked, sup, err, capture, pipe,
                 cap, disp, eventVars>>

\* _queue_event, run by the oldest callback task.
QueueEvent(valid) ==
  /\ callbacks # << >>
  /\ callbacks' = Tail(callbacks)
  /\ \/ /\ ~accepting \/ stopping \/ (valid /\ Len(queue) >= EventQueueSize)
        /\ UNCHANGED <<badEvent, queue, accepted>>
     \/ /\ accepting /\ ~stopping /\ ~valid
        /\ badEvent' = TRUE
        /\ UNCHANGED <<queue, accepted>>
     \/ /\ accepting /\ ~stopping /\ valid /\ Len(queue) < EventQueueSize
        /\ queue' = Append(queue, Head(callbacks))
        /\ accepted' = Append(accepted, Head(callbacks))
        /\ UNCHANGED badEvent
  /\ UNCHANGED <<state, stopping, accepting, started, captureVars, asked, taskVars, frame, item,
                 made, settled>>

-----------------------------------------------------------------------------
(* The dispatcher.                                                         *)

TakeEvent ==
  /\ disp = "get" /\ queue # << >>
  /\ queue' = Tail(queue) /\ item' = Head(queue)
  /\ disp' = IF Head(queue) = EventStop THEN "ended" ELSE "emit"
  /\ UNCHANGED <<state, stopping, accepting, started, captureVars, asked, sup, err, capture, pipe,
                 cap, ana, frame, callbacks, badEvent, made, accepted, settled>>

\* Variant with a bug: a failed event is dropped without being settled.
SinkReturnsOrDrops ==
  /\ disp = "emit"
  /\ disp' = "get" /\ settled' \in {settled, Append(settled, item)} /\ item' = EventStop
  /\ UNCHANGED <<state, stopping, accepting, started, captureVars, asked, sup, err, capture, pipe,
                 cap, ana, frame, callbacks, badEvent, queue, made, accepted>>

\* The sink returns, raises or times out; either way the event is done with.
SinkReturns ==
  /\ disp = "emit"
  /\ disp' = "get" /\ settled' = Append(settled, item) /\ item' = EventStop
  /\ UNCHANGED <<state, stopping, accepting, started, captureVars, asked, sup, err, capture, pipe,
                 cap, ana, frame, callbacks, badEvent, queue, made, accepted>>

Supervisor ==
  \/ \E ok \in BOOLEAN : CaptureBuilt(ok) \/ PipelineBuilt(ok) \/ PipelineCloses(ok)
  \/ SupervisorWakes \/ SupervisorGathers \/ QueueJoined \/ SupervisorEnds

CaptureLoop == ReadReturns \/ BackoffEnds

AnalyticsLoop == FrameWaitEnds \/ \E ok \in BOOLEAN : ProcessEnds(ok)

Callback == \E valid \in BOOLEAN : QueueEvent(valid)

Dispatcher == TakeEvent \/ SinkReturns

Next == Start \/ Stop \/ Supervisor \/ CaptureLoop \/ Reader \/ AnalyticsLoop \/ Emit \/ Callback
        \/ Dispatcher

(***************************************************************************)
(* The event loop runs every task that can run, and the calls it makes in  *)
(* threads return: frame waits have timeouts, the sink has                 *)
(* event_sink_timeout_seconds, and the factories, the native calls and a   *)
(* frame's processing are assumed to return.  Nothing obliges anyone to    *)
(* call start or stop.                                                     *)
(***************************************************************************)
Fairness ==
  /\ WF_vars(Supervisor) /\ WF_vars(CaptureLoop) /\ WF_vars(Reader) /\ WF_vars(AnalyticsLoop)
  /\ WF_vars(Callback) /\ WF_vars(Dispatcher)

Spec == Init /\ [][Next]_vars /\ Fairness

-----------------------------------------------------------------------------
(* Properties.                                                             *)

\* Type correctness; the queue and the callback tasks keep to their limit.
TypeOK ==
  /\ state \in DOMAIN ValidTransitions
  /\ {stopping, accepting, err, badEvent, asked} \subseteq BOOLEAN
  /\ started \in {"none", "pending", "resolved", "rejected"}
  /\ sup \in {"none", "capture", "pipeline", "run", "gather", "aclose", "join", "await", "done"}
  /\ capture \in {"none", "open", "closed"}
  /\ pipe \in {"none", "open", "closing", "closed"}
  /\ cap \in {"none", "read", "backoff"} \cup Ended
  /\ ana \in {"none", "wait", "process"} \cup Ended
  /\ disp \in {"none", "get", "emit", "ended"}
  /\ StreamingTypeOK
  /\ {callbacks, accepted, settled} \subseteq Seq(1..MaxEvents)
  /\ queue \in Seq(0..MaxEvents) /\ item \in 0..MaxEvents
  /\ Len(queue) <= EventQueueSize /\ Len(callbacks) <= EventQueueSize

\* _transition never raises: whatever the supervisor, the capture loop and
\* stop() do at the same time, each state change is one VALID_TRANSITIONS
\* allows, and a worker that stops has published STOPPING before.
TransitionsAreValid ==
  [][state' # state => state' \in ValidTransitions[state]]_vars

\* Accepted events reach the sink in callback order, and none is lost or
\* handed over twice, through failures and shutdown: the stop sentinel comes
\* after all of them.
EventsInOrder ==
  accepted = settled \o (IF disp = "emit" THEN <<item>> ELSE << >>)
                     \o (IF queue = <<EventStop>> THEN << >> ELSE queue)

\* A terminal state is published only when everything the worker owned is
\* settled: capture and pipeline closed, no native capture left open by a
\* connect that was late, tasks over, accepted events handled.
TerminalMeansReleased ==
  sup # "none" /\ state \in {"STOPPED", "FAILED"} =>
    /\ capture # "open" /\ live = {} /\ pipe \notin {"open", "closing"}
    /\ {cap, ana, disp} \subseteq Ended \cup {"none"}
    /\ callbacks = << >> /\ settled = accepted /\ frame = "none"
    /\ started # "pending"

\* The worker as its manager sees it takes only the steps of WorkerLife, and
\* _transition never raises, whatever stop() and the loops do at the same time.
Life == [state |-> IF sup = "none" THEN "NEW" ELSE IF state = "RECONNECTING" THEN "RUNNING" ELSE state,
         ready |-> started = "resolved"]
FollowsLife ==
  /\ Life = NewLife
  /\ [][\/ Life = NewLife /\ Life' = Begun
        \/ Life' = AskedToStop(Life)
        \/ Life' \in OwnSteps(Life)]_Life
  /\ TransitionsAreValid

\* start() and stop() return: a start is resolved or rejected, and a stop sees
\* the supervisor finish, even if a factory, a connect or a frame was still
\* under way or a loop failed meanwhile.
StartAndStopReturn ==
  /\ started = "pending" ~> started # "pending"
  /\ asked ~> sup = "done"

\* A failed loop brings the worker down; it is not left half alive.
FailureTerminates == "failed" \in {cap, ana} ~> state = "FAILED"
=============================================================================
