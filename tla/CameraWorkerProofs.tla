------------------------- MODULE CameraWorkerProofs -------------------------
(***************************************************************************)
(* Machine-checked proofs about CameraWorker and the capture it owns       *)
(* (module Streaming), for any queue size and any number of events.        *)
(***************************************************************************)
EXTENDS CameraWorker, SequenceTheorems, TLAPS

-----------------------------------------------------------------------------
(* The inductive invariant, in parts.                                      *)

\* What read() holds at each of its points, and what close() has taken away.
CaptureKnown ==
  /\ held # None => rd \in {"stale", "opened", "unopened", "replaced", "drop"}
  /\ rd \in {"stale", "connect", "opened", "unopened"} => handle = None
  /\ rd # "idle" => cap = "read"
  /\ capture # "open" => handle = None
  /\ shut <=> capture = "closed"

\* The supervisor before, in and after the run of the loops.
BeforeRun ==
  /\ sup = "none" => state = "STOPPED" /\ started = "none" /\ ~asked /\ ~stopping
  /\ sup \in {"none", "capture"} => capture = "none"
  /\ sup \in {"none", "capture", "pipeline"} =>
       cap = "none" /\ ana = "none" /\ disp = "none" /\ pipe = "none" /\ ~accepting
  /\ sup \in {"capture", "pipeline"} =>
       state = (IF asked THEN "STOPPING" ELSE "STARTING") /\ started = "pending"
  /\ sup \in {"capture", "pipeline", "run"} => stopping = asked
  /\ sup = "pipeline" => capture = (IF asked THEN "closed" ELSE "open")
InRun ==
  /\ accepting => sup = "run"
  /\ sup = "run" => state \in (IF asked THEN {"STOPPING"} ELSE Running) /\ capture # "none"
  /\ sup \in {"run", "gather"} => pipe = "open"
  /\ sup \in {"run", "gather", "join", "await"} =>
       cap # "none" /\ ana # "none" /\ disp # "none" /\ started = "resolved"
  /\ sup \in {"run", "gather", "aclose", "join"} => disp # "ended"
\* A worker that was not asked to stop has an error to report.
Unwinding ==
  /\ sup \in {"gather", "aclose", "join", "await"} =>
       /\ stopping /\ capture = "closed"
       /\ IF asked THEN state = "STOPPING" ELSE state \in Running /\ err
  /\ sup = "aclose" =>
       /\ pipe = "closing"
       /\ disp = "none" => cap = "none" /\ ana = "none" /\ asked /\ started = "pending"
       /\ disp # "none" => {cap, ana} \subseteq Ended /\ started = "resolved"
  /\ sup \in {"join", "await"} => {cap, ana} \subseteq Ended /\ callbacks = << >> /\ pipe = "closed"
  /\ sup = "await" => \/ disp = "get" /\ queue = <<EventStop>>
                      \/ disp = "ended" /\ queue = << >>
Over ==
  sup = "done" =>
    /\ state \in {"STOPPED", "FAILED"} /\ started # "pending" /\ frame = "none"
    /\ capture # "open" /\ pipe \notin {"open", "closing"} /\ {cap, ana, disp} \subseteq Ended \cup {"none"}
    /\ callbacks = << >> /\ queue = << >>

\* The events: none before the tasks are made, and the sentinel only at the end.
EventsKnown ==
  /\ made \in 0..MaxEvents
  /\ disp = "none" => queue = << >> /\ callbacks = << >> /\ accepted = << >> /\ settled = << >>
  /\ sup # "await" => queue \in Seq(1..MaxEvents)
  /\ disp = "emit" => item \in 1..MaxEvents

IInv == /\ TypeOK /\ NativesOwned /\ CaptureKnown /\ BeforeRun /\ InRun /\ Unwinding /\ Over
        /\ EventsKnown /\ EventsInOrder

-----------------------------------------------------------------------------
(* Every step preserves the invariant.                                     *)

LEMMA InitIInv == Init => IInv
<1> SUFFICES ASSUME Init PROVE IInv
  OBVIOUS
<1>1. << >> \in Seq(1..MaxEvents) /\ << >> \in Seq(0..MaxEvents) /\ Len(<< >>) = 0 /\ 0 \in 0..MaxEvents
  BY WorkerAssumption
<1>2. TypeOK
  <2>1. StreamingTypeOK
    BY DEF Init, StreamingInit, StreamingTypeOK
  <2>2. "STOPPED" \in DOMAIN ValidTransitions
    BY DEF ValidTransitions
  <2>3. {callbacks, accepted, settled} \subseteq Seq(1..MaxEvents)
    BY <1>1 DEF Init
  <2>4. /\ queue \in Seq(0..MaxEvents) /\ item \in 0..MaxEvents
        /\ Len(queue) <= EventQueueSize /\ Len(callbacks) <= EventQueueSize
    BY <1>1, WorkerAssumption DEF Init, EventStop
  <2> QED
    BY <2>1, <2>2, <2>3, <2>4 DEF Init, TypeOK
<1>3. NativesOwned /\ CaptureKnown /\ BeforeRun /\ InRun /\ Unwinding /\ Over
  BY DEF Init, StreamingInit, NativesOwned, CaptureKnown, BeforeRun, InRun, Unwinding, Over, None
<1>4. EventsKnown /\ EventsInOrder
  BY <1>1 DEF Init, EventsKnown, EventsInOrder, EventStop
<1> QED
  BY <1>2, <1>3, <1>4 DEF IInv

\* A sequence of events is not the sentinel.
LEMMA SentinelApart ==
  ASSUME NEW s \in Seq(1..MaxEvents)
  PROVE  s # <<EventStop>>
<1> SUFFICES ASSUME s = <<EventStop>> PROVE FALSE
  OBVIOUS
<1>1. Len(s) = 1 /\ s[1] = 0
  BY DEF EventStop
<1> QED
  BY <1>1, ElementOfSeq, WorkerAssumption

\* Facts about the sequences of events.
LEMMA JoinedSeq ==
  ASSUME NEW S, NEW s \in Seq(S), NEW q \in Seq(S), NEW e \in S
  PROVE  /\ s \o << >> = s /\ << >> \o q = q
         /\ s \o <<e>> = Append(s, e)
         /\ s \o (<<e>> \o q) = Append(s, e) \o q
         /\ s \o Append(q, e) = Append(s \o q, e)
         /\ q # << >> => <<Head(q)>> \o Tail(q) = q
<1>1. <<e>> \in Seq(S) /\ << >> \in Seq(S)
  OBVIOUS
<1>2. s \o << >> = s /\ << >> \o q = q
  BY ConcatEmptySeq
<1>3. s \o <<e>> = Append(s, e) /\ q \o <<e>> = Append(q, e)
  BY AppendIsConcat
<1>4. (s \o q) \o <<e>> = Append(s \o q, e)
  BY AppendIsConcat, ConcatProperties
<1>5. s \o (<<e>> \o q) = (s \o <<e>>) \o q /\ s \o (q \o <<e>>) = (s \o q) \o <<e>>
  BY SMTT(30), <1>1, ConcatAssociative
<1>6. q # << >> => <<Head(q)>> \o Tail(q) = q
  BY HeadTailProperties
<1> QED
  BY <1>2, <1>3, <1>4, <1>5, <1>6

\* Closing the capture keeps it typed, and closed it stays.
LEMMA ClosingTypes ==
  ASSUME TypeOK, CloseCaptureOnce, frame' = frame
  PROVE  capture' \in {"none", "closed"} /\ StreamingTypeOK'
BY DEF TypeOK, StreamingTypeOK, CloseCaptureOnce, Close, captureVars, None, Natives, Results

LEMMA StartStep ==
  ASSUME IInv, Start
  PROVE  IInv'
<1>1. TypeOK'
  BY DEF IInv, TypeOK, StreamingTypeOK, ValidTransitions, Ended, Results, Start, Transition,
       taskVars, eventVars, captureVars
<1>2. NativesOwned' /\ CaptureKnown'
  BY DEF IInv, TypeOK, StreamingTypeOK, NativesOwned, CaptureKnown, BeforeRun, InRun,
       Unwinding, None, Natives, Results, Start, Transition, taskVars, eventVars, captureVars
<1>3. BeforeRun' /\ InRun' /\ Unwinding' /\ Over'
  BY DEF IInv, TypeOK, CaptureKnown, BeforeRun, InRun, Unwinding, Over, Ended, Running,
       EventsKnown, Start, Transition, taskVars, eventVars, captureVars
<1>4. EventsKnown' /\ EventsInOrder'
  BY DEF IInv, TypeOK, EventsKnown, EventsInOrder, BeforeRun, Unwinding, Start, Transition,
       taskVars, eventVars, captureVars
<1> QED
  BY <1>1, <1>2, <1>3, <1>4 DEF IInv

LEMMA StopStep ==
  ASSUME IInv, Stop
  PROVE  IInv'
<1>1. TypeOK'
  <2>1. capture' \in {"none", "open", "closed"} /\ StreamingTypeOK'
    BY ClosingTypes DEF IInv, Stop, eventVars
  <2>2. state' \in DOMAIN ValidTransitions
    BY DEF IInv, TypeOK, ValidTransitions, Stop, Transition
  <2>3. stopping' \in BOOLEAN /\ accepting' \in BOOLEAN /\ asked' \in BOOLEAN
    BY DEF IInv, TypeOK, Stop, Unwinds
  <2> QED
    BY <2>1, <2>2, <2>3 DEF IInv, TypeOK, Ended, Unwinds, Stop, eventVars
<1>2. NativesOwned' /\ CaptureKnown'
  BY DEF IInv, TypeOK, StreamingTypeOK, NativesOwned, CaptureKnown, BeforeRun, InRun,
       Unwinding, None, Natives, Results, Stop, CloseCaptureOnce, Close, Transition, taskVars,
       eventVars, captureVars
<1>3. BeforeRun' /\ InRun' /\ Unwinding' /\ Over'
  BY DEF IInv, TypeOK, CaptureKnown, BeforeRun, InRun, Unwinding, Over, Ended, Running,
       EventsKnown, Stop, CloseCaptureOnce, Close, Transition, taskVars, eventVars, captureVars
<1>4. EventsKnown' /\ EventsInOrder'
  BY DEF IInv, TypeOK, EventsKnown, EventsInOrder, BeforeRun, Unwinding, Stop,
       CloseCaptureOnce, Close, Transition, taskVars, eventVars, captureVars
<1> QED
  BY <1>1, <1>2, <1>3, <1>4 DEF IInv

LEMMA SupervisorWakesStep ==
  ASSUME IInv, SupervisorWakes
  PROVE  IInv'
<1>1. TypeOK'
  <2>1. capture' \in {"none", "open", "closed"} /\ StreamingTypeOK'
    BY ClosingTypes DEF IInv, SupervisorWakes, eventVars
  <2>2. state' \in DOMAIN ValidTransitions
    BY DEF IInv, TypeOK, ValidTransitions, SupervisorWakes, Transition
  <2>3. stopping' \in BOOLEAN /\ accepting' \in BOOLEAN /\ err' \in BOOLEAN
    BY DEF IInv, TypeOK, SupervisorWakes, Unwinds
  <2> QED
    BY <2>1, <2>2, <2>3 DEF IInv, TypeOK, Ended, Unwinds, SupervisorWakes, eventVars
<1>2. NativesOwned' /\ CaptureKnown'
  BY DEF IInv, TypeOK, StreamingTypeOK, NativesOwned, CaptureKnown, BeforeRun, InRun,
       Unwinding, None, Natives, Results, SupervisorWakes, Unwinds, CloseCaptureOnce, Close,
       Transition, taskVars, eventVars, captureVars
<1>3. BeforeRun' /\ InRun' /\ Unwinding' /\ Over'
  <2>1. capture' = "closed"
    BY DEF IInv, TypeOK, InRun, SupervisorWakes, CloseCaptureOnce
  <2>2. /\ sup = "run" /\ sup' = "gather" /\ stopping' = TRUE /\ accepting' = FALSE
        /\ UNCHANGED <<state, started, asked, pipe, cap, ana, disp, queue, callbacks>>
    BY DEF SupervisorWakes, Unwinds, eventVars
  <2>3. ~asked => state \in Running /\ err'
    BY <2>2 DEF IInv, TypeOK, InRun, BeforeRun, SupervisorWakes
  <2> QED
    BY <2>1, <2>2, <2>3 DEF IInv, TypeOK, BeforeRun, InRun, Unwinding, Over, Running
<1>4. EventsKnown' /\ EventsInOrder'
  BY DEF IInv, TypeOK, EventsKnown, EventsInOrder, BeforeRun, Unwinding, SupervisorWakes,
       Unwinds, CloseCaptureOnce, Close, Transition, taskVars, eventVars, captureVars
<1> QED
  BY <1>1, <1>2, <1>3, <1>4 DEF IInv

LEMMA SupervisorGathersStep ==
  ASSUME IInv, SupervisorGathers
  PROVE  IInv'
<1>1. TypeOK'
  BY DEF IInv, TypeOK, StreamingTypeOK, ValidTransitions, Ended, Results, SupervisorGathers,
       Transition, taskVars, eventVars, captureVars
<1>2. NativesOwned' /\ CaptureKnown'
  BY DEF IInv, TypeOK, StreamingTypeOK, NativesOwned, CaptureKnown, BeforeRun, InRun,
       Unwinding, None, Natives, Results, SupervisorGathers, Transition, taskVars, eventVars,
       captureVars
<1>3. BeforeRun' /\ InRun' /\ Unwinding' /\ Over'
  BY DEF IInv, TypeOK, CaptureKnown, BeforeRun, InRun, Unwinding, Over, Ended, Running,
       EventsKnown, SupervisorGathers, Transition, taskVars, eventVars, captureVars
<1>4. EventsKnown' /\ EventsInOrder'
  BY DEF IInv, TypeOK, EventsKnown, EventsInOrder, BeforeRun, Unwinding, SupervisorGathers,
       Transition, taskVars, eventVars, captureVars
<1> QED
  BY <1>1, <1>2, <1>3, <1>4 DEF IInv

LEMMA SupervisorEndsStep ==
  ASSUME IInv, SupervisorEnds
  PROVE  IInv'
<1>1. TypeOK'
  BY DEF IInv, TypeOK, StreamingTypeOK, ValidTransitions, Ended, Results, SupervisorEnds,
       Finish, ClearFrames, SettleStarted, Transition, taskVars, eventVars, captureVars
<1>2. NativesOwned' /\ CaptureKnown'
  BY DEF IInv, TypeOK, StreamingTypeOK, NativesOwned, CaptureKnown, BeforeRun, InRun,
       Unwinding, None, Natives, Results, SupervisorEnds, Finish, ClearFrames, SettleStarted,
       Transition, taskVars, eventVars, captureVars
<1>3. BeforeRun' /\ InRun' /\ Unwinding' /\ Over'
  BY DEF IInv, TypeOK, CaptureKnown, BeforeRun, InRun, Unwinding, Over, Ended, Running,
       EventsKnown, SupervisorEnds, Finish, ClearFrames, SettleStarted, Transition, taskVars,
       eventVars, captureVars
<1>4. EventsKnown' /\ EventsInOrder'
  BY DEF IInv, TypeOK, EventsKnown, EventsInOrder, BeforeRun, Unwinding, SupervisorEnds,
       Finish, ClearFrames, SettleStarted, Transition, taskVars, eventVars, captureVars
<1> QED
  BY <1>1, <1>2, <1>3, <1>4 DEF IInv

LEMMA ReadReturnsStep ==
  ASSUME IInv, ReadReturns
  PROVE  IInv'
<1>1. TypeOK'
  BY DEF IInv, TypeOK, StreamingTypeOK, ValidTransitions, Ended, Results, ReadReturns,
       PutFrame, Transition, taskVars, eventVars, captureVars
<1>2. NativesOwned' /\ CaptureKnown'
  BY DEF IInv, TypeOK, StreamingTypeOK, NativesOwned, CaptureKnown, BeforeRun, InRun,
       Unwinding, None, Natives, Results, ReadReturns, PutFrame, Transition, taskVars, eventVars,
       captureVars
<1>3. BeforeRun' /\ InRun' /\ Unwinding' /\ Over'
  BY DEF IInv, TypeOK, CaptureKnown, BeforeRun, InRun, Unwinding, Over, Ended, Running,
       EventsKnown, ReadReturns, PutFrame, Transition, taskVars, eventVars, captureVars
<1>4. EventsKnown' /\ EventsInOrder'
  BY DEF IInv, TypeOK, EventsKnown, EventsInOrder, BeforeRun, Unwinding, ReadReturns,
       PutFrame, Transition, taskVars, eventVars, captureVars
<1> QED
  BY <1>1, <1>2, <1>3, <1>4 DEF IInv

LEMMA BackoffEndsStep ==
  ASSUME IInv, BackoffEnds
  PROVE  IInv'
<1>1. TypeOK'
  BY DEF IInv, TypeOK, StreamingTypeOK, ValidTransitions, Ended, Results, BackoffEnds,
       Transition, taskVars, eventVars, captureVars
<1>2. NativesOwned' /\ CaptureKnown'
  BY DEF IInv, TypeOK, StreamingTypeOK, NativesOwned, CaptureKnown, BeforeRun, InRun,
       Unwinding, None, Natives, Results, BackoffEnds, Transition, taskVars, eventVars, captureVars
<1>3. BeforeRun' /\ InRun' /\ Unwinding' /\ Over'
  BY DEF IInv, TypeOK, CaptureKnown, BeforeRun, InRun, Unwinding, Over, Ended, Running,
       EventsKnown, BackoffEnds, Transition, taskVars, eventVars, captureVars
<1>4. EventsKnown' /\ EventsInOrder'
  BY DEF IInv, TypeOK, EventsKnown, EventsInOrder, BeforeRun, Unwinding, BackoffEnds,
       Transition, taskVars, eventVars, captureVars
<1> QED
  BY <1>1, <1>2, <1>3, <1>4 DEF IInv

LEMMA CaptureBuiltStep ==
  ASSUME IInv, NEW ok \in BOOLEAN, CaptureBuilt(ok)
  PROVE  IInv'
<1>1. TypeOK'
  <2>1. err' \in BOOLEAN
    BY DEF IInv, TypeOK, CaptureBuilt, Finish
  <2>2. StreamingTypeOK' /\ capture' \in {"none", "open", "closed"}
    BY DEF IInv, TypeOK, StreamingTypeOK, None, Natives, Results, CaptureBuilt, Finish, ClearFrames,
           Close, captureVars
  <2>3. stopping' \in BOOLEAN /\ accepting' \in BOOLEAN
    BY DEF IInv, TypeOK, CaptureBuilt, Unwinds
  <2>4. /\ state' \in DOMAIN ValidTransitions /\ started' \in {"none", "pending", "resolved", "rejected"}
        /\ sup' \in {"pipeline", "done"}
    BY DEF IInv, TypeOK, ValidTransitions, CaptureBuilt, Finish, SettleStarted, Transition
  <2> QED
    BY <2>1, <2>2, <2>3, <2>4 DEF IInv, TypeOK, CaptureBuilt
<1>2. NativesOwned' /\ CaptureKnown'
  BY DEF IInv, TypeOK, StreamingTypeOK, NativesOwned, CaptureKnown, BeforeRun, InRun,
       Unwinding, None, Natives, Results, CaptureBuilt, Unwinds, Close, Finish, ClearFrames,
       SettleStarted, Transition, taskVars, eventVars, captureVars
<1>3. BeforeRun' /\ InRun' /\ Unwinding' /\ Over'
  BY DEF IInv, TypeOK, CaptureKnown, BeforeRun, InRun, Unwinding, Over, Ended, Running,
       EventsKnown, CaptureBuilt, Unwinds, Close, Finish, ClearFrames, SettleStarted, Transition,
       taskVars, eventVars, captureVars
<1>4. EventsKnown' /\ EventsInOrder'
  BY DEF IInv, TypeOK, EventsKnown, EventsInOrder, BeforeRun, Unwinding, CaptureBuilt,
       Unwinds, Close, Finish, ClearFrames, SettleStarted, Transition, taskVars, eventVars,
       captureVars
<1> QED
  BY <1>1, <1>2, <1>3, <1>4 DEF IInv

LEMMA PipelineBuiltStep ==
  ASSUME IInv, NEW ok \in BOOLEAN, PipelineBuilt(ok)
  PROVE  IInv'
<1>1. TypeOK'
  BY DEF IInv, TypeOK, StreamingTypeOK, ValidTransitions, Ended, Results, PipelineBuilt,
       Unwinds, CloseCaptureOnce, Close, Finish, ClearFrames, SettleStarted, Transition, taskVars,
       eventVars, captureVars
<1>2. NativesOwned' /\ CaptureKnown'
  BY DEF IInv, TypeOK, StreamingTypeOK, NativesOwned, CaptureKnown, BeforeRun, InRun,
       Unwinding, None, Natives, Results, PipelineBuilt, Unwinds, CloseCaptureOnce, Close, Finish,
       ClearFrames, SettleStarted, Transition, taskVars, eventVars, captureVars
<1>3. BeforeRun' /\ InRun' /\ Unwinding' /\ Over'
  BY DEF IInv, TypeOK, CaptureKnown, BeforeRun, InRun, Unwinding, Over, Ended, Running,
       EventsKnown, PipelineBuilt, Unwinds, CloseCaptureOnce, Close, Finish, ClearFrames,
       SettleStarted, Transition, taskVars, eventVars, captureVars
<1>4. EventsKnown' /\ EventsInOrder'
  BY DEF IInv, TypeOK, EventsKnown, EventsInOrder, BeforeRun, Unwinding, PipelineBuilt,
       Unwinds, CloseCaptureOnce, Close, Finish, ClearFrames, SettleStarted, Transition, taskVars,
       eventVars, captureVars
<1> QED
  BY <1>1, <1>2, <1>3, <1>4 DEF IInv

LEMMA PipelineClosesStep ==
  ASSUME IInv, NEW ok \in BOOLEAN, PipelineCloses(ok)
  PROVE  IInv'
<1>1. TypeOK'
  <2>1. err' \in BOOLEAN
    BY DEF IInv, TypeOK, PipelineCloses, Finish
  <2> QED
    BY <2>1 DEF IInv, TypeOK, StreamingTypeOK, ValidTransitions, Ended, Results, None, Natives, PipelineCloses, Finish, ClearFrames,
       SettleStarted, Unwinds, Close, Transition, captureVars
<1>2. NativesOwned' /\ CaptureKnown'
  BY DEF IInv, TypeOK, StreamingTypeOK, NativesOwned, CaptureKnown, BeforeRun, InRun,
       Unwinding, None, Natives, Results, PipelineCloses, Finish, ClearFrames, SettleStarted,
       Transition, taskVars, eventVars, captureVars
<1>3. BeforeRun' /\ InRun' /\ Unwinding' /\ Over'
  BY DEF IInv, TypeOK, CaptureKnown, BeforeRun, InRun, Unwinding, Over, Ended, Running,
       EventsKnown, PipelineCloses, Finish, ClearFrames, SettleStarted, Transition, taskVars,
       eventVars, captureVars
<1>4. EventsKnown' /\ EventsInOrder'
  BY DEF IInv, TypeOK, EventsKnown, EventsInOrder, BeforeRun, Unwinding, PipelineCloses,
       Finish, ClearFrames, SettleStarted, Transition, taskVars, eventVars, captureVars
<1> QED
  BY <1>1, <1>2, <1>3, <1>4 DEF IInv

LEMMA QueueJoinedStep ==
  ASSUME IInv, QueueJoined
  PROVE  IInv'
<1>1. TypeOK'
  <2>1. queue' \in Seq(0..MaxEvents) /\ Len(queue') <= EventQueueSize
    BY WorkerAssumption DEF QueueJoined, EventStop
  <2> QED
    BY <2>1 DEF IInv, TypeOK, StreamingTypeOK, captureVars, QueueJoined
<1>2. NativesOwned' /\ CaptureKnown'
  BY DEF IInv, TypeOK, StreamingTypeOK, NativesOwned, CaptureKnown, BeforeRun, InRun,
       Unwinding, None, Natives, Results, QueueJoined, Transition, taskVars, eventVars, captureVars
<1>3. BeforeRun' /\ InRun' /\ Unwinding' /\ Over'
  BY DEF IInv, TypeOK, CaptureKnown, BeforeRun, InRun, Unwinding, Over, Ended, Running,
       EventsKnown, QueueJoined, Transition, taskVars, eventVars, captureVars
<1>4. EventsKnown' /\ EventsInOrder'
  BY DEF IInv, TypeOK, EventsKnown, EventsInOrder, BeforeRun, Unwinding, QueueJoined,
       Transition, taskVars, eventVars, captureVars
<1> QED
  BY <1>1, <1>2, <1>3, <1>4 DEF IInv

LEMMA FrameWaitEndsStep ==
  ASSUME IInv, FrameWaitEnds
  PROVE  IInv'
<1>1. TypeOK'
  BY DEF IInv, TypeOK, StreamingTypeOK, ValidTransitions, Ended, Results, FrameWaitEnds,
       TakesFrame, Transition, taskVars, eventVars, captureVars
<1>2. NativesOwned' /\ CaptureKnown'
  BY DEF IInv, TypeOK, StreamingTypeOK, NativesOwned, CaptureKnown, BeforeRun, InRun,
       Unwinding, None, Natives, Results, FrameWaitEnds, TakesFrame, Transition, taskVars,
       eventVars, captureVars
<1>3. BeforeRun' /\ InRun' /\ Unwinding' /\ Over'
  BY DEF IInv, TypeOK, CaptureKnown, BeforeRun, InRun, Unwinding, Over, Ended, Running,
       EventsKnown, FrameWaitEnds, TakesFrame, Transition, taskVars, eventVars, captureVars
<1>4. EventsKnown' /\ EventsInOrder'
  BY DEF IInv, TypeOK, EventsKnown, EventsInOrder, BeforeRun, Unwinding, FrameWaitEnds,
       TakesFrame, Transition, taskVars, eventVars, captureVars
<1> QED
  BY <1>1, <1>2, <1>3, <1>4 DEF IInv

LEMMA ProcessEndsStep ==
  ASSUME IInv, NEW ok \in BOOLEAN, ProcessEnds(ok)
  PROVE  IInv'
<1>1. TypeOK'
  BY DEF IInv, TypeOK, StreamingTypeOK, ValidTransitions, Ended, Results, ProcessEnds,
       Transition, taskVars, eventVars, captureVars
<1>2. NativesOwned' /\ CaptureKnown'
  BY DEF IInv, TypeOK, StreamingTypeOK, NativesOwned, CaptureKnown, BeforeRun, InRun,
       Unwinding, None, Natives, Results, ProcessEnds, Transition, taskVars, eventVars, captureVars
<1>3. BeforeRun' /\ InRun' /\ Unwinding' /\ Over'
  BY DEF IInv, TypeOK, CaptureKnown, BeforeRun, InRun, Unwinding, Over, Ended, Running,
       EventsKnown, ProcessEnds, Transition, taskVars, eventVars, captureVars
<1>4. EventsKnown' /\ EventsInOrder'
  BY DEF IInv, TypeOK, EventsKnown, EventsInOrder, BeforeRun, Unwinding, ProcessEnds,
       Transition, taskVars, eventVars, captureVars
<1> QED
  BY <1>1, <1>2, <1>3, <1>4 DEF IInv

LEMMA EmitStep ==
  ASSUME IInv, Emit
  PROVE  IInv'
<1>0. made + 1 \in 1..MaxEvents /\ made \in 0..MaxEvents /\ callbacks \in Seq(1..MaxEvents)
  <2>1. made \in 0..MaxEvents /\ made < MaxEvents
    BY DEF IInv, EventsKnown, Emit
  <2>2. callbacks \in Seq(1..MaxEvents)
    BY DEF IInv, TypeOK
  <2> QED
    BY <2>1, <2>2, WorkerAssumption
<1>1. TypeOK'
  <2>1. callbacks' \in Seq(1..MaxEvents) /\ Len(callbacks') <= EventQueueSize
    <3>1. Len(Append(callbacks, made + 1)) = Len(callbacks) + 1 /\ Append(callbacks, made + 1) \in Seq(1..MaxEvents)
      BY <1>0, AppendProperties
    <3>2. Len(callbacks) \in Nat /\ Len(callbacks) <= EventQueueSize
      BY <1>0, LenProperties DEF IInv, TypeOK
    <3>3. CASE Len(callbacks) < EventQueueSize
      <4>1. callbacks' = Append(callbacks, made + 1)
        BY <3>3 DEF Emit
      <4> QED
        BY <3>1, <3>2, <3>3, <4>1, WorkerAssumption
    <3> QED
      BY <1>0, <3>2, <3>3 DEF Emit
  <2> QED
    BY <2>1 DEF IInv, TypeOK, StreamingTypeOK, Ended, Emit, captureVars
<1>2. NativesOwned' /\ CaptureKnown'
  BY DEF IInv, NativesOwned, CaptureKnown, Emit, captureVars
<1>3. BeforeRun' /\ InRun' /\ Unwinding' /\ Over'
  BY DEF IInv, TypeOK, CaptureKnown, BeforeRun, InRun, Unwinding, Over, Ended, Emit
<1>4. EventsKnown'
  <2>1. disp # "none"
    BY DEF IInv, TypeOK, BeforeRun, InRun, Unwinding, Over, Emit, Ended
  <2> QED
    BY <1>0, <2>1 DEF IInv, EventsKnown, Emit
<1>5. EventsInOrder'
  BY DEF IInv, EventsInOrder, Emit
<1> QED
  BY <1>1, <1>2, <1>3, <1>4, <1>5 DEF IInv

\* An event is accepted only while the loops run, when no sentinel is queued.
LEMMA QueueEventStep ==
  ASSUME IInv, NEW valid \in BOOLEAN, QueueEvent(valid)
  PROVE  IInv'
<1> DEFINE e == Head(callbacks)
<1>0. /\ callbacks \in Seq(1..MaxEvents) /\ callbacks # << >> /\ accepted \in Seq(1..MaxEvents)
      /\ settled \in Seq(1..MaxEvents)
  BY DEF IInv, TypeOK, QueueEvent
<1>1. e \in 1..MaxEvents /\ callbacks' \in Seq(1..MaxEvents) /\ Len(callbacks') <= EventQueueSize
  BY <1>0, WorkerAssumption, HeadTailProperties DEF QueueEvent, IInv, TypeOK
<1>2. disp # "none"
  BY <1>0 DEF IInv, EventsKnown
<1>3. /\ NativesOwned' /\ CaptureKnown' /\ BeforeRun' /\ InRun'
      /\ UNCHANGED <<state, stopping, accepting, started, asked, sup, disp, frame, item, settled, made>>
  BY DEF IInv, NativesOwned, CaptureKnown, BeforeRun, InRun, QueueEvent, captureVars, taskVars
<1>4. CASE UNCHANGED <<queue, accepted>>
  <2>0. badEvent' \in BOOLEAN
    BY DEF IInv, TypeOK, QueueEvent
  <2>1. TypeOK'
    BY <1>1, <1>4, <2>0 DEF IInv, TypeOK, StreamingTypeOK, QueueEvent, captureVars, taskVars
  <2>2. Unwinding' /\ Over'
    BY <1>0, <1>4 DEF IInv, Unwinding, Over, QueueEvent, taskVars
  <2>3. EventsKnown' /\ EventsInOrder'
    BY <1>2, <1>3, <1>4 DEF IInv, EventsKnown, EventsInOrder
  <2> QED
    BY <1>3, <2>1, <2>2, <2>3 DEF IInv
<1>5. CASE /\ accepting /\ ~stopping /\ Len(queue) < EventQueueSize /\ badEvent' = badEvent
           /\ queue' = Append(queue, e) /\ accepted' = Append(accepted, e)
  <2>1. sup = "run" /\ disp \in {"get", "emit"} /\ queue \in Seq(1..MaxEvents)
    BY <1>2, <1>5 DEF IInv, TypeOK, InRun, EventsKnown
  <2>2. /\ queue' \in Seq(1..MaxEvents) /\ accepted' \in Seq(1..MaxEvents)
        /\ Len(queue') = Len(queue) + 1
    BY <1>0, <1>1, <1>5, <2>1, AppendProperties
  <2>3. queue' \in Seq(0..MaxEvents) /\ Len(queue') <= EventQueueSize
    <3>1. queue' \in Seq(0..MaxEvents)
      BY <2>2, 1..MaxEvents \subseteq 0..MaxEvents, SeqMonotonic
    <3> QED
      BY <1>5, <2>1, <2>2, <3>1, WorkerAssumption
  <2>4. TypeOK'
    BY <1>1, <2>2, <2>3 DEF IInv, TypeOK, StreamingTypeOK, QueueEvent, captureVars, taskVars
  <2>5. Unwinding' /\ Over'
    BY <2>1, <1>3 DEF Unwinding, Over
  <2>6. EventsKnown'
    BY <1>3, <2>1, <2>2 DEF IInv, EventsKnown
  <2>7. EventsInOrder'
    <3>1. queue # <<EventStop>> /\ queue' # <<EventStop>>
      BY <2>1, <2>2, SentinelApart
    <3> DEFINE taken == IF disp = "emit" THEN <<item>> ELSE << >>
    <3>2. taken \in Seq(1..MaxEvents)
      <4>1. CASE disp = "emit"
        BY <4>1 DEF IInv, EventsKnown
      <4>2. CASE disp # "emit"
        BY <4>2, EmptySeq
      <4> QED
        BY <4>1, <4>2
    <3>3. accepted = (settled \o taken) \o queue
      BY <3>1 DEF IInv, EventsInOrder
    <3>4. settled \o taken \in Seq(1..MaxEvents)
      BY <1>0, <3>2, ConcatProperties
    <3> HIDE DEF taken
    <3>5. Append(accepted, e) = (settled \o taken) \o Append(queue, e)
      BY SMTT(30), <1>1, <2>1, <3>3, <3>4, JoinedSeq
    <3> QED
      BY <1>3, <1>5, <3>1, <3>5 DEF EventsInOrder, taken
  <2> QED
    BY <1>3, <2>4, <2>5, <2>6, <2>7 DEF IInv
<1> QED
  BY <1>4, <1>5 DEF QueueEvent

\* The dispatcher takes the oldest event, or the sentinel once the queue has drained.
LEMMA TakeEventStep ==
  ASSUME IInv, TakeEvent
  PROVE  IInv'
<1>0. /\ disp = "get" /\ queue # << >> /\ queue \in Seq(0..MaxEvents)
      /\ queue' = Tail(queue) /\ item' = Head(queue)
      /\ settled \in Seq(1..MaxEvents) /\ accepted \in Seq(1..MaxEvents)
  BY DEF IInv, TypeOK, TakeEvent
<1>1. Head(queue) \in 0..MaxEvents /\ Tail(queue) \in Seq(0..MaxEvents) /\ Len(Tail(queue)) <= EventQueueSize
  BY <1>0, HeadTailProperties, LenProperties, WorkerAssumption DEF IInv, TypeOK
<1>2. TypeOK'
  BY <1>0, <1>1 DEF IInv, TypeOK, StreamingTypeOK, TakeEvent, captureVars
<1>3. NativesOwned' /\ CaptureKnown' /\ BeforeRun'
  BY <1>0 DEF IInv, NativesOwned, CaptureKnown, BeforeRun, TakeEvent, captureVars
<1>4. CASE sup = "await"
  <2>1. queue = <<EventStop>>
    BY <1>0, <1>4 DEF IInv, Unwinding
  <2>2. Tail(queue) = << >> /\ Head(queue) = EventStop
    BY <2>1
  <2>3. disp' = "ended" /\ sup' = sup /\ queue' = << >>
    BY <1>0, <2>2 DEF TakeEvent
  <2>4. InRun' /\ Over' /\ Unwinding'
    BY <1>4, <2>3 DEF IInv, InRun, Over, Unwinding, TakeEvent
  <2>5. EventsKnown'
    BY <1>4, <2>3 DEF IInv, EventsKnown, TakeEvent
  <2>6. EventsInOrder'
    <3>1. << >> # <<EventStop>>
      OBVIOUS
    <3>2. accepted' = accepted /\ settled' = settled
      BY DEF TakeEvent
    <3> QED
      BY <1>0, <2>1, <2>3, <3>1, <3>2 DEF IInv, EventsInOrder
  <2> QED
    BY <1>2, <1>3, <2>4, <2>5, <2>6 DEF IInv
<1>5. CASE sup # "await"
  <2>1. queue \in Seq(1..MaxEvents)
    BY <1>5 DEF IInv, EventsKnown
  <2>2. Head(queue) \in 1..MaxEvents /\ Tail(queue) \in Seq(1..MaxEvents)
    BY <1>0, <2>1, HeadTailProperties
  <2>3. disp' = "emit"
    BY <2>2, WorkerAssumption DEF TakeEvent, EventStop
  <2>4. InRun' /\ Over' /\ Unwinding'
    BY <1>0, <1>5, <2>3 DEF IInv, InRun, Over, Unwinding, TakeEvent
  <2>5. EventsKnown'
    BY <1>0, <1>5, <2>2, <2>3 DEF IInv, EventsKnown, TakeEvent
  <2>6. EventsInOrder'
    <3>1. queue # <<EventStop>> /\ queue' # <<EventStop>>
      BY <1>0, <2>1, <2>2, SentinelApart
    <3>2. accepted = (settled \o << >>) \o queue
      BY <1>0, <3>1 DEF IInv, EventsInOrder
    <3>3. settled \o << >> = settled /\ <<Head(queue)>> \o Tail(queue) = queue
      BY <1>0, <2>1, <2>2, JoinedSeq
    <3>4. settled \o (<<Head(queue)>> \o Tail(queue)) = (settled \o <<Head(queue)>>) \o Tail(queue)
      BY SMTT(30), <1>0, <2>2, ConcatAssociative
    <3>5. accepted' = accepted /\ settled' = settled
      BY DEF TakeEvent
    <3> QED
      BY <1>0, <2>3, <3>1, <3>2, <3>3, <3>4, <3>5 DEF EventsInOrder
  <2> QED
    BY <1>2, <1>3, <2>4, <2>5, <2>6 DEF IInv
<1> QED
  BY <1>4, <1>5

\* The sink is done with the event: it moves from the dispatcher to the settled ones.
LEMMA SinkReturnsStep ==
  ASSUME IInv, SinkReturns
  PROVE  IInv'
<1>0. /\ disp = "emit" /\ disp' = "get" /\ item \in 1..MaxEvents /\ queue' = queue
      /\ settled' = Append(settled, item) /\ settled \in Seq(1..MaxEvents) /\ accepted' = accepted
  BY DEF IInv, TypeOK, EventsKnown, SinkReturns
<1>1. TypeOK'
  <2>1. settled' \in Seq(1..MaxEvents) /\ 0 \in 0..MaxEvents
    BY <1>0, AppendProperties, WorkerAssumption
  <2> QED
    BY <1>0, <2>1 DEF IInv, TypeOK, StreamingTypeOK, SinkReturns, EventStop, captureVars
<1>2. NativesOwned' /\ CaptureKnown' /\ BeforeRun'
  BY <1>0 DEF IInv, NativesOwned, CaptureKnown, BeforeRun, SinkReturns, captureVars
<1>3. sup # "await"
  BY <1>0 DEF IInv, Unwinding
<1>4. InRun' /\ Over' /\ Unwinding' /\ EventsKnown'
  BY <1>0, <1>3, WorkerAssumption DEF IInv, InRun, Over, Unwinding, EventsKnown, Ended, SinkReturns, EventStop
<1>5. EventsInOrder'
  <2>1. queue \in Seq(1..MaxEvents)
    BY <1>3 DEF IInv, EventsKnown
  <2>2. queue # <<EventStop>>
    BY <2>1, SentinelApart
  <2>3. accepted = (settled \o <<item>>) \o queue
    BY <1>0, <2>2 DEF IInv, EventsInOrder
  <2>4. settled \o <<item>> = Append(settled, item)
    BY <1>0, AppendIsConcat
  <2>5. Append(settled, item) \o << >> = Append(settled, item)
    BY <1>0, AppendProperties, ConcatEmptySeq
  <2> QED
    BY <1>0, <2>2, <2>3, <2>4, <2>5 DEF EventsInOrder
<1> QED
  BY <1>1, <1>2, <1>4, <1>5 DEF IInv

\* A step of read(): what it holds is what its position says, and a closed capture is
\* never installed.
LEMMA ReaderStep ==
  ASSUME IInv, Reader
  PROVE  IInv'
<1>1. /\ UNCHANGED <<state, stopping, accepting, started, asked, taskVars, eventVars>>
      /\ rd # "idle" /\ rd' # "idle" /\ shut' = shut /\ Read
  BY DEF Reader, Read, ReadBegins, DelayEnds, Checks, ReleasesStale, Constructs, Installs, ReleasesReplaced,
         Reads, Drops
<1>2. CASE Constructs
  <2>1. handle = None /\ held = None /\ live = {}
    BY <1>2 DEF IInv, NativesOwned, CaptureKnown, Constructs
  <2>2. (CHOOSE n \in Natives : n \notin live) \in Natives
    BY <2>1, 1 \in Natives DEF Natives
  <2>3. StreamingTypeOK' /\ NativesOwned'
    BY <1>1, <1>2, <2>1, <2>2
       DEF IInv, TypeOK, StreamingTypeOK, NativesOwned, Constructs, None, Natives, Results, eventVars
  <2>4. CaptureKnown'
    BY <1>1, <1>2, <2>1 DEF IInv, CaptureKnown, Constructs, taskVars
  <2> QED
    BY <1>1, <2>3, <2>4
       DEF IInv, TypeOK, BeforeRun, InRun, Unwinding, Over, EventsKnown, EventsInOrder, taskVars, eventVars
<1>3. CASE ~Constructs
  <2>1. StreamingTypeOK'
    BY <1>1, <1>3
       DEF IInv, TypeOK, StreamingTypeOK, Read, ReadBegins, DelayEnds, Checks, ReleasesStale,
           Installs, ReleasesReplaced, Reads, Drops, None, Natives, Results, eventVars
  <2>2. NativesOwned'
    BY <1>1, <1>3
       DEF IInv, NativesOwned, CaptureKnown, Read, ReadBegins, DelayEnds, Checks, ReleasesStale,
           Installs, ReleasesReplaced, Reads, Drops
  <2>0. capture # "none" /\ cap = "read"
    BY <1>1 DEF IInv, TypeOK, CaptureKnown, BeforeRun, InRun, Unwinding, Over, Ended
  <2>3. CaptureKnown'
    BY <1>1, <1>3, <2>0
       DEF IInv, TypeOK, NativesOwned, CaptureKnown, Read, ReadBegins, DelayEnds, Checks, ReleasesStale,
           Installs, ReleasesReplaced, Reads, Drops, taskVars
  <2> QED
    BY <1>1, <2>1, <2>2, <2>3
       DEF IInv, TypeOK, BeforeRun, InRun, Unwinding, Over, EventsKnown, EventsInOrder, taskVars, eventVars
<1> QED
  BY <1>2, <1>3

LEMMA NextIInv == IInv /\ [Next]_vars => IInv'
<1> SUFFICES ASSUME IInv, [Next]_vars PROVE IInv'
  OBVIOUS
<1>1. CASE UNCHANGED vars
  BY <1>1 DEF vars, taskVars, eventVars, captureVars, IInv, TypeOK, StreamingTypeOK, NativesOwned, CaptureKnown,
              BeforeRun, InRun, Unwinding, Over, EventsKnown, EventsInOrder
<1> QED
  BY <1>1, StartStep, StopStep, CaptureBuiltStep, PipelineBuiltStep, PipelineClosesStep,
     SupervisorWakesStep, SupervisorGathersStep, QueueJoinedStep, SupervisorEndsStep, ReadReturnsStep,
     BackoffEndsStep, ReaderStep, FrameWaitEndsStep, ProcessEndsStep, EmitStep, QueueEventStep,
     TakeEventStep, SinkReturnsStep
     DEF Next, Supervisor, CaptureLoop, AnalyticsLoop, Callback, Dispatcher

LEMMA Invariance == Spec => []IInv
BY InitIInv, NextIInv, PTL DEF Spec

-----------------------------------------------------------------------------
(* The results.                                                            *)

\* The worker's state stays typed, and the event queue and the callback tasks keep to
\* event_queue_size.
THEOREM TypeCorrect == Spec => []TypeOK
<1>1. IInv => TypeOK
  BY DEF IInv
<1> QED
  BY <1>1, Invariance, PTL

\* ResilientCapture leaks no native capture and releases none twice, whatever reconnects,
\* failed connects and a close() on the event loop interleave with a read.
THEOREM CapturesAreOwned == Spec => []NativesOwned
<1>1. IInv => NativesOwned
  BY DEF IInv
<1> QED
  BY <1>1, Invariance, PTL

\* The dispatcher hands accepted events to the sink in order, each once, for any queue size.
THEOREM EventsAreInOrder == Spec => []EventsInOrder
<1>1. IInv => EventsInOrder
  BY DEF IInv
<1> QED
  BY <1>1, Invariance, PTL

\* A worker publishes STOPPED or FAILED only when everything it owned has been released.
THEOREM TerminalIsReleased == Spec => []TerminalMeansReleased
<1>1. IInv => TerminalMeansReleased
  <2> SUFFICES ASSUME IInv, sup # "none", state \in {"STOPPED", "FAILED"} PROVE TerminalMeansReleased
    BY DEF TerminalMeansReleased
  <2>1. sup = "done"
    BY DEF IInv, TypeOK, BeforeRun, InRun, Unwinding, Running
  <2>2. live = {}
    BY <2>1 DEF IInv, Over, NativesOwned, CaptureKnown, Ended
  <2>3. settled = accepted
    <3>1. disp # "emit" /\ queue = << >> /\ settled \in Seq(1..MaxEvents)
      BY <2>1 DEF IInv, TypeOK, Over, Ended
    <3>2. << >> # <<EventStop>>
      OBVIOUS
    <3>3. accepted = (settled \o << >>) \o << >>
      BY <3>1, <3>2 DEF IInv, EventsInOrder
    <3> QED
      BY <3>1, <3>3, ConcatEmptySeq
  <2> QED
    BY <2>1, <2>2, <2>3 DEF IInv, Over, TerminalMeansReleased
<1> QED
  BY <1>1, Invariance, PTL

\* The steps that change what the manager sees: each is one of WorkerLife, and one that
\* VALID_TRANSITIONS allows.
LifeStep ==
  /\ \/ Life = NewLife /\ Life' = Begun
     \/ Life' = AskedToStop(Life)
     \/ Life' \in OwnSteps(Life)
     \/ Life' = Life
  /\ state' # state => state' \in ValidTransitions[state]

\* VALID_TRANSITIONS and the steps of WorkerLife, state by state.
LEMMA TransitionTable ==
  /\ ValidTransitions["STOPPED"] = {"STARTING"}
  /\ ValidTransitions["STARTING"] = {"RUNNING", "RECONNECTING", "FAILED", "STOPPING"}
  /\ ValidTransitions["RUNNING"] = {"RECONNECTING", "STOPPING", "FAILED"}
  /\ ValidTransitions["RECONNECTING"] = {"RUNNING", "STOPPING", "FAILED"}
  /\ ValidTransitions["STOPPING"] = {"STOPPED", "FAILED"}
  /\ \A b \in BOOLEAN :
       /\ OwnSteps([state |-> "STARTING", ready |-> b]) =
            {[state |-> "RUNNING", ready |-> TRUE], [state |-> "FAILED", ready |-> b]}
       /\ OwnSteps([state |-> "RUNNING", ready |-> b]) = {[state |-> "FAILED", ready |-> b]}
       /\ OwnSteps([state |-> "STOPPING", ready |-> b]) =
            {[state |-> "STOPPED", ready |-> TRUE], [state |-> "FAILED", ready |-> b]}
       /\ \A s \in {"STARTING", "RUNNING"} :
            AskedToStop([state |-> s, ready |-> b]) = [state |-> "STOPPING", ready |-> b]
       /\ \A s \in {"NEW", "STOPPING", "STOPPED", "FAILED"} :
            AskedToStop([state |-> s, ready |-> b]) = [state |-> s, ready |-> b]
BY DEF ValidTransitions, OwnSteps, AskedToStop

\* Finish publishes STOPPED on a worker that was stopping, and FAILED on any.
LEMMA FinishFollowsLife ==
  ASSUME IInv, NEW e \in BOOLEAN, Finish(e), sup \notin {"none", "done"},
         ~e => state = "STOPPING", state \in {"STARTING", "RUNNING", "RECONNECTING", "STOPPING"}
  PROVE  LifeStep
<1> DEFINE L == IF state = "RECONNECTING" THEN "RUNNING" ELSE state
           b == started = "resolved"
<1>1. b \in BOOLEAN /\ Life = [state |-> L, ready |-> b] /\ started \in {"pending", "resolved"}
  BY DEF Life, IInv, TypeOK, BeforeRun, InRun, Unwinding
<1>2. Life' = IF e THEN [state |-> "FAILED", ready |-> b] ELSE [state |-> "STOPPED", ready |-> TRUE]
  <2>1. state' = (IF e THEN "FAILED" ELSE "STOPPED") /\ sup' = "done"
    BY DEF Finish, Transition
  <2>2. (started' = "resolved") = (IF e THEN b ELSE TRUE)
    BY <1>1 DEF Finish, SettleStarted
  <2> QED
    BY <2>1, <2>2 DEF Life
<1>3. Life' \in OwnSteps(Life)
  <2> HIDE DEF b
  <2>1. CASE state = "STARTING"
    BY <1>1, <1>2, <2>1, TransitionTable
  <2>2. CASE state \in {"RUNNING", "RECONNECTING"}
    BY <1>1, <1>2, <2>2, TransitionTable
  <2>3. CASE state = "STOPPING"
    BY <1>1, <1>2, <2>3, TransitionTable
  <2> QED
    BY <2>1, <2>2, <2>3
<1>4. state' # state => state' \in ValidTransitions[state]
  BY TransitionTable DEF Finish, Transition
<1> QED
  BY <1>3, <1>4 DEF LifeStep

LEMMA NextFollowsLife ==
  ASSUME IInv, [Next]_vars
  PROVE  LifeStep
<1>1. CASE Start
  <2>1. state = "STOPPED" /\ state' = "STARTING" /\ Life = NewLife /\ Life' = Begun
    BY <1>1 DEF IInv, BeforeRun, Start, Transition, Life, NewLife, Begun
  <2> QED
    BY <2>1, TransitionTable DEF LifeStep
<1>2. CASE Stop
  <2> DEFINE L == IF state = "RECONNECTING" THEN "RUNNING" ELSE state
             b == started = "resolved"
  <2>1. b \in BOOLEAN /\ Life = [state |-> L, ready |-> b] /\ sup # "none" /\ sup' = sup /\ started' = started
    BY <1>2 DEF Life, Stop
  <2>2. CASE sup # "done" /\ state \in {"STARTING"} \cup Running
    <3>1. state' = "STOPPING"
      BY <1>2, <2>2 DEF Stop, Transition
    <3>2. Life' = [state |-> "STOPPING", ready |-> b]
      BY <2>1, <3>1 DEF Life
    <3>3. L \in {"STARTING", "RUNNING"} /\ state \in {"STARTING", "RUNNING", "RECONNECTING"}
      BY <2>2 DEF Running
    <3> HIDE DEF L, b
    <3> QED
      BY <2>1, <3>1, <3>2, <3>3, TransitionTable DEF LifeStep
  <2>3. CASE ~(sup # "done" /\ state \in {"STARTING"} \cup Running)
    <3>1. state' = state
      BY <1>2, <2>3 DEF Stop, Transition
    <3> QED
      BY <2>1, <3>1 DEF LifeStep, Life
  <2> QED
    BY <2>2, <2>3
<1>3. ASSUME NEW ok \in BOOLEAN, CaptureBuilt(ok) PROVE LifeStep
  <2>1. CASE ok /\ ~stopping
    BY <1>3, <2>1 DEF CaptureBuilt, LifeStep, Life
  <2>2. CASE ~(ok /\ ~stopping)
    <3>1. Finish(~ok) /\ sup = "capture"
      BY <1>3, <2>2 DEF CaptureBuilt
    <3>2. state \in {"STARTING", "STOPPING"} /\ (ok => state = "STOPPING")
      BY <2>2, <3>1 DEF IInv, BeforeRun
    <3> QED
      <4>1. CASE ok
        <5>1. Finish(FALSE)
          BY <3>1, <4>1
        <5> QED
          BY <3>1, <3>2, <4>1, <5>1, FinishFollowsLife
      <4>2. CASE ~ok
        <5>1. Finish(TRUE)
          BY <3>1, <4>2
        <5> QED
          BY <3>1, <3>2, <4>2, <5>1, FinishFollowsLife
      <4> QED
        BY <4>1, <4>2
  <2> QED
    BY <2>1, <2>2
<1>4. ASSUME NEW ok \in BOOLEAN, PipelineBuilt(ok) PROVE LifeStep
  <2>1. CASE ok /\ ~stopping
    <3>1. state = "STARTING" /\ started = "pending" /\ sup = "pipeline"
      BY <1>4, <2>1 DEF PipelineBuilt, IInv, BeforeRun
    <3>2. state' = "RUNNING" /\ started' = "resolved" /\ sup' = "run"
      BY <1>4, <2>1, <3>1 DEF PipelineBuilt, Transition, SettleStarted
    <3>3. Life = [state |-> "STARTING", ready |-> FALSE] /\ Life' = [state |-> "RUNNING", ready |-> TRUE]
      BY <3>1, <3>2 DEF Life
    <3> QED
      BY <3>1, <3>2, <3>3, TransitionTable, FALSE \in BOOLEAN DEF LifeStep
  <2>2. CASE ok /\ stopping
    BY <1>4, <2>2 DEF PipelineBuilt, LifeStep, Life
  <2>3. CASE ~ok
    <3>1. Finish(TRUE) /\ sup = "pipeline"
      BY <1>4, <2>3 DEF PipelineBuilt
    <3>2. state \in {"STARTING", "STOPPING"}
      BY <3>1 DEF IInv, BeforeRun
    <3> QED
      BY <3>1, <3>2, FinishFollowsLife
  <2> QED
    BY <2>1, <2>2, <2>3
<1>5. ASSUME NEW ok \in BOOLEAN, PipelineCloses(ok) PROVE LifeStep
  <2>1. CASE disp = "none"
    <3> DEFINE e == err \/ badEvent \/ ~ok
    <3>1. Finish(e) /\ sup = "aclose" /\ e \in BOOLEAN
      BY <1>5, <2>1 DEF PipelineCloses
    <3>2. state = "STOPPING"
      BY <2>1, <3>1 DEF IInv, Unwinding
    <3> HIDE DEF e
    <3> QED
      BY <3>1, <3>2, FinishFollowsLife
  <2>2. CASE disp # "none"
    BY <1>5, <2>2 DEF PipelineCloses, LifeStep, Life
  <2> QED
    BY <2>1, <2>2
<1>6. CASE SupervisorEnds
  <2>1. Finish(err) /\ sup = "await" /\ err \in BOOLEAN
    BY <1>6 DEF SupervisorEnds, IInv, TypeOK
  <2>2. state \in {"RUNNING", "RECONNECTING", "STOPPING"} /\ (~err => state = "STOPPING")
    BY <2>1 DEF IInv, Unwinding, Running
  <2> QED
    BY <2>1, <2>2, FinishFollowsLife
<1>7. CASE ReadReturns
  <2>1. sup # "none" /\ sup' = sup /\ started' = started
    BY <1>7 DEF ReadReturns, IInv, BeforeRun
  <2>2. ~stopping => sup = "run" /\ state \in {"RUNNING", "RECONNECTING"}
    BY <1>7 DEF ReadReturns, IInv, TypeOK, BeforeRun, InRun, Unwinding, Over, Ended, Running
  <2>3. state' = state \/ {state, state'} \subseteq {"RUNNING", "RECONNECTING"}
    BY <1>7, <2>2 DEF ReadReturns, Transition
  <2>4. Life' = Life
    BY <2>1, <2>3 DEF Life
  <2> QED
    BY <2>3, <2>4, TransitionTable DEF LifeStep
<1>8. CASE SupervisorWakes \/ SupervisorGathers \/ QueueJoined
  BY <1>8 DEF SupervisorWakes, SupervisorGathers, QueueJoined, LifeStep, Life
<1>9. CASE BackoffEnds \/ Reader \/ FrameWaitEnds \/ Emit \/ TakeEvent \/ SinkReturns \/ UNCHANGED vars
  BY <1>9 DEF BackoffEnds, Reader, FrameWaitEnds, Emit, TakeEvent, SinkReturns, vars, taskVars,
              LifeStep, Life
<1>10. CASE (\E ok \in BOOLEAN : ProcessEnds(ok)) \/ (\E valid \in BOOLEAN : QueueEvent(valid))
  BY <1>10 DEF ProcessEnds, QueueEvent, taskVars, LifeStep, Life
<1> QED
  BY <1>1, <1>2, <1>3, <1>4, <1>5, <1>6, <1>7, <1>8, <1>9, <1>10
     DEF Next, Supervisor, CaptureLoop, AnalyticsLoop, Callback, Dispatcher

\* Whatever stop(), the supervisor and the loops do at the same time, the manager sees a
\* worker that takes the steps of WorkerLife, and _transition never raises.
THEOREM WorkerFollowsLife == Spec => FollowsLife
<1>1. Init => Life = NewLife
  BY DEF Init, Life, NewLife
<1>2. IInv /\ [Next]_vars =>
        [\/ Life = NewLife /\ Life' = Begun
         \/ Life' = AskedToStop(Life)
         \/ Life' \in OwnSteps(Life)]_Life
  BY NextFollowsLife DEF LifeStep
<1>3. IInv /\ [Next]_vars => [state' # state => state' \in ValidTransitions[state]]_vars
  BY NextFollowsLife DEF LifeStep
<1> QED
  BY <1>1, <1>2, <1>3, Invariance, PTL DEF Spec, FollowsLife, TransitionsAreValid
=============================================================================
