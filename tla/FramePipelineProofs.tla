------------------------- MODULE FramePipelineProofs -------------------------
(***************************************************************************)
(* Machine-checked proofs about FramePipeline, for any finite number of    *)
(* threads, any number of waiting and closing tasks, and any limits, and   *)
(* about the Analyzers it runs on each frame, for any configuration that   *)
(* CVConfig accepts, any zones, any pictures and any number of tracks.     *)
(***************************************************************************)
EXTENDS FramePipeline, Analyzers, FiniteSetTheorems, SequenceTheorems, TLAPS

-----------------------------------------------------------------------------
(* The inductive invariant.                                                *)

Positions == {"idle", "queued", "admitted", "locked", "calling", "reserved", "created",
              "released", "remembered", "leaving"}
Outside == {"idle", "queued"}                  \* not counted in _active_processes
Calling == {"calling", "reserved", "created", "released", "remembered"}
Locked == Calling \cup {"locked"}              \* under _process_lock

TaskType == [st : {"none", "created", "running", "done", "failed", "cancelled"},
             cancel : BOOLEAN, registered : BOOLEAN, seen : BOOLEAN]

FramesTypeOK ==
  /\ closing \in BOOLEAN /\ closed \in BOOLEAN /\ accepting \in BOOLEAN
  /\ holder \in Threads \union {None}
  /\ active \in Nat /\ submissions \in Nat /\ reservations \in Nat
  /\ futures \subseteq Ids /\ errors \in Seq(Ids) /\ Len(errors) <= MaxErrors
  /\ thread \in [Threads -> [pc : Positions, todo : 0..MaxEvents, task : 0..MaxTasks]]
  /\ task \in [Ids -> TaskType]
  /\ closeTask \in [pc : {"none", "processes", "submissions", "settle", "executor", "ended"},
                    cancel : BOOLEAN, errors : SUBSET Ids]
  /\ closer \in [Closers -> {"idle", "awaiting", "returned", "gaveup", "closed"}]
  /\ waiter \in [Waiters -> [pc : {"idle", "submissions", "settle", "gather"},
                             snap : SUBSET Ids]]
  /\ sync \in {"idle", "shutdown", "processes", "sealed"}
  /\ heard \subseteq Ids /\ overflowed \subseteq Ids

\* The lock admits one thread to a frame's analysis and its events.
HeldByOne ==
  /\ \A t \in Threads : thread[t].pc \in Locked <=> holder = t
  /\ \A t \in Threads : thread[t].pc = "queued" => t = Worker
  /\ \A t \in Threads : thread[t].pc \in Calling => thread[t].todo > 0
  /\ \A t \in Threads : thread[t].pc \in {"created", "released", "remembered"} =>
       thread[t].task \in Ids

\* The counters say where the threads are.
Busy == {t \in Threads : thread[t].pc \notin Outside}
HolderAt(pcs) == holder # None /\ thread[holder].pc \in pcs
Counted ==
  /\ active = Cardinality(Busy)
  /\ submissions = IF HolderAt(Calling) THEN 1 ELSE 0
  /\ reservations = IF HolderAt({"reserved", "created"}) THEN 1 ELSE 0

\* The task the holder has created and _callback_futures need not hold yet.
Coming == IF HolderAt({"created", "released"}) THEN {thread[holder].task} ELSE {}

\* Whatever lives on the loop is remembered or coming, and there is room for it.
Bounded ==
  /\ Live \subseteq futures \union Coming
  /\ Cardinality(futures \union Coming)
       + (IF HolderAt({"reserved"}) THEN 1 ELSE 0) <= MaxPending

\* A shutdown empties the pipeline in this order, and nothing refills it.
Quiet == \A t \in Threads : thread[t].pc \in Outside
Draining ==
  /\ closeTask.pc # "none" \/ sync # "idle" \/ closed => closing
  /\ closeTask.pc \in {"submissions", "settle", "executor", "ended"} => Quiet
  /\ closeTask.pc \in {"executor", "ended"} => futures = {}
  /\ sync \in {"processes", "sealed"} => \A t \in Threads : thread[t].pc # "queued"
  /\ sync = "sealed" => Quiet /\ futures = {}
  /\ closed => Quiet /\ futures = {} /\ \A t \in Threads : thread[t].pc # "queued"

\* Where the error of a failed callback is.
ErrorsKept ==
  /\ \A k \in Ids : task[k].seen => k \in Ended
  /\ \A k \in Ids : task[k].st = "failed" /\ task[k].seen =>
       k \in ToSet(errors) \union heard \union overflowed \union closeTask.errors
  /\ closeTask.pc \notin {"executor", "ended"} => closeTask.errors = {}
  /\ \A c \in Closers : closer[c] = "returned" =>
       closeTask.pc = "ended" /\ closeTask.errors \subseteq heard

IInv ==
  /\ FramesTypeOK /\ HeldByOne /\ Counted /\ Bounded /\ Draining /\ ErrorsKept

-----------------------------------------------------------------------------
(* Facts the steps share.                                                  *)

ThreadType == [pc : Positions, todo : 0..MaxEvents, task : 0..MaxTasks]

LEMMA FiniteFacts ==
  /\ IsFiniteSet(Ids) /\ Cardinality(Ids) = MaxTasks
  /\ \A S : S \subseteq Ids => IsFiniteSet(S) /\ Cardinality(S) \in Nat
<1>1. MaxTasks \in Nat
  BY PipelineAssumption
<1>2. IsFiniteSet(Ids) /\ Cardinality(Ids) = MaxTasks
  BY <1>1, FS_Interval DEF Ids
<1>3. ASSUME NEW S, S \subseteq Ids PROVE IsFiniteSet(S) /\ Cardinality(S) \in Nat
  BY <1>2, <1>3, FS_Subset, FS_CardinalityType
<1> QED
  BY <1>2, <1>3

LEMMA BusyFinite == IsFiniteSet(Busy) /\ Cardinality(Busy) \in Nat
                    /\ Cardinality(Busy) <= Cardinality(Threads)
BY PipelineAssumption, FS_Subset, FS_CardinalityType DEF Busy

LEMMA TaskUpdates ==
  ASSUME NEW x \in TaskType
  PROVE  /\ \A v \in {"none", "created", "running", "done", "failed", "cancelled"} :
              [x EXCEPT !.st = v] \in TaskType
         /\ [x EXCEPT !.registered = TRUE] \in TaskType
         /\ [x EXCEPT !.seen = TRUE] \in TaskType
         /\ [x EXCEPT !.cancel = TRUE] \in TaskType
BY DEF TaskType

\* A thread's move in terms of its whole record.
LEMMA GotoFacts ==
  ASSUME FramesTypeOK, NEW t \in Threads, NEW pc \in Positions, Goto(t, pc)
  PROVE  LET r == [pc |-> pc, todo |-> thread[t].todo, task |-> thread[t].task]
         IN  r \in ThreadType /\ thread' = [thread EXCEPT ![t] = r]
<1>1. thread[t] \in ThreadType
  BY DEF FramesTypeOK, ThreadType
<1>2. [thread[t] EXCEPT !.pc = pc]
        = [pc |-> pc, todo |-> thread[t].todo, task |-> thread[t].task]
  BY <1>1 DEF ThreadType
<1>3. thread' = [thread EXCEPT ![t] = [thread[t] EXCEPT !.pc = pc]]
  BY DEF Goto
<1> QED
  BY <1>1, <1>2, <1>3 DEF ThreadType

\* An empty Busy is a quiet pipeline, with nobody under the lock.
LEMMA QuietFacts ==
  ASSUME FramesTypeOK, HeldByOne
  PROVE  /\ Quiet => holder = None /\ Busy = {} /\ Coming = {} /\ ~HolderAt(Calling)
         /\ Busy = {} => Quiet
<1>1. Busy = {} => Quiet
  BY DEF Busy, Quiet
<1>2. ASSUME Quiet PROVE holder = None /\ Busy = {}
  BY <1>2 DEF Quiet, Busy, FramesTypeOK, HeldByOne, Locked, Calling, Outside
<1>3. holder = None => Coming = {} /\ ~HolderAt(Calling)
  BY DEF Coming, HolderAt
<1> QED
  BY <1>1, <1>2, <1>3

LEMMA NotBusyIsQuiet == FramesTypeOK /\ HeldByOne /\ Counted /\ active = 0 => Quiet
<1> SUFFICES ASSUME FramesTypeOK, HeldByOne, Counted, active = 0 PROVE Quiet
  OBVIOUS
<1>1. Busy = {}
  BY BusyFinite, FS_EmptySet DEF Counted
<1> QED
  BY <1>1, QuietFacts

\* Only idle and queued threads do not disturb a shutdown; a busy one says how
\* far the shutdown can be.
LEMMA BusyFacts ==
  ASSUME Draining, NEW t \in Threads, thread[t].pc \notin Outside
  PROVE  closeTask.pc \notin {"submissions", "settle", "executor", "ended"}
         /\ sync # "sealed" /\ ~closed
BY DEF Draining, Quiet

-----------------------------------------------------------------------------
(* Steps of _emit(): the thread keeps the lock.                            *)

LEMMA EmitMoves ==
  ASSUME IInv, NEW t \in Threads, holder = t, NEW r \in ThreadType, r.pc \in Locked,
         r.pc \in {"created", "released", "remembered"} => r.task \in Ids,
         r.pc \in Calling => r.todo > 0,
         thread' = [thread EXCEPT ![t] = r],
         submissions' = IF r.pc \in Calling THEN 1 ELSE 0,
         reservations' = IF r.pc \in {"reserved", "created"} THEN 1 ELSE 0,
         UNCHANGED <<life, accepting, holder, active, errors, overflowed, enders>>,
         futures' \subseteq Ids, FramesTypeOK => FramesTypeOK',
         LET coming == IF r.pc \in {"created", "released"} THEN {r.task} ELSE {}
         IN  /\ Live' \subseteq futures' \union coming
             /\ Cardinality(futures' \union coming)
                  + (IF r.pc = "reserved" THEN 1 ELSE 0) <= MaxPending,
         ErrorsKept'
  PROVE  IInv'
<1> USE DEF IInv
<1>1. t # None /\ thread \in [Threads -> ThreadType] /\ thread[t].pc \in Locked
  BY PipelineAssumption DEF FramesTypeOK, ThreadType, HeldByOne
<1>2. /\ thread' \in [Threads -> ThreadType] /\ thread'[t] = r /\ holder' = t
      /\ \A u \in Threads : u # t => thread'[u] = thread[u]
  BY <1>1
<1>3. r.pc \notin Outside /\ thread[t].pc \notin Outside /\ r.pc # "queued"
  BY <1>1 DEF Locked, Calling, Outside
<1>4. HeldByOne'
  BY <1>2, <1>3 DEF HeldByOne, Outside
<1>5. \A pcs : HolderAt(pcs)' <=> r.pc \in pcs
  BY <1>1, <1>2 DEF HolderAt
<1>6. Counted'
  <2>1. Busy' = Busy
    BY <1>2, <1>3 DEF Busy
  <2> QED
    BY <2>1, <1>5 DEF Counted
<1>7. Bounded'
  <2>1. Coming' = IF r.pc \in {"created", "released"} THEN {r.task} ELSE {}
    BY <1>2, <1>5 DEF Coming
  <2>2. HolderAt({"reserved"})' <=> r.pc = "reserved"
    BY <1>5
  <2> QED
    BY <2>1, <2>2 DEF Bounded
<1>8. Draining'
  <2>1. /\ closeTask.pc \notin {"submissions", "settle", "executor", "ended"}
        /\ sync # "sealed" /\ ~closed
    BY <1>3, BusyFacts
  <2> QED
    BY <1>2, <1>3, <2>1 DEF Draining, Quiet, life, enders
<1> QED
  BY <1>4, <1>6, <1>7, <1>8

\* What the invariant says of the thread under the lock.
LEMMA UnderLock ==
  ASSUME IInv, NEW t \in Threads, thread[t].pc \in Locked
  PROVE  LET coming == IF thread[t].pc \in {"created", "released"} THEN {thread[t].task} ELSE {}
         IN  /\ holder = t /\ thread[t] \in ThreadType
             /\ submissions = IF thread[t].pc \in Calling THEN 1 ELSE 0
             /\ reservations = IF thread[t].pc \in {"reserved", "created"} THEN 1 ELSE 0
             /\ Live \subseteq futures \union coming
             /\ Cardinality(futures \union coming)
                  + (IF thread[t].pc = "reserved" THEN 1 ELSE 0) <= MaxPending
<1>1. holder = t /\ holder # None /\ thread[t] \in ThreadType
  BY PipelineAssumption DEF IInv, HeldByOne, FramesTypeOK, ThreadType
<1>2. \A pcs : HolderAt(pcs) <=> thread[t].pc \in pcs
  BY <1>1 DEF HolderAt
<1>3. Coming = IF thread[t].pc \in {"created", "released"} THEN {thread[t].task} ELSE {}
  BY <1>1, <1>2 DEF Coming
<1>4. HolderAt({"reserved"}) <=> thread[t].pc = "reserved"
  BY <1>2
<1> QED
  BY <1>1, <1>2, <1>3, <1>4 DEF IInv, Counted, Bounded

\* A step of _emit that changes no task and no future.
LEMMA PlainEmit ==
  ASSUME IInv, NEW t \in Threads, thread[t].pc \in Locked, NEW r \in ThreadType,
         r.pc \in {"locked", "calling", "reserved", "released"},
         r.pc \in Calling => r.todo > 0,
         r.pc = "released" => thread[t].pc = "created" /\ r.task = thread[t].task,
         r.pc = "reserved" => Cardinality(futures) < MaxPending,
         thread[t].pc \in {"created", "released"} => r.pc = "released",
         thread' = [thread EXCEPT ![t] = r],
         submissions' = IF r.pc \in Calling THEN 1 ELSE 0,
         reservations' = IF r.pc \in {"reserved", "created"} THEN 1 ELSE 0,
         UNCHANGED <<life, accepting, holder, active, callbacks, enders>>
  PROVE  IInv'
<1> DEFINE coming == IF thread[t].pc \in {"created", "released"} THEN {thread[t].task} ELSE {}
           next == IF r.pc \in {"created", "released"} THEN {r.task} ELSE {}
<1>1. /\ holder = t /\ Live \subseteq futures \union coming
      /\ Cardinality(futures \union coming)
           + (IF thread[t].pc = "reserved" THEN 1 ELSE 0) <= MaxPending
  BY UnderLock
<1>2. r.pc \in Locked /\ (r.pc = "released" => r.task \in Ids)
  BY DEF Locked, Calling, IInv, HeldByOne
<1>3. Live' = Live
  BY DEF Live, callbacks
<1>4. next = coming
  OBVIOUS
<1>5. Live' \subseteq futures' \union next /\ futures' \subseteq Ids
  BY <1>1, <1>3, <1>4 DEF callbacks, IInv, FramesTypeOK
<1>6. Cardinality(futures \union coming) \in Nat /\ MaxPending \in Nat
  <2>1. coming \subseteq Ids
    BY DEF IInv, HeldByOne
  <2> QED
    BY <2>1, FiniteFacts, PipelineAssumption DEF IInv, FramesTypeOK
<1>7. Cardinality(futures' \union next) + (IF r.pc = "reserved" THEN 1 ELSE 0) <= MaxPending
  <2>1. futures' = futures
    BY DEF callbacks
  <2>2. CASE r.pc = "reserved"
    <3>1. futures' \union next = futures
      BY <2>1, <2>2
    <3>2. Cardinality(futures) \in Nat
      BY FiniteFacts DEF IInv, FramesTypeOK
    <3>3. Cardinality(futures) + 1 <= MaxPending
      BY <1>6, <2>2, <3>2
    <3> HIDE DEF next
    <3> QED
      BY <2>2, <3>1, <3>3
  <2>3. CASE r.pc # "reserved"
    <3> HIDE DEF next, coming
    <3>1. Cardinality(futures \union coming) <= MaxPending
      BY <1>1, <1>6
    <3> QED
      BY <1>4, <1>6, <2>1, <2>3, <3>1
  <2> QED
    BY <2>2, <2>3
<1>8. FramesTypeOK => FramesTypeOK'
  BY DEF FramesTypeOK, ThreadType, life, callbacks, enders
<1>9. ErrorsKept'
  BY DEF IInv, ErrorsKept, Ended, callbacks, enders
<1>10. UNCHANGED <<life, accepting, holder, active, errors, overflowed, enders>>
  BY DEF callbacks
<1> HIDE DEF coming, IInv
<1> QED
  BY <1>1, <1>2, <1>5, <1>7, <1>8, <1>9, <1>10, EmitMoves

\* The steps of _emit that only count: one case for each action.
LEMMA EmitStep ==
  ASSUME IInv, NEW t \in Threads,
         \/ EmitCounted(t) \/ EmitRefused(t) \/ EmitReserves(t) \/ EmitFails(t) \/ EmitSync(t)
         \/ CreateTaskFails(t) \/ EmitReleases(t)
  PROVE  IInv'
<1>1. thread[t] \in ThreadType /\ FramesTypeOK /\ MaxEvents \in Nat /\ MaxTasks \in Nat
  BY PipelineAssumption DEF IInv, FramesTypeOK, ThreadType
<1>2. thread[t].pc \in Locked
  BY DEF EmitCounted, EmitRefused, EmitReserves, EmitFails, EmitSync, CreateTaskFails,
         EmitReleases, At, Locked, Calling
<1>3. /\ submissions = IF thread[t].pc \in Calling THEN 1 ELSE 0
      /\ reservations = IF thread[t].pc \in {"reserved", "created"} THEN 1 ELSE 0
  BY <1>2, UnderLock
<1> DEFINE raised == [pc |-> "locked", todo |-> 0, task |-> 0]
<1>4. raised \in ThreadType
  BY <1>1 DEF ThreadType, Positions
<1>5. CASE EmitCounted(t)
  <2> DEFINE r == [pc |-> "calling", todo |-> thread[t].todo, task |-> thread[t].task]
  <2>1. r \in ThreadType /\ thread' = [thread EXCEPT ![t] = r] /\ thread[t].pc = "locked"
        /\ r.todo > 0
    BY <1>1, <1>5, GotoFacts DEF EmitCounted, At, Positions
  <2>2. submissions' = 1 /\ reservations' = 0
        /\ UNCHANGED <<life, accepting, holder, active, callbacks, enders>>
    BY <1>3, <1>5, <2>1 DEF EmitCounted, Calling
  <2> QED
    BY <1>2, <2>1, <2>2, PlainEmit DEF Calling
<1>6. CASE EmitRefused(t)
  <2>1. thread' = [thread EXCEPT ![t] = raised] /\ thread[t].pc = "locked"
    BY <1>6 DEF EmitRefused, Raises, At
  <2>2. submissions' = 0 /\ reservations' = 0
        /\ UNCHANGED <<life, accepting, holder, active, callbacks, enders>>
    BY <1>3, <1>6, <2>1 DEF EmitRefused, Calling, counts
  <2> QED
    BY <1>2, <1>4, <2>1, <2>2, PlainEmit DEF Calling
<1>7. CASE EmitReserves(t)
  <2> DEFINE r == [pc |-> "reserved", todo |-> thread[t].todo, task |-> thread[t].task]
  <2>1. r \in ThreadType /\ thread' = [thread EXCEPT ![t] = r] /\ thread[t].pc = "calling"
        /\ r.todo > 0
    BY <1>1, <1>7, GotoFacts DEF EmitReserves, At, Positions, IInv, HeldByOne, Calling
  <2>2. submissions' = 1 /\ reservations' = 1 /\ reservations = 0
        /\ UNCHANGED <<life, accepting, holder, active, callbacks, enders>>
    BY <1>3, <1>7, <2>1 DEF EmitReserves, Calling
  <2>3. Cardinality(futures) < MaxPending
    <3>1. Cardinality(futures) \in Nat /\ MaxPending \in Nat
      BY <1>1, FiniteFacts, PipelineAssumption DEF FramesTypeOK
    <3> QED
      BY <1>7, <2>2, <3>1 DEF EmitReserves, Backlogged
  <2> QED
    BY <1>2, <2>1, <2>2, <2>3, PlainEmit DEF Calling
<1>8. CASE EmitFails(t)
  <2>1. thread' = [thread EXCEPT ![t] = raised] /\ thread[t].pc = "calling"
    BY <1>8 DEF EmitFails, Raises, At
  <2>2. submissions' = 0 /\ reservations' = 0
        /\ UNCHANGED <<life, accepting, holder, active, callbacks, enders>>
    BY <1>3, <1>8, <2>1 DEF EmitFails, Calling
  <2> QED
    BY <1>2, <1>4, <2>1, <2>2, PlainEmit DEF Calling
<1>9. CASE EmitSync(t)
  <2> DEFINE r == [pc |-> "locked", todo |-> thread[t].todo - 1, task |-> thread[t].task]
  <2>1. thread[t].pc = "calling" /\ thread[t].todo > 0
    BY <1>9 DEF EmitSync, At, IInv, HeldByOne, Calling
  <2>2. r \in ThreadType
    BY <1>1, <2>1 DEF ThreadType, Positions
  <2>3. thread' = [thread EXCEPT ![t] = r]
    BY <1>1, <1>9 DEF EmitSync
  <2>4. submissions' = 0 /\ reservations' = 0
        /\ UNCHANGED <<life, accepting, holder, active, callbacks, enders>>
    BY <1>3, <1>9, <2>1 DEF EmitSync, Calling
  <2> QED
    BY <1>2, <2>1, <2>2, <2>3, <2>4, PlainEmit DEF Calling
<1>10. CASE CreateTaskFails(t)
  <2>1. thread' = [thread EXCEPT ![t] = raised] /\ thread[t].pc = "reserved"
    BY <1>10 DEF CreateTaskFails, Raises, At
  <2>2. submissions' = 0 /\ reservations' = 0
        /\ UNCHANGED <<life, accepting, holder, active, callbacks, enders>>
    BY <1>3, <1>10, <2>1 DEF CreateTaskFails, Calling
  <2> QED
    BY <1>2, <1>4, <2>1, <2>2, PlainEmit DEF Calling
<1>11. CASE EmitReleases(t)
  <2> DEFINE r == [pc |-> "released", todo |-> thread[t].todo, task |-> thread[t].task]
  <2>1. r \in ThreadType /\ thread' = [thread EXCEPT ![t] = r] /\ thread[t].pc = "created"
        /\ r.todo > 0
    BY <1>1, <1>11, GotoFacts DEF EmitReleases, At, Positions, IInv, HeldByOne, Calling
  <2>2. submissions' = 1 /\ reservations' = 0
        /\ UNCHANGED <<life, accepting, holder, active, callbacks, enders>>
    BY <1>3, <1>11, <2>1 DEF EmitReleases, Calling
  <2> QED
    BY <1>2, <2>1, <2>2, PlainEmit DEF Calling
<1> QED
  BY <1>5, <1>6, <1>7, <1>8, <1>9, <1>10, <1>11

\* _create_callback_task: the new task is coming, and the reservation was its room.
LEMMA CreateTaskStep ==
  ASSUME IInv, NEW t \in Threads, CreateTask(t)
  PROVE  IInv'
<1>1. PICK k \in Ids : /\ task[k].st = "none"
                       /\ task' = [task EXCEPT ![k].st = "created"]
                       /\ thread' = [thread EXCEPT ![t] = [pc |-> "created",
                                       todo |-> thread[t].todo, task |-> k]]
  BY DEF CreateTask
<1> DEFINE r == [pc |-> "created", todo |-> thread[t].todo, task |-> k]
<1>2. /\ thread[t].pc = "reserved" /\ thread[t].pc \in Locked /\ FramesTypeOK
      /\ thread[t].todo > 0 /\ k \in 1..MaxTasks
  BY DEF CreateTask, At, Locked, Calling, IInv, HeldByOne, Ids
<1>3. /\ holder = t /\ thread[t] \in ThreadType
      /\ submissions = 1 /\ reservations = 1
      /\ Live \subseteq futures /\ Cardinality(futures) + 1 <= MaxPending
  <2>1. futures \union {} = futures
    OBVIOUS
  <2> QED
    BY <1>2, <2>1, UnderLock DEF Calling
<1>4. r \in ThreadType /\ r.pc \in Locked /\ r.todo > 0
  BY <1>2, <1>3 DEF ThreadType, Positions, Locked, Calling
<1>5. UNCHANGED <<life, accepting, holder, active, submissions, reservations, futures,
                  errors, overflowed, enders>>
  BY DEF CreateTask, counts
<1>6. task' = [task EXCEPT ![k] = [task[k] EXCEPT !.st = "created"]]
  BY <1>1
<1>7. FramesTypeOK'
  <2>1. [task[k] EXCEPT !.st = "created"] \in TaskType
    BY <1>2, TaskUpdates DEF FramesTypeOK
  <2> QED
    BY <1>1, <1>2, <1>4, <1>5, <1>6, <2>1 DEF FramesTypeOK, ThreadType, life, enders
<1>8. \A j \in Ids : task'[j].st = IF j = k THEN "created" ELSE task[j].st
  BY <1>2, <1>6 DEF FramesTypeOK, TaskType
<1>9. \A j \in Ids : task'[j].seen = task[j].seen
  BY <1>2, <1>6 DEF FramesTypeOK, TaskType
<1>10. Live' \subseteq futures' \union {k}
  BY <1>3, <1>5, <1>8 DEF Live
<1>11. Cardinality(futures' \union {k}) + 0 <= MaxPending /\ futures' \subseteq Ids
  <2>1. IsFiniteSet(futures) /\ Cardinality(futures) \in Nat /\ MaxPending \in Nat
    BY <1>2, FiniteFacts, PipelineAssumption DEF FramesTypeOK
  <2>2. Cardinality(futures \union {k}) = IF k \in futures THEN Cardinality(futures)
                                          ELSE Cardinality(futures) + 1
    BY <2>1, FS_AddElement
  <2> QED
    BY <1>2, <1>3, <1>5, <2>1, <2>2 DEF FramesTypeOK
<1>12. ErrorsKept'
  BY <1>1, <1>5, <1>8, <1>9 DEF IInv, ErrorsKept, Ended, enders
<1> HIDE DEF IInv
<1> QED
  BY <1>1, <1>3, <1>4, <1>5, <1>7, <1>10, <1>11, <1>12, EmitMoves DEF Calling

\* The task is remembered: what was coming is among the futures.
LEMMA EmitRemembersStep ==
  ASSUME IInv, NEW t \in Threads, EmitRemembers(t)
  PROVE  IInv'
<1> DEFINE k == thread[t].task
           r == [pc |-> "remembered", todo |-> thread[t].todo, task |-> k]
<1>1. /\ thread[t].pc = "released" /\ thread[t].pc \in Locked /\ FramesTypeOK
      /\ thread[t].todo > 0 /\ k \in Ids
  BY DEF EmitRemembers, At, Locked, Calling, IInv, HeldByOne
<1>2. /\ holder = t /\ thread[t] \in ThreadType
      /\ submissions = 1 /\ reservations = 0
      /\ Live \subseteq futures \union {k}
      /\ Cardinality(futures \union {k}) + 0 <= MaxPending
  BY <1>1, UnderLock DEF Calling
<1>3. r \in ThreadType /\ thread' = [thread EXCEPT ![t] = r]
  BY <1>1, GotoFacts DEF EmitRemembers, Positions
<1>4. /\ futures' = futures \union {k} /\ task' = task
      /\ UNCHANGED <<life, accepting, holder, active, submissions, reservations, errors,
                     overflowed, enders>>
  BY DEF EmitRemembers, counts
<1>5. FramesTypeOK'
  BY <1>1, <1>3, <1>4 DEF FramesTypeOK, ThreadType, life, enders
<1>6. Live' \subseteq futures' \union {} /\ Cardinality(futures' \union {}) + 0 <= MaxPending
  <2>1. futures' \union {} = futures \union {k} /\ Live' = Live
    BY <1>4 DEF Live
  <2> QED
    BY <1>2, <2>1
<1>7. ErrorsKept'
  BY <1>4 DEF IInv, ErrorsKept, Ended, enders
<1>8. futures' \subseteq Ids /\ r.pc \in Locked /\ r.pc \in Calling
  BY <1>1, <1>4 DEF FramesTypeOK, Locked, Calling
<1> HIDE DEF IInv
<1> QED
  BY <1>1, <1>2, <1>3, <1>4, <1>5, <1>6, <1>7, <1>8, EmitMoves

\* The callback is registered and the submission ends.
LEMMA EmitEndsStep ==
  ASSUME IInv, NEW t \in Threads, EmitEnds(t)
  PROVE  IInv'
<1> DEFINE k == thread[t].task
           r == [pc |-> "locked", todo |-> thread[t].todo - 1, task |-> 0]
<1>1. /\ thread[t].pc = "remembered" /\ thread[t].pc \in Locked /\ FramesTypeOK
      /\ thread[t].todo > 0 /\ k \in Ids
  BY DEF EmitEnds, At, Locked, Calling, IInv, HeldByOne
<1>2. /\ holder = t /\ thread[t] \in ThreadType
      /\ submissions = 1 /\ reservations = 0
      /\ Live \subseteq futures \union {}
      /\ Cardinality(futures \union {}) + 0 <= MaxPending
  BY <1>1, UnderLock DEF Calling
<1>3. MaxEvents \in Nat /\ MaxTasks \in Nat
  BY PipelineAssumption
<1>4. r \in ThreadType /\ r.pc \in Locked /\ r.pc \notin Calling
  BY <1>1, <1>2, <1>3 DEF ThreadType, Positions, Locked, Calling
<1>5. /\ thread' = [thread EXCEPT ![t] = r] /\ submissions' = 0 /\ reservations' = 0
      /\ UNCHANGED <<life, accepting, holder, active, futures, errors, overflowed, enders>>
  BY <1>2 DEF EmitEnds
<1>6. task' = [task EXCEPT ![k] = [task[k] EXCEPT !.registered = TRUE]]
  BY DEF EmitEnds
<1>7. FramesTypeOK'
  <2>1. [task[k] EXCEPT !.registered = TRUE] \in TaskType
    BY <1>1, TaskUpdates DEF FramesTypeOK
  <2> QED
    BY <1>1, <1>4, <1>5, <1>6, <2>1 DEF FramesTypeOK, ThreadType, life, enders
<1>8. \A j \in Ids : task'[j].st = task[j].st /\ task'[j].seen = task[j].seen
  BY <1>1, <1>6 DEF FramesTypeOK, TaskType
<1>9. Live' = Live
  BY <1>8 DEF Live
<1>10. ErrorsKept'
  BY <1>5, <1>8 DEF IInv, ErrorsKept, Ended, enders
<1>11. futures' \subseteq Ids
  BY <1>1, <1>5 DEF FramesTypeOK
<1> HIDE DEF IInv, k
<1> QED
  BY <1>2, <1>4, <1>5, <1>7, <1>9, <1>10, <1>11, EmitMoves

-----------------------------------------------------------------------------
(* Steps of process(): the thread comes, takes the lock, releases it, goes. *)

LEMMA FrameMoves ==
  ASSUME IInv, NEW t \in Threads, NEW r \in ThreadType, thread[t].pc \notin Calling,
         r.pc \notin Calling, thread' = [thread EXCEPT ![t] = r],
         r.pc = "locked" => holder \in {None, t} /\ holder' = t,
         r.pc # "locked" => holder' = IF thread[t].pc = "locked" THEN None ELSE holder,
         r.pc = "queued" => t = Worker,
         UNCHANGED <<life, accepting, submissions, reservations, callbacks, enders>>,
         active' = Cardinality(Busy'), active' \in Nat, Draining'
  PROVE  IInv'
<1> USE DEF IInv
<1>1. thread[t] \in ThreadType /\ t # None /\ None \notin Threads
  BY PipelineAssumption DEF FramesTypeOK, ThreadType
<1>2. thread'[t] = r /\ \A u \in Threads : u # t => thread'[u] = thread[u]
  BY DEF FramesTypeOK
<1>3. FramesTypeOK'
  BY <1>1 DEF FramesTypeOK, ThreadType, life, callbacks, enders
<1>4. HeldByOne'
  BY <1>1, <1>2 DEF HeldByOne, Locked, Calling
<1>5. \A pcs \in SUBSET Calling : HolderAt(pcs)' <=> HolderAt(pcs)
  <2>1. ASSUME NEW pcs \in SUBSET Calling PROVE HolderAt(pcs)' <=> HolderAt(pcs)
    <3>1. CASE holder = t \/ holder' = t
      BY <1>1, <1>2, <3>1 DEF HolderAt, HeldByOne, Locked
    <3>2. CASE holder # t /\ holder' # t
      <4>1. r.pc # "locked" /\ thread[t].pc # "locked"
        BY <3>2 DEF HeldByOne, Locked
      <4>2. holder' = holder
        BY <4>1
      <4> QED
        BY <1>2, <3>2, <4>2 DEF HolderAt, FramesTypeOK
    <3> QED
      BY <3>1, <3>2
  <2> QED
    BY <2>1
<1>6. /\ HolderAt(Calling)' <=> HolderAt(Calling)
      /\ HolderAt({"reserved", "created"})' <=> HolderAt({"reserved", "created"})
      /\ HolderAt({"created", "released"})' <=> HolderAt({"created", "released"})
      /\ HolderAt({"reserved"})' <=> HolderAt({"reserved"})
  BY <1>5 DEF Calling
<1>7. Counted'
  BY <1>6 DEF Counted
<1>8. Coming' = Coming
  <2>1. CASE HolderAt({"created", "released"})
    <3>1. holder # t /\ holder \in Threads
      BY <2>1 DEF HolderAt, FramesTypeOK, Calling
    <3>2. thread[t].pc # "locked" /\ r.pc # "locked"
      BY <3>1, <1>1 DEF HeldByOne, Locked
    <3>3. holder' = holder /\ thread'[holder] = thread[holder]
      BY <1>2, <3>1, <3>2
    <3> QED
      BY <1>6, <3>3 DEF Coming
  <2>2. CASE ~HolderAt({"created", "released"})
    BY <1>6, <2>2 DEF Coming
  <2> QED
    BY <2>1, <2>2
<1>9. Bounded'
  <2>1. Live' = Live /\ futures' = futures
    BY DEF Live, callbacks
  <2> QED
    BY <1>6, <1>8, <2>1 DEF Bounded
<1>10. ErrorsKept'
  BY DEF ErrorsKept, Ended, callbacks, enders
<1> QED
  BY <1>3, <1>4, <1>7, <1>9, <1>10

\* A thread that is counted, is not any more, or stays as it was.
LEMMA BusyChanges ==
  ASSUME FramesTypeOK, Counted, NEW t \in Threads, NEW r \in ThreadType,
         thread' = [thread EXCEPT ![t] = r]
  PROVE  /\ thread[t].pc \in Outside /\ r.pc \notin Outside => Cardinality(Busy') = active + 1
         /\ thread[t].pc \notin Outside /\ r.pc \in Outside =>
              Cardinality(Busy') = active - 1 /\ active - 1 \in Nat
         /\ (thread[t].pc \in Outside <=> r.pc \in Outside) => Cardinality(Busy') = active
<1>1. thread'[t] = r /\ \A u \in Threads : u # t => thread'[u] = thread[u]
  BY DEF FramesTypeOK
<1>2. IsFiniteSet(Busy) /\ active = Cardinality(Busy) /\ active \in Nat
  BY BusyFinite DEF Counted
<1>3. ASSUME thread[t].pc \in Outside, r.pc \notin Outside PROVE Cardinality(Busy') = active + 1
  <2>1. Busy' = Busy \union {t} /\ t \notin Busy
    BY <1>1, <1>3 DEF Busy
  <2> QED
    BY <1>2, <2>1, FS_AddElement
<1>4. ASSUME thread[t].pc \notin Outside, r.pc \in Outside
      PROVE  Cardinality(Busy') = active - 1 /\ active - 1 \in Nat
  <2>1. Busy' = Busy \ {t} /\ t \in Busy
    BY <1>1, <1>4 DEF Busy
  <2>2. Cardinality(Busy') = active - 1 /\ Cardinality(Busy') \in Nat
    BY <1>2, <2>1, FS_RemoveElement, FS_CardinalityType
  <2> QED
    BY <2>2
<1>5. ASSUME thread[t].pc \in Outside <=> r.pc \in Outside PROVE Cardinality(Busy') = active
  <2>1. Busy' = Busy
    BY <1>1, <1>5 DEF Busy
  <2> QED
    BY <1>2, <2>1
<1> QED
  BY <1>3, <1>4, <1>5

\* process() and process_async(): one case for each action.
LEMMA ProcessStep ==
  ASSUME IInv, NEW t \in Threads, Process(t) \/ (t = Worker /\ ProcessAsync)
  PROVE  IInv'
<1>1. /\ thread[t] \in ThreadType /\ FramesTypeOK /\ MaxEvents \in Nat /\ MaxTasks \in Nat
      /\ Counted /\ Draining /\ HeldByOne /\ t # None /\ active \in Nat
  BY PipelineAssumption DEF IInv, FramesTypeOK, ThreadType
<1>2. CASE t = Worker /\ ProcessAsync
  <2> DEFINE r == [pc |-> "queued", todo |-> thread[t].todo, task |-> thread[t].task]
  <2>1. r \in ThreadType /\ thread' = [thread EXCEPT ![t] = r] /\ thread[t].pc = "idle"
    BY <1>1, <1>2, GotoFacts DEF ProcessAsync, At, Positions
  <2>2. ~closing /\ ~closed /\ UNCHANGED <<life, accepting, holder, counts, callbacks, enders>>
    BY <1>2 DEF ProcessAsync
  <2>3. active' = Cardinality(Busy') /\ active' \in Nat
    BY <1>1, <2>1, <2>2, BusyChanges DEF Outside, counts
  <2>4. Draining'
    BY <1>1, <2>2 DEF Draining, life, enders
  <2> QED
    BY <1>2, <2>1, <2>2, <2>3, <2>4, FrameMoves DEF Calling, counts
<1>3. CASE ProcessEnters(t)
  <2> DEFINE r == [pc |-> "admitted", todo |-> thread[t].todo, task |-> thread[t].task]
  <2>1. r \in ThreadType /\ thread' = [thread EXCEPT ![t] = r] /\ thread[t].pc \in Outside
    BY <1>1, <1>3, GotoFacts DEF ProcessEnters, At, Positions, Outside
  <2>2. /\ ~closing /\ ~closed /\ active' = active + 1
        /\ UNCHANGED <<life, accepting, holder, submissions, reservations, callbacks, enders>>
    BY <1>3 DEF ProcessEnters
  <2>3. active' = Cardinality(Busy') /\ active' \in Nat
    <3>1. r.pc \notin Outside
      BY DEF Outside
    <3> HIDE DEF r
    <3>2. Cardinality(Busy') = active + 1
      BY <1>1, <2>1, <3>1, BusyChanges
    <3> QED
      BY <1>1, <2>2, <3>2
  <2>4. Draining'
    BY <1>1, <2>2 DEF Draining, life, enders
  <2> QED
    BY <2>1, <2>2, <2>3, <2>4, FrameMoves DEF Calling, Outside
<1>4. CASE ProcessRefused(t)
  <2> DEFINE r == [pc |-> "idle", todo |-> thread[t].todo, task |-> thread[t].task]
  <2>1. r \in ThreadType /\ thread' = [thread EXCEPT ![t] = r] /\ thread[t].pc = "queued"
    BY <1>1, <1>4, GotoFacts DEF ProcessRefused, At, Positions
  <2>2. UNCHANGED <<life, accepting, holder, counts, callbacks, enders>>
    BY <1>4 DEF ProcessRefused
  <2>3. active' = Cardinality(Busy') /\ active' \in Nat
    BY <1>1, <2>1, <2>2, BusyChanges DEF Outside, counts
  <2>4. \A u \in Threads : thread'[u].pc = IF u = t THEN "idle" ELSE thread[u].pc
    BY <1>1, <2>1 DEF FramesTypeOK
  <2>5. Draining'
    BY <1>1, <2>2, <2>4 DEF Draining, Quiet, Outside, life, callbacks, enders
  <2> QED
    BY <2>1, <2>2, <2>3, <2>5, FrameMoves DEF Calling, counts
<1>5. CASE ProcessLocked(t)
  <2> DEFINE left == MaxTasks - Cardinality(Live \union Ended)
  <2>1. PICK n \in 0..Min({MaxEvents, left}) :
               thread' = [thread EXCEPT ![t] = [pc |-> "locked", todo |-> n, task |-> 0]]
    BY <1>5 DEF ProcessLocked
  <2>2. left \in Int
    <3>1. Cardinality(Live \union Ended) \in Nat
      BY FiniteFacts DEF Live, Ended
    <3> QED
      BY <1>1, <3>1
  <2> HIDE DEF left
  <2>3. Min({MaxEvents, left}) \in Int /\ Min({MaxEvents, left}) <= MaxEvents
    <3>1. \E x \in {MaxEvents, left} : \A y \in {MaxEvents, left} : x <= y
      BY <1>1, <2>2
    <3> QED
      BY <1>1, <2>2, <3>1 DEF Min
  <2>4. n \in 0..MaxEvents
    BY <1>1, <2>1, <2>3
  <2> DEFINE r == [pc |-> "locked", todo |-> n, task |-> 0]
  <2>5. r \in ThreadType /\ thread[t].pc = "admitted"
    BY <1>1, <1>5, <2>4 DEF ThreadType, Positions, ProcessLocked, At
  <2>6. holder = None /\ holder' = t /\ UNCHANGED <<life, accepting, counts, callbacks, enders>>
    BY <1>5 DEF ProcessLocked
  <2>7. active' = Cardinality(Busy') /\ active' \in Nat
    BY <1>1, <2>1, <2>5, <2>6, BusyChanges DEF Outside, counts
  <2>8. \A u \in Threads : thread'[u].pc = IF u = t THEN "locked" ELSE thread[u].pc
    BY <1>1, <2>1 DEF FramesTypeOK
  <2>9. Draining'
    <3>1. /\ closeTask.pc \notin {"submissions", "settle", "executor", "ended"}
          /\ sync # "sealed" /\ ~closed
      BY <1>1, <2>5, BusyFacts DEF Outside
    <3> QED
      BY <1>1, <2>6, <2>8, <3>1 DEF Draining, life, callbacks, enders
  <2> QED
    BY <2>1, <2>5, <2>6, <2>7, <2>9, FrameMoves DEF Calling, counts
<1>6. CASE ProcessUnlocks(t)
  <2> DEFINE r == [pc |-> "leaving", todo |-> thread[t].todo, task |-> thread[t].task]
  <2>1. r \in ThreadType /\ thread' = [thread EXCEPT ![t] = r] /\ thread[t].pc = "locked"
    BY <1>1, <1>6, GotoFacts DEF ProcessUnlocks, At, Positions
  <2>2. holder' = None /\ UNCHANGED <<life, accepting, counts, callbacks, enders>>
    BY <1>6 DEF ProcessUnlocks
  <2>3. active' = Cardinality(Busy') /\ active' \in Nat
    BY <1>1, <2>1, <2>2, BusyChanges DEF Outside, counts
  <2>4. \A u \in Threads : thread'[u].pc = IF u = t THEN "leaving" ELSE thread[u].pc
    BY <1>1, <2>1 DEF FramesTypeOK
  <2>5. Draining'
    <3>1. /\ closeTask.pc \notin {"submissions", "settle", "executor", "ended"}
          /\ sync # "sealed" /\ ~closed
      BY <1>1, <2>1, BusyFacts DEF Outside
    <3> QED
      BY <1>1, <2>2, <2>4, <3>1 DEF Draining, life, callbacks, enders
  <2> QED
    BY <2>1, <2>2, <2>3, <2>5, FrameMoves DEF Calling, counts
<1>7. CASE ProcessLeaves(t)
  <2> DEFINE r == [pc |-> "idle", todo |-> thread[t].todo, task |-> thread[t].task]
  <2>1. r \in ThreadType /\ thread' = [thread EXCEPT ![t] = r] /\ thread[t].pc = "leaving"
    BY <1>1, <1>7, GotoFacts DEF ProcessLeaves, At, Positions
  <2>2. /\ active' = active - 1
        /\ UNCHANGED <<life, accepting, holder, submissions, reservations, callbacks, enders>>
    BY <1>7 DEF ProcessLeaves
  <2>3. active' = Cardinality(Busy') /\ active' \in Nat
    BY <1>1, <2>1, <2>2, BusyChanges DEF Outside
  <2>4. \A u \in Threads : thread'[u].pc = IF u = t THEN "idle" ELSE thread[u].pc
    BY <1>1, <2>1 DEF FramesTypeOK
  <2>5. Draining'
    <3>1. /\ closeTask.pc \notin {"submissions", "settle", "executor", "ended"}
          /\ sync # "sealed" /\ ~closed
      BY <1>1, <2>1, BusyFacts DEF Outside
    <3> QED
      BY <1>1, <2>2, <2>4, <3>1 DEF Draining, life, callbacks, enders
  <2> QED
    BY <2>1, <2>2, <2>3, <2>5, FrameMoves DEF Calling
<1> QED
  BY <1>2, <1>3, <1>4, <1>5, <1>6, <1>7 DEF Process

-----------------------------------------------------------------------------
(* Callback tasks, and the tasks that wait for them.                       *)

\* A step that moves no thread and takes no task out of the loop unseen.
LEMMA LoopMoves ==
  ASSUME IInv, UNCHANGED <<thread, holder, counts>>,
         FramesTypeOK', futures' \union Coming \subseteq futures \union Coming,
         Live' \subseteq futures' \union Coming, Draining', ErrorsKept'
  PROVE  IInv'
<1> USE DEF IInv
<1>1. HeldByOne'
  BY DEF HeldByOne
<1>2. Counted'
  BY DEF Counted, Busy, HolderAt, counts
<1>3. Coming' = Coming /\ (HolderAt({"reserved"})' <=> HolderAt({"reserved"}))
  BY DEF Coming, HolderAt
<1>4. Cardinality(futures' \union Coming) <= Cardinality(futures \union Coming)
  <2>1. Coming \subseteq Ids /\ futures \subseteq Ids
    BY DEF Coming, HolderAt, HeldByOne, FramesTypeOK
  <2>2. IsFiniteSet(futures \union Coming)
    BY <2>1, FiniteFacts
  <2> QED
    BY <2>2, FS_Subset
<1>5. Bounded'
  <2>1. /\ Cardinality(futures' \union Coming) \in Nat
        /\ Cardinality(futures \union Coming) \in Nat /\ MaxPending \in Nat
    <3>1. Coming \subseteq Ids /\ futures \subseteq Ids /\ futures' \subseteq Ids
      BY DEF Coming, HolderAt, HeldByOne, FramesTypeOK
    <3> QED
      BY <3>1, FiniteFacts, PipelineAssumption
  <2> QED
    BY <1>3, <1>4, <2>1 DEF Bounded
<1> QED
  BY <1>1, <1>2, <1>5

\* In a quiet pipeline whatever lives is among the futures.
LEMMA QuietLive == IInv /\ Quiet => Live \subseteq futures
BY QuietFacts DEF IInv, Bounded

\* The elements of a bounded deque after a new one is appended.
LEMMA AppendedErrors ==
  ASSUME NEW e \in Seq(Ids), NEW k \in Ids
  PROVE  /\ Append(e, k) \in Seq(Ids) /\ Len(Append(e, k)) = Len(e) + 1
         /\ ToSet(Append(e, k)) = ToSet(e) \union {k}
         /\ e # << >> => /\ Head(e) \in Ids /\ Tail(e) \in Seq(Ids) /\ Len(Tail(e)) = Len(e) - 1
                         /\ ToSet(e) = ToSet(Tail(e)) \union {Head(e)}
         /\ Len(e) \in Nat /\ (e = << >> <=> Len(e) = 0)
<1>1. /\ Append(e, k) \in Seq(Ids) /\ Len(Append(e, k)) = Len(e) + 1
      /\ Len(e) \in Nat /\ (e = << >> <=> Len(e) = 0)
  OBVIOUS
<1>2. ToSet(Append(e, k)) = ToSet(e) \union {k}
  <2>1. \A i \in 1..Len(e) : Append(e, k)[i] = e[i]
    OBVIOUS
  <2>2. Append(e, k)[Len(e) + 1] = k /\ DOMAIN Append(e, k) = 1..(Len(e) + 1) /\ DOMAIN e = 1..Len(e)
    OBVIOUS
  <2>3. 1..(Len(e) + 1) = (1..Len(e)) \union {Len(e) + 1}
    BY <1>1
  <2> QED
    BY <2>1, <2>2, <2>3 DEF ToSet
<1>3. ASSUME e # << >>
      PROVE  /\ Head(e) \in Ids /\ Tail(e) \in Seq(Ids) /\ Len(Tail(e)) = Len(e) - 1
             /\ ToSet(e) = ToSet(Tail(e)) \union {Head(e)}
  <2>1. Head(e) = e[1] /\ Head(e) \in Ids /\ Tail(e) \in Seq(Ids) /\ Len(Tail(e)) = Len(e) - 1
    BY <1>3
  <2>2. \A i \in 1..(Len(e) - 1) : Tail(e)[i] = e[i + 1]
    BY <1>3
  <2>3. DOMAIN e = 1..Len(e) /\ DOMAIN Tail(e) = 1..(Len(e) - 1) /\ Len(e) >= 1
    BY <1>3, <2>1
  <2>4. ToSet(e) \subseteq ToSet(Tail(e)) \union {Head(e)}
    <3> SUFFICES ASSUME NEW i \in 1..Len(e), i # 1 PROVE e[i] \in ToSet(Tail(e))
      BY <2>1, <2>3 DEF ToSet
    <3>1. i - 1 \in 1..(Len(e) - 1) /\ Tail(e)[i - 1] = e[i]
      BY <1>1, <2>2
    <3> QED
      BY <2>3, <3>1 DEF ToSet
  <2>5. ToSet(Tail(e)) \union {Head(e)} \subseteq ToSet(e)
    <3>1. \A i \in 1..(Len(e) - 1) : i + 1 \in 1..Len(e)
      BY <1>1
    <3> QED
      BY <2>1, <2>2, <2>3, <3>1 DEF ToSet
  <2> QED
    BY <2>1, <2>4, <2>5
<1> QED
  BY <1>1, <1>2, <1>3

\* A task of the loop starts, ends, or is forgotten with its error kept.
LEMMA TaskStep ==
  ASSUME IInv, NEW k \in Ids, Task(k)
  PROVE  IInv'
<1>1. /\ FramesTypeOK /\ Draining /\ ErrorsKept /\ task[k] \in TaskType
      /\ Live \subseteq futures \union Coming
  BY DEF IInv, FramesTypeOK, Bounded
<1>2. UNCHANGED <<thread, holder, counts, accepting, life, enders>>
  BY DEF Task, TaskStarts, TaskEnds, CallbackFinished
<1>3. ASSUME futures' \subseteq Ids, task' \in [Ids -> TaskType], Live' \subseteq Live,
             UNCHANGED <<errors, overflowed>>,
             \A j \in Ids : task'[j].seen = task[j].seen,
             \A j \in Ids : j \in Ended => task'[j] = task[j],
             futures' \subseteq futures \union Live,
             futures \subseteq futures'
      PROVE  IInv'
  <2>1. FramesTypeOK'
    BY <1>1, <1>2, <1>3 DEF FramesTypeOK, life, counts, enders
  <2>2. ErrorsKept'
    <3>1. \A j \in Ids : task'[j].seen => j \in Ended'
      BY <1>1, <1>3 DEF ErrorsKept, Ended
    <3>2. \A j \in Ids : task'[j].seen => task'[j] = task[j]
      BY <1>1, <1>3 DEF ErrorsKept
    <3> QED
      BY <1>1, <1>2, <1>3, <3>1, <3>2 DEF ErrorsKept, enders
  <2>3. Draining'
    <3>1. Quiet => futures' = futures
      BY <1>3, QuietLive
    <3>2. Quiet' <=> Quiet
      BY <1>2 DEF Quiet
    <3>3. closeTask.pc \in {"executor", "ended"} => Quiet
      BY <1>1 DEF Draining
    <3> QED
      BY <1>1, <1>2, <3>1, <3>2, <3>3 DEF Draining, life, enders
  <2> QED
    BY <1>1, <1>2, <1>3, <2>1, <2>2, <2>3, LoopMoves
<1>4. CASE TaskStarts(k)
  <2>1. PICK v \in {"running", "cancelled"} :
               /\ task' = [task EXCEPT ![k].st = v] /\ task[k].st = "created"
               /\ futures' \in {futures, futures \union {k}}
               /\ UNCHANGED <<errors, overflowed>>
    BY <1>4 DEF TaskStarts
  <2>2. [task[k] EXCEPT !.st = v] \in TaskType /\ k \in Live
    BY <1>1, <2>1, TaskUpdates DEF Live
  <2>3. task' = [task EXCEPT ![k] = [task[k] EXCEPT !.st = v]]
    BY <2>1
  <2>4. task' \in [Ids -> TaskType]
    BY <1>1, <2>2, <2>3 DEF FramesTypeOK
  <2>5. \A j \in Ids : /\ task'[j].seen = task[j].seen
                       /\ task'[j].st = IF j = k THEN v ELSE task[j].st
                       /\ j # k => task'[j] = task[j]
    BY <1>1, <2>3 DEF FramesTypeOK, TaskType
  <2>6. Live' \subseteq Live /\ \A j \in Ended : j # k
    BY <2>1, <2>2, <2>5 DEF Live, Ended
  <2>7. futures' \subseteq Ids /\ futures' \subseteq futures \union Live /\ futures \subseteq futures'
    BY <1>1, <2>1, <2>2 DEF FramesTypeOK
  <2> QED
    BY <1>3, <2>1, <2>4, <2>5, <2>6, <2>7
<1>5. CASE TaskEnds(k)
  <2>1. PICK v \in {"done", "failed", "cancelled"} :
               /\ task' = [task EXCEPT ![k].st = v] /\ task[k].st = "running"
               /\ UNCHANGED <<futures, errors, overflowed>>
    BY <1>5 DEF TaskEnds
  <2>2. [task[k] EXCEPT !.st = v] \in TaskType
    BY <1>1, <2>1, TaskUpdates
  <2>3. task' = [task EXCEPT ![k] = [task[k] EXCEPT !.st = v]]
    BY <2>1
  <2>4. task' \in [Ids -> TaskType]
    BY <1>1, <2>2, <2>3 DEF FramesTypeOK
  <2>5. \A j \in Ids : /\ task'[j].seen = task[j].seen
                       /\ task'[j].st = IF j = k THEN v ELSE task[j].st
                       /\ j # k => task'[j] = task[j]
    BY <1>1, <2>3 DEF FramesTypeOK, TaskType
  <2>6. Live' \subseteq Live /\ \A j \in Ended : j # k
    BY <2>1, <2>2, <2>5 DEF Live, Ended
  <2>7. futures' \subseteq Ids /\ futures' \subseteq futures \union Live /\ futures \subseteq futures'
    BY <1>1, <2>1 DEF FramesTypeOK
  <2> QED
    BY <1>3, <2>1, <2>4, <2>5, <2>6, <2>7
<1>6. CASE CallbackFinished(k)
  <2>1. /\ task' = [task EXCEPT ![k] = [task[k] EXCEPT !.seen = TRUE]]
        /\ k \in Ended /\ futures' = futures \ {k}
    BY <1>6 DEF CallbackFinished
  <2>2. [task[k] EXCEPT !.seen = TRUE] \in TaskType
    BY <1>1, TaskUpdates
  <2>3. task' \in [Ids -> TaskType]
    BY <1>1, <2>1, <2>2 DEF FramesTypeOK
  <2>4. \A j \in Ids : /\ task'[j].st = task[j].st
                       /\ j # k => task'[j] = task[j]
    BY <1>1, <2>1 DEF FramesTypeOK, TaskType
  <2>5. Live' = Live /\ Ended' = Ended /\ k \notin Live
    BY <2>1, <2>4 DEF Live, Ended
  <2>6. /\ errors' \in Seq(Ids) /\ Len(errors') <= MaxErrors /\ overflowed' \subseteq Ids
        /\ ToSet(errors) \union overflowed \subseteq ToSet(errors') \union overflowed'
        /\ task[k].st = "failed" => k \in ToSet(errors')
    <3>1. errors \in Seq(Ids) /\ Len(errors) <= MaxErrors /\ overflowed \subseteq Ids
          /\ MaxErrors \in Nat \ {0}
      BY <1>1, PipelineAssumption DEF FramesTypeOK
    <3>2. CASE task[k].st # "failed"
      BY <1>6, <3>1, <3>2 DEF CallbackFinished
    <3>3. CASE task[k].st = "failed" /\ Len(errors) # MaxErrors
      <4>1. errors' = Append(errors, k) /\ overflowed' = overflowed \union {}
        BY <1>6, <3>3 DEF CallbackFinished
      <4> QED
        BY <3>1, <3>3, <4>1, AppendedErrors
    <3>4. CASE task[k].st = "failed" /\ Len(errors) = MaxErrors
      <4>1. errors' = Append(Tail(errors), k) /\ overflowed' = overflowed \union {Head(errors)}
        BY <1>6, <3>4 DEF CallbackFinished
      <4>2. errors # << >>
        BY <3>1, <3>4
      <4>3. /\ Tail(errors) \in Seq(Ids) /\ Len(Tail(errors)) = Len(errors) - 1
            /\ Head(errors) \in Ids /\ ToSet(errors) = ToSet(Tail(errors)) \union {Head(errors)}
        BY <3>1, <4>2, AppendedErrors
      <4>4. /\ errors' \in Seq(Ids) /\ Len(errors') = Len(Tail(errors)) + 1
            /\ ToSet(errors') = ToSet(Tail(errors)) \union {k}
        BY <4>1, <4>3, AppendedErrors
      <4> QED
        BY <3>1, <3>4, <4>1, <4>3, <4>4
    <3> QED
      BY <3>2, <3>3, <3>4
  <2>7. FramesTypeOK'
    BY <1>1, <1>2, <2>1, <2>3, <2>6 DEF FramesTypeOK, life, counts, enders
  <2>8. ErrorsKept'
    <3>1. \A j \in Ids : task'[j].seen => j \in Ended'
      BY <1>1, <2>1, <2>4, <2>5 DEF ErrorsKept
    <3>2. ASSUME NEW j \in Ids, task'[j].st = "failed", task'[j].seen
          PROVE  j \in ToSet(errors') \union heard \union overflowed' \union closeTask.errors
      <4>1. CASE j = k
        BY <2>4, <2>6, <3>2, <4>1
      <4>2. CASE j # k
        BY <1>1, <2>4, <2>6, <3>2, <4>2 DEF ErrorsKept
      <4> QED
        BY <4>1, <4>2
    <3> QED
      BY <1>1, <1>2, <3>1, <3>2 DEF ErrorsKept, enders
  <2>9. Draining'
    BY <1>1, <1>2, <2>1 DEF Draining, Quiet, life, enders
  <2> QED
    BY <1>1, <1>2, <2>1, <2>5, <2>7, <2>8, <2>9, LoopMoves
<1> QED
  BY <1>4, <1>5, <1>6 DEF Task

\* Cancelling tasks changes nothing else about them.
LEMMA CancelledTasks ==
  ASSUME FramesTypeOK, NEW ks
  PROVE  /\ Cancelled(ks) \in [Ids -> TaskType]
         /\ \A k \in Ids : /\ Cancelled(ks)[k].st = task[k].st
                           /\ Cancelled(ks)[k].seen = task[k].seen
<1>1. ASSUME NEW k \in Ids
      PROVE  /\ Cancelled(ks)[k] \in TaskType
             /\ Cancelled(ks)[k].st = task[k].st /\ Cancelled(ks)[k].seen = task[k].seen
  <2> DEFINE b == task[k].cancel \/ k \in ks \intersect Live
  <2>1. task[k] \in TaskType /\ b \in BOOLEAN
    BY DEF FramesTypeOK
  <2>2. Cancelled(ks)[k] = [task[k] EXCEPT !.cancel = b]
    BY DEF Cancelled
  <2> HIDE DEF b
  <2> QED
    BY <2>1, <2>2 DEF TaskType
<1> QED
  BY <1>1 DEF Cancelled

\* A step that leaves the loop's tasks, errors and shutdown where they are.
LEMMA SideMoves ==
  ASSUME IInv, UNCHANGED <<thread, holder, counts, life, futures, overflowed, closeTask, sync>>,
         FramesTypeOK', \A k \in Ids : task'[k].st = task[k].st /\ task'[k].seen = task[k].seen,
         ErrorsKept'
  PROVE  IInv'
<1>1. Live' = Live
  BY DEF Live
<1>2. Draining'
  BY DEF IInv, Draining, Quiet, life
<1> QED
  BY <1>1, <1>2, LoopMoves DEF IInv, Bounded

\* wait_for_callbacks(): one case for each action.
LEMMA WaitStep ==
  ASSUME IInv, NEW w \in Waiters, WaitBegins(w) \/ Wait(w) \/ WaitCancelled(w)
  PROVE  IInv'
<1>1. FramesTypeOK /\ ErrorsKept
  BY DEF IInv
<1>2. UNCHANGED <<thread, holder, counts, life, futures, overflowed, closeTask, sync, closer, accepting>>
  BY DEF WaitBegins, Wait, WaitSubmissions, WaitGathers, WaitLooksAgain, WaitReturns,
         WaitCancelled, callbacks
<1>3. \E pc \in {"idle", "submissions", "settle", "gather"}, snap \in SUBSET Ids :
         WaiterAt(w, pc, snap)
  BY <1>1 DEF WaitBegins, Wait, WaitSubmissions, WaitGathers, WaitLooksAgain, WaitReturns,
         WaitCancelled, FramesTypeOK
<1>4. waiter' \in [Waiters -> [pc : {"idle", "submissions", "settle", "gather"},
                               snap : SUBSET Ids]]
  BY <1>1, <1>3 DEF WaiterAt, FramesTypeOK
<1>5. CASE WaitBegins(w) \/ WaitSubmissions(w) \/ WaitGathers(w) \/ WaitLooksAgain(w)
  <2>1. UNCHANGED <<task, errors, heard>>
    BY <1>5 DEF WaitBegins, WaitSubmissions, WaitGathers, WaitLooksAgain, callbacks
  <2>2. FramesTypeOK'
    BY <1>1, <1>2, <1>4, <2>1 DEF FramesTypeOK, life, counts
  <2>3. ErrorsKept'
    BY <1>1, <1>2, <2>1 DEF ErrorsKept, Ended
  <2> QED
    BY <1>2, <2>1, <2>2, <2>3, SideMoves
<1>6. CASE WaitReturns(w)
  <2>1. task' = task /\ errors' = << >> /\ heard' = heard \union ToSet(errors)
    BY <1>6 DEF WaitReturns
  <2>2. ToSet(errors) \subseteq Ids /\ errors' \in Seq(Ids) /\ Len(errors') <= MaxErrors
    BY <1>1, <2>1, PipelineAssumption DEF FramesTypeOK, ToSet
  <2>3. FramesTypeOK'
    BY <1>1, <1>2, <1>4, <2>1, <2>2 DEF FramesTypeOK, life, counts
  <2>4. ErrorsKept'
    BY <1>1, <1>2, <2>1 DEF ErrorsKept, Ended
  <2> QED
    BY <1>2, <2>1, <2>3, <2>4, SideMoves
<1>7. CASE WaitCancelled(w)
  <2>1. task' = Cancelled(waiter[w].snap) /\ UNCHANGED <<errors, heard>>
    BY <1>7 DEF WaitCancelled
  <2>2. /\ task' \in [Ids -> TaskType]
        /\ \A k \in Ids : task'[k].st = task[k].st /\ task'[k].seen = task[k].seen
    BY <1>1, <2>1, CancelledTasks
  <2>3. FramesTypeOK'
    BY <1>1, <1>2, <1>4, <2>1, <2>2 DEF FramesTypeOK, life, counts
  <2>4. ErrorsKept'
    BY <1>1, <1>2, <2>1, <2>2 DEF ErrorsKept, Ended
  <2> QED
    BY <1>2, <2>2, <2>3, <2>4, SideMoves
<1> QED
  BY <1>5, <1>6, <1>7 DEF Wait

-----------------------------------------------------------------------------
(* The two ways to shut down.                                              *)

\* A step of a shutdown that leaves threads, tasks' states and futures alone.
LEMMA CloseMoves ==
  ASSUME IInv, UNCHANGED <<thread, holder, counts, futures>>, FramesTypeOK',
         \A k \in Ids : task'[k].st = task[k].st, Draining', ErrorsKept'
  PROVE  IInv'
<1>1. Live' = Live
  BY DEF Live
<1> QED
  BY <1>1, LoopMoves DEF IInv, Bounded

\* The callers of aclose(): one case for each action.
LEMMA AcloseStep ==
  ASSUME IInv, NEW c \in Closers, Aclose(c) \/ AcloseReturns(c) \/ AcloseCancelled(c)
  PROVE  IInv'
<1>1. FramesTypeOK /\ ErrorsKept /\ Draining
  BY DEF IInv
<1>2. /\ UNCHANGED <<thread, holder, counts, callbacks, waiter, sync, closed>>
      /\ task' = task /\ futures' = futures /\ errors' = errors /\ overflowed' = overflowed
  BY DEF Aclose, AcloseReturns, AcloseCancelled, callbacks, life
<1>3. CASE Aclose(c)
  <2>1. heard' = heard
    BY <1>3 DEF Aclose
  <2>2. CASE closed
    <3>1. closer' = [closer EXCEPT ![c] = "closed"] /\ UNCHANGED <<closing, accepting, closeTask>>
      BY <1>3, <2>2 DEF Aclose
    <3>2. FramesTypeOK'
      BY <1>1, <1>2, <2>1, <3>1 DEF FramesTypeOK, counts
    <3>3. Draining'
      BY <1>1, <1>2, <3>1 DEF Draining, Quiet
    <3>4. ErrorsKept'
      BY <1>1, <1>2, <2>1, <3>1 DEF ErrorsKept, Ended, FramesTypeOK
    <3> QED
      BY <1>2, <3>2, <3>3, <3>4, CloseMoves
  <2>3. CASE ~closed /\ closeTask.pc # "none"
    <3>1. closer' = [closer EXCEPT ![c] = "awaiting"] /\ UNCHANGED <<closing, accepting, closeTask>>
      BY <1>3, <2>3 DEF Aclose
    <3>2. FramesTypeOK'
      BY <1>1, <1>2, <2>1, <3>1 DEF FramesTypeOK, counts
    <3>3. Draining'
      BY <1>1, <1>2, <3>1 DEF Draining, Quiet
    <3>4. ErrorsKept'
      BY <1>1, <1>2, <2>1, <3>1 DEF ErrorsKept, Ended, FramesTypeOK
    <3> QED
      BY <1>2, <3>2, <3>3, <3>4, CloseMoves
  <2>4. CASE ~closed /\ closeTask.pc = "none"
    <3>1. PICK b \in BOOLEAN : closeTask' = [closeTask EXCEPT !.pc = "processes", !.cancel = b]
      BY <1>3, <2>4 DEF Aclose
    <3>2. closer' = [closer EXCEPT ![c] = "awaiting"] /\ closing' = TRUE /\ accepting' = FALSE
      BY <1>3, <2>4 DEF Aclose
    <3>3. closeTask' = [pc |-> "processes", cancel |-> b, errors |-> closeTask.errors]
      BY <1>1, <3>1 DEF FramesTypeOK
    <3>4. closeTask.errors = {}
      BY <1>1, <2>4 DEF ErrorsKept
    <3>5. FramesTypeOK'
      BY <1>1, <1>2, <2>1, <3>2, <3>3, <3>4 DEF FramesTypeOK, counts
    <3>6. Draining'
      BY <1>1, <1>2, <3>2, <3>3 DEF Draining, Quiet
    <3>7. ErrorsKept'
      BY <1>1, <1>2, <2>1, <2>4, <3>2, <3>3, <3>4 DEF ErrorsKept, Ended, FramesTypeOK
    <3> QED
      BY <1>2, <3>5, <3>6, <3>7, CloseMoves
  <2> QED
    BY <2>2, <2>3, <2>4
<1>4. CASE AcloseReturns(c)
  <2>1. /\ closer' = [closer EXCEPT ![c] = "returned"] /\ closeTask.pc = "ended"
        /\ heard' = heard \union closeTask.errors
        /\ UNCHANGED <<closing, accepting, closeTask>>
    BY <1>4 DEF AcloseReturns, life
  <2>2. closeTask.errors \subseteq Ids
    BY <1>1 DEF FramesTypeOK
  <2>3. FramesTypeOK'
    BY <1>1, <1>2, <2>1, <2>2 DEF FramesTypeOK, counts
  <2>4. Draining'
    BY <1>1, <1>2, <2>1 DEF Draining, Quiet
  <2>5. ErrorsKept'
    BY <1>1, <1>2, <2>1 DEF ErrorsKept, Ended, FramesTypeOK
  <2> QED
    BY <1>2, <2>3, <2>4, <2>5, CloseMoves
<1>5. CASE AcloseCancelled(c)
  <2>1. closer' = [closer EXCEPT ![c] = "gaveup"]
        /\ UNCHANGED <<closing, accepting, closeTask, heard>>
    BY <1>5 DEF AcloseCancelled, life
  <2>2. FramesTypeOK'
    BY <1>1, <1>2, <2>1 DEF FramesTypeOK, counts
  <2>3. Draining'
    BY <1>1, <1>2, <2>1 DEF Draining, Quiet
  <2>4. ErrorsKept'
    BY <1>1, <1>2, <2>1 DEF ErrorsKept, Ended, FramesTypeOK
  <2> QED
    BY <1>2, <2>2, <2>3, <2>4, CloseMoves
<1> QED
  BY <1>3, <1>4, <1>5

\* The close task of aclose(): one case for each action.
LEMMA CloseTaskStep ==
  ASSUME IInv, CloseTask
  PROVE  IInv'
<1>1. FramesTypeOK /\ ErrorsKept /\ Draining /\ HeldByOne /\ Counted
  BY DEF IInv
<1>2. UNCHANGED <<thread, holder, counts, futures, overflowed, closing, accepting, closer,
                  waiter, sync, heard>>
  BY DEF CloseTask, CloseWaitsProcesses, CloseWaitsSubmissions, CloseSettles, CloseExecutor,
         callbacks, life
<1>3. \A pc : CloseAt(pc) =>
        closeTask' = [pc |-> pc, cancel |-> closeTask.cancel, errors |-> closeTask.errors]
  BY <1>1 DEF CloseAt, FramesTypeOK
<1>4. closeTask.cancel \in BOOLEAN /\ closeTask.errors \in SUBSET Ids
  BY <1>1 DEF FramesTypeOK
<1>5. CASE CloseWaitsProcesses
  <2>1. /\ closeTask.pc = "processes" /\ active = 0
        /\ UNCHANGED <<closed, task, errors>>
        /\ closeTask' = [pc |-> "submissions", cancel |-> closeTask.cancel,
                         errors |-> closeTask.errors]
    BY <1>3, <1>5 DEF CloseWaitsProcesses, life, callbacks
  <2>2. Quiet
    BY <1>1, <2>1, NotBusyIsQuiet
  <2>3. FramesTypeOK'
    BY <1>1, <1>2, <1>4, <2>1 DEF FramesTypeOK, counts
  <2>4. Draining'
    BY <1>1, <1>2, <2>1, <2>2 DEF Draining, Quiet
  <2>5. ErrorsKept'
    BY <1>1, <1>2, <2>1 DEF ErrorsKept, Ended
  <2> QED
    BY <1>2, <2>1, <2>3, <2>4, <2>5, CloseMoves
<1>6. CASE CloseWaitsSubmissions
  <2>1. /\ closeTask.pc = "submissions" /\ UNCHANGED <<closed, errors>>
        /\ task' = IF closeTask.cancel THEN Cancelled(futures) ELSE task
        /\ closeTask' = [pc |-> "settle", cancel |-> closeTask.cancel,
                         errors |-> closeTask.errors]
    BY <1>3, <1>6 DEF CloseWaitsSubmissions, life
  <2>2. /\ task' \in [Ids -> TaskType]
        /\ \A k \in Ids : task'[k].st = task[k].st /\ task'[k].seen = task[k].seen
    BY <1>1, <2>1, CancelledTasks DEF FramesTypeOK
  <2>3. FramesTypeOK'
    BY <1>1, <1>2, <1>4, <2>1, <2>2 DEF FramesTypeOK, counts
  <2>4. Draining'
    BY <1>1, <1>2, <2>1 DEF Draining, Quiet
  <2>5. ErrorsKept'
    BY <1>1, <1>2, <2>1, <2>2 DEF ErrorsKept, Ended
  <2> QED
    BY <1>2, <2>2, <2>3, <2>4, <2>5, CloseMoves
<1>7. CASE CloseSettles
  <2>1. closeTask.pc = "settle" /\ futures = {} /\ task' = task
    BY <1>7 DEF CloseSettles
  <2>2. Quiet /\ submissions = 0
    BY <1>1, <2>1, QuietFacts DEF Draining, Counted
  <2>3. /\ closeTask' = [closeTask EXCEPT !.pc = "executor", !.errors = ToSet(errors)]
        /\ errors' = << >> /\ closed' = closed
    BY <1>7, <2>2 DEF CloseSettles
  <2>4. closeTask' = [pc |-> "executor", cancel |-> closeTask.cancel, errors |-> ToSet(errors)]
    BY <1>1, <2>3 DEF FramesTypeOK
  <2>5. ToSet(errors) \subseteq Ids /\ errors' \in Seq(Ids) /\ Len(errors') <= MaxErrors
    BY <1>1, <2>3, PipelineAssumption DEF FramesTypeOK, ToSet
  <2>6. FramesTypeOK'
    BY <1>1, <1>2, <1>4, <2>1, <2>3, <2>4, <2>5 DEF FramesTypeOK, counts
  <2>7. Draining'
    BY <1>1, <1>2, <2>1, <2>2, <2>3, <2>4 DEF Draining, Quiet
  <2>8. ErrorsKept'
    <3>1. closeTask.errors = {} /\ \A c \in Closers : closer[c] # "returned"
      BY <1>1, <2>1 DEF ErrorsKept
    <3> QED
      BY <1>1, <1>2, <2>1, <2>3, <2>4, <3>1 DEF ErrorsKept, Ended
  <2> QED
    BY <1>2, <2>1, <2>6, <2>7, <2>8, CloseMoves
<1>8. CASE CloseExecutor
  <2>1. /\ closeTask.pc = "executor" /\ thread[Worker].pc # "queued" /\ closed' = TRUE
        /\ UNCHANGED <<task, errors>>
        /\ closeTask' = [pc |-> "ended", cancel |-> closeTask.cancel,
                         errors |-> closeTask.errors]
    BY <1>3, <1>8 DEF CloseExecutor, callbacks, At
  <2>2. Quiet /\ futures = {} /\ \A t \in Threads : thread[t].pc # "queued"
    BY <1>1, <2>1 DEF Draining, HeldByOne
  <2>3. FramesTypeOK'
    BY <1>1, <1>2, <1>4, <2>1 DEF FramesTypeOK, counts
  <2>4. Draining'
    BY <1>1, <1>2, <2>1, <2>2 DEF Draining, Quiet
  <2>5. ErrorsKept'
    BY <1>1, <1>2, <2>1 DEF ErrorsKept, Ended
  <2> QED
    BY <1>2, <2>1, <2>3, <2>4, <2>5, CloseMoves
<1> QED
  BY <1>5, <1>6, <1>7, <1>8 DEF CloseTask

\* executor.shutdown(cancel_futures) moves threads, but only queued ones.
LEMMA CloseShutdownStep ==
  ASSUME IInv, CloseShutdown
  PROVE  IInv'
<1> USE DEF IInv
<1>1. /\ sync = "shutdown" /\ sync' = "processes"
      /\ UNCHANGED <<closing, closed, accepting, holder, active, submissions, reservations,
                     futures, errors, task, overflowed, closeTask, closer, waiter, heard>>
  BY DEF CloseShutdown, life, counts, callbacks
<1>2. \A t \in Threads : thread[t] \in ThreadType
  BY DEF FramesTypeOK, ThreadType
<1>3. thread' = [t \in Threads |-> IF thread[t].pc = "queued"
                                   THEN [thread[t] EXCEPT !.pc = "idle"] ELSE thread[t]]
  BY DEF CloseShutdown, At
<1>4. \A t \in Threads :
        /\ thread'[t] \in ThreadType
        /\ thread'[t].pc = IF thread[t].pc = "queued" THEN "idle" ELSE thread[t].pc
        /\ thread'[t].todo = thread[t].todo /\ thread'[t].task = thread[t].task
  BY <1>2, <1>3 DEF ThreadType, Positions
<1>5. thread' \in [Threads -> ThreadType]
  BY <1>3, <1>4
<1>6. FramesTypeOK'
  BY <1>1, <1>5 DEF FramesTypeOK, ThreadType
<1>7. HeldByOne'
  BY <1>1, <1>4 DEF HeldByOne, Locked, Calling
<1>8. Busy' = Busy /\ (Quiet' <=> Quiet)
  BY <1>4 DEF Busy, Quiet, Outside
<1>9. \A pcs \in SUBSET Calling : HolderAt(pcs)' <=> HolderAt(pcs)
  BY <1>1, <1>4 DEF HolderAt, FramesTypeOK, Calling
<1>10. /\ HolderAt(Calling)' <=> HolderAt(Calling)
       /\ HolderAt({"reserved", "created"})' <=> HolderAt({"reserved", "created"})
       /\ HolderAt({"created", "released"})' <=> HolderAt({"created", "released"})
       /\ HolderAt({"reserved"})' <=> HolderAt({"reserved"})
  BY <1>9 DEF Calling
<1>11. Counted'
  BY <1>1, <1>8, <1>10 DEF Counted
<1>12. Coming' = Coming
  <2>1. HolderAt({"created", "released"}) => thread'[holder].task = thread[holder].task
    BY <1>4 DEF HolderAt, FramesTypeOK
  <2> QED
    BY <1>1, <1>10, <2>1 DEF Coming
<1>13. Bounded'
  <2>1. Live' = Live
    BY <1>1 DEF Live
  <2> QED
    BY <1>1, <1>10, <1>12, <2>1 DEF Bounded
<1>14. Draining'
  BY <1>1, <1>4, <1>8 DEF Draining
<1>15. ErrorsKept'
  BY <1>1 DEF ErrorsKept, Ended
<1> QED
  BY <1>6, <1>7, <1>11, <1>13, <1>14, <1>15

\* The other steps of close().
LEMMA CloseStep ==
  ASSUME IInv, CloseBegins \/ CloseSeals \/ CloseEnds
  PROVE  IInv'
<1>1. FramesTypeOK /\ ErrorsKept /\ Draining /\ HeldByOne /\ Counted
  BY DEF IInv
<1>2. UNCHANGED <<thread, holder, counts, futures, task, errors, overflowed, closeTask, closer,
                  waiter>>
  BY DEF CloseBegins, CloseSeals, CloseEnds, callbacks
<1>3. CASE CloseBegins
  <2>1. closing' = TRUE /\ sync' = "shutdown" /\ UNCHANGED <<closed, accepting, heard>>
    BY <1>3 DEF CloseBegins
  <2>2. FramesTypeOK'
    BY <1>1, <1>2, <2>1 DEF FramesTypeOK, counts
  <2>3. Draining'
    BY <1>1, <1>2, <2>1 DEF Draining, Quiet
  <2>4. ErrorsKept'
    BY <1>1, <1>2, <2>1 DEF ErrorsKept, Ended
  <2> QED
    BY <1>2, <2>2, <2>3, <2>4, CloseMoves
<1>4. CASE CloseSeals
  <2>1. /\ sync = "processes" /\ active = 0 /\ accepting' = FALSE
        /\ UNCHANGED <<closing, closed>>
        /\ \/ sync' = "idle" /\ heard' = heard
           \/ futures = {} /\ sync' = "sealed" /\ heard' = heard \union ToSet(errors)
    BY <1>4 DEF CloseSeals, life
  <2>2. Quiet
    BY <1>1, <2>1, NotBusyIsQuiet
  <2>3. ToSet(errors) \subseteq Ids
    BY <1>1 DEF FramesTypeOK, ToSet
  <2>4. FramesTypeOK'
    BY <1>1, <1>2, <2>1, <2>3 DEF FramesTypeOK, counts
  <2>5. Draining'
    BY <1>1, <1>2, <2>1, <2>2 DEF Draining, Quiet
  <2>6. ErrorsKept'
    BY <1>1, <1>2, <2>1 DEF ErrorsKept, Ended
  <2> QED
    BY <1>2, <2>4, <2>5, <2>6, CloseMoves
<1>5. CASE CloseEnds
  <2>1. /\ sync = "sealed" /\ closed' = TRUE /\ sync' = "idle"
        /\ UNCHANGED <<closing, accepting, heard>>
    BY <1>5 DEF CloseEnds
  <2>2. FramesTypeOK'
    BY <1>1, <1>2, <2>1 DEF FramesTypeOK, counts
  <2>3. Draining'
    BY <1>1, <1>2, <2>1 DEF Draining, Quiet
  <2>4. ErrorsKept'
    BY <1>1, <1>2, <2>1 DEF ErrorsKept, Ended
  <2> QED
    BY <1>2, <2>2, <2>3, <2>4, CloseMoves
<1> QED
  BY <1>3, <1>4, <1>5

-----------------------------------------------------------------------------
(* The theorems.                                                           *)

LEMMA InitIInv == Init => IInv
<1> SUFFICES ASSUME Init PROVE IInv
  OBVIOUS
<1>1. MaxEvents \in Nat /\ MaxTasks \in Nat /\ MaxPending \in Nat \ {0} /\ MaxErrors \in Nat \ {0}
  BY PipelineAssumption
<1>2. FramesTypeOK
  <2>1. Unborn \in TaskType
    BY DEF Unborn, TaskType
  <2>2. [pc |-> "idle", todo |-> 0, task |-> 0]
          \in [pc : Positions, todo : 0..MaxEvents, task : 0..MaxTasks]
    BY <1>1 DEF Positions
  <2>3. [pc |-> "none", cancel |-> FALSE, errors |-> {}]
          \in [pc : {"none", "processes", "submissions", "settle", "executor", "ended"},
              cancel : BOOLEAN, errors : SUBSET Ids]
    OBVIOUS
  <2>4. [pc |-> "idle", snap |-> {}]
          \in [pc : {"idle", "submissions", "settle", "gather"}, snap : SUBSET Ids]
    OBVIOUS
  <2>5. errors \in Seq(Ids) /\ Len(errors) <= MaxErrors
    BY <1>1 DEF Init
  <2> QED
    BY <2>1, <2>2, <2>3, <2>4, <2>5 DEF Init, FramesTypeOK
<1>3. HeldByOne
  BY PipelineAssumption DEF Init, HeldByOne, Locked, Calling
<1>4. Busy = {} /\ Coming = {} /\ \A pcs : ~HolderAt(pcs)
  BY DEF Init, Busy, Coming, HolderAt, Outside
<1>5. Counted
  BY <1>4, FS_EmptySet DEF Init, Counted
<1>6. Bounded
  <2>1. Live = {} /\ futures \union Coming = {}
    BY <1>4 DEF Init, Live, Unborn
  <2> QED
    BY <1>1, <1>4, <2>1, FS_EmptySet DEF Bounded
<1>7. Draining
  BY DEF Init, Draining
<1>8. ErrorsKept
  BY DEF Init, ErrorsKept, Unborn
<1> QED
  BY <1>2, <1>3, <1>5, <1>6, <1>7, <1>8 DEF IInv

LEMMA NextIInv == IInv /\ [Next]_vars => IInv'
<1> SUFFICES ASSUME IInv, [Next]_vars PROVE IInv'
  OBVIOUS
<1>1. CASE ProcessAsync
  BY <1>1, ProcessStep, PipelineAssumption
<1>2. ASSUME NEW t \in Threads, Process(t) \/ Emit(t) PROVE IInv'
  BY <1>2, ProcessStep, EmitStep, CreateTaskStep, EmitRemembersStep, EmitEndsStep DEF Emit
<1>3. ASSUME NEW k \in Ids, Task(k) PROVE IInv'
  BY <1>3, TaskStep
<1>4. ASSUME NEW w \in Waiters, WaitBegins(w) \/ Wait(w) \/ WaitCancelled(w) PROVE IInv'
  BY <1>4, WaitStep
<1>5. ASSUME NEW c \in Closers, Aclose(c) \/ AcloseReturns(c) \/ AcloseCancelled(c) PROVE IInv'
  BY <1>5, AcloseStep
<1>6. CASE CloseTask \/ CloseBegins \/ Close
  BY <1>6, CloseTaskStep, CloseStep, CloseShutdownStep DEF Close
<1>7. CASE UNCHANGED vars
  <2>1. FramesTypeOK' /\ HeldByOne'
    BY <1>7 DEF vars, life, counts, callbacks, enders, IInv, FramesTypeOK, HeldByOne
  <2>2. Counted' /\ Bounded'
    BY <1>7 DEF vars, counts, callbacks, IInv, Counted, Bounded, Busy, HolderAt, Coming, Live
  <2>3. Draining' /\ ErrorsKept'
    BY <1>7 DEF vars, life, callbacks, enders, IInv, Draining, Quiet, ErrorsKept, Ended
  <2> QED
    BY <2>1, <2>2, <2>3 DEF IInv
<1> QED
  BY <1>1, <1>2, <1>3, <1>4, <1>5, <1>6, <1>7 DEF Next

\* The invariant holds in every reachable state.
LEMMA Invariance == Spec => []IInv
BY InitIInv, NextIInv, PTL DEF Spec

\* Every variable keeps its type; the three counters never exceed the number of
\* threads and the deque never its length.
THEOREM TypeCorrect == Spec => [](TypeOK /\ FramesTypeOK)
<1>1. IInv => TypeOK /\ FramesTypeOK
  <2> SUFFICES ASSUME IInv PROVE TypeOK
    BY DEF IInv
  <2>1. Cardinality(Busy) \in Nat /\ Cardinality(Busy) <= Cardinality(Threads)
    BY BusyFinite
  <2>2. Cardinality(Threads) \in Nat /\ Cardinality(Threads) >= 1
    <3>1. IsFiniteSet(Threads) /\ Worker \in Threads
      BY PipelineAssumption
    <3>2. Cardinality(Threads) \in Nat /\ Cardinality(Threads) # 0
      BY <3>1, FS_CardinalityType, FS_EmptySet
    <3> QED
      BY <3>2
  <2>3. {active, submissions, reservations} \subseteq 0..Cardinality(Threads)
    BY <2>1, <2>2 DEF IInv, Counted
  <2>4. \A t \in Threads : thread[t].todo \in 0..MaxEvents /\ thread[t].task \in 0..MaxTasks
    BY DEF IInv, FramesTypeOK
  <2> QED
    BY <2>3, <2>4 DEF IInv, FramesTypeOK, TypeOK
<1> QED
  BY Invariance, <1>1, PTL

\* max_pending_callbacks bounds the callbacks alive on the loop, for any number
\* of processing threads: the reservation, then the lock, keeps the room of a
\* task until it is remembered.
THEOREM BacklogIsBounded == Spec => []BacklogBounded
<1>1. IInv => BacklogBounded
  <2> SUFFICES ASSUME IInv PROVE Cardinality(Live) <= MaxPending
    BY DEF BacklogBounded
  <2>1. Live \subseteq futures \union Coming /\ futures \union Coming \subseteq Ids
    BY DEF IInv, Bounded, Coming, HolderAt, HeldByOne, FramesTypeOK
  <2>2. /\ IsFiniteSet(futures \union Coming) /\ Cardinality(futures \union Coming) \in Nat
        /\ Cardinality(Live) \in Nat
    BY <2>1, FiniteFacts
  <2>3. Cardinality(Live) <= Cardinality(futures \union Coming)
    BY <2>1, <2>2, FS_Subset
  <2>4. Cardinality(futures \union Coming) <= MaxPending
    BY <2>2, PipelineAssumption DEF IInv, Bounded
  <2> QED
    BY <2>2, <2>3, <2>4, PipelineAssumption
<1> QED
  BY Invariance, <1>1, PTL

\* A closed pipeline is drained, whichever of aclose() and close() ended it.
THEOREM ClosedStaysDrained == Spec => []ClosedIsDrained
<1>1. IInv => ClosedIsDrained
  <2> SUFFICES ASSUME IInv, closed
               PROVE  /\ active = 0 /\ submissions = 0 /\ reservations = 0
                      /\ Live = {} /\ futures = {} /\ \A t \in Threads : At(t, "idle")
    BY DEF ClosedIsDrained
  <2>1. Quiet /\ futures = {} /\ \A t \in Threads : thread[t].pc # "queued"
    BY DEF IInv, Draining
  <2>2. Busy = {} /\ Coming = {} /\ holder = None
    BY <2>1, QuietFacts DEF IInv
  <2>3. active = 0 /\ submissions = 0 /\ reservations = 0
    BY <2>2, FS_EmptySet DEF IInv, Counted, HolderAt
  <2>4. Live = {}
    BY <2>1, <2>2 DEF IInv, Bounded
  <2>5. \A t \in Threads : At(t, "idle")
    BY <2>1 DEF Quiet, Outside, At
  <2> QED
    BY <2>1, <2>3, <2>4, <2>5
<1> QED
  BY Invariance, <1>1, PTL

\* The final check of the close task, that no submission is left
\* (frame_pipeline.py:222), never fails.
THEOREM SettledMeansNoSubmission ==
  Spec => [](closeTask.pc \in {"settle", "executor", "ended"} => submissions = 0)
<1>1. IInv => (closeTask.pc \in {"settle", "executor", "ended"} => submissions = 0)
  BY QuietFacts DEF IInv, Draining, Counted
<1> QED
  BY Invariance, <1>1, PTL

\* No error of a failed callback is lost between the tasks that collect errors.
THEOREM ErrorsAreNotLost == Spec => []NoErrorLost
<1>1. IInv => NoErrorLost
  BY DEF IInv, ErrorsKept, NoErrorLost
<1> QED
  BY Invariance, <1>1, PTL

-----------------------------------------------------------------------------
(* The inductive invariant of the analyzers, in parts.                     *)

Tracker == [since : 0..MaxAge, hits : 1..MinHits]

\* The tracker knows the tracks numbered so far, and nobody remembers others.
KnownIds == 1..(nextId - 1)
TracksOK ==
  /\ frames \in 0..(MinHits + 1) /\ nextId \in 1..(MaxTracks + 1)
  /\ DOMAIN track \subseteq KnownIds
  /\ \A i \in DOMAIN track : track[i] \in Tracker

\* The longest time a live track with these numbers can have gone unreported.
Gap(t) == IF t.hits >= MinHits THEN t.since ELSE (t.hits - 1) * (MaxAge + 1) + t.since

\* The tracks the pipeline has always had boxes for.
Plain == DOMAIN track \ history.hid

ZonesOK ==
  /\ DOMAIN lastSeen \subseteq KnownIds /\ \A i \in DOMAIN lastSeen : lastSeen[i] \in Nat
  /\ DOMAIN presence \subseteq Zones \X DOMAIN lastSeen
  /\ \A k \in DOMAIN presence : presence[k] \in BOOLEAN
  /\ \A i \in DOMAIN lastSeen : i \in Plain => lastSeen[i] <= Gap(track[i])

\* What the zone analyzer remembers of a live track is what it announced last.
ZonesRemembered ==
  ZoneStale >= LongestGap =>
     \A z \in Zones : \A i \in Plain : Get(presence, <<z, i>>, FALSE) <=> history.zone[<<z, i>>] = "enter"

Persons == Plain \ history.other
CounterOK ==
  /\ DOMAIN counter \subseteq KnownIds
  /\ \A i \in DOMAIN counter : counter[i] \in [side : {-1, 1}, age : Nat]
  /\ \A i \in DOMAIN counter : i \in Persons => counter[i].age <= Gap(track[i])

\* A live person who crossed is remembered on the side the crossing led to.
SidesRemembered ==
  CounterStale >= LongestGap =>
     \A i \in Persons : /\ history.count[i] = "in" => i \in DOMAIN counter /\ counter[i].side = 1
                        /\ history.count[i] = "out" => i \in DOMAIN counter /\ counter[i].side = -1

AlertsOK ==
  /\ DOMAIN alerts \subseteq IntrusionZones \X KnownIds /\ \A k \in DOMAIN alerts : alerts[k] \in Nat
  /\ {totals.in, totals.out} \subseteq 0..MaxCount

\* Of a track that was reported in every frame since, the last alert is remembered.
AlertsRemembered ==
  \A k \in Keys : history.quiet[k] >= 0 /\ k \notin history.missed =>
     k \in DOMAIN alerts /\ alerts[k] = history.quiet[k]

\* What was announced, of the tracks numbered so far.
HistoryOK ==
  /\ history.zone \in [Keys -> {"enter", "exit"}] /\ history.count \in [TrackIds -> {"none", "in", "out"}]
  /\ history.quiet \in [Keys -> Int]
  /\ \A k \in Keys : k[2] >= nextId => history.zone[k] = "exit"
  /\ \A i \in TrackIds : i >= nextId => history.count[i] = "none"

AnalyzersInv ==
  /\ TracksOK /\ ZonesOK /\ ZonesRemembered /\ CounterOK /\ SidesRemembered
  /\ AlertsOK /\ AlertsRemembered /\ HistoryOK

-----------------------------------------------------------------------------
(* Arithmetic.                                                             *)

LEMMA MinOfTwo == \A a, b \in Int : Min({a, b}) = IF a <= b THEN a ELSE b
<1> SUFFICES ASSUME NEW a \in Int, NEW b \in Int PROVE Min({a, b}) = IF a <= b THEN a ELSE b
  OBVIOUS
<1> DEFINE P(x) == x \in {a, b} /\ \A y \in {a, b} : x =< y
           m == IF a <= b THEN a ELSE b
<1>1. P(m)
  OBVIOUS
<1>2. \A x : P(x) => x = m
  OBVIOUS
<1> QED
  BY <1>1, <1>2 DEF Min

LEMMA MaxOfTwo == \A a, b \in Int : Max({a, b}) = IF a >= b THEN a ELSE b
<1> SUFFICES ASSUME NEW a \in Int, NEW b \in Int PROVE Max({a, b}) = IF a >= b THEN a ELSE b
  OBVIOUS
<1> DEFINE P(x) == x \in {a, b} /\ \A y \in {a, b} : x >= y
           m == IF a >= b THEN a ELSE b
<1>1. P(m)
  OBVIOUS
<1>2. \A x : P(x) => x = m
  OBVIOUS
<1> QED
  BY <1>1, <1>2 DEF Max

LEMMA Numbers ==
  /\ MaxAge \in Nat /\ MinHits \in Nat /\ MinHits >= 1 /\ CounterStale \in Nat /\ ZoneStale \in Nat
  /\ Cooldown \in Nat /\ Margin \in Nat /\ MaxTracks \in Nat /\ MaxCount \in Nat /\ Steps \subseteq Nat
  /\ IntrusionZones \subseteq Zones
BY ConfigAssumption DEF ValidConfig

LEMMA OlderIs == \A a, b \in Nat : Older(a, b) = IF a + 1 <= b THEN a + 1 ELSE b
BY MinOfTwo DEF Older

LEMMA Products ==
  \A h, m \in Nat : /\ h * m \in Nat /\ (h + 1) * m = h * m + m
                    /\ \A k \in Nat : h <= k => h * m <= k * m
OBVIOUS

-----------------------------------------------------------------------------
(* The tracker.                                                            *)

LEMMA GapTyped ==
  ASSUME NEW t, t.since \in Nat, t.hits \in 1..MinHits
  PROVE  Gap(t) \in Nat /\ Gap(t) >= t.since
<1>1. t.hits - 1 \in Nat /\ MaxAge + 1 \in Nat
  BY Numbers
<1>2. (t.hits - 1) * (MaxAge + 1) \in Nat
  BY <1>1, Products
<1> QED
  BY <1>2 DEF Gap

\* A live track is never longer out of sight than the longest gap.
LEMMA GapIsBounded ==
  ASSUME NEW t \in Tracker
  PROVE  Gap(t) \in Nat /\ Gap(t) <= LongestGap
<1> DEFINE m == MaxAge + 1
           h == t.hits
           g == Max({1, MinHits - 1})
<1>1. t.since \in Nat /\ t.since + 1 <= m /\ h \in Nat /\ h >= 1 /\ h <= MinHits /\ m \in Nat
  BY Numbers DEF Tracker
<1>2. g \in Nat /\ g >= 1 /\ g >= MinHits - 1
  BY Numbers, MaxOfTwo
<1>3. LongestGap = g * m - 1
  BY DEF LongestGap
<1>4. Gap(t) \in Nat
  BY <1>1, GapTyped DEF Tracker
<1> HIDE DEF m, g
<1>5. g * m \in Nat /\ g * m >= m
  <2>1. 1 * m = m /\ 1 * m <= g * m /\ g * m \in Nat
    BY <1>1, <1>2, Products
  <2> QED
    BY <1>1, <2>1
<1>6. CASE h >= MinHits
  BY <1>1, <1>3, <1>5, <1>6 DEF Gap
<1>7. CASE h < MinHits
  <2>1. h - 1 \in Nat /\ (h - 1) + 1 <= g /\ (h - 1) + 1 \in Nat /\ (h - 1) + 1 = h
    BY <1>1, <1>2, <1>7, Numbers
  <2>2. (h - 1) * m \in Nat /\ h * m = (h - 1) * m + m
    BY <1>1, <2>1, Products
  <2>3. h * m <= g * m
    BY <1>1, <1>2, <2>1, Products
  <2>4. Gap(t) = (h - 1) * m + t.since
    BY <1>1, <1>7, Numbers DEF Gap, m
  <2>5. h * m \in Nat
    BY <1>1, Products
  <2> QED
    BY <1>1, <1>3, <1>4, <1>5, <2>2, <2>3, <2>4, <2>5
<1> QED
  BY <1>1, <1>4, <1>6, <1>7, Numbers

\* One more frame out of sight.
LEMMA GapGrows ==
  ASSUME NEW t \in Tracker, NEW x \in Nat, x <= Gap(t)
  PROVE  /\ x + 1 <= Gap(Predicted(t))
         /\ Updated(Predicted(t)).hits < MinHits => x + 1 <= Gap(Updated(Predicted(t)))
<1> DEFINE m == MaxAge + 1
           h == t.hits
           p == Predicted(t)
           u == Updated(p)
<1>1. t.since \in Nat /\ t.since + 1 <= m /\ h \in Nat /\ h >= 1 /\ h <= MinHits /\ m \in Nat
  BY Numbers DEF Tracker
<1>2. p.since = t.since + 1 /\ p.hits = h
  BY DEF Predicted, Tracker
<1>3. u.since = 0 /\ u.hits = IF h + 1 <= MinHits THEN h + 1 ELSE MinHits
  BY <1>1, <1>2, MinOfTwo, Numbers DEF Updated, Older
<1> HIDE DEF p, u
<1>4. h - 1 \in Nat /\ (h - 1) + 1 = h /\ (h - 1) * m \in Nat
  <2>1. h - 1 \in Nat /\ (h - 1) + 1 = h
    BY <1>1
  <2> QED
    BY <1>1, <2>1, Products
<1>5. x + 1 <= Gap(p)
  BY <1>1, <1>2, <1>4, Numbers DEF Gap
<1>6. ASSUME u.hits < MinHits PROVE x + 1 <= Gap(u)
  <2>1. u.hits = h + 1 /\ h < MinHits /\ (h + 1) - 1 = h
    BY <1>1, <1>3, <1>6, Numbers
  <2>2. Gap(u) = h * m + 0 /\ Gap(t) = (h - 1) * m + t.since
    BY <1>1, <1>3, <2>1, <1>6, Numbers DEF Gap
  <2>3. h * m = (h - 1) * m + m
    BY <1>1, <1>4, Products
  <2> HIDE DEF m
  <2> QED
    BY <1>1, <1>4, <2>2, <2>3
<1> QED
  BY <1>5, <1>6 DEF p, u

LEMMA TrackersTyped ==
  ASSUME NEW t \in Tracker
  PROVE  /\ Predicted(t) \in [since : 0..(MaxAge + 1), hits : 1..MinHits]
         /\ Updated(Predicted(t)) \in [since : 0..(MaxAge + 1), hits : 1..MinHits]
<1>1. Predicted(t) \in [since : 0..(MaxAge + 1), hits : 1..MinHits] /\ Predicted(t).hits = t.hits
  BY Numbers DEF Predicted, Tracker
<1>2. t.hits \in 1..MinHits /\ t.hits \in Nat
  BY Numbers DEF Tracker
<1>3. Older(t.hits, MinHits) = IF t.hits + 1 <= MinHits THEN t.hits + 1 ELSE MinHits
  BY <1>2, Numbers, OlderIs
<1>4. Older(t.hits, MinHits) \in 1..MinHits
  BY <1>2, <1>3, Numbers
<1>5. Updated(Predicted(t)) = [since |-> 0, hits |-> Older(t.hits, MinHits)]
  BY <1>1 DEF Updated
<1> QED
  BY <1>1, <1>4, <1>5, Numbers

\* What a frame does to the tracks, as far as the analyzers can tell: one that is
\* neither reported nor degenerate has been out of sight for one frame more.
TrackerMoves(tracked, hid) ==
  /\ nextId' >= nextId
  /\ DOMAIN tracked \subseteq DOMAIN track' /\ \A i \in DOMAIN tracked : tracked[i] \in Places
  /\ \A i \in DOMAIN track' : i \in DOMAIN track \/ i >= nextId
  /\ \A i \in DOMAIN track' : i \in DOMAIN track /\ i \notin DOMAIN tracked /\ i \notin hid =>
       \A x \in Nat : x <= Gap(track[i]) => x + 1 <= Gap(track'[i])

LEMMA TrackerStep ==
  ASSUME TracksOK, NEW lost \in SUBSET DOMAIN track, NEW n \in 0..(MaxTracks + 1 - nextId), NEW matched,
         NEW trackers, trackers = Associate(Predict(lost), matched, nextId..(nextId + n - 1)),
         NEW frame, frame = Older(frames, MinHits + 1), NEW hid,
         NEW tracked \in [Reportable(trackers, frame) \ hid -> Places],
         frames' = frame, nextId' = nextId + n, track' = Survivors(trackers)
  PROVE  TracksOK' /\ TrackerMoves(tracked, hid)
<1> DEFINE fresh == nextId..(nextId + n - 1)
           old == DOMAIN track \ lost
<1>1. /\ nextId \in Nat /\ nextId >= 1 /\ n \in Nat /\ nextId + n \in 1..(MaxTracks + 1)
      /\ frames \in 0..(MinHits + 1)
  BY Numbers DEF TracksOK
<1>2. frame \in 0..(MinHits + 1)
  BY <1>1, Numbers, OlderIs
<1>3. \A i \in fresh : i \in Nat /\ i >= nextId /\ i <= nextId + n - 1
  BY <1>1
<1>4. \A i \in old : i \in DOMAIN track /\ track[i] \in Tracker /\ i \notin fresh /\ i \in 1..(nextId - 1)
  BY <1>1 DEF TracksOK, KnownIds
<1> HIDE DEF fresh, old
<1>5. /\ DOMAIN trackers = old \cup fresh
      /\ \A i \in old : trackers[i] = IF i \in matched THEN Updated(Predicted(track[i])) ELSE Predicted(track[i])
      /\ \A i \in fresh : trackers[i] = NewTracker
  <2>1. /\ DOMAIN Predict(lost) = old /\ \A i \in old : Predict(lost)[i] = Predicted(track[i])
    BY DEF Predict, old
  <2> DEFINE P == Predict(lost)
  <2> HIDE DEF P
  <2>2. trackers = Associate(P, matched, fresh)
    BY DEF fresh, P
  <2>3. DOMAIN P = old /\ \A i \in old : P[i] = Predicted(track[i])
    BY <2>1 DEF P
  <2>4. trackers = [i \in old \cup fresh |-> IF i \in fresh THEN NewTracker
                      ELSE IF i \in matched THEN Updated(P[i]) ELSE P[i]]
    BY <2>2, <2>3 DEF Associate
  <2> QED
    BY <1>4, <2>3, <2>4
<1>6. ASSUME NEW i \in DOMAIN trackers
      PROVE  trackers[i] \in [since : 0..(MaxAge + 1), hits : 1..MinHits]
  <2>1. CASE i \in fresh
    BY <1>5, <2>1, Numbers DEF NewTracker
  <2>2. CASE i \in old
    BY <1>4, <1>5, <2>2, TrackersTyped
  <2> QED
    BY <1>5, <2>1, <2>2
<1>7. /\ DOMAIN track' = {i \in DOMAIN trackers : trackers[i].since <= MaxAge}
      /\ \A i \in DOMAIN track' : track'[i] = trackers[i]
  BY DEF Survivors, Restrict
<1>8. ASSUME NEW i \in DOMAIN track' PROVE track'[i] \in Tracker
  BY <1>6, <1>7, Numbers DEF Tracker
<1>9. TracksOK'
  <2>1. DOMAIN track' \subseteq 1..(nextId + n - 1)
    BY <1>1, <1>3, <1>4, <1>5, <1>7
  <2> QED
    BY <1>1, <1>2, <1>8, <2>1 DEF TracksOK, KnownIds
<1>10. DOMAIN tracked \subseteq DOMAIN track'
  <2>1. ASSUME NEW i \in DOMAIN tracked PROVE i \in DOMAIN track'
    <3>1. i \in Reportable(trackers, frame)
      OBVIOUS
    <3> QED
      BY <1>7, <3>1, Numbers DEF Reportable
  <2> QED
    BY <2>1
<1>11. ASSUME NEW i \in DOMAIN track', i \in DOMAIN track, i \notin DOMAIN tracked, i \notin hid,
              NEW x \in Nat, x <= Gap(track[i])
       PROVE  x + 1 <= Gap(track'[i])
  <2>1. i \in old /\ track'[i] = trackers[i] /\ i \in DOMAIN trackers
    BY <1>1, <1>3, <1>5, <1>7, <1>11 DEF TracksOK, KnownIds
  <2>2. /\ x + 1 <= Gap(Predicted(track[i]))
        /\ Updated(Predicted(track[i])).hits < MinHits => x + 1 <= Gap(Updated(Predicted(track[i])))
    BY <1>4, <1>11, <2>1, GapGrows
  <2>3. CASE i \notin matched
    BY <1>5, <2>1, <2>2, <2>3
  <2>4. CASE i \in matched
    <3> DEFINE u == Updated(Predicted(track[i]))
    <3>1. trackers[i] = u /\ u.since = 0
      BY <1>5, <2>1, <2>4 DEF Updated
    <3> HIDE DEF u
    <3>2. ~(trackers[i].hits >= MinHits)
      <4>1. i \notin Reportable(trackers, frame)
        BY <1>11
      <4> QED
        BY <2>1, <3>1, <4>1 DEF Reportable
    <3>3. trackers[i].hits < MinHits
      BY <1>6, <2>1, <3>2, Numbers
    <3> QED
      BY <2>1, <2>2, <3>1, <3>3 DEF u
  <2> QED
    BY <2>3, <2>4
<1>12. \A i \in DOMAIN track' : i \in DOMAIN track \/ i >= nextId
  BY <1>3, <1>4, <1>5, <1>7
<1>13. nextId' >= nextId
  BY <1>1
<1> QED
  BY <1>9, <1>10, <1>11, <1>12, <1>13 DEF TrackerMoves

-----------------------------------------------------------------------------
(* The zone analyzer.                                                      *)

LEMMA LiveGaps ==
  ASSUME TracksOK, NEW i \in DOMAIN track
  PROVE  Gap(track[i]) \in Nat /\ Gap(track[i]) <= LongestGap /\ i \in Nat /\ i < nextId
BY GapIsBounded DEF TracksOK, KnownIds

LEMMA LongestGapTyped == LongestGap \in Int
<1>1. Max({1, MinHits - 1}) \in Nat
  BY Numbers, MaxOfTwo
<1>2. MaxAge + 1 \in Nat
  BY Numbers
<1>3. Max({1, MinHits - 1}) * (MaxAge + 1) \in Nat
  BY <1>1, <1>2, Products
<1> QED
  BY <1>3 DEF LongestGap

\* A track in the analyzer's memory, and whether it stays there.
LEMMA SeenFacts ==
  ASSUME ZonesOK, NEW tracked, NEW i
  PROVE  /\ i \in DOMAIN Seen(tracked) =>
              /\ i \in DOMAIN tracked => Seen(tracked)[i] = 0
              /\ i \notin DOMAIN tracked => i \in DOMAIN lastSeen /\ Seen(tracked)[i] = lastSeen[i] + 1
         /\ i \in DOMAIN tracked => i \in DOMAIN Seen(tracked)
         /\ i \in DOMAIN lastSeen /\ i \notin DOMAIN tracked /\ lastSeen[i] + 1 <= ZoneStale =>
              i \in DOMAIN Seen(tracked)
BY Numbers DEF Seen, ZonesOK

LEMMA ZonesStep ==
  ASSUME TracksOK, ZonesOK, TracksOK', NEW tracked, NEW hid, TrackerMoves(tracked, hid),
         Analyze(tracked), history'.hid = history.hid \cup hid
  PROVE  ZonesOK'
<1>1. lastSeen' = Seen(tracked)
  BY DEF Analyze
<1>2. ASSUME NEW i \in DOMAIN lastSeen'
      PROVE  /\ i \in KnownIds' /\ lastSeen'[i] \in Nat
             /\ i \in Plain' => lastSeen'[i] <= Gap(track'[i])
  <2>1. CASE i \in DOMAIN tracked
    <3>1. lastSeen'[i] = 0
      BY <1>1, <1>2, <2>1, SeenFacts
    <3>2. i \in DOMAIN track' /\ track'[i] \in Tracker /\ i \in KnownIds'
      BY <2>1 DEF TrackerMoves, TracksOK
    <3>3. Gap(track'[i]) \in Nat
      BY <3>2, GapIsBounded
    <3> QED
      BY <3>1, <3>2, <3>3
  <2>2. CASE i \notin DOMAIN tracked
    <3>1. i \in DOMAIN lastSeen /\ lastSeen'[i] = lastSeen[i] + 1
      BY <1>1, <1>2, <2>2, SeenFacts
    <3>2. i \in 1..(nextId - 1) /\ lastSeen[i] \in Nat
      BY <3>1 DEF ZonesOK, KnownIds
    <3>3. nextId \in Nat /\ nextId' \in Nat /\ nextId' >= nextId
      BY Numbers DEF TracksOK, TrackerMoves
    <3>4. i \in KnownIds' /\ ~(i >= nextId)
      BY <3>2, <3>3 DEF KnownIds
    <3>5. ASSUME i \in Plain' PROVE lastSeen[i] + 1 <= Gap(track'[i])
      <4>1. i \in DOMAIN track' /\ i \in DOMAIN track /\ i \notin hid /\ i \notin history.hid
        BY <3>4, <3>5 DEF Plain, TrackerMoves
      <4>2. lastSeen[i] <= Gap(track[i])
        BY <3>1, <4>1 DEF ZonesOK, Plain
      <4> QED
        BY <2>2, <3>2, <4>1, <4>2 DEF TrackerMoves
    <3> QED
      BY <3>1, <3>2, <3>4, <3>5
  <2> QED
    BY <2>1, <2>2
<1>3. ASSUME NEW k \in DOMAIN presence' PROVE k \in Zones \X DOMAIN lastSeen' /\ presence'[k] \in BOOLEAN
  <2>1. /\ k \in DOMAIN presence \union (Zones \X DOMAIN tracked) /\ k[2] \in DOMAIN lastSeen'
        /\ presence'[k] = IF k[2] \in DOMAIN tracked THEN Inside(tracked, k) ELSE presence[k]
    BY <1>3 DEF Analyze
  <2>2. k \in Zones \X DOMAIN lastSeen'
    BY <2>1 DEF ZonesOK
  <2>3. CASE k[2] \in DOMAIN tracked
    <3>1. Inside(tracked, k) \in BOOLEAN
      BY DEF Inside
    <3>2. presence'[k] = Inside(tracked, k)
      BY <2>1, <2>3, Zenon
    <3> QED
      BY <2>2, <3>1, <3>2, Zenon
  <2>4. CASE k[2] \notin DOMAIN tracked
    <3>1. k \in DOMAIN presence
      BY <2>1, <2>4
    <3> QED
      BY <2>1, <2>4, <3>1 DEF ZonesOK
  <2> QED
    BY <2>2, <2>3, <2>4
<1> QED
  BY <1>2, <1>3 DEF ZonesOK

\* The last event of each track and zone.
LEMMA ZoneHistory ==
  ASSUME ZonesOK, HistoryOK, NEW tracked, NEW hid, NEW step, DOMAIN tracked \subseteq TrackIds,
         result'.zone = ZoneEvents(tracked), Remember(tracked, hid, step), NEW z \in Zones, NEW i \in TrackIds
  PROVE  LET in == z \in tracked[i].zones
             was == Get(presence, <<z, i>>, FALSE)
         IN  /\ i \in DOMAIN tracked /\ ~(in <=> was) =>
                  history'.zone[<<z, i>>] = IF in THEN "enter" ELSE "exit"
             /\ i \notin DOMAIN tracked \/ (in <=> was) => history'.zone[<<z, i>>] = history.zone[<<z, i>>]
<1> DEFINE k == <<z, i>>
           in == z \in tracked[i].zones
           was == Get(presence, k, FALSE)
           E == {e \in ZoneEvents(tracked) : <<e.zone, e.id>> = k}
<1>1. k \in Keys
  BY DEF Keys
<1>2. history'.zone[k] = IF \E e \in ZoneEvents(tracked) : <<e.zone, e.id>> = k
                         THEN (CHOOSE e \in ZoneEvents(tracked) : <<e.zone, e.id>> = k).type
                         ELSE history.zone[k]
  BY <1>1 DEF Remember
<1>3. was \in BOOLEAN
  BY DEF Get, ZonesOK
<1>4. ASSUME NEW e \in ZoneEvents(tracked), <<e.zone, e.id>> = k
      PROVE  i \in DOMAIN tracked /\ in # was /\ e.type = IF in THEN "enter" ELSE "exit"
  <2>1. PICK y \in Zones \X DOMAIN tracked :
          /\ Inside(tracked, y) # Get(presence, y, FALSE)
          /\ e = [zone |-> y[1], id |-> y[2], type |-> IF Inside(tracked, y) THEN "enter" ELSE "exit"]
    BY DEF ZoneEvents
  <2>2. y = k
    BY <1>4, <2>1
  <2> QED
    BY <2>1, <2>2 DEF Inside
<1>5. ASSUME i \in DOMAIN tracked, in # was
      PROVE  \E e \in ZoneEvents(tracked) : <<e.zone, e.id>> = k
  <2> DEFINE e == [zone |-> k[1], id |-> k[2], type |-> IF Inside(tracked, k) THEN "enter" ELSE "exit"]
  <2>1. k \in Zones \X DOMAIN tracked /\ Inside(tracked, k) # Get(presence, k, FALSE)
    BY <1>5 DEF Inside
  <2>2. e \in ZoneEvents(tracked) /\ <<e.zone, e.id>> = k
    BY <2>1 DEF ZoneEvents
  <2> QED
    BY <2>2
<1>6. CASE i \in DOMAIN tracked /\ in # was
  <2> DEFINE e == CHOOSE e \in ZoneEvents(tracked) : <<e.zone, e.id>> = k
  <2>1. e \in ZoneEvents(tracked) /\ <<e.zone, e.id>> = k
    BY <1>5, <1>6
  <2>2. history'.zone[k] = e.type
    BY <1>2, <1>5, <1>6
  <2> HIDE DEF e
  <2>3. e.type = IF in THEN "enter" ELSE "exit"
    BY <1>4, <2>1
  <2>4. ~(in <=> was)
    <3>1. in \in BOOLEAN
      OBVIOUS
    <3> HIDE DEF in, was
    <3> QED
      BY <1>3, <1>6, <3>1
  <2> QED
    BY <1>6, <2>2, <2>3, <2>4
<1>7. CASE ~(i \in DOMAIN tracked /\ in # was)
  <2>1. history'.zone[k] = history.zone[k]
    BY <1>2, <1>4, <1>7
  <2> QED
    BY <1>3, <1>7, <2>1
<1> QED
  BY <1>6, <1>7

\* Before the frame the memory agreed with what was announced, of the new tracks too.
LEMMA WasRemembered ==
  ASSUME TracksOK, ZonesOK, HistoryOK, ZonesRemembered, TracksOK', ZoneStale >= LongestGap,
         NEW tracked, NEW hid, TrackerMoves(tracked, hid), history'.hid = history.hid \cup hid,
         NEW z \in Zones, NEW i \in Plain'
  PROVE  /\ i \in TrackIds
         /\ Get(presence, <<z, i>>, FALSE) <=> history.zone[<<z, i>>] = "enter"
<1>1. i \in DOMAIN track' /\ i \notin history.hid /\ i \notin hid
  BY DEF Plain
<1>2. i \in TrackIds /\ i \in Nat /\ nextId \in Nat
  BY <1>1, Numbers DEF TracksOK, KnownIds, TrackIds
<1>3. CASE i \in DOMAIN track
  BY <1>1, <1>2, <1>3 DEF ZonesRemembered, Plain
<1>4. CASE i >= nextId
  <2>1. <<z, i>> \in Keys /\ <<z, i>>[2] = i
    BY <1>2 DEF Keys
  <2>2. history.zone[<<z, i>>] = "exit"
    BY <1>4, <2>1 DEF HistoryOK
  <2>3. i \notin DOMAIN lastSeen
    BY <1>2, <1>4 DEF ZonesOK, KnownIds
  <2>4. <<z, i>> \notin DOMAIN presence
    BY <2>3 DEF ZonesOK
  <2> QED
    BY <1>2, <2>2, <2>4 DEF Get
<1> QED
  BY <1>1, <1>2, <1>3, <1>4 DEF TrackerMoves

LEMMA ZonesRememberedStep ==
  ASSUME TracksOK, ZonesOK, HistoryOK, ZonesRemembered, TracksOK', NEW tracked, NEW hid, NEW step,
         TrackerMoves(tracked, hid), Analyze(tracked), result'.zone = ZoneEvents(tracked),
         Remember(tracked, hid, step)
  PROVE  ZonesRemembered'
<1> SUFFICES ASSUME ZoneStale >= LongestGap, NEW z \in Zones, NEW i \in Plain'
             PROVE  Get(presence', <<z, i>>, FALSE) <=> history'.zone[<<z, i>>] = "enter"
  BY DEF ZonesRemembered, Get
<1> DEFINE k == <<z, i>>
           in == z \in tracked[i].zones
           was == Get(presence, k, FALSE)
<1>1. history'.hid = history.hid \cup hid
  BY DEF Remember
<1>2. i \in TrackIds /\ (was <=> history.zone[k] = "enter")
  BY <1>1, WasRemembered
<1>3. DOMAIN tracked \subseteq TrackIds
  BY Numbers DEF TrackerMoves, TracksOK, KnownIds, TrackIds
<1>4. /\ i \in DOMAIN tracked /\ ~(in <=> was) => history'.zone[k] = IF in THEN "enter" ELSE "exit"
      /\ i \notin DOMAIN tracked \/ (in <=> was) => history'.zone[k] = history.zone[k]
  BY <1>2, <1>3, ZoneHistory
<1>5. lastSeen' = Seen(tracked) /\ k[1] = z /\ k[2] = i
  BY DEF Analyze
<1>6. /\ k \in DOMAIN presence' <=> k \in DOMAIN presence \union (Zones \X DOMAIN tracked) /\ i \in DOMAIN lastSeen'
      /\ k \in DOMAIN presence' => presence'[k] = IF i \in DOMAIN tracked THEN in ELSE presence[k]
  BY <1>5 DEF Analyze, Inside
<1>7. CASE i \in DOMAIN tracked
  <2>1. k \in DOMAIN presence'
    BY <1>5, <1>6, <1>7, SeenFacts
  <2>2. Get(presence', k, FALSE) <=> in
    BY <1>6, <1>7, <2>1 DEF Get
  <2>3. history'.zone[k] = "enter" <=> in
    BY <1>2, <1>4, <1>7
  <2> QED
    BY <2>2, <2>3
<1>8. CASE i \notin DOMAIN tracked
  <2>1. history'.zone[k] = history.zone[k]
    BY <1>4, <1>8
  <2>2. CASE k \notin DOMAIN presence
    <3>1. k \notin DOMAIN presence'
      BY <1>6, <1>8, <2>2
    <3> QED
      BY <1>2, <2>1, <2>2, <3>1 DEF Get
  <2>3. CASE k \in DOMAIN presence
    <3>1. i \in DOMAIN lastSeen /\ lastSeen[i] \in Nat /\ i \in 1..(nextId - 1)
      BY <2>3 DEF ZonesOK, KnownIds
    <3>2. i \in DOMAIN track' /\ i \in DOMAIN track /\ i \notin hid /\ i \notin history.hid
      <4>1. ~(i >= nextId)
        BY <3>1 DEF TracksOK
      <4> QED
        BY <1>1, <4>1 DEF Plain, TrackerMoves
    <3>3. lastSeen[i] <= Gap(track[i])
      BY <3>1, <3>2 DEF ZonesOK, Plain
    <3>4. lastSeen[i] + 1 <= Gap(track'[i])
      BY <1>8, <3>1, <3>2, <3>3 DEF TrackerMoves
    <3>5. Gap(track'[i]) \in Nat /\ Gap(track'[i]) <= LongestGap /\ LongestGap \in Int
      BY <3>2, GapIsBounded, LongestGapTyped DEF TracksOK
    <3>6. lastSeen[i] + 1 <= ZoneStale
      BY <3>1, <3>4, <3>5, Numbers
    <3>7. i \in DOMAIN lastSeen'
      BY <1>5, <1>8, <3>1, <3>6, SeenFacts
    <3>8. k \in DOMAIN presence' /\ presence'[k] = presence[k]
      BY <1>6, <1>8, <2>3, <3>7
    <3> QED
      BY <1>2, <2>1, <2>3, <3>8 DEF Get
  <2> QED
    BY <2>2, <2>3
<1> QED
  BY <1>7, <1>8

LEMMA ZoneEventStep ==
  ASSUME TracksOK, ZonesOK, HistoryOK, ZonesRemembered, TracksOK', ZoneStale >= LongestGap,
         NEW tracked, NEW hid, TrackerMoves(tracked, hid), history'.hid = history.hid \cup hid,
         NEW e \in ZoneEvents(tracked), e.id \notin history'.hid
  PROVE  history.zone[<<e.zone, e.id>>] # e.type
<1>1. PICK y \in Zones \X DOMAIN tracked :
        /\ Inside(tracked, y) # Get(presence, y, FALSE)
        /\ e = [zone |-> y[1], id |-> y[2], type |-> IF Inside(tracked, y) THEN "enter" ELSE "exit"]
  BY DEF ZoneEvents
<1> DEFINE was == Get(presence, y, FALSE)
           in == Inside(tracked, y)
<1>2. e.zone = y[1] /\ e.id = y[2] /\ y = <<e.zone, e.id>> /\ e.zone \in Zones /\ e.id \in DOMAIN tracked
  BY <1>1
<1>3. e.id \in Plain'
  BY <1>2 DEF Plain, TrackerMoves
<1>4. was <=> history.zone[y] = "enter"
  BY <1>2, <1>3, WasRemembered
<1>5. was \in BOOLEAN /\ in \in BOOLEAN
  <2>1. was \in BOOLEAN
    BY DEF Get, ZonesOK
  <2>2. in \in BOOLEAN
    BY DEF Inside
  <2> QED
    BY <2>1, <2>2
<1>6. e.type = IF in THEN "enter" ELSE "exit"
  BY <1>1
<1>7. in # was
  BY <1>1
<1> HIDE DEF was, in
<1>8. CASE in = TRUE
  <2>1. was = FALSE
    BY <1>5, <1>7, <1>8
  <2> QED
    BY <1>2, <1>4, <1>6, <1>8, <2>1
<1>9. CASE in = FALSE
  <2>1. was = TRUE
    BY <1>5, <1>7, <1>9
  <2> QED
    BY <1>2, <1>4, <1>6, <1>9, <2>1
<1> QED
  BY <1>5, <1>8, <1>9

-----------------------------------------------------------------------------
(* The people counter.                                                     *)

SeenPersons(tracked) == {i \in DOMAIN tracked : tracked[i].person}

\* A track in the counter's memory, and whether it stays there.
LEMMA CounterFacts ==
  ASSUME CounterOK, NEW tracked, \A j \in DOMAIN tracked : tracked[j] \in Places, NEW i
  PROVE  /\ i \in DOMAIN CounterUpdated(tracked) =>
              /\ i \in DOMAIN counter \/ i \in Sided(tracked)
              /\ CounterUpdated(tracked)[i] =
                   [side |-> IF i \in Sided(tracked) THEN tracked[i].side ELSE counter[i].side,
                    age |-> IF i \in SeenPersons(tracked) THEN 0 ELSE counter[i].age + 1]
         /\ i \in Sided(tracked) => i \in SeenPersons(tracked) /\ tracked[i].side \in {-1, 1}
         /\ i \in Sided(tracked) => i \in DOMAIN CounterUpdated(tracked)
         /\ i \in DOMAIN counter /\ i \in SeenPersons(tracked) => i \in DOMAIN CounterUpdated(tracked)
         /\ i \in DOMAIN counter /\ i \notin SeenPersons(tracked) /\ counter[i].age + 1 <= CounterStale =>
              i \in DOMAIN CounterUpdated(tracked)
<1> DEFINE age(j) == IF j \in SeenPersons(tracked) THEN 0 ELSE counter[j].age + 1
           known == {j \in DOMAIN counter \union Sided(tracked) : age(j) <= CounterStale}
<1>1. CounterUpdated(tracked) =
        [j \in known |-> [side |-> IF j \in Sided(tracked) THEN tracked[j].side ELSE counter[j].side,
                          age |-> age(j)]]
  BY DEF CounterUpdated, SeenPersons
<1>2. i \in Sided(tracked) => i \in SeenPersons(tracked) /\ tracked[i].side \in {-1, 1}
  BY DEF Sided, SeenPersons, Places
<1>3. i \in known <=> i \in DOMAIN counter \union Sided(tracked) /\ age(i) <= CounterStale
  OBVIOUS
<1>4. i \in SeenPersons(tracked) => age(i) = 0 /\ age(i) <= CounterStale
  BY Numbers
<1>5. DOMAIN CounterUpdated(tracked) = known
  BY <1>1
<1>6. i \in known => CounterUpdated(tracked)[i] =
        [side |-> IF i \in Sided(tracked) THEN tracked[i].side ELSE counter[i].side, age |-> age(i)]
  BY <1>1
<1> HIDE DEF known
<1> QED
  BY <1>2, <1>3, <1>4, <1>5, <1>6

\* A live person's memory is no older than the track's gap.
LEMMA PersonAges ==
  ASSUME TracksOK, CounterOK, TracksOK', NEW tracked, NEW hid, TrackerMoves(tracked, hid),
         history'.hid = history.hid \cup hid,
         history'.other = history.other \union {j \in DOMAIN tracked : ~tracked[j].person},
         NEW i \in Persons', i \in DOMAIN counter, i \notin SeenPersons(tracked)
  PROVE  counter[i].age \in Nat /\ counter[i].age + 1 <= Gap(track'[i])
<1>1. counter[i].age \in Nat /\ i \in 1..(nextId - 1)
  BY DEF CounterOK, KnownIds
<1>2. ~(i >= nextId)
  BY <1>1 DEF TracksOK
<1>3. /\ i \in DOMAIN track' /\ i \in DOMAIN track /\ i \notin hid /\ i \notin history.hid
      /\ i \notin history.other /\ i \notin DOMAIN tracked
  BY <1>2 DEF Persons, Plain, TrackerMoves, SeenPersons
<1>4. counter[i].age <= Gap(track[i])
  BY <1>3 DEF CounterOK, Persons, Plain
<1> QED
  BY <1>1, <1>3, <1>4 DEF TrackerMoves

LEMMA CounterStep ==
  ASSUME TracksOK, CounterOK, TracksOK', NEW tracked, NEW hid, TrackerMoves(tracked, hid),
         counter' = CounterUpdated(tracked), history'.hid = history.hid \cup hid,
         history'.other = history.other \union {j \in DOMAIN tracked : ~tracked[j].person}
  PROVE  CounterOK'
<1>1. \A j \in DOMAIN tracked : tracked[j] \in Places
  BY DEF TrackerMoves
<1>2. ASSUME NEW i \in DOMAIN counter'
      PROVE  /\ i \in KnownIds' /\ counter'[i] \in [side : {-1, 1}, age : Nat]
             /\ i \in Persons' => counter'[i].age <= Gap(track'[i])
  <2>1. /\ i \in DOMAIN counter \/ i \in Sided(tracked)
        /\ counter'[i] = [side |-> IF i \in Sided(tracked) THEN tracked[i].side ELSE counter[i].side,
                          age |-> IF i \in SeenPersons(tracked) THEN 0 ELSE counter[i].age + 1]
        /\ i \in Sided(tracked) => i \in SeenPersons(tracked) /\ tracked[i].side \in {-1, 1}
    BY <1>1, <1>2, CounterFacts
  <2>2. i \in DOMAIN counter => counter[i].side \in {-1, 1} /\ counter[i].age \in Nat
    BY DEF CounterOK
  <2>3. i \in KnownIds'
    <3>1. nextId \in Nat /\ nextId' \in Nat /\ nextId' >= nextId
      BY Numbers DEF TracksOK, TrackerMoves
    <3>2. CASE i \in DOMAIN counter
      BY <3>1, <3>2 DEF CounterOK, KnownIds
    <3>3. CASE i \in Sided(tracked)
      BY <3>3 DEF Sided, TrackerMoves, TracksOK
    <3> QED
      BY <2>1, <3>2, <3>3
  <2>4. counter'[i] \in [side : {-1, 1}, age : Nat]
    BY <2>1, <2>2
  <2>5. ASSUME i \in Persons' PROVE counter'[i].age <= Gap(track'[i])
    <3>1. CASE i \in SeenPersons(tracked)
      <4>1. i \in DOMAIN track' /\ track'[i] \in Tracker
        BY <2>5 DEF Persons, Plain, TracksOK
      <4>2. Gap(track'[i]) \in Nat
        BY <4>1, GapIsBounded
      <4> QED
        BY <2>1, <3>1, <4>2
    <3>2. CASE i \notin SeenPersons(tracked)
      <4>1. i \in DOMAIN counter
        BY <2>1, <3>2
      <4>2. counter[i].age + 1 <= Gap(track'[i])
        BY <2>5, <3>2, <4>1, PersonAges
      <4> QED
        BY <2>1, <3>2, <4>2
    <3> QED
      BY <3>1, <3>2
  <2> QED
    BY <2>3, <2>4, <2>5
<1> QED
  BY <1>2 DEF CounterOK

\* The last crossing of each track.
LEMMA CountHistory ==
  ASSUME CounterOK, HistoryOK, NEW tracked, NEW hid, NEW step,
         result'.count = CountEvents(tracked), Remember(tracked, hid, step), NEW i \in TrackIds
  PROVE  /\ i \in Crossed(tracked) =>
              history'.count[i] = IF counter[i].side < tracked[i].side THEN "in" ELSE "out"
         /\ i \notin Crossed(tracked) => history'.count[i] = history.count[i]
<1>1. history'.count[i] = IF \E e \in CountEvents(tracked) : e.id = i
                          THEN (CHOOSE e \in CountEvents(tracked) : e.id = i).dir
                          ELSE history.count[i]
  BY DEF Remember
<1>2. ASSUME NEW e \in CountEvents(tracked), e.id = i
      PROVE  i \in Crossed(tracked) /\ e.dir = IF counter[i].side < tracked[i].side THEN "in" ELSE "out"
  BY <1>2 DEF CountEvents
<1>3. ASSUME i \in Crossed(tracked) PROVE \E e \in CountEvents(tracked) : e.id = i
  <2> DEFINE e == [id |-> i, dir |-> IF counter[i].side < tracked[i].side THEN "in" ELSE "out"]
  <2>1. e \in CountEvents(tracked) /\ e.id = i
    BY <1>3 DEF CountEvents
  <2> QED
    BY <2>1
<1>4. CASE i \in Crossed(tracked)
  <2> DEFINE e == CHOOSE e \in CountEvents(tracked) : e.id = i
  <2>1. e \in CountEvents(tracked) /\ e.id = i
    BY <1>3, <1>4
  <2>2. history'.count[i] = e.dir
    BY <1>1, <1>3, <1>4
  <2> HIDE DEF e
  <2> QED
    BY <1>2, <1>4, <2>1, <2>2
<1>5. CASE i \notin Crossed(tracked)
  BY <1>1, <1>2, <1>5
<1> QED
  BY <1>4, <1>5

\* Before the frame a person was remembered on the side of the last crossing.
LEMMA WasOnSide ==
  ASSUME TracksOK, CounterOK, HistoryOK, SidesRemembered, TracksOK', CounterStale >= LongestGap,
         NEW tracked, NEW hid, TrackerMoves(tracked, hid), history'.hid = history.hid \cup hid,
         history'.other = history.other \union {j \in DOMAIN tracked : ~tracked[j].person},
         NEW i \in Persons'
  PROVE  /\ i \in TrackIds
         /\ history.count[i] = "in" => i \in DOMAIN counter /\ counter[i].side = 1
         /\ history.count[i] = "out" => i \in DOMAIN counter /\ counter[i].side = -1
<1>1. i \in DOMAIN track' /\ i \notin history.hid /\ i \notin history.other
  BY DEF Plain, Persons
<1>2. i \in TrackIds /\ i \in Nat
  BY <1>1, Numbers DEF TracksOK, KnownIds, TrackIds
<1>3. CASE i \in DOMAIN track
  BY <1>1, <1>2, <1>3 DEF SidesRemembered, Persons, Plain
<1>4. CASE i >= nextId
  BY <1>2, <1>4 DEF HistoryOK
<1> QED
  BY <1>1, <1>3, <1>4 DEF TrackerMoves

LEMMA SidesRememberedStep ==
  ASSUME TracksOK, CounterOK, HistoryOK, SidesRemembered, TracksOK', NEW tracked, NEW hid, NEW step,
         TrackerMoves(tracked, hid), counter' = CounterUpdated(tracked),
         result'.count = CountEvents(tracked), Remember(tracked, hid, step)
  PROVE  SidesRemembered'
<1> SUFFICES ASSUME CounterStale >= LongestGap, NEW i \in Persons'
             PROVE  /\ history'.count[i] = "in" => i \in DOMAIN counter' /\ counter'[i].side = 1
                    /\ history'.count[i] = "out" => i \in DOMAIN counter' /\ counter'[i].side = -1
  BY DEF SidesRemembered
<1>1. /\ history'.hid = history.hid \cup hid
      /\ history'.other = history.other \union {j \in DOMAIN tracked : ~tracked[j].person}
  BY DEF Remember
<1>2. /\ i \in TrackIds
      /\ history.count[i] = "in" => i \in DOMAIN counter /\ counter[i].side = 1
      /\ history.count[i] = "out" => i \in DOMAIN counter /\ counter[i].side = -1
  BY <1>1, WasOnSide
<1>3. /\ i \in Crossed(tracked) =>
           history'.count[i] = IF counter[i].side < tracked[i].side THEN "in" ELSE "out"
      /\ i \notin Crossed(tracked) => history'.count[i] = history.count[i]
  BY <1>2, CountHistory
<1>4. \A j \in DOMAIN tracked : tracked[j] \in Places
  BY DEF TrackerMoves
<1>5. CASE i \in Crossed(tracked)
  <2>1. i \in Sided(tracked) /\ i \in DOMAIN counter /\ counter[i].side # tracked[i].side
    BY <1>5 DEF Crossed
  <2>2. i \in DOMAIN counter' /\ counter'[i].side = tracked[i].side /\ tracked[i].side \in {-1, 1}
    <3>1. i \in DOMAIN counter' /\ tracked[i].side \in {-1, 1}
      BY <1>4, <2>1, CounterFacts
    <3>2. counter'[i] = [side |-> IF i \in Sided(tracked) THEN tracked[i].side ELSE counter[i].side,
                         age |-> IF i \in SeenPersons(tracked) THEN 0 ELSE counter[i].age + 1]
      BY <1>4, <3>1, CounterFacts
    <3> QED
      BY <2>1, <3>1, <3>2
  <2>3. counter[i].side \in {-1, 1}
    BY <2>1 DEF CounterOK
  <2> QED
    BY <1>3, <1>5, <2>1, <2>2, <2>3
<1>6. CASE i \notin Crossed(tracked)
  <2>1. ASSUME i \in DOMAIN counter PROVE i \in DOMAIN counter' /\ counter'[i].side = counter[i].side
    <3>1. i \in DOMAIN counter'
      <4>1. CASE i \in SeenPersons(tracked)
        BY <1>4, <2>1, <4>1, CounterFacts
      <4>2. CASE i \notin SeenPersons(tracked)
        <5>1. counter[i].age \in Nat /\ counter[i].age + 1 <= Gap(track'[i])
          BY <1>1, <2>1, <4>2, PersonAges
        <5>2. i \in DOMAIN track' /\ track'[i] \in Tracker
          BY DEF Persons, Plain, TracksOK
        <5>3. Gap(track'[i]) \in Nat /\ Gap(track'[i]) <= LongestGap /\ LongestGap \in Int
          BY <5>2, GapIsBounded, LongestGapTyped
        <5>4. counter[i].age + 1 <= CounterStale
          BY <5>1, <5>3, Numbers
        <5> QED
          BY <1>4, <2>1, <4>2, <5>4, CounterFacts
      <4> QED
        BY <4>1, <4>2
    <3>2. counter'[i] = [side |-> IF i \in Sided(tracked) THEN tracked[i].side ELSE counter[i].side,
                         age |-> IF i \in SeenPersons(tracked) THEN 0 ELSE counter[i].age + 1]
      BY <1>4, <3>1, CounterFacts
    <3>3. counter'[i].side = IF i \in Sided(tracked) THEN tracked[i].side ELSE counter[i].side
      BY <3>2
    <3> QED
      BY <1>6, <2>1, <3>1, <3>3 DEF Crossed
  <2> QED
    BY <1>2, <1>3, <1>6, <2>1
<1> QED
  BY <1>5, <1>6

LEMMA CountEventStep ==
  ASSUME TracksOK, CounterOK, HistoryOK, SidesRemembered, TracksOK', CounterStale >= LongestGap,
         NEW tracked, NEW hid, TrackerMoves(tracked, hid), history'.hid = history.hid \cup hid,
         history'.other = history.other \union {j \in DOMAIN tracked : ~tracked[j].person},
         NEW e \in CountEvents(tracked), e.id \notin history'.hid \union history'.other
  PROVE  history.count[e.id] # e.dir
<1> DEFINE i == e.id
<1>1. i \in Crossed(tracked) /\ e.dir = IF counter[i].side < tracked[i].side THEN "in" ELSE "out"
  BY DEF CountEvents
<1>2. i \in DOMAIN tracked /\ i \in DOMAIN counter /\ counter[i].side # tracked[i].side
      /\ i \in Sided(tracked)
  BY <1>1 DEF Crossed, Sided
<1>3. i \in Persons'
  BY <1>2 DEF Persons, Plain, TrackerMoves
<1>4. /\ history.count[i] = "in" => counter[i].side = 1
      /\ history.count[i] = "out" => counter[i].side = -1
  BY <1>3, WasOnSide
<1>5. counter[i].side \in {-1, 1} /\ tracked[i].side \in {-1, 1}
  <2>1. \A j \in DOMAIN tracked : tracked[j] \in Places
    BY DEF TrackerMoves
  <2> QED
    BY <1>2, <2>1, CounterFacts DEF CounterOK
<1> QED
  BY <1>1, <1>2, <1>4, <1>5

-----------------------------------------------------------------------------
(* The intrusion detector.                                                 *)

\* The alert of key k before and after a frame.
LEMMA CheckFacts ==
  ASSUME AlertsOK, NEW step \in Steps, NEW tracked, Check(ZoneEvents(tracked), tracked, step), NEW k
  PROVE  /\ result'.zone = ZoneEvents(tracked) /\ result'.count = CountEvents(tracked) /\ result'.step = step
         /\ k \in result'.intrusion => k \in IntrusionZones \X DOMAIN tracked
         /\ k \in result'.intrusion => k \in DOMAIN alerts' /\ alerts'[k] = 0
         /\ k \in DOMAIN alerts /\ alerts[k] + step < Cooldown => k \notin result'.intrusion
         /\ k \in DOMAIN alerts /\ alerts[k] + step < Cooldown /\ k[2] \in DOMAIN tracked =>
              k \in DOMAIN alerts' /\ alerts'[k] = alerts[k] + step
         /\ k \in DOMAIN alerts' => /\ alerts'[k] \in Nat
                                    /\ k \in DOMAIN alerts \/ k \in IntrusionZones \X DOMAIN tracked
<1> DEFINE events == ZoneEvents(tracked)
           ages == Aged(step)
           pruned == IF events = {} THEN ages ELSE Without(ages, Expired(ages))
           raised == Intrusions(events, pruned)
           updated == [x \in DOMAIN pruned \union raised |-> IF x \in raised THEN 0 ELSE pruned[x]]
           gone == Expired(updated) \union {x \in DOMAIN updated : x[2] \notin DOMAIN tracked}
<1>1. /\ alerts' = Without(updated, gone)
      /\ result' = [zone |-> events, count |-> CountEvents(tracked), intrusion |-> raised, step |-> step]
  BY DEF Check
<1>2. step \in Nat /\ Cooldown \in Nat /\ Margin \in Nat
  BY Numbers
<1>3. /\ DOMAIN ages = DOMAIN alerts
      /\ \A x \in DOMAIN alerts : /\ ages[x] \in Nat
                                  /\ alerts[x] + step < Cooldown => ages[x] = alerts[x] + step
  <2>1. ASSUME NEW x \in DOMAIN alerts
        PROVE  Min({alerts[x] + step, Cooldown + Margin + 1}) =
                 IF alerts[x] + step <= Cooldown + Margin + 1 THEN alerts[x] + step ELSE Cooldown + Margin + 1
    <3>1. alerts[x] \in Nat
      BY DEF AlertsOK
    <3>2. alerts[x] + step \in Int /\ Cooldown + Margin + 1 \in Int
      BY <1>2, <3>1
    <3> QED
      BY <3>2, MinOfTwo
  <2>2. DOMAIN ages = DOMAIN alerts /\ \A x \in DOMAIN alerts : ages[x] = Min({alerts[x] + step, Cooldown + Margin + 1})
    BY DEF Aged
  <2>3. \A x \in DOMAIN alerts : alerts[x] \in Nat
    BY DEF AlertsOK
  <2> HIDE DEF ages
  <2>4. ASSUME NEW x \in DOMAIN alerts
        PROVE  ages[x] \in Nat /\ (alerts[x] + step < Cooldown => ages[x] = alerts[x] + step)
    <3>1. /\ ages[x] = IF alerts[x] + step <= Cooldown + Margin + 1 THEN alerts[x] + step ELSE Cooldown + Margin + 1
          /\ alerts[x] \in Nat
      BY <2>1, <2>2, <2>3
    <3> QED
      BY <1>2, <3>1
  <2> QED
    BY <2>2, <2>4
<1> HIDE DEF ages
<1>4. /\ DOMAIN pruned \subseteq DOMAIN alerts
      /\ \A x \in DOMAIN pruned : pruned[x] = ages[x]
      /\ \A x \in DOMAIN alerts : ages[x] <= Cooldown + Margin => x \in DOMAIN pruned
  BY <1>2, <1>3 DEF Without, Expired, Restrict
<1> HIDE DEF pruned
<1>5. \A x \in raised : /\ x \in IntrusionZones \X DOMAIN tracked
                        /\ ~(x \in DOMAIN pruned /\ pruned[x] < Cooldown)
  <2>1. ASSUME NEW e \in events, e.zone \in IntrusionZones PROVE <<e.zone, e.id>> \in IntrusionZones \X DOMAIN tracked
    <3>1. PICK y \in Zones \X DOMAIN tracked :
            e = [zone |-> y[1], id |-> y[2], type |-> IF Inside(tracked, y) THEN "enter" ELSE "exit"]
      BY DEF ZoneEvents
    <3>2. e.zone = y[1] /\ e.id = y[2] /\ e.id \in DOMAIN tracked
      BY <3>1
    <3> QED
      BY <2>1, <3>2
  <2> HIDE DEF events
  <2> QED
    BY <2>1 DEF Intrusions
<1> HIDE DEF raised
<1>6. /\ DOMAIN updated = DOMAIN pruned \union raised
      /\ \A x \in DOMAIN updated : updated[x] = IF x \in raised THEN 0 ELSE pruned[x]
  OBVIOUS
<1> HIDE DEF updated
<1>7. /\ DOMAIN alerts' = DOMAIN updated \ gone
      /\ \A x \in DOMAIN alerts' : alerts'[x] = updated[x]
  BY <1>1 DEF Without, Restrict
<1>8. \A x \in DOMAIN updated : x \in gone <=> updated[x] > Cooldown + Margin \/ x[2] \notin DOMAIN tracked
  BY DEF Expired
<1> HIDE DEF gone
<1>9. result'.zone = events /\ result'.count = CountEvents(tracked) /\ result'.step = step /\ result'.intrusion = raised
  BY <1>1
<1>10. k \in raised => k \in IntrusionZones \X DOMAIN tracked /\ k \in DOMAIN alerts' /\ alerts'[k] = 0
  BY <1>2, <1>5, <1>6, <1>7, <1>8
<1>11. ASSUME k \in DOMAIN alerts, alerts[k] + step < Cooldown
       PROVE  /\ k \notin raised
              /\ k[2] \in DOMAIN tracked => k \in DOMAIN alerts' /\ alerts'[k] = alerts[k] + step
  <2>1. ages[k] = alerts[k] + step /\ ages[k] \in Nat
    BY <1>3, <1>11
  <2>2. k \in DOMAIN pruned /\ pruned[k] = ages[k]
    BY <1>2, <1>4, <1>11, <2>1
  <2>3. k \notin raised
    BY <1>5, <1>11, <2>1, <2>2
  <2>4. k \in DOMAIN updated /\ updated[k] = ages[k]
    BY <1>6, <2>2, <2>3
  <2>5. ~(updated[k] > Cooldown + Margin)
    BY <1>2, <1>11, <2>1, <2>4
  <2> QED
    BY <1>7, <1>8, <2>1, <2>3, <2>4, <2>5
<1>12. ASSUME k \in DOMAIN alerts'
       PROVE  alerts'[k] \in Nat /\ (k \in DOMAIN alerts \/ k \in IntrusionZones \X DOMAIN tracked)
  <2>1. CASE k \in raised
    BY <1>10, <2>1
  <2>2. CASE k \notin raised
    <3>1. k \in DOMAIN pruned /\ alerts'[k] = pruned[k]
      BY <1>6, <1>7, <1>12, <2>2
    <3> QED
      BY <1>3, <1>4, <3>1
  <2> QED
    BY <2>1, <2>2
<1> QED
  BY <1>9, <1>10, <1>11, <1>12

\* The crossings of a frame are finitely many, and the totals stay numbers.
LEMMA CrossingsFinite ==
  ASSUME NEW tracked, IsFiniteSet(DOMAIN tracked), NEW d
  PROVE  Cardinality({e \in CountEvents(tracked) : e.dir = d}) \in Nat
<1> DEFINE C == Crossed(tracked)
           E == CountEvents(tracked)
           f == [i \in C |-> [id |-> i, dir |-> IF counter[i].side < tracked[i].side THEN "in" ELSE "out"]]
<1>1. IsFiniteSet(C)
  <2>1. C \in SUBSET DOMAIN tracked
    BY DEF Crossed, Sided
  <2> HIDE DEF C
  <2> QED
    BY <2>1, FS_Subset
<1>2. f \in Surjection(C, E)
  BY DEF Surjection, CountEvents
<1> HIDE DEF C, E, f
<1>4. IsFiniteSet(E)
  BY <1>1, <1>2, FS_Surjection
<1>5. IsFiniteSet({e \in E : e.dir = d})
  <2>1. {e \in E : e.dir = d} \in SUBSET E
    OBVIOUS
  <2> QED
    BY <1>4, <2>1, FS_Subset
<1> QED
  BY <1>5, FS_CardinalityType DEF E

LEMMA Intervals == \A m, n \in Nat : n >= m => 1..(m - 1) \subseteq 1..(n - 1)
OBVIOUS

LEMMA AlertsStep ==
  ASSUME TracksOK, AlertsOK, TracksOK', NEW step \in Steps, NEW tracked, NEW hid, TrackerMoves(tracked, hid),
         Count(tracked), totals'.in <= MaxCount, totals'.out <= MaxCount,
         Check(ZoneEvents(tracked), tracked, step)
  PROVE  AlertsOK'
<1>1. nextId \in Nat /\ nextId' \in Nat /\ nextId' >= nextId
  BY Numbers DEF TracksOK, TrackerMoves
<1>2. DOMAIN tracked \subseteq KnownIds'
  BY DEF TrackerMoves, TracksOK
<1>3. KnownIds \subseteq KnownIds'
  BY <1>1, Intervals DEF KnownIds
<1>4. ASSUME NEW k \in DOMAIN alerts' PROVE alerts'[k] \in Nat /\ k \in IntrusionZones \X KnownIds'
  <2>1. alerts'[k] \in Nat /\ (k \in DOMAIN alerts \/ k \in IntrusionZones \X DOMAIN tracked)
    BY <1>4, CheckFacts
  <2> QED
    BY <1>2, <1>3, <2>1 DEF AlertsOK
<1>5. IsFiniteSet(DOMAIN tracked)
  <2>1. IsFiniteSet(KnownIds')
    BY <1>1, FS_Interval DEF KnownIds
  <2> QED
    BY <1>2, <2>1, FS_Subset
<1> DEFINE ci == Cardinality({e \in CountEvents(tracked) : e.dir = "in"})
           co == Cardinality({e \in CountEvents(tracked) : e.dir = "out"})
<1>6. ci \in Nat /\ co \in Nat
  BY <1>5, CrossingsFinite
<1>7. totals'.in = totals.in + ci /\ totals'.out = totals.out + co
  BY DEF Count
<1> HIDE DEF ci, co
<1>8. totals.in \in Nat /\ totals.out \in Nat
  BY Numbers DEF AlertsOK
<1>9. totals'.in \in 0..MaxCount /\ totals'.out \in 0..MaxCount
  BY <1>6, <1>7, <1>8, Numbers
<1> QED
  BY <1>4, <1>9 DEF AlertsOK

\* The history of one key's alerts over a frame.
LEMMA QuietStep ==
  ASSUME HistoryOK, NEW step \in Steps, NEW tracked, NEW hid, Remember(tracked, hid, step), NEW k \in Keys
  PROVE  /\ history.quiet[k] \in Int /\ history'.quiet[k] \in Int /\ step \in Nat
         /\ k \in result'.intrusion => history'.quiet[k] = 0
         /\ k \notin result'.intrusion /\ history'.quiet[k] >= 0 =>
              /\ history.quiet[k] >= 0 /\ history.quiet[k] + step < Cooldown
              /\ history'.quiet[k] = history.quiet[k] + step
              /\ k \notin history'.missed => k \notin history.missed /\ k[2] \in DOMAIN tracked
<1> DEFINE q == IF k \in result'.intrusion THEN 0
                ELSE IF history.quiet[k] < 0 \/ history.quiet[k] + step >= Cooldown THEN -1
                ELSE history.quiet[k] + step
<1>1. history.quiet[k] \in Int /\ step \in Nat /\ Cooldown \in Nat
  BY Numbers DEF HistoryOK
<1>2. history'.quiet[k] = q
  BY DEF Remember
<1>3. k \in history'.missed <=>
        q >= 0 /\ k \notin result'.intrusion /\ (k \in history.missed \/ k[2] \notin DOMAIN tracked)
  <2> DEFINE Q(x) == IF x \in result'.intrusion THEN 0
                     ELSE IF history.quiet[x] < 0 \/ history.quiet[x] + step >= Cooldown THEN -1
                     ELSE history.quiet[x] + step
             M == {x \in Keys : Q(x) >= 0 /\ x \notin result'.intrusion
                                 /\ (x \in history.missed \/ x[2] \notin DOMAIN tracked)}
  <2>1. history'.missed = M
    BY DEF Remember
  <2>2. Q(k) = q
    OBVIOUS
  <2> HIDE DEF q
  <2> QED
    BY <2>1, <2>2
<1> QED
  BY <1>1, <1>2, <1>3

LEMMA AlertsRememberedStep ==
  ASSUME AlertsOK, HistoryOK, AlertsRemembered, NEW step \in Steps, NEW tracked, NEW hid,
         Check(ZoneEvents(tracked), tracked, step), Remember(tracked, hid, step)
  PROVE  AlertsRemembered'
<1> SUFFICES ASSUME NEW k \in Keys, history'.quiet[k] >= 0, k \notin history'.missed
             PROVE  k \in DOMAIN alerts' /\ alerts'[k] = history'.quiet[k]
  BY DEF AlertsRemembered
<1>1. CASE k \in result'.intrusion
  <2>1. k \in DOMAIN alerts' /\ alerts'[k] = 0
    BY <1>1, CheckFacts
  <2>2. history'.quiet[k] = 0
    BY <1>1, QuietStep
  <2> QED
    BY <2>1, <2>2
<1>2. CASE k \notin result'.intrusion
  <2>1. /\ history.quiet[k] >= 0 /\ history.quiet[k] + step < Cooldown
        /\ history'.quiet[k] = history.quiet[k] + step
        /\ k \notin history.missed /\ k[2] \in DOMAIN tracked
    BY <1>2, QuietStep
  <2>2. k \in DOMAIN alerts /\ alerts[k] = history.quiet[k]
    BY <2>1 DEF AlertsRemembered
  <2>3. alerts[k] + step < Cooldown
    BY <2>1, <2>2
  <2>4. k \in DOMAIN alerts' /\ alerts'[k] = alerts[k] + step
    BY <2>1, <2>2, <2>3, CheckFacts
  <2> QED
    BY <2>1, <2>2, <2>4
<1> QED
  BY <1>1, <1>2

\* An alert within the cooldown of an earlier one is of a track that missed a frame.
LEMMA CooldownStep ==
  ASSUME AlertsOK, HistoryOK, AlertsRemembered, NEW step \in Steps, NEW tracked,
         Check(ZoneEvents(tracked), tracked, step), NEW k \in result'.intrusion, k \in Keys, history.quiet[k] >= 0
  PROVE  history.quiet[k] + result'.step >= Cooldown \/ k \in history.missed
<1>1. result'.step = step /\ step \in Nat /\ Cooldown \in Nat /\ history.quiet[k] \in Int
  BY CheckFacts, Numbers DEF HistoryOK
<1>2. SUFFICES ASSUME history.quiet[k] + step < Cooldown, k \notin history.missed PROVE FALSE
  BY <1>1
<1>3. k \in DOMAIN alerts /\ alerts[k] = history.quiet[k]
  BY <1>2 DEF AlertsRemembered
<1>4. alerts[k] + step < Cooldown
  BY <1>2, <1>3
<1> QED
  BY <1>3, <1>4, CheckFacts

-----------------------------------------------------------------------------
(* The whole frame.                                                        *)

LEMMA HistoryStep ==
  ASSUME TracksOK, ZonesOK, CounterOK, HistoryOK, TracksOK', NEW step \in Steps, NEW tracked, NEW hid,
         TrackerMoves(tracked, hid), result'.zone = ZoneEvents(tracked), result'.count = CountEvents(tracked),
         Remember(tracked, hid, step)
  PROVE  HistoryOK'
<1>1. nextId \in Nat /\ nextId' \in Nat /\ nextId' >= nextId /\ nextId' <= MaxTracks + 1
  BY Numbers DEF TracksOK, TrackerMoves
<1>2. \A i \in DOMAIN tracked : i \in Nat /\ i < nextId' /\ i \in TrackIds
  BY <1>1, Numbers DEF TracksOK, TrackerMoves, KnownIds, TrackIds
<1>3. ASSUME NEW k \in Keys
      PROVE  history'.zone[k] \in {"enter", "exit"} /\ (k[2] >= nextId' => history'.zone[k] = "exit")
  <2>1. PICK z \in Zones, i \in TrackIds : k = <<z, i>>
    BY DEF Keys
  <2> DEFINE in == z \in tracked[i].zones
             was == Get(presence, <<z, i>>, FALSE)
             e == IF in THEN "enter" ELSE "exit"
  <2>2. DOMAIN tracked \subseteq TrackIds
    BY <1>2
  <2>3. /\ i \in DOMAIN tracked /\ ~(in <=> was) => history'.zone[<<z, i>>] = e
        /\ i \notin DOMAIN tracked \/ (in <=> was) => history'.zone[<<z, i>>] = history.zone[<<z, i>>]
    BY <2>2, ZoneHistory
  <2>4. e \in {"enter", "exit"} /\ i \in Nat /\ k[2] = i
    BY <2>1 DEF TrackIds
  <2> HIDE DEF e
  <2>5. history.zone[k] \in {"enter", "exit"} /\ (i >= nextId => history.zone[k] = "exit")
    BY <2>1, <2>4 DEF HistoryOK
  <2>6. history'.zone[k] = e \/ history'.zone[k] = history.zone[k]
    BY <2>1, <2>3
  <2>7. ASSUME i >= nextId' PROVE history'.zone[k] = "exit"
    <3>1. i \notin DOMAIN tracked
      BY <1>1, <1>2, <2>4, <2>7
    <3>2. i >= nextId
      BY <1>1, <2>4, <2>7
    <3> QED
      BY <2>1, <2>3, <2>5, <3>1, <3>2
  <2> QED
    BY <2>4, <2>5, <2>6, <2>7
<1>4. ASSUME NEW i \in TrackIds
      PROVE  history'.count[i] \in {"none", "in", "out"} /\ (i >= nextId' => history'.count[i] = "none")
  <2>1. /\ i \in Crossed(tracked) =>
             history'.count[i] = IF counter[i].side < tracked[i].side THEN "in" ELSE "out"
        /\ i \notin Crossed(tracked) => history'.count[i] = history.count[i]
    BY CountHistory
  <2>2. i \in Nat /\ history.count[i] \in {"none", "in", "out"} /\ (i >= nextId => history.count[i] = "none")
    <3>1. i \in Nat
      BY Numbers DEF TrackIds
    <3> QED
      BY <3>1 DEF HistoryOK
  <2>3. i >= nextId' => i \notin Crossed(tracked)
    BY <1>1, <1>2, <2>2 DEF Crossed, Sided
  <2> QED
    BY <1>1, <2>1, <2>2, <2>3
<1>5. \A k \in Keys : history'.quiet[k] \in Int
  BY QuietStep
<1>6. /\ DOMAIN history'.zone = Keys /\ history'.zone = [k \in Keys |-> history'.zone[k]]
      /\ history'.count = [i \in TrackIds |-> history'.count[i]]
      /\ history'.quiet = [k \in Keys |-> history'.quiet[k]]
  BY DEF Remember
<1> QED
  BY <1>3, <1>4, <1>5, <1>6 DEF HistoryOK

\* A frame, whatever the pictures decide.
LEMMA FrameStep ==
  ASSUME AnalyzersInv, ProcessFrame
  PROVE  \E step, tracked, hid :
           /\ step \in Steps /\ TracksOK' /\ TrackerMoves(tracked, hid)
           /\ Analyze(tracked) /\ Count(tracked)
           /\ totals'.in <= MaxCount /\ totals'.out <= MaxCount
           /\ Check(ZoneEvents(tracked), tracked, step)
           /\ Remember(tracked, hid, step)
<1>1. PICK step \in Steps, lost \in SUBSET DOMAIN track, n \in 0..(MaxTracks + 1 - nextId) :
        \E matched \in Matchings(Predict(lost)) :
        \E hid \in SUBSET Reportable(Associate(Predict(lost), matched, nextId..(nextId + n - 1)), Older(frames, MinHits + 1)) :
          \E tracked \in [Reportable(Associate(Predict(lost), matched, nextId..(nextId + n - 1)), Older(frames, MinHits + 1))
                            \ hid -> Places] :
            /\ frames' = Older(frames, MinHits + 1)
            /\ nextId' = nextId + n
            /\ track' = Survivors(Associate(Predict(lost), matched, nextId..(nextId + n - 1)))
            /\ Analyze(tracked)
            /\ Count(tracked)
            /\ totals'.in <= MaxCount /\ totals'.out <= MaxCount
            /\ Check(ZoneEvents(tracked), tracked, step)
            /\ Remember(tracked, hid, step)
  BY Zenon DEF ProcessFrame
<1> DEFINE found(matched) == Associate(Predict(lost), matched, nextId..(nextId + n - 1))
           frame == Older(frames, MinHits + 1)
<1>7. PICK matched \in Matchings(Predict(lost)) :
      \E hid \in SUBSET Reportable(found(matched), frame) :
        \E tracked \in [Reportable(found(matched), frame) \ hid -> Places] :
          /\ frames' = frame /\ nextId' = nextId + n /\ track' = Survivors(found(matched))
          /\ Analyze(tracked) /\ Count(tracked)
          /\ totals'.in <= MaxCount /\ totals'.out <= MaxCount
          /\ Check(ZoneEvents(tracked), tracked, step)
          /\ Remember(tracked, hid, step)
  BY <1>1, Zenon
<1> DEFINE trackers == found(matched)
<1>2. PICK hid \in SUBSET Reportable(trackers, frame) :
        \E tracked \in [Reportable(trackers, frame) \ hid -> Places] :
          /\ frames' = frame /\ nextId' = nextId + n /\ track' = Survivors(trackers)
          /\ Analyze(tracked) /\ Count(tracked)
          /\ totals'.in <= MaxCount /\ totals'.out <= MaxCount
          /\ Check(ZoneEvents(tracked), tracked, step)
          /\ Remember(tracked, hid, step)
  BY <1>7, Zenon
<1>3. PICK tracked \in [Reportable(trackers, frame) \ hid -> Places] :
          /\ frames' = frame /\ nextId' = nextId + n /\ track' = Survivors(trackers)
          /\ Analyze(tracked) /\ Count(tracked)
          /\ totals'.in <= MaxCount /\ totals'.out <= MaxCount
          /\ Check(ZoneEvents(tracked), tracked, step)
          /\ Remember(tracked, hid, step)
  BY <1>2, Zenon
<1>4. TracksOK
  BY DEF AnalyzersInv
<1> HIDE DEF trackers, frame
<1>5. trackers = Associate(Predict(lost), matched, nextId..(nextId + n - 1)) /\ frame = Older(frames, MinHits + 1)
  BY DEF trackers, frame
<1>6. TracksOK' /\ TrackerMoves(tracked, hid)
  BY <1>3, <1>4, <1>5, TrackerStep
<1> QED
  BY <1>3, <1>6, Zenon

LEMMA InitAnalyzersInv == AnalyzersInit => AnalyzersInv
<1> SUFFICES ASSUME AnalyzersInit PROVE AnalyzersInv
  OBVIOUS
<1>1. DOMAIN Empty = {}
  BY DEF Empty
<1>2. /\ frames = 0 /\ nextId = 1 /\ DOMAIN track = {} /\ DOMAIN lastSeen = {} /\ DOMAIN presence = {}
      /\ DOMAIN counter = {} /\ DOMAIN alerts = {} /\ totals.in = 0 /\ totals.out = 0
  BY <1>1 DEF AnalyzersInit
<1>3. /\ history.zone = [k \in Keys |-> "exit"] /\ history.count = [i \in TrackIds |-> "none"]
      /\ history.quiet = [k \in Keys |-> -1]
  BY DEF AnalyzersInit
<1>4. TracksOK
  BY <1>2, Numbers DEF TracksOK
<1>5. ZonesOK /\ ZonesRemembered
  BY <1>2 DEF ZonesOK, ZonesRemembered, Plain
<1>6. CounterOK /\ SidesRemembered
  BY <1>2 DEF CounterOK, SidesRemembered, Persons, Plain
<1>7. AlertsOK /\ AlertsRemembered
  BY <1>2, <1>3, Numbers DEF AlertsOK, AlertsRemembered
<1>8. HistoryOK
  BY <1>3 DEF HistoryOK
<1> QED
  BY <1>4, <1>5, <1>6, <1>7, <1>8 DEF AnalyzersInv

LEMMA NextAnalyzersInv == AnalyzersInv /\ [AnalyzersNext]_analyzerVars => AnalyzersInv'
<1> SUFFICES ASSUME AnalyzersInv, [AnalyzersNext]_analyzerVars PROVE AnalyzersInv'
  OBVIOUS
<1>1. TracksOK /\ ZonesOK /\ ZonesRemembered /\ CounterOK /\ SidesRemembered
      /\ AlertsOK /\ AlertsRemembered /\ HistoryOK
  BY DEF AnalyzersInv
<1>2. CASE ProcessFrame
  <2>1. PICK step, tracked, hid :
          /\ step \in Steps /\ TracksOK' /\ TrackerMoves(tracked, hid)
          /\ Analyze(tracked) /\ Count(tracked)
          /\ totals'.in <= MaxCount /\ totals'.out <= MaxCount
          /\ Check(ZoneEvents(tracked), tracked, step)
          /\ Remember(tracked, hid, step)
    BY <1>2, FrameStep, Zenon
  <2>2. result'.zone = ZoneEvents(tracked) /\ result'.count = CountEvents(tracked)
    BY <1>1, <2>1, CheckFacts
  <2>3. /\ history'.hid = history.hid \cup hid
        /\ history'.other = history.other \union {j \in DOMAIN tracked : ~tracked[j].person}
    BY <2>1 DEF Remember
  <2>4. counter' = CounterUpdated(tracked)
    BY <2>1 DEF Count
  <2>5. ZonesOK'
    BY <1>1, <2>1, <2>3, ZonesStep
  <2>6. ZonesRemembered'
    BY <1>1, <2>1, <2>2, ZonesRememberedStep
  <2>7. CounterOK'
    BY <1>1, <2>1, <2>3, <2>4, CounterStep
  <2>8. SidesRemembered'
    BY <1>1, <2>1, <2>2, <2>4, SidesRememberedStep
  <2>9. AlertsOK'
    BY <1>1, <2>1, AlertsStep
  <2>10. AlertsRemembered'
    BY <1>1, <2>1, AlertsRememberedStep
  <2>11. HistoryOK'
    BY <1>1, <2>1, <2>2, HistoryStep
  <2> QED
    BY <2>1, <2>5, <2>6, <2>7, <2>8, <2>9, <2>10, <2>11 DEF AnalyzersInv
<1>3. CASE UNCHANGED analyzerVars
  <2>1. /\ frames' = frames /\ track' = track /\ nextId' = nextId /\ lastSeen' = lastSeen /\ presence' = presence
        /\ counter' = counter /\ totals' = totals /\ alerts' = alerts /\ history' = history
    BY <1>3 DEF analyzerVars
  <2> QED
    BY <1>1, <2>1 DEF AnalyzersInv, TracksOK, ZonesOK, ZonesRemembered, CounterOK, SidesRemembered, AlertsOK,
       AlertsRemembered, HistoryOK, KnownIds, Plain, Persons, Get
<1> QED
  BY <1>2, <1>3 DEF AnalyzersNext

\* The tracker's counts, the analyzers' memories of live tracks and what was announced
\* of them agree at every frame, for any configuration __post_init__ accepts, any
\* detections and any number of tracks.
THEOREM AnalyzersInvariance == AnalyzersSpec => []AnalyzersInv
BY InitAnalyzersInv, NextAnalyzersInv, PTL DEF AnalyzersSpec

\* The analyzers remember only tracks the tracker has numbered, an intrusion alert is of
\* an intrusion zone, and a live tracker is at most max_age frames old.
THEOREM AnalyzersTypeCorrect == AnalyzersSpec => []AnalyzersTypeOK
<1>1. AnalyzersInv => AnalyzersTypeOK
  <2> SUFFICES ASSUME AnalyzersInv PROVE AnalyzersTypeOK
    OBVIOUS
  <2>1. TracksOK /\ ZonesOK /\ CounterOK /\ AlertsOK
    BY DEF AnalyzersInv
  <2>2. KnownIds \subseteq TrackIds
    <3>1. nextId \in Nat /\ nextId <= MaxTracks + 1
      BY <2>1, Numbers DEF TracksOK
    <3> QED
      BY <3>1, Numbers DEF KnownIds, TrackIds
  <2>3. /\ frames \in 0..(MinHits + 1) /\ nextId \in 1..(MaxTracks + 1) /\ DOMAIN track \subseteq 1..(nextId - 1)
        /\ \A i \in DOMAIN track : track[i].since \in 0..MaxAge /\ track[i].hits \in 1..MinHits
    BY <2>1 DEF TracksOK, Tracker, KnownIds
  <2>4. /\ DOMAIN lastSeen \subseteq TrackIds /\ DOMAIN presence \subseteq Keys
    BY <2>1, <2>2 DEF ZonesOK, Keys
  <2>5. DOMAIN counter \subseteq TrackIds
    BY <2>1, <2>2 DEF CounterOK
  <2>6. DOMAIN alerts \subseteq IntrusionZones \X TrackIds /\ {totals.in, totals.out} \subseteq 0..MaxCount
    BY <2>1, <2>2 DEF AlertsOK
  <2> QED
    BY <2>3, <2>4, <2>5, <2>6 DEF AnalyzersTypeOK
<1> QED
  BY <1>1, AnalyzersInvariance, PTL

\* ENTER and EXIT alternate for each track and zone as long as the zone analyzer's memory
\* is not shorter than the longest gap of a live track (zone_analyzer.py:62-70,
\* tracker.py:186-188).
THEOREM ZoneEventsInOrder == AnalyzersSpec => ZoneEventsAlternate
<1> DEFINE Announced == ZoneStale >= LongestGap =>
             \A e \in result'.zone : e.id \notin history'.hid => history.zone[<<e.zone, e.id>>] # e.type
<1>1. AnalyzersInv /\ ProcessFrame => Announced
  <2> SUFFICES ASSUME AnalyzersInv, ProcessFrame, ZoneStale >= LongestGap,
                      NEW e \in result'.zone, e.id \notin history'.hid
               PROVE  history.zone[<<e.zone, e.id>>] # e.type
    OBVIOUS
  <2>1. TracksOK /\ ZonesOK /\ ZonesRemembered /\ AlertsOK /\ HistoryOK
    BY DEF AnalyzersInv
  <2>2. PICK step, tracked, hid :
          /\ step \in Steps /\ TracksOK' /\ TrackerMoves(tracked, hid)
          /\ Check(ZoneEvents(tracked), tracked, step)
          /\ Remember(tracked, hid, step)
    BY FrameStep, Zenon
  <2>3. e \in ZoneEvents(tracked)
    BY <2>1, <2>2, CheckFacts
  <2>4. history'.hid = history.hid \cup hid
    BY <2>2 DEF Remember
  <2> QED
    BY <2>1, <2>2, <2>3, <2>4, ZoneEventStep
<1>2. AnalyzersInv /\ [AnalyzersNext]_analyzerVars => [Announced]_analyzerVars
  BY <1>1, Zenon DEF AnalyzersNext
<1> QED
  BY <1>2, AnalyzersInvariance, PTL DEF AnalyzersSpec, ZoneEventsAlternate

\* A person's crossings of the line alternate in direction as long as the counter's
\* memory is not shorter than the longest gap (people_counter.py:49-74, 81-93).
THEOREM CrossingsInOrder == AnalyzersSpec => CrossingsAlternate
<1> DEFINE Announced == CounterStale >= LongestGap =>
             \A e \in result'.count :
               e.id \notin history'.hid \union history'.other => history.count[e.id] # e.dir
<1>1. AnalyzersInv /\ ProcessFrame => Announced
  <2> SUFFICES ASSUME AnalyzersInv, ProcessFrame, CounterStale >= LongestGap,
                      NEW e \in result'.count, e.id \notin history'.hid \union history'.other
               PROVE  history.count[e.id] # e.dir
    OBVIOUS
  <2>1. TracksOK /\ CounterOK /\ SidesRemembered /\ AlertsOK /\ HistoryOK
    BY DEF AnalyzersInv
  <2>2. PICK step, tracked, hid :
          /\ step \in Steps /\ TracksOK' /\ TrackerMoves(tracked, hid)
          /\ Check(ZoneEvents(tracked), tracked, step)
          /\ Remember(tracked, hid, step)
    BY FrameStep, Zenon
  <2>3. e \in CountEvents(tracked)
    BY <2>1, <2>2, CheckFacts
  <2>4. /\ history'.hid = history.hid \cup hid
        /\ history'.other = history.other \union {j \in DOMAIN tracked : ~tracked[j].person}
    BY <2>2 DEF Remember
  <2> QED
    BY <2>1, <2>2, <2>3, <2>4, CountEventStep
<1>2. AnalyzersInv /\ [AnalyzersNext]_analyzerVars => [Announced]_analyzerVars
  BY <1>1, Zenon DEF AnalyzersNext
<1> QED
  BY <1>2, AnalyzersInvariance, PTL DEF AnalyzersSpec, CrossingsAlternate

\* Of a track reported in every frame since, no second alert within the cooldown
\* (intrusion_detector.py, frame_pipeline.py:125).
THEOREM CooldownIsKept == AnalyzersSpec => CooldownHolds
<1> DEFINE Quieted == \A k \in result'.intrusion : history.quiet[k] >= 0 =>
             history.quiet[k] + result'.step >= Cooldown \/ k \in history.missed
<1>1. AnalyzersInv /\ ProcessFrame => Quieted
  <2> SUFFICES ASSUME AnalyzersInv, ProcessFrame, NEW k \in result'.intrusion, history.quiet[k] >= 0
               PROVE  history.quiet[k] + result'.step >= Cooldown \/ k \in history.missed
    OBVIOUS
  <2>1. AlertsOK /\ HistoryOK /\ AlertsRemembered
    BY DEF AnalyzersInv
  <2>2. PICK step, tracked, hid :
          /\ step \in Steps /\ TracksOK' /\ TrackerMoves(tracked, hid)
          /\ Check(ZoneEvents(tracked), tracked, step)
    BY FrameStep, Zenon
  <2>3. k \in IntrusionZones \X DOMAIN tracked
    BY <2>1, <2>2, CheckFacts
  <2>4. DOMAIN tracked \subseteq TrackIds
    BY <2>2, Numbers DEF TrackerMoves, TracksOK, KnownIds, TrackIds
  <2>5. k \in Keys
    BY <2>3, <2>4, Numbers DEF Keys
  <2> QED
    BY <2>1, <2>2, <2>5, CooldownStep
<1>2. AnalyzersInv /\ [AnalyzersNext]_analyzerVars => [Quieted]_analyzerVars
  BY <1>1, Zenon DEF AnalyzersNext
<1> QED
  BY <1>2, AnalyzersInvariance, PTL DEF AnalyzersSpec, CooldownHolds
=============================================================================
