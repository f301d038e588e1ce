---------------------------- MODULE FramePipeline ----------------------------
(***************************************************************************)
(* The concurrency of cv_engine/pipeline/frame_pipeline.py: threads that   *)
(* process frames under _process_lock, the events they hand to an          *)
(* asynchronous callback (a task of the event loop per event), the tasks   *)
(* that wait for the callbacks, and the two ways to shut down, aclose()    *)
(* and close().  A section under one lock, or a stretch of the loop        *)
(* without an await, is one step.  What a frame's analysis yields is the   *)
(* number of its events; the analyzers are in module Analyzers.            *)
(***************************************************************************)
EXTENDS Naturals, Sequences, FiniteSets, FiniteSetsExt, SequencesExt

CONSTANTS Threads,     \* the threads process() runs on
          Worker,      \* the executor's one thread (CVConfig: executor_workers = 1)
          Waiters,     \* tasks that call wait_for_callbacks()
          Closers,     \* tasks that call aclose()
          None,        \* no thread holds _process_lock
          MaxPending,  \* max_pending_callbacks
          MaxErrors,   \* maxlen of _callback_errors
          MaxEvents,   \* bound: events of one frame
          MaxTasks,    \* bound: callbacks that reach the loop
          MaxCalls     \* bound: calls of wait_for_callbacks() and of close()

ASSUME PipelineAssumption ==
  /\ IsFiniteSet(Threads) /\ None \notin Threads /\ Worker \in Threads
  /\ {MaxPending, MaxErrors} \subseteq Nat \ {0}
  /\ {MaxEvents, MaxTasks, MaxCalls} \subseteq Nat

VARIABLES closing, closed,  \* _closing, _closed
          accepting,        \* _accepting_callbacks
          active,           \* _active_processes
          holder,           \* the thread that holds _process_lock
          submissions,      \* _active_callback_submissions
          reservations,     \* _callback_reservations
          futures,          \* _callback_futures
          errors,           \* _callback_errors: the tasks that failed
          thread,           \* position of each processing thread
          task,             \* callback tasks on the loop, in order of creation
          closeTask,        \* _close_task and what it has taken from errors
          closer, waiter,   \* callers of aclose() and of wait_for_callbacks()
          sync,             \* the thread that calls close()
          calls,
          heard, overflowed \* history: errors raised to a caller; pushed out of the deque

life == <<closing, closed>>
counts == <<active, submissions, reservations>>
callbacks == <<futures, errors, task, overflowed>>
enders == <<closeTask, closer, waiter, sync, calls, heard>>
vars == <<life, accepting, holder, thread, counts, callbacks, enders>>

Ids == 1..MaxTasks
Unborn == [st |-> "none", cancel |-> FALSE, registered |-> FALSE, seen |-> FALSE]
Live == {k \in Ids : task[k].st \in {"created", "running"}}
Ended == {k \in Ids : task[k].st \in {"done", "failed", "cancelled"}}

Init ==
  /\ closing = FALSE /\ closed = FALSE /\ accepting = TRUE
  /\ active = 0 /\ holder = None /\ submissions = 0 /\ reservations = 0
  /\ futures = {} /\ errors = << >>
  /\ thread = [t \in Threads |-> [pc |-> "idle", todo |-> 0, task |-> 0]]
  /\ task = [k \in Ids |-> Unborn]
  /\ closeTask = [pc |-> "none", cancel |-> FALSE, errors |-> {}]
  /\ closer = [c \in Closers |-> "idle"]
  /\ waiter = [w \in Waiters |-> [pc |-> "idle", snap |-> {}]]
  /\ sync = "idle" /\ calls = 0
  /\ heard = {} /\ overflowed = {}

-----------------------------------------------------------------------------
(* process(): admission, the lock, and the way out.                        *)

Goto(t, pc) == thread' = [thread EXCEPT ![t].pc = pc]
At(t, pc) == thread[t].pc = pc

\* process_async(), from process_if_due() or directly: the pipeline is open, and
\* the frame waits for the executor's thread.
ProcessAsync ==
  /\ At(Worker, "idle") /\ ~closing /\ ~closed
  /\ Goto(Worker, "queued")
  /\ UNCHANGED <<life, accepting, holder, counts, callbacks, enders>>

\* The call, queued or made directly on another thread, is counted, unless a
\* shutdown has begun meanwhile.
ProcessEnters(t) ==
  /\ At(t, IF t = Worker THEN "queued" ELSE "idle")
  /\ ~closing /\ ~closed
  /\ active' = active + 1
  /\ Goto(t, "admitted")
  /\ UNCHANGED <<life, accepting, holder, submissions, reservations, callbacks, enders>>
ProcessRefused(t) ==
  /\ At(t, "queued") /\ (closing \/ closed)
  /\ Goto(t, "idle")
  /\ UNCHANGED <<life, accepting, holder, counts, callbacks, enders>>

ProcessLockedByNobody(t) ==  \* mutant: threads do not exclude one another
  /\ At(t, "admitted")
  /\ holder' = t
  /\ \E n \in 0..Min({MaxEvents, MaxTasks - Cardinality(Live \union Ended)}) : thread' = [thread EXCEPT ![t] = [pc |-> "locked", todo |-> n, task |-> 0]]
  /\ UNCHANGED <<life, accepting, counts, callbacks, enders>>
\* The frame is analysed under the lock and yields its events (none when a model fails),
\* never more than the tasks the bound has left.
ProcessLocked(t) ==
  /\ At(t, "admitted") /\ holder = None
  /\ holder' = t
  /\ \E n \in 0..Min({MaxEvents, MaxTasks - Cardinality(Live \union Ended)}) : thread' = [thread EXCEPT ![t] = [pc |-> "locked", todo |-> n, task |-> 0]]
  /\ UNCHANGED <<life, accepting, counts, callbacks, enders>>

\* All events handed over, or an exception on its way out: the lock is released.
ProcessUnlocks(t) ==
  /\ At(t, "locked") /\ thread[t].todo = 0
  /\ holder' = None
  /\ Goto(t, "leaving")
  /\ UNCHANGED <<life, accepting, counts, callbacks, enders>>
ProcessLeaves(t) ==
  /\ At(t, "leaving")
  /\ active' = active - 1
  /\ Goto(t, "idle")
  /\ UNCHANGED <<life, accepting, holder, submissions, reservations, callbacks, enders>>

-----------------------------------------------------------------------------
(* _emit(): one event of the frame becomes a task of the loop.             *)

\* An exception leaves _emit and the rest of the frame's events behind.
Raises(t) == thread' = [thread EXCEPT ![t] = [pc |-> "locked", todo |-> 0, task |-> 0]]

EmitCounted(t) ==
  /\ At(t, "locked") /\ thread[t].todo > 0 /\ accepting
  /\ submissions' = submissions + 1
  /\ Goto(t, "calling")
  /\ UNCHANGED <<life, accepting, holder, active, reservations, callbacks, enders>>
EmitRefused(t) ==
  /\ At(t, "locked") /\ thread[t].todo > 0 /\ ~accepting
  /\ Raises(t)
  /\ UNCHANGED <<life, accepting, holder, counts, callbacks, enders>>

Backlogged == Cardinality(futures) + reservations >= MaxPending

\* The callback returned an awaitable and there is room for it.
EmitReserves(t) ==
  /\ At(t, "calling") /\ ~Backlogged
  /\ reservations' = reservations + 1
  /\ Goto(t, "reserved")
  /\ UNCHANGED <<life, accepting, holder, active, submissions, callbacks, enders>>

EmitFailsCounted(t) ==  \* mutant: an exception leaves the submission counted
  /\ At(t, "calling")
  /\ Raises(t)
  /\ UNCHANGED <<life, accepting, holder, counts, callbacks, enders>>
\* The callback raised, or the backlog limit is reached: the submission ends.
EmitFails(t) ==
  /\ At(t, "calling")
  /\ submissions' = submissions - 1
  /\ Raises(t)
  /\ UNCHANGED <<life, accepting, holder, active, reservations, callbacks, enders>>

\* The callback was synchronous and is done.
EmitSync(t) ==
  /\ At(t, "calling")
  /\ submissions' = submissions - 1
  /\ thread' = [thread EXCEPT ![t] = [pc |-> "locked", todo |-> @.todo - 1, task |-> @.task]]
  /\ UNCHANGED <<life, accepting, holder, active, reservations, callbacks, enders>>

\* _create_callback_task(): the loop creates the task while the thread waits.
CreateTask(t) ==
  /\ At(t, "reserved")
  /\ \E k \in Ids :
       /\ task[k].st = "none" /\ \A j \in 1..(k - 1) : task[j].st # "none"
       /\ task' = [task EXCEPT ![k].st = "created"]
       /\ thread' = [thread EXCEPT ![t] = [pc |-> "created", todo |-> @.todo, task |-> k]]
  /\ UNCHANGED <<life, accepting, holder, counts, futures, errors, overflowed, enders>>
\* The loop could not create it: reservation and submission end, the frame fails.
CreateTaskFails(t) ==
  /\ At(t, "reserved")
  /\ reservations' = reservations - 1
  /\ submissions' = submissions - 1
  /\ Raises(t)
  /\ UNCHANGED <<life, accepting, holder, active, callbacks, enders>>

\* The three sections that follow: reservation back, task remembered, callback registered.
EmitReleases(t) ==
  /\ At(t, "created")
  /\ reservations' = reservations - 1
  /\ Goto(t, "released")
  /\ UNCHANGED <<life, accepting, holder, active, submissions, callbacks, enders>>
EmitRemembers(t) ==
  /\ At(t, "released")
  /\ futures' = futures \union {thread[t].task}
  /\ Goto(t, "remembered")
  /\ UNCHANGED <<life, accepting, holder, counts, errors, task, overflowed, enders>>
EmitEnds(t) ==
  /\ At(t, "remembered")
  /\ task' = [task EXCEPT ![thread[t].task].registered = TRUE]
  /\ submissions' = submissions - 1
  /\ thread' = [thread EXCEPT ![t] = [pc |-> "locked", todo |-> @.todo - 1, task |-> 0]]
  /\ UNCHANGED <<life, accepting, holder, active, reservations, futures, errors, overflowed, enders>>

-----------------------------------------------------------------------------
(* The callback tasks.                                                     *)

\* _await_callback() remembers the task itself, unless it is cancelled before it starts.
TaskStarts(k) ==
  /\ task[k].st = "created"
  /\ \/ /\ ~task[k].cancel
        /\ task' = [task EXCEPT ![k].st = "running"]
        /\ futures' = futures \union {k}
     \/ /\ task[k].cancel
        /\ task' = [task EXCEPT ![k].st = "cancelled"]
        /\ UNCHANGED futures
  /\ UNCHANGED <<life, accepting, holder, thread, counts, errors, overflowed, enders>>

\* The callback returns, raises, or gives way to a cancellation.
TaskEnds(k) ==
  /\ task[k].st = "running"
  /\ \E st \in {"done", "failed"} \union (IF task[k].cancel THEN {"cancelled"} ELSE {}) :
       task' = [task EXCEPT ![k].st = st]
  /\ UNCHANGED <<life, accepting, holder, thread, counts, futures, errors, overflowed, enders>>

\* _callback_finished(): forget the task, keep its error in the bounded deque.
CallbackFinished(k) ==
  /\ k \in Ended /\ task[k].registered /\ ~task[k].seen
  /\ task' = [task EXCEPT ![k].seen = TRUE]
  /\ futures' = futures \ {k}
  /\ IF task[k].st = "failed"
     THEN LET full == Len(errors) = MaxErrors
          IN  /\ errors' = Append(IF full THEN Tail(errors) ELSE errors, k)
              /\ overflowed' = overflowed \union (IF full THEN {Head(errors)} ELSE {})
     ELSE UNCHANGED <<errors, overflowed>>
  /\ UNCHANGED <<life, accepting, holder, thread, counts, enders>>

-----------------------------------------------------------------------------
(* wait_for_callbacks().                                                   *)

Cancelled(ks) == [k \in Ids |-> [task[k] EXCEPT !.cancel = @ \/ k \in ks \intersect Live]]
CloseAt(pc) == closeTask' = [closeTask EXCEPT !.pc = pc]
WaiterAt(w, pc, snap) == waiter' = [waiter EXCEPT ![w] = [pc |-> pc, snap |-> snap]]

WaitBegins(w) ==
  /\ waiter[w].pc = "idle" /\ calls < MaxCalls
  /\ calls' = calls + 1
  /\ WaiterAt(w, "submissions", {})
  /\ UNCHANGED <<life, accepting, holder, thread, counts, callbacks, closeTask, closer, sync, heard>>
WaitSubmissions(w) ==
  /\ waiter[w].pc = "submissions" /\ submissions = 0
  /\ WaiterAt(w, "settle", {})
  /\ UNCHANGED <<life, accepting, holder, thread, counts, callbacks, closeTask, closer, sync, calls, heard>>

\* _settle_callbacks(): gather what is pending, look again, until nothing is.
WaitGathers(w) ==
  /\ waiter[w].pc = "settle" /\ futures # {}
  /\ WaiterAt(w, "gather", futures)
  /\ UNCHANGED <<life, accepting, holder, thread, counts, callbacks, closeTask, closer, sync, calls, heard>>
WaitLooksAgain(w) ==
  /\ waiter[w].pc = "gather" /\ waiter[w].snap \subseteq Ended
  /\ WaiterAt(w, "settle", {})
  /\ UNCHANGED <<life, accepting, holder, thread, counts, callbacks, closeTask, closer, sync, calls, heard>>
WaitReturnsForgets(w) ==  \* mutant: the errors are cleared before they are read
  /\ waiter[w].pc = "settle" /\ futures = {}
  /\ errors' = << >>
  /\ WaiterAt(w, "idle", {})
  /\ UNCHANGED <<life, accepting, holder, thread, counts, futures, task, overflowed, closeTask, closer, sync, calls, heard>>
\* Nothing is pending: the errors so far are raised to this caller, once.
WaitReturns(w) ==
  /\ waiter[w].pc = "settle" /\ futures = {}
  /\ heard' = heard \union ToSet(errors)
  /\ errors' = << >>
  /\ WaiterAt(w, "idle", {})
  /\ UNCHANGED <<life, accepting, holder, thread, counts, futures, task, overflowed, closeTask, closer, sync, calls>>
\* The caller gives up (a timeout): the gather takes its callbacks with it.
WaitCancelled(w) ==
  /\ waiter[w].pc # "idle"
  /\ task' = Cancelled(waiter[w].snap)
  /\ WaiterAt(w, "idle", {})
  /\ UNCHANGED <<life, accepting, holder, thread, counts, futures, errors, overflowed, closeTask, closer, sync, calls, heard>>

-----------------------------------------------------------------------------
(* aclose(): one close task, shielded, that every caller awaits.           *)

\* The first caller decides whether pending callbacks are drained or cancelled.
Aclose(c) ==
  /\ closer[c] = "idle"
  /\ IF closed THEN closer' = [closer EXCEPT ![c] = "closed"] /\ UNCHANGED <<closing, accepting, closeTask>>
     ELSE /\ closer' = [closer EXCEPT ![c] = "awaiting"]
          /\ IF closeTask.pc = "none"
             THEN /\ closing' = TRUE /\ accepting' = FALSE
                  /\ \E cancel \in BOOLEAN : closeTask' = [closeTask EXCEPT !.pc = "processes", !.cancel = cancel]
             ELSE UNCHANGED <<closing, accepting, closeTask>>
  /\ UNCHANGED <<closed, holder, thread, counts, callbacks, waiter, sync, calls, heard>>

CloseSkipsProcesses ==  \* mutant: the frames under way are not waited for
  /\ closeTask.pc = "processes"
  /\ CloseAt("submissions")
  /\ UNCHANGED <<life, accepting, holder, thread, counts, callbacks, closer, waiter, sync, calls, heard>>
CloseWaitsProcesses ==
  /\ closeTask.pc = "processes" /\ active = 0
  /\ CloseAt("submissions")
  /\ UNCHANGED <<life, accepting, holder, thread, counts, callbacks, closer, waiter, sync, calls, heard>>
CloseWaitsSubmissions ==
  /\ closeTask.pc = "submissions" /\ submissions = 0
  /\ CloseAt("settle")
  /\ task' = IF closeTask.cancel THEN Cancelled(futures) ELSE task
  /\ UNCHANGED <<life, accepting, holder, thread, counts, futures, errors, overflowed, closer, waiter, sync, calls, heard>>
\* Nothing pending: the task takes the errors; a leftover submission fails it instead.
CloseSettles ==
  /\ closeTask.pc = "settle" /\ futures = {}
  /\ IF submissions = 0
     THEN /\ closeTask' = [closeTask EXCEPT !.pc = "executor", !.errors = ToSet(errors)]
          /\ errors' = << >> /\ UNCHANGED closed
     ELSE CloseAt("ended") /\ closed' = TRUE /\ UNCHANGED errors
  /\ UNCHANGED <<closing, accepting, holder, thread, counts, futures, task, overflowed, closer, waiter, sync, calls, heard>>
\* The executor has run, or refused, everything queued; the pipeline is closed.
CloseExecutor ==
  /\ closeTask.pc = "executor"
  /\ ~At(Worker, "queued")
  /\ CloseAt("ended") /\ closed' = TRUE
  /\ UNCHANGED <<closing, accepting, holder, thread, counts, callbacks, closer, waiter, sync, calls, heard>>

\* What the task raises reaches every caller that still waits; one may give up before.
AcloseReturns(c) ==
  /\ closer[c] = "awaiting" /\ closeTask.pc = "ended"
  /\ closer' = [closer EXCEPT ![c] = "returned"]
  /\ heard' = heard \union closeTask.errors
  /\ UNCHANGED <<life, accepting, holder, thread, counts, callbacks, closeTask, waiter, sync, calls>>
AcloseCancelled(c) ==
  /\ closer[c] = "awaiting"
  /\ closer' = [closer EXCEPT ![c] = "gaveup"]
  /\ UNCHANGED <<life, accepting, holder, thread, counts, callbacks, closeTask, waiter, sync, calls, heard>>

-----------------------------------------------------------------------------
(* close(), for pipelines without asynchronous callbacks, from a thread.   *)

CloseBegins ==
  /\ sync = "idle" /\ ~closed /\ closeTask.pc = "none" /\ calls < MaxCalls
  /\ calls' = calls + 1
  /\ closing' = TRUE
  /\ sync' = "shutdown"
  /\ UNCHANGED <<closed, accepting, holder, thread, counts, callbacks, closeTask, closer, waiter, heard>>
\* executor.shutdown(cancel_futures): what is queued is cancelled, what runs is awaited.
CloseShutdown ==
  /\ sync = "shutdown"
  /\ thread' = [t \in Threads |-> IF At(t, "queued") THEN [thread[t] EXCEPT !.pc = "idle"] ELSE thread[t]]
  /\ sync' = "processes"
  /\ UNCHANGED <<life, accepting, holder, counts, callbacks, closeTask, closer, waiter, calls, heard>>
\* No more callbacks; with some pending the call fails and aclose() is left to do it.
CloseSeals ==
  /\ sync = "processes" /\ active = 0
  /\ accepting' = FALSE
  /\ IF futures # {} THEN sync' = "idle" /\ UNCHANGED heard
     ELSE sync' = "sealed" /\ heard' = heard \union ToSet(errors)
  /\ UNCHANGED <<life, holder, thread, counts, callbacks, closeTask, closer, waiter, calls>>
CloseEnds ==
  /\ sync = "sealed"
  /\ closed' = TRUE /\ sync' = "idle"
  /\ UNCHANGED <<closing, accepting, holder, thread, counts, callbacks, closeTask, closer, waiter, calls, heard>>

-----------------------------------------------------------------------------
Emit(t) == \/ EmitCounted(t) \/ EmitRefused(t) \/ EmitReserves(t) \/ EmitFails(t) \/ EmitSync(t)
           \/ CreateTask(t) \/ CreateTaskFails(t) \/ EmitReleases(t) \/ EmitRemembers(t) \/ EmitEnds(t)
Process(t) == ProcessEnters(t) \/ ProcessRefused(t) \/ ProcessLocked(t) \/ ProcessUnlocks(t) \/ ProcessLeaves(t)
Task(k) == TaskStarts(k) \/ TaskEnds(k) \/ CallbackFinished(k)
Wait(w) == WaitSubmissions(w) \/ WaitGathers(w) \/ WaitLooksAgain(w) \/ WaitReturns(w)
CloseTask == CloseWaitsProcesses \/ CloseWaitsSubmissions \/ CloseSettles \/ CloseExecutor
Close == CloseShutdown \/ CloseSeals \/ CloseEnds

Next ==
  \/ ProcessAsync
  \/ \E t \in Threads : Process(t) \/ Emit(t)
  \/ \E k \in Ids : Task(k)
  \/ \E w \in Waiters : WaitBegins(w) \/ Wait(w) \/ WaitCancelled(w)
  \/ \E c \in Closers : Aclose(c) \/ AcloseReturns(c) \/ AcloseCancelled(c)
  \/ CloseTask \/ CloseBegins \/ Close

\* Threads and the loop keep running and callbacks end; nobody has to call anything.
Fairness ==
  /\ \A t \in Threads : /\ WF_vars(Process(t) /\ ~At(t, "idle"))
                        /\ WF_vars(Emit(t))
  /\ \A k \in Ids : WF_vars(Task(k))
  /\ WF_vars(CloseTask)
  /\ \A c \in Closers : WF_vars(AcloseReturns(c))

Spec == Init /\ [][Next]_vars /\ Fairness

-----------------------------------------------------------------------------
TypeOK ==
  /\ {closing, closed, accepting} \subseteq BOOLEAN
  /\ holder \in Threads \union {None}
  /\ {active, submissions, reservations} \subseteq 0..Cardinality(Threads)
  /\ futures \subseteq Ids /\ errors \in Seq(Ids) /\ Len(errors) <= MaxErrors
  /\ \A t \in Threads : /\ thread[t].todo \in 0..MaxEvents
                        /\ thread[t].task \in 0..MaxTasks

\* max_pending_callbacks bounds the callbacks alive on the loop, although the
\* reservation of a new one is returned before the task is remembered
\* (frame_pipeline.py:293-310): the process lock keeps the next event away
\* from that gap.
BacklogBounded == Cardinality(Live) <= MaxPending

\* A closed pipeline is drained: no frame is processed or queued, no callback is
\* alive or unaccounted for, and the task's own final check
\* (frame_pipeline.py:222) can never fail, whichever of aclose() and close()
\* ended it and whatever was under way when it began.
ClosedIsDrained ==
  closed => /\ active = 0 /\ submissions = 0 /\ reservations = 0
            /\ Live = {} /\ futures = {}
            /\ \A t \in Threads : At(t, "idle")

\* The error of a failed callback is never lost between the tasks that collect
\* errors: it is retained, was raised to a caller, was pushed out of the bounded
\* deque by later errors, or is what the close task raises, and that one is
\* missed only when every caller of aclose() gave up waiting.
NoErrorLost ==
  \A k \in Ids : task[k].st = "failed" /\ task[k].seen =>
    \/ k \in ToSet(errors) \union heard \union overflowed
    \/ k \in closeTask.errors /\ \A c \in Closers : closer[c] # "returned"

\* aclose() ends: once it has begun, the pipeline is eventually closed and every
\* caller that does not give up returns, with frames, submissions and callbacks
\* under way on other threads.
AcloseEnds == \A c \in Closers : closer[c] = "awaiting" ~> (closed /\ closer[c] # "awaiting")
=============================================================================
