----------------------------- MODULE PersonFiles -----------------------------
(***************************************************************************)
(* Registered persons and their face images: the handlers of               *)
(* app/routers/persons.py that change a row of events.registered_persons,  *)
(* the object store behind services/file_service.py, and the outbox of     *)
(* objects to remove with its passes (services/cleanup_service.py).        *)
(*                                                                         *)
(* A row and its object cannot change together: the object is uploaded     *)
(* first, the row is committed after it, and an object no row needs any    *)
(* more goes through the outbox.  A transaction is one step, and so is a   *)
(* call of the object store; either may fail or be carried out and go      *)
(* unanswered, and the process may crash between any two steps.            *)
(*                                                                         *)
(* A handler holds a connection of the pool from its begin to its end, and *)
(* a pass needs one of its own: who finds the pool full waits, for as long *)
(* as it takes.                                                            *)
(***************************************************************************)
EXTENDS Naturals, Sequences, FiniteSets, FiniteSetsExt

CONSTANTS Persons,    \* ids of persons
          Requests,   \* handlers that can be under way at once
          Worker,     \* the external_cleanup_worker task
          Limit,      \* rows one pass takes
          PoolSize,   \* connections of the pool (max_size)
          MaxImages,  \* bound: objects ever uploaded
          MaxFaults   \* bound: failures, lost answers and crashes

ASSUME FilesAssumption ==
  /\ Worker \notin Requests
  /\ {Limit, PoolSize} \subseteq Nat \ {0} /\ MaxImages \in Nat /\ MaxFaults \in Nat

VARIABLES face,     \* face_image_id of each person; NoRow without a row
          store,    \* objects in the bucket
          drawn,    \* object names drawn so far
          outbox,   \* audit.external_cleanup_outbox, in order of id
          req,      \* the handlers
          pass,     \* process_external_cleanup_once, of requests and of the worker
          faults,
          lost,     \* history: objects whose commit was carried out and not answered
          excused   \* history: objects that nobody is left to remove (see NothingLeaks)

table == <<face, outbox>>
history == <<lost, excused>>
vars == <<table, store, drawn, req, pass, faults, history>>

NoRow == 0
Images == 1..MaxImages
Processors == Requests \union {Worker}
Idle == [pc |-> "idle", op |-> "none", p |-> "none", old |-> NoRow, new |-> NoRow]
NoPass == [pc |-> "idle", rows |-> {}]

\* Some persons are registered already, each with an image of the store.
Init ==
  /\ \E n \in 0..Cardinality(Persons) :
       \E f \in [Persons -> 0..n] :
         /\ n <= MaxImages
         /\ \A i \in 1..n : \E p \in Persons : f[p] = i
         /\ \A p, q \in Persons : f[p] = f[q] => p = q \/ f[p] = NoRow
         /\ face = f /\ store = 1..n /\ drawn = n
  /\ outbox = << >>
  /\ req = [r \in Requests |-> Idle] /\ pass = [x \in Processors |-> NoPass]
  /\ faults = 0 /\ lost = {} /\ excused = {}

-----------------------------------------------------------------------------
At(r, pc) == req[r].pc = pc
Goto(r, pc) == req' = [req EXCEPT ![r].pc = pc]
Returns(r) == req' = [req EXCEPT ![r] = Idle]
Fault == faults < MaxFaults /\ faults' = faults + 1

\* The pool has a connection left: each handler and each pass under way holds one.
FreeConnection ==
  Cardinality({r \in Requests : ~At(r, "idle")})
    + Cardinality({x \in Processors : pass[x].pc # "idle"}) < PoolSize

\* enqueue_external_cleanup: ON CONFLICT DO NOTHING.
Enqueued(img) ==
  IF \E i \in DOMAIN outbox : outbox[i].img = img THEN outbox
  ELSE Append(outbox, [img |-> img, done |-> FALSE])

\* The handlers up to their first lasting step.
Begins(r, pc, op, p, old) ==
  /\ At(r, "idle") /\ FreeConnection
  /\ req' = [req EXCEPT ![r] = [pc |-> pc, op |-> op, p |-> p, old |-> old, new |-> NoRow]]
  /\ UNCHANGED <<table, store, drawn, pass, faults, history>>

\* The id is a new one, of no row and of no other request.
CreatePerson(r, p) ==
  /\ face[p] = NoRow /\ \A o \in Requests : req[o].p # p
  /\ Begins(r, "upload", "create", p, NoRow)
\* update_face keeps the image it read.
UpdateFace(r, p) == face[p] # NoRow /\ Begins(r, "upload", "update", p, face[p])
\* delete_person only sees that there is a row.
DeletePerson(r, p) == face[p] # NoRow /\ Begins(r, "commit", "delete", p, NoRow)

\* FileService.upload_file under a fresh name.
Uploads(r) ==
  /\ At(r, "upload") /\ drawn < MaxImages
  /\ drawn' = drawn + 1 /\ store' = store \union {drawn'}
  /\ req' = [req EXCEPT ![r].pc = "commit", ![r].new = drawn']
  /\ UNCHANGED <<table, pass, faults, history>>
\* It fails, with or without having stored the object; the handler has no name to undo.
UploadFails(r) ==
  /\ At(r, "upload") /\ drawn < MaxImages /\ Fault
  /\ drawn' = drawn + 1
  /\ \/ UNCHANGED <<store, excused>>
     \/ store' = store \union {drawn'} /\ excused' = excused \union {drawn'}
  /\ Returns(r)
  /\ UNCHANGED <<table, pass, lost>>

-----------------------------------------------------------------------------
(* The transactions.  Each leaves the tables as the handler's statements   *)
(* do; an update of a row that is gone updates nothing and still commits.  *)

PersonCreated(q) == face' = [face EXCEPT ![q.p] = q.new] /\ UNCHANGED outbox
FaceUpdated(q) ==
  /\ face' = [face EXCEPT ![q.p] = IF @ = NoRow THEN NoRow ELSE q.new]
  /\ outbox' = Enqueued(q.old)
PersonDeleted(q) == face' = [face EXCEPT ![q.p] = NoRow] /\ outbox' = Enqueued(face[q.p])

Applied(q) ==
  \/ q.op = "create" /\ PersonCreated(q)
  \/ q.op = "update" /\ FaceUpdated(q)
  \/ q.op = "delete" /\ PersonDeleted(q)

\* update_face replaced or missed an image it had not read: that one has no remover.
Stale(q) ==
  IF q.op # "update" \/ face[q.p] = q.old THEN {}
  ELSE IF face[q.p] = NoRow THEN {q.new} ELSE {face[q.p]}

Commits(r) ==
  LET q == req[r]
  IN  /\ At(r, "commit")
      /\ IF q.op = "delete" /\ face[q.p] = NoRow THEN Returns(r) /\ UNCHANGED <<table, excused>>
         ELSE /\ Applied(q)
              /\ excused' = excused \union Stale(q)
              /\ IF q.op = "create" THEN Returns(r) ELSE Goto(r, "sweep")
      /\ UNCHANGED <<store, drawn, pass, faults, lost>>

\* The transaction is rolled back: the uploaded object is to be removed.
CommitFailsQuietly(r) ==  \* mutant: no compensation for the uploaded object
  /\ At(r, "commit") /\ Fault
  /\ Returns(r)
  /\ UNCHANGED <<table, store, drawn, pass, history>>
CommitFailsHalf(r) ==  \* mutant: the outbox row survives the rollback
  /\ At(r, "commit") /\ Fault
  /\ IF req[r].op = "delete" THEN Returns(r) ELSE Goto(r, "compensate")
  /\ outbox' = IF req[r].op = "update" THEN Enqueued(req[r].old) ELSE outbox
  /\ UNCHANGED <<face, store, drawn, pass, history>>
CommitFails(r) ==
  /\ At(r, "commit") /\ Fault
  /\ IF req[r].op = "delete" THEN Returns(r) ELSE Goto(r, "compensate")
  /\ UNCHANGED <<table, store, drawn, pass, history>>
\* The transaction is carried out, but the handler sees an exception.
CommitUnanswered(r) ==
  LET q == req[r]
  IN  /\ At(r, "commit") /\ Fault
      /\ q.op = "delete" => face[q.p] # NoRow
      /\ Applied(q)
      /\ excused' = excused \union Stale(q)
      /\ IF q.op = "delete" THEN Returns(r) /\ UNCHANGED lost
         ELSE Goto(r, "compensate") /\ lost' = lost \union {q.new}
      /\ UNCHANGED <<store, drawn, pass>>

\* The except branch: the new object goes to the outbox, in a statement that may fail.
Compensates(r) ==
  /\ At(r, "compensate")
  /\ outbox' = Enqueued(req[r].new)
  /\ Returns(r)
  /\ UNCHANGED <<face, store, drawn, pass, faults, history>>
CompensationFails(r) ==
  /\ At(r, "compensate") /\ Fault
  /\ excused' = excused \union {req[r].new}
  /\ Returns(r)
  /\ UNCHANGED <<table, store, drawn, pass, lost>>

-----------------------------------------------------------------------------
(* process_external_cleanup_once, by a request or by the worker.           *)

Pending == {i \in DOMAIN outbox : ~outbox[i].done}
Turn(x) == IF x = Worker THEN TRUE ELSE At(x, "sweep")
\* After its pass a request returns, whatever came of it.
PassOver(x) ==
  /\ pass' = [pass EXCEPT ![x] = NoPass]
  /\ IF x = Worker THEN UNCHANGED req ELSE Returns(x)
\* The row a pass is at: the oldest of those it has left.
AtRow(x) == Min(pass[x].rows)
\* The pass goes on to its next row.
PassGoesOn(x) == pass' = [pass EXCEPT ![x] = [pc |-> "row", rows |-> @.rows \ {AtRow(x)}]]

\* ORDER BY id LIMIT: the oldest of the pending rows.
Oldest == {i \in Pending : Cardinality({j \in Pending : j <= i}) <= Limit}
PassBegins(x) ==
  /\ pass[x].pc = "idle" /\ Turn(x) /\ FreeConnection
  /\ pass' = [pass EXCEPT ![x] = [pc |-> "row", rows |-> Oldest]]
  /\ UNCHANGED <<table, store, drawn, req, faults, history>>
PassEnds(x) ==
  /\ pass[x].pc = "row" /\ pass[x].rows = {}
  /\ PassOver(x)
  /\ UNCHANGED <<table, store, drawn, faults, history>>
\* delete_file; removing an object that is gone succeeds too.
PassDeletes(x) ==
  /\ pass[x].pc = "row" /\ pass[x].rows # {}
  /\ store' = store \ {outbox[AtRow(x)].img}
  /\ pass' = [pass EXCEPT ![x].pc = "mark"]
  /\ UNCHANGED <<table, drawn, req, faults, history>>
\* It raises, with or without having removed the object: the row stays pending.
PassFailsFinal(x) ==  \* mutant: a failed removal is marked as processed
  /\ pass[x].pc = "row" /\ pass[x].rows # {} /\ Fault
  /\ outbox' = [outbox EXCEPT ![AtRow(x)].done = TRUE]
  /\ PassGoesOn(x)
  /\ UNCHANGED <<face, store, drawn, req, history>>
PassFails(x) ==
  /\ pass[x].pc = "row" /\ pass[x].rows # {} /\ Fault
  /\ store' \in {store, store \ {outbox[AtRow(x)].img}}
  /\ PassGoesOn(x)
  /\ UNCHANGED <<table, drawn, req, history>>
PassMarks(x) ==
  /\ pass[x].pc = "mark"
  /\ outbox' = [outbox EXCEPT ![AtRow(x)].done = TRUE]
  /\ PassGoesOn(x)
  /\ UNCHANGED <<face, store, drawn, req, faults, history>>
\* The database fails: the pass is abandoned with its remaining rows.
PassAborts(x) ==
  /\ pass[x].pc \in {"row", "mark"} /\ Fault
  /\ PassOver(x)
  /\ UNCHANGED <<table, store, drawn, history>>

\* The process dies and starts again: handlers and passes are gone.
Crash ==
  /\ Fault
  /\ excused' = excused \union {req[r].new : r \in {r \in Requests : req[r].new # NoRow /\ req[r].pc # "sweep"}}
  /\ req' = [r \in Requests |-> Idle] /\ pass' = [x \in Processors |-> NoPass]
  /\ UNCHANGED <<table, store, drawn, lost>>

-----------------------------------------------------------------------------
Pass(x) == PassBegins(x) \/ PassEnds(x) \/ PassDeletes(x) \/ PassMarks(x)

Next ==
  \/ \E r \in Requests :
       \/ \E p \in Persons : CreatePerson(r, p) \/ UpdateFace(r, p) \/ DeletePerson(r, p)
       \/ Uploads(r) \/ UploadFails(r) \/ Commits(r) \/ CommitFails(r) \/ CommitUnanswered(r)
       \/ Compensates(r) \/ CompensationFails(r)
  \/ \E x \in Processors : Pass(x) \/ PassFails(x) \/ PassAborts(x)
  \/ Crash

\* The worker keeps making passes: external_cleanup_worker loops while the process runs.
\* Only a free connection lets it begin one, and nothing says that it gets one ahead of
\* the handlers that wait as well, so strong fairness is not assumed.
Fairness == WF_vars(Pass(Worker))
Spec == Init /\ [][Next]_vars /\ Fairness

-----------------------------------------------------------------------------
TypeOK ==
  /\ face \in [Persons -> 0..MaxImages]
  /\ store \subseteq Images /\ drawn \in 0..MaxImages
  /\ outbox \in Seq([img : Images, done : BOOLEAN])
  /\ \A r \in Requests : req[r].old \in 0..MaxImages /\ req[r].new \in 0..MaxImages
  /\ faults \in 0..MaxFaults /\ lost \subseteq Images /\ excused \subseteq Images

\* A person's image is in the store: whatever handlers, passes, failures and crashes
\* interleave, only an object no row references is removed.  The one exception is an
\* object whose commit was carried out but reported as failed, which the except branch
\* (persons.py:81-83, 228-230) hands to the outbox.
FaceIsStored == \A p \in Persons : face[p] # NoRow => face[p] \in store \union lost

\* No image leaks: every stored object is referenced, waits in the outbox or belongs to a
\* handler that will commit or compensate, except in the cases the handlers do not cover:
\* an upload that failed after it was stored, a compensation that failed, a crash, and an
\* update_face whose read of old_id (persons.py:212) was stale when it committed.
NothingLeaks ==
  \A x \in store :
    \/ \E p \in Persons : face[p] = x
    \/ \E i \in Pending : outbox[i].img = x
    \/ \E r \in Requests : req[r].new = x /\ req[r].pc \in {"commit", "compensate"}
    \/ x \in excused

\* From some moment on the worker finds a connection whenever it is about to begin a pass.
PoolServesWorker == <>[](pass[Worker].pc = "idle" => FreeConnection)

\* Every object handed to the outbox is eventually removed and its row marked, with
\* passes of requests and of the worker over the same rows, failed removals, lost
\* answers and restarts (cleanup_service.py:22-63), provided that the pool serves the
\* worker: acquire has no timeout, and handlers that hold a connection while their own
\* pass waits for another (persons.py:201, 232) can keep a full pool full for ever.
CleanupCompletes ==
  PoolServesWorker =>
    \A x \in Images :
      (\E i \in DOMAIN outbox : outbox[i].img = x) ~>
        (x \notin store /\ \E i \in DOMAIN outbox : outbox[i].img = x /\ outbox[i].done)
=============================================================================
