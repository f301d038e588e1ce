----------------------------- MODULE DesktopSync -----------------------------
(***************************************************************************)
(* The desktop backend's local cameras and analytics records, the flushes  *)
(* that drain the synchronization queue, and the central backend that      *)
(* answers them (app/repositories.py and app/services.py of the desktop    *)
(* backend; routers/cameras.py, routers/sync.py and                        *)
(* services/sync_service.py of the webapp backend).                        *)
(*                                                                         *)
(* A signed-in session is assumed to exist; DesktopAuth models it.         *)
(* A camera's columns are a few fields with values 0 and 1.                *)
(* "zones" stands for analytics_config and zones, which travel in a second *)
(* request, and "active" for is_active, which a create does not carry.     *)
(***************************************************************************)
EXTENDS QueueTable, FiniteSetsExt

CONSTANTS Cameras,      \* camera ids; also their logical keys
          Records,      \* ids of events, alerts and people counts; also their keys
          Fields,       \* camera columns in play, e.g. {"name", "zones"}
          Edits,        \* the sets of columns an update request changes
          Flushers,     \* owners that run flush_once
          RevokeKey,    \* session:revoke, not used here
          MaxCameras,   \* the licence's camera limit
          MaxAttempts,  \* RSAP_QUEUE_MAX_ATTEMPTS
          BatchLimit,   \* the limit given to flush_once
          MaxRows,      \* bound: queue rows ever inserted
          MaxClaims     \* bound: claims ever made

ASSUME SyncAssumption ==
  /\ IsFiniteSet(Cameras) /\ NoId \notin Cameras
  /\ Cameras \cap Records = {} /\ RevokeKey \notin Cameras \cup Records
  /\ Edits \subseteq SUBSET Fields
  /\ {MaxAttempts, BatchLimit} \subseteq Nat \ {0} /\ {MaxRows, MaxClaims} \subseteq Nat
  /\ MaxCameras \in 0..MaxRows

VARIABLES q, nextId, nextTok, expired,   \* the queue, as in SyncQueue
          cam,       \* local_cameras
          rec,       \* local_analytics_events, local_alerts, local_people_counts
          ccam,      \* va.cameras of the central database
          crec,      \* the camera under which each record is stored centrally, or NoId
          created,   \* history: cameras that have ever existed centrally
          applied,   \* history: the last queue row applied to each camera centrally
          flush      \* what each flush_once call is doing

queueVars   == <<q, nextId, nextTok, expired>>
localVars   == <<cam, rec>>
centralVars == <<ccam, crec, created, applied>>
vars        == <<queueVars, localVars, centralVars, flush>>

Values == {0, 1}
NoItems == [i \in {} |-> 0]
Idle   == [pc |-> "idle", tok |-> NoToken, items |-> NoItems, outcome |-> "ok"]

\* The columns a POST carries, and those a PATCH body carries.
PostFields == Fields \ {"active"}
BodyFields == Fields \ {"zones"}

Payload(m, c, v) == [method |-> m, cam |-> c, val |-> v]
NoFields == [f \in {} |-> 0]

\* The queue is empty.  The cameras K were registered and synchronized earlier,
\* and the rows that did it have been purged since.
InitWith(K) ==
  LET fresh == [f \in Fields |-> 0] IN
  /\ q = [i \in {} |-> i]
  /\ nextId = Cardinality(K) /\ nextTok = 0 /\ expired = {}
  /\ cam = [c \in Cameras |-> IF c \in K
                              THEN [stage |-> "here", known |-> TRUE, sync |-> "synced", val |-> fresh]
                              ELSE [stage |-> "none", known |-> FALSE, sync |-> "pending", val |-> fresh]]
  /\ rec = [r \in Records |-> [stage |-> "none", cam |-> NoId, synced |-> FALSE]]
  /\ ccam = [c \in Cameras |-> [there |-> c \in K, val |-> fresh]]
  /\ crec = [r \in Records |-> NoId] /\ created = K
  /\ applied = [c \in Cameras |-> NoId]
  /\ flush = [g \in Flushers |-> Idle]

Init == \E K \in SUBSET Cameras : Cardinality(K) <= MaxCameras /\ InitWith(K)

-----------------------------------------------------------------------------
(* The local repositories.                                                 *)

Here == {c \in Cameras : cam[c].stage = "here"}

\* _enqueue inside a larger transaction.
Enqueues(k, w, d) ==
  /\ nextId < MaxRows
  /\ q' = Enqueue(q, k, w, d, nextId + 1)
  /\ nextId' = IF Coalesces(q, k) THEN nextId ELSE nextId + 1
  /\ UNCHANGED <<nextTok, expired>>

\* The licence's limit, on which CameraService.create is refused.
WithinLimit == Cardinality(Here) < MaxCameras

CreateCamera(c) ==
  /\ cam[c].stage = "none"
  /\ WithinLimit
  /\ cam' = [cam EXCEPT ![c].stage = "here"]
  /\ Enqueues(c, Payload("POST", c, [f \in PostFields |-> cam[c].val[f]]), NoId)
  /\ UNCHANGED <<rec, centralVars, flush>>

\* The camera's create has not been attempted: it is sent again in full.
StillUnsent(c) ==
  /\ ~cam[c].known
  /\ Coalesces(q, c)
  /\ q[Latest(q, c)].work.method = "POST"

UpdateCamera(c, F) ==
  /\ c \in Here
  /\ LET v == [f \in Fields |-> IF f \in F THEN 1 - cam[c].val[f] ELSE cam[c].val[f]]
         w == IF StillUnsent(c) THEN Payload("POST", c, [f \in PostFields |-> v[f]])
              ELSE Payload("PATCH", c, [f \in F |-> v[f]])
     IN  /\ cam' = [cam EXCEPT ![c].val = v, ![c].sync = "pending"]
         /\ Enqueues(c, w, NoId)
  /\ UNCHANGED <<rec, centralVars, flush>>

\* Deleting the local row also deletes its records (ON DELETE CASCADE).
DeleteCamera(c) ==
  /\ c \in Here
  /\ cam' = [cam EXCEPT ![c].stage = "gone"]
  /\ rec' = [r \in Records |-> IF rec[r].cam = c THEN [rec[r] EXCEPT !.stage = "gone"]
                               ELSE rec[r]]
  /\ IF ~cam[c].known /\ Latest(q, c) # NoId /\ q[Latest(q, c)].state \in Waiting
     THEN q' = CancelLatest(q, c) /\ UNCHANGED <<nextId, nextTok, expired>>
     ELSE Enqueues(c, Payload("DELETE", c, NoFields), NoId)
  /\ UNCHANGED <<centralVars, flush>>

\* _camera_dependency: the row a record of camera c has to wait for.  The
\* transaction fails if c is unknown centrally and has no queue row left.
CameraDependency(c) == IF cam[c].known THEN NoId ELSE Lowest(q, c)

AddRecord(r, c) ==
  /\ rec[r].stage = "none"
  /\ c \in Here
  /\ cam[c].known \/ Lowest(q, c) # NoId
  /\ rec' = [rec EXCEPT ![r] = [stage |-> "here", cam |-> c, synced |-> FALSE]]
  /\ Enqueues(r, Payload("RECORD", c, NoFields), CameraDependency(c))
  /\ UNCHANGED <<cam, centralVars, flush>>

-----------------------------------------------------------------------------
(* The central backend.  Serve(i, k, w, F) is the state change a request   *)
(* makes and Outcome(k, w) how its answer is taken; w is the work of queue *)
(* row i with key k.  Refusals that depend on the account (permissions,    *)
(* licence term, central camera limit) are among the outcomes of           *)
(* SendFails.                                                              *)

Matches(c, v) == \A f \in PostFields : ccam[c].val[f] = v[f]

\* create_camera gives the columns a POST does not carry their defaults.
Created(c, v) ==
  IF ccam[c].there THEN ccam
  ELSE [ccam EXCEPT ![c] = [there |-> TRUE,
                            val |-> [f \in Fields |-> IF f \in PostFields THEN v[f] ELSE 0]]]

\* update_camera and update_analytics_config write the columns F they are sent.
Updated(c, v, F) ==
  [ccam EXCEPT ![c].val = [f \in Fields |-> IF f \in F \cap DOMAIN v THEN v[f] ELSE @[f]]]
ConfigFields == {"zones"}

\* A camera with analytics history cannot be deleted.
HasHistory(c) == \E r \in Records : crec[r] = c
Deleted(c) == [ccam EXCEPT ![c].there = FALSE]

\* The sync endpoints take records of existing cameras only, and an upsert
\* leaves a record with the camera it was first stored under.
OwnsCamera(c) == ccam[c].there
Upserts(r, c) == crec[r] \in {NoId, c}
RecordStored(r, c) == [crec EXCEPT ![r] = c]

\* The answers 404, 403 and 409.
NotFound(w)    == w.method \in {"PATCH", "DELETE"} /\ ~ccam[w.cam].there
Forbidden(w)   == w.method = "RECORD" /\ ~OwnsCamera(w.cam)
Conflict(k, w) == \/ w.method = "POST" /\ ccam[w.cam].there /\ ~Matches(w.cam, w.val)
                  \/ w.method = "DELETE" /\ ccam[w.cam].there /\ HasHistory(w.cam)
                  \/ w.method = "RECORD" /\ ~Upserts(k, w.cam)
Accepted(k, w) == ~NotFound(w) /\ ~Forbidden(w) /\ ~Conflict(k, w)

Serve(i, k, w, F) ==
  LET c == w.cam IN
  \/ ~Accepted(k, w) /\ UNCHANGED centralVars
  \/ /\ Accepted(k, w) /\ w.method = "RECORD"
     /\ crec' = RecordStored(k, c)
     /\ UNCHANGED <<ccam, created, applied>>
  \/ /\ Accepted(k, w) /\ w.method # "RECORD"
     /\ \/ w.method = "POST" /\ ccam' = Created(c, w.val) /\ created' = created \cup {c}
        \/ w.method = "PATCH" /\ ccam' = Updated(c, w.val, F) /\ UNCHANGED created
        \/ w.method = "DELETE" /\ ccam' = Deleted(c) /\ UNCHANGED created
     /\ applied' = [applied EXCEPT ![c] = i]
     /\ UNCHANGED crec

\* The desktop treats 404 for a DELETE as done and any other 4xx as final.
Outcome(k, w) ==
  IF Accepted(k, w) \/ (w.method = "DELETE" /\ NotFound(w)) THEN "ok" ELSE "rejected"

-----------------------------------------------------------------------------
(* flush_once.                                                             *)

\* A claim returns its rows in creation order; the batch is worked off from its
\* first row on.
First(items) == Min(DOMAIN items)
Rest(items)  == [i \in DOMAIN items \ {First(items)} |-> items[i]]
Item(g)      == flush[g].items[First(flush[g].items)]

\* The request a PATCH starts with: its body may be empty.
FirstPc(items) ==
  IF DOMAIN items = {} THEN "purge"
  ELSE LET w == items[First(items)].work
       IN  IF w.method = "PATCH" /\ BodyFields \cap DOMAIN w.val = {} THEN "analytics" ELSE "send"

Flush(g) ==
  LET r   == ReclaimExpired(q, expired)
      ids == ClaimIds(r, Cameras \cup Records, BatchLimit)
      its == [i \in ids |-> [id |-> i, key |-> r[i].key, work |-> r[i].work]]
  IN  /\ flush[g].pc = "idle"
      /\ nextTok < MaxClaims
      /\ q' = Lease(r, ids, nextTok + 1)
      /\ nextTok' = IF ids = {} THEN nextTok ELSE nextTok + 1
      /\ flush' = [flush EXCEPT ![g] = [pc |-> FirstPc(its), tok |-> nextTok + 1,
                                        items |-> its, outcome |-> "ok"]]
      /\ UNCHANGED <<nextId, expired, localVars, centralVars>>

\* The request is carried out; its answer may be lost.
AfterSend(w, result) ==
  IF result = "ok" /\ w.method = "PATCH" /\ "zones" \in DOMAIN w.val THEN "analytics" ELSE "settle"

Send(g) ==
  /\ flush[g].pc = "send"
  /\ LET it == Item(g) IN
     /\ Serve(it.id, it.key, it.work, BodyFields)
     /\ \E result \in {Outcome(it.key, it.work), "unavailable"} :
          flush' = [flush EXCEPT ![g].pc = AfterSend(it.work, result), ![g].outcome = result]
  /\ UNCHANGED <<queueVars, localVars>>

SendAnalytics(g) ==
  /\ flush[g].pc = "analytics"
  /\ LET it == Item(g) IN
     /\ Serve(it.id, it.key, it.work, ConfigFields)
     /\ \E result \in {Outcome(it.key, it.work), "unavailable"} :
          flush' = [flush EXCEPT ![g].pc = "settle", ![g].outcome = result]
  /\ UNCHANGED <<queueVars, localVars>>

\* The client repeats a request it takes for safe to repeat when the answer
\* does not come, although the request may have been carried out.
SafeToRetry(w) == w.method # "POST"

RequestRetried(g) ==
  LET it == Item(g) IN
  /\ flush[g].pc \in {"send", "analytics"}
  /\ SafeToRetry(it.work)
  /\ Serve(it.id, it.key, it.work, IF flush[g].pc = "send" THEN BodyFields ELSE ConfigFields)
  /\ UNCHANGED <<queueVars, localVars, flush>>

\* Variant with a bug: 401 and 403 are swallowed, as they are for a revocation.
SendFailsSwallowed(g) ==
  /\ flush[g].pc \in {"send", "analytics"}
  /\ \E result \in {"unavailable", "ok"} :
        flush' = [flush EXCEPT ![g].pc = "settle", ![g].outcome = result]
  /\ UNCHANGED <<queueVars, localVars, centralVars>>

\* The request has no effect: the network or the service fails, or the
\* service refuses it (an expired access token is a 401).
SendFails(g) ==
  /\ flush[g].pc \in {"send", "analytics"}
  /\ \E result \in {"unavailable", "rejected"} :
        flush' = [flush EXCEPT ![g].pc = "settle", ![g].outcome = result]
  /\ UNCHANGED <<queueVars, localVars, centralVars>>

NextItem(g) ==
  LET rest == Rest(flush[g].items)
  IN  flush' = [flush EXCEPT ![g] = [pc |-> FirstPc(rest), tok |-> flush[g].tok,
                                     items |-> rest, outcome |-> "ok"]]

\* complete_camera, or complete.
SettleOk(g) ==
  LET it == Item(g) c == it.work.cam owned == Owned(q, it.id, flush[g].tok, expired) IN
  /\ flush[g].pc = "settle" /\ flush[g].outcome = "ok"
  /\ q' = IF owned THEN Complete(q, it.id) ELSE q
  /\ cam' = IF owned /\ it.work.method \in {"POST", "PATCH"} /\ c \in Here
            THEN [cam EXCEPT ![c].known = TRUE, ![c].sync = "synced"] ELSE cam
  /\ rec' = IF owned /\ it.work.method = "RECORD" /\ rec[it.key].stage = "here"
            THEN [rec EXCEPT ![it.key].synced = TRUE] ELSE rec
  /\ NextItem(g)
  /\ UNCHANGED <<nextId, nextTok, expired, centralVars>>

\* Variant with a bug: a late failure is recorded without _owned_clause.
SettleFailedUnowned(g) ==
  LET it == Item(g) IN
  /\ flush[g].pc = "settle" /\ flush[g].outcome # "ok"
  /\ q' = IF it.id \in DOMAIN q THEN Fail(q, it.id, flush[g].outcome = "rejected", MaxAttempts)
          ELSE q
  /\ NextItem(g)
  /\ UNCHANGED <<nextId, nextTok, expired, localVars, centralVars>>

SettleFailed(g) ==
  LET it == Item(g) IN
  /\ flush[g].pc = "settle" /\ flush[g].outcome # "ok"
  /\ q' = IF Owned(q, it.id, flush[g].tok, expired)
          THEN Fail(q, it.id, flush[g].outcome = "rejected", MaxAttempts) ELSE q
  /\ NextItem(g)
  /\ UNCHANGED <<nextId, nextTok, expired, localVars, centralVars>>

FlushPurge(g) ==
  /\ flush[g].pc = "purge"
  /\ q' = PurgeRetained(q)
  /\ flush' = [flush EXCEPT ![g] = Idle]
  /\ UNCHANGED <<nextId, nextTok, expired, localVars, centralVars>>

Crash(g) ==
  /\ flush[g].pc # "idle"
  /\ flush' = [flush EXCEPT ![g] = Idle]
  /\ UNCHANGED <<queueVars, localVars, centralVars>>

-----------------------------------------------------------------------------
(* Operators and time, as in SyncQueue.                                    *)

RetryDead(i) ==
  /\ q[i].state = "dead_letter"
  /\ q' = RetryDeadLetter(q, i)
  /\ UNCHANGED <<nextId, nextTok, expired, localVars, centralVars, flush>>

DiscardDead(i) ==
  /\ q[i].state = "dead_letter"
  /\ q' = DiscardDeadLetter(q, i)
  /\ UNCHANGED <<nextId, nextTok, expired, localVars, centralVars, flush>>

BackoffElapses(i) ==
  /\ q[i].state = "retry_wait" /\ ~q[i].due
  /\ q' = [q EXCEPT ![i].due = TRUE]
  /\ UNCHANGED <<nextId, nextTok, expired, localVars, centralVars, flush>>

RetentionElapses(i) ==
  /\ q[i].state \in Finished \cup {"dead_letter"} /\ ~q[i].old
  /\ q' = [q EXCEPT ![i].old = TRUE]
  /\ UNCHANGED <<nextId, nextTok, expired, localVars, centralVars, flush>>

LeaseExpires(u) ==
  /\ \E i \in DOMAIN q : q[i].token = u
  /\ expired' = expired \cup {u}
  /\ UNCHANGED <<q, nextId, nextTok, localVars, centralVars, flush>>

Users ==
  \/ \E c \in Cameras : CreateCamera(c) \/ DeleteCamera(c)
  \/ \E c \in Cameras, F \in Edits : UpdateCamera(c, F)
  \/ \E r \in Records, c \in Cameras : AddRecord(r, c)
  \/ \E i \in DOMAIN q : RetryDead(i) \/ DiscardDead(i)

Flushes ==
  \E g \in Flushers :
    \/ Flush(g) \/ Send(g) \/ SendAnalytics(g) \/ RequestRetried(g) \/ SendFails(g)
    \/ SettleOk(g) \/ SettleFailed(g) \/ FlushPurge(g) \/ Crash(g)

Time ==
  \/ \E i \in DOMAIN q : BackoffElapses(i) \/ RetentionElapses(i)
  \/ \E u \in 1..nextTok \ expired : LeaseExpires(u)

Next == Users \/ Flushes \/ Time

Spec == Init /\ [][Next]_vars

-----------------------------------------------------------------------------
(* Properties.                                                             *)

Payloads ==
  {w \in [method : {"POST", "PATCH", "DELETE", "RECORD"}, cam : Cameras,
          val : UNION {[F -> Values] : F \in SUBSET Fields}] :
     w.method = "POST" => DOMAIN w.val = PostFields}

\* Type correctness of the local tables, the central tables and the flushes.
TypeOK ==
  /\ cam \in [Cameras -> [stage : {"none", "here", "gone"}, known : BOOLEAN,
                          sync : {"pending", "synced"}, val : [Fields -> Values]]]
  /\ rec \in [Records -> [stage : {"none", "here", "gone"}, cam : Cameras \cup {NoId},
                          synced : BOOLEAN]]
  /\ ccam \in [Cameras -> [there : BOOLEAN, val : [Fields -> Values]]]
  /\ crec \in [Records -> Cameras \cup {NoId}]
  /\ \A i \in DOMAIN q : q[i].work \in Payloads
  /\ \A g \in Flushers :
       /\ flush[g].pc \in {"idle", "send", "analytics", "settle", "purge"}
       /\ flush[g].outcome \in {"ok", "rejected", "unavailable"}
       /\ \A i \in DOMAIN flush[g].items : flush[g].items[i].work \in Payloads

\* Analytics never overtake the camera they belong to: whatever was retried,
\* dead-lettered, discarded or purged in between, a record is in a flush's
\* batch only if its camera has existed centrally.
RecordsFollowCamera ==
  \A g \in Flushers : \A i \in DOMAIN flush[g].items :
     flush[g].items[i].work.method = "RECORD" => flush[g].items[i].work.cam \in created

\* A record marked synced=1 is stored centrally, under its own camera, even if
\* answers were lost and flushes crashed between storing and marking.
SyncedRecordIsStored ==
  \A r \in Records : rec[r].synced => crec[r] = rec[r].cam

\* A flush that may still settle a row was sending exactly the row's present
\* work: no update slipped in between its request and its completion.
SettlesWhatItSent ==
  \A g \in Flushers : \A i \in DOMAIN flush[g].items :
     LET it == flush[g].items[i]
     IN  Owned(q, it.id, flush[g].tok, expired) => q[it.id].work = it.work

\* The central camera sees mutations in the order they were made: a flush whose
\* lease has not run out never applies a version older than one that was
\* applied already, whatever was retried, dead-lettered or discarded before.
AppliedInOrder ==
  [][\A g \in Flushers :
        /\ Send(g) \/ SendAnalytics(g) \/ RequestRetried(g)
        /\ Owned(q, Item(g).id, flush[g].tok, expired)
        => \A c \in Cameras : applied[c] <= applied'[c]]_vars

\* The claims of the flushes, and the keys that take no further work.
Held   == UNION {(DOMAIN flush[g].items) \X {flush[g].tok} : g \in Flushers}
Closed == {c \in Cameras : cam[c].stage = "gone"} \cup {r \in Records : rec[r].stage # "none"}

\* The queue under these callers behaves as SyncQueue says, so everything
\* proved of SyncQueue holds here.
SQ == INSTANCE SyncQueue WITH
        CameraKeys <- Cameras, RecordKeys <- Records,
        CameraWork <- {w \in Payloads : w.method # "RECORD"},
        RecordWork <- {w \in Payloads : w.method = "RECORD"},
        RevokeWork <- {}, Limits <- {BatchLimit}, held <- Held, closed <- Closed
ImplementsSyncQueue == SQ!Spec

\* The value field f of camera c has once every unfinished row is applied.
Projected(c, f) ==
  LET open == {i \in RowsOf(q, c) : q[i].state \notin Finished /\ f \in DOMAIN q[i].work.val}
  IN  IF open = {} THEN ccam[c].val[f] ELSE q[Max(open)].work.val[f]

CreateIsLeased(c) ==
  \E i \in RowsOf(q, c) :
     q[i].state = "inflight" /\ q[i].token \notin expired /\ q[i].work.method = "POST"

\* README: a mutation during an active lease creates or coalesces a successor.
\* So while the row that creates a camera is leased and nothing was
\* dead-lettered or cancelled, what is queued behind it adds up to the local camera.
SuccessorCarriesMutations ==
  \A c \in Here :
     /\ CreateIsLeased(c)
     /\ \A i \in RowsOf(q, c) : q[i].state \notin {"dead_letter", "cancelled"}
     => \A f \in Fields : Projected(c, f) = cam[c].val[f]
=============================================================================
