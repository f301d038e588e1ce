------------------------------ MODULE SyncQueue ------------------------------
(***************************************************************************)
(* The durable synchronization queue as its callers can drive it: the      *)
(* repositories enqueue and cancel work, any number of flushes claim it    *)
(* and settle or abandon their leases in any order and as late as they     *)
(* like, operators act on dead letters, and time passes.  Every action is  *)
(* one BEGIN IMMEDIATE transaction of app/database.py, so it is atomic.    *)
(*                                                                         *)
(* Logical keys come in three kinds.  camera:<id> keys get a new version   *)
(* for each mutation until the camera is deleted; event:, alert: and       *)
(* count:<id> keys are enqueued once and may depend on the row that        *)
(* creates their camera; session:revoke is enqueued already leased.        *)
(***************************************************************************)
EXTENDS QueueTable

CONSTANTS CameraKeys,    \* camera:<id>
          RecordKeys,    \* event:<id>, alert:<id>, count:<id>
          RevokeKey,     \* session:revoke
          CameraWork, RecordWork, RevokeWork,  \* endpoints with payloads, by kind of key
          MaxAttempts,   \* RSAP_QUEUE_MAX_ATTEMPTS
          Limits,        \* claim limits in use
          MaxRows,       \* bound: rows ever inserted
          MaxClaims      \* bound: claim tokens ever issued

VARIABLES q,        \* the table
          nextId,   \* id of the last inserted row
          nextTok,  \* last claim token issued
          expired,  \* tokens whose lease has run out
          held,     \* <<row id, token>> a caller claimed and has not settled yet
          closed    \* keys that get no further version: the local row is gone or was one-shot

vars == <<q, nextId, nextTok, expired, held, closed>>

Keys == CameraKeys \cup RecordKeys \cup {RevokeKey}
Work == CameraWork \cup RecordWork \cup RevokeWork

ASSUME KeysAssumption ==
  /\ CameraKeys \cap RecordKeys = {}
  /\ RevokeKey \notin CameraKeys \cup RecordKeys
ASSUME BoundsAssumption ==
  /\ MaxAttempts \in Nat \ {0}
  /\ MaxRows \in Nat /\ MaxClaims \in Nat
  /\ Limits \subseteq Nat \ {0}

\* The queue is empty; the rows inserted before, if any, have been purged.
Init ==
  /\ q = [i \in {} |-> i]
  /\ nextId \in 0..MaxRows /\ nextTok = 0
  /\ expired = {} /\ held = {} /\ closed = {}

-----------------------------------------------------------------------------
(* What the repositories enqueue and cancel.                               *)

\* The bookkeeping of an _enqueue call: a coalesced call uses no new id.
TakesId(k) == nextId' = IF Coalesces(q, k) THEN nextId ELSE nextId + 1

MutateCamera(k, w) ==
  /\ k \notin closed
  /\ nextId < MaxRows
  /\ q' = Enqueue(q, k, w, NoId, nextId + 1)
  /\ TakesId(k)
  /\ UNCHANGED <<nextTok, expired, held, closed>>

\* The camera is unknown centrally and its last row is not leased: drop it.
DropCamera(k) ==
  /\ k \notin closed
  /\ Latest(q, k) # NoId
  /\ q[Latest(q, k)].state \in Waiting
  /\ q' = CancelLatest(q, k)
  /\ closed' = closed \cup {k}
  /\ UNCHANGED <<nextId, nextTok, expired, held>>

DeleteCamera(k, w) ==
  /\ k \notin closed
  /\ nextId < MaxRows
  /\ q' = Enqueue(q, k, w, NoId, nextId + 1)
  /\ TakesId(k)
  /\ closed' = closed \cup {k}
  /\ UNCHANGED <<nextTok, expired, held>>

\* A record of camera c depends on the row that creates c, unless c is known
\* centrally already.
AddRecord(k, w, c) ==
  /\ k \notin closed /\ c \notin closed
  /\ nextId < MaxRows
  /\ \E d \in {NoId, Lowest(q, c)} : q' = Enqueue(q, k, w, d, nextId + 1)
  /\ TakesId(k)
  /\ closed' = closed \cup {k}
  /\ UNCHANGED <<nextTok, expired, held>>

BeginRevocation(w) ==
  /\ nextId < MaxRows /\ nextTok < MaxClaims
  /\ q' = EnqueueLeased(q, RevokeKey, w, nextId + 1, nextTok + 1)
  /\ TakesId(RevokeKey)
  /\ nextTok' = nextTok + 1
  /\ held' = held \cup {<<EnqueuedId(q, RevokeKey, nextId + 1), nextTok + 1>>}
  /\ UNCHANGED <<expired, closed>>

SaveSession ==
  /\ q' = CancelKey(q, RevokeKey)
  /\ UNCHANGED <<nextId, nextTok, expired, held, closed>>

-----------------------------------------------------------------------------
(* What a flush does.                                                      *)

Claim(K, n) ==
  LET r   == ReclaimExpired(q, expired)
      ids == ClaimIds(r, K, n)
  IN  /\ nextTok < MaxClaims
      /\ q' = Lease(r, ids, nextTok + 1)
      /\ nextTok' = IF ids = {} THEN nextTok ELSE nextTok + 1
      /\ held' = held \cup (ids \X {nextTok + 1})
      /\ UNCHANGED <<nextId, expired, closed>>

\* complete, complete_camera and complete_revocation.
Succeed(i, u) ==
  /\ <<i, u>> \in held
  /\ held' = held \ {<<i, u>>}
  /\ q' = IF Owned(q, i, u, expired) THEN Complete(q, i) ELSE q
  /\ UNCHANGED <<nextId, nextTok, expired, closed>>

GiveUp(i, u, permanent) ==
  /\ <<i, u>> \in held
  /\ held' = held \ {<<i, u>>}
  /\ q' = IF Owned(q, i, u, expired) THEN Fail(q, i, permanent, MaxAttempts) ELSE q
  /\ UNCHANGED <<nextId, nextTok, expired, closed>>

\* The flush dies, or is cancelled, with the rest of its batch unsettled.
Abandon(u) ==
  /\ \E h \in held : h[2] = u
  /\ held' = {h \in held : h[2] # u}
  /\ UNCHANGED <<q, nextId, nextTok, expired, closed>>

Purge ==
  /\ q' = PurgeRetained(q)
  /\ UNCHANGED <<nextId, nextTok, expired, held, closed>>

-----------------------------------------------------------------------------
(* Operators and time.                                                     *)

Retry(i) ==
  /\ q[i].state = "dead_letter"
  /\ q' = RetryDeadLetter(q, i)
  /\ UNCHANGED <<nextId, nextTok, expired, held, closed>>

Discard(i) ==
  /\ q[i].state = "dead_letter"
  /\ q' = DiscardDeadLetter(q, i)
  /\ UNCHANGED <<nextId, nextTok, expired, held, closed>>

LeaseExpires(u) ==
  /\ (\E h \in held : h[2] = u) \/ (\E i \in DOMAIN q : q[i].token = u)
  /\ expired' = expired \cup {u}
  /\ UNCHANGED <<q, nextId, nextTok, held, closed>>

BackoffElapses(i) ==
  /\ q[i].state = "retry_wait" /\ ~q[i].due
  /\ q' = [q EXCEPT ![i].due = TRUE]
  /\ UNCHANGED <<nextId, nextTok, expired, held, closed>>

RetentionElapses(i) ==
  /\ q[i].state \in Finished \cup {"dead_letter"} /\ ~q[i].old
  /\ q' = [q EXCEPT ![i].old = TRUE]
  /\ UNCHANGED <<nextId, nextTok, expired, held, closed>>

Enqueuing ==
  \/ \E k \in CameraKeys, w \in CameraWork : MutateCamera(k, w) \/ DeleteCamera(k, w)
  \/ \E k \in CameraKeys : DropCamera(k)
  \/ \E k \in RecordKeys, w \in RecordWork, c \in CameraKeys : AddRecord(k, w, c)
  \/ \E w \in RevokeWork : BeginRevocation(w)
  \/ SaveSession

Flushing ==
  \/ \E K \in {Keys, {RevokeKey}}, n \in Limits : Claim(K, n)
  \/ \E h \in held : \/ Succeed(h[1], h[2])
                     \/ \E p \in BOOLEAN : GiveUp(h[1], h[2], p)
                     \/ Abandon(h[2])
  \/ Purge

Other ==
  \/ \E i \in DOMAIN q : Retry(i) \/ Discard(i) \/ BackoffElapses(i) \/ RetentionElapses(i)
  \/ \E u \in 1..nextTok \ expired : LeaseExpires(u)

Next == Enqueuing \/ Flushing \/ Other

Spec == Init /\ [][Next]_vars

-----------------------------------------------------------------------------
(* Properties.                                                             *)

Row == [key : Keys, work : Work, pred : Nat, dep : Nat, state : States, attempts : Nat,
        attempted : BOOLEAN, token : Nat, due : BOOLEAN, old : BOOLEAN]

\* Type correctness: the table maps issued ids to well-formed rows, and
\* tokens, expired leases and unsettled claims come from what was issued.
TypeOK ==
  /\ nextId \in Nat /\ nextTok \in Nat
  /\ DOMAIN q \subseteq 1..nextId
  /\ q \in [DOMAIN q -> Row]
  /\ expired \subseteq 1..nextTok
  /\ held \subseteq (1..nextId) \X (1..nextTok)
  /\ closed \subseteq Keys

\* A caller whose lease has not run out still owns its row: nothing else
\* (a later claim, a cancellation, a purge, another caller's late answer) has
\* taken the row from it.  This is what _owned_clause, the inflight tests of
\* purge_retained and the cancellations, and reclaiming only expired leases
\* are for.
LiveLeaseOwnsRow ==
  \A h \in held : h[2] \notin expired =>
     h[1] \in DOMAIN q /\ q[h[1]].state = "inflight" /\ q[h[1]].token = h[2]

\* Two callers never both hold an unexpired lease on one row.
ExclusiveLease ==
  \A g, h \in held : g[1] = h[1] /\ g # h => g[2] \in expired \/ h[2] \in expired

\* Versions of one camera or record are sent in order: once a row has been
\* leased, every earlier row of its key that is still stored has succeeded or
\* was cancelled, although purging detaches rows from their predecessors.
VersionsInOrder ==
  \A j \in DOMAIN q : q[j].attempted /\ q[j].key # RevokeKey =>
     \A i \in RowsOf(q, q[j].key) : i < j => q[i].state \in Finished

\* References never dangle: a claim treats a reference to a missing row as
\* unfinished work, so a row with one would wait for ever.
ReferencesResolve ==
  \A i \in DOMAIN q : {q[i].pred, q[i].dep} \subseteq DOMAIN q \cup {NoId}

\* The waiting rows of a camera are never wedged among themselves: one of its
\* rows is leased, is a dead letter an operator can act on, or needs only
\* time to become claimable.
CameraNeverWedged ==
  \A k \in CameraKeys :
     (\E i \in RowsOf(q, k) : q[i].state \in Waiting) =>
        \E j \in RowsOf(q, k) :
           \/ q[j].state \in {"inflight", "dead_letter"}
           \/ /\ q[j].state \in Waiting
              /\ \/ q[j].pred = NoId
                 \/ q[j].pred \in DOMAIN q /\ q[q[j].pred].state \in Finished

\* Work is immutable from its first lease on: a mutation that arrives later
\* becomes a successor and never rewrites what a caller may be sending.
WorkImmutable ==
  [][\A i \in DOMAIN q \cap DOMAIN q' :
        q[i].attempted => q'[i].work = q[i].work /\ q'[i].attempted]_vars
=============================================================================
