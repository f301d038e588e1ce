----------------------------- MODULE QueueTable -----------------------------
(***************************************************************************)
(* The sync_queue table of the desktop backend's SQLite database and every *)
(* transaction that reads or writes it, as operators from a table to the   *)
(* table the transaction leaves behind (app/repositories.py).  A table is  *)
(* a function from row ids to rows.                                        *)
(*                                                                         *)
(* Abstractions.  Ids are UUIDs in the code; here they are numbers handed  *)
(* out in increasing order, so one order stands for created_at and, within *)
(* one logical key, for version (each new version is the latest plus one). *)
(* A claim token is a number too; lease_owner is dropped because a token   *)
(* belongs to one claim of one owner.  A timestamp is replaced by what the *)
(* code asks of it: the lease of token u has run out iff u is in the set X *)
(* that is passed in, due is next_attempt_at <= now, old is completed_at   *)
(* or failed_at older than the retention limit, and attempted is           *)
(* last_attempt_at IS NOT NULL.  work is the endpoint and the payload.     *)
(***************************************************************************)
EXTENDS Naturals, FiniteSets

NoId == 0
NoToken == 0

States == {"pending", "inflight", "retry_wait", "succeeded", "dead_letter", "cancelled"}

\* The states a claim picks up, and the ones that let a successor go ahead.
Waiting  == {"pending", "retry_wait"}
Finished == {"succeeded", "cancelled"}

RowsOf(t, k) == {i \in DOMAIN t : t[i].key = k}

\* ORDER BY version DESC LIMIT 1, and ORDER BY version ASC LIMIT 1.
Latest(t, k) == IF RowsOf(t, k) = {} THEN NoId
                ELSE CHOOSE i \in RowsOf(t, k) : \A j \in RowsOf(t, k) : j <= i
Lowest(t, k) == IF RowsOf(t, k) = {} THEN NoId
                ELSE CHOOSE i \in RowsOf(t, k) : \A j \in RowsOf(t, k) : i <= j

Insert(t, i, r) == [j \in DOMAIN t \cup {i} |-> IF j = i THEN r ELSE t[j]]

NewRow(k, w, p, d) ==
  [key |-> k, work |-> w, pred |-> p, dep |-> d, state |-> "pending", attempts |-> 0,
   attempted |-> FALSE, token |-> NoToken, due |-> TRUE, old |-> FALSE]

\* What a claim writes into the rows it takes.
Leased(r, u) == [r EXCEPT !.state = "inflight", !.token = u, !.attempted = TRUE,
                          !.attempts = r.attempts + 1]
Cancelled(r) == [r EXCEPT !.state = "cancelled", !.token = NoToken, !.old = FALSE]

-----------------------------------------------------------------------------
(* Enqueueing: coalesce into work that was never leased, else add a        *)
(* successor version.                                                      *)

\* Variant with a bug: coalesces into work that is being sent.
CoalescesLeased(t, k) ==
  LET l == Latest(t, k) IN l # NoId /\ t[l].state \in {"pending", "inflight"}

Coalesces(t, k) ==
  LET l == Latest(t, k) IN l # NoId /\ t[l].state = "pending" /\ ~t[l].attempted

\* The id under which the work of an _enqueue call ends up; n is the fresh id.
EnqueuedId(t, k, n) == IF Coalesces(t, k) THEN Latest(t, k) ELSE n

Rewritten(r, w, d) ==
  [r EXCEPT !.work = w, !.attempts = 0, !.due = TRUE, !.dep = IF d # NoId THEN d ELSE r.dep]

Enqueue(t, k, w, d, n) ==
  LET l == Latest(t, k) IN
  IF Coalesces(t, k)
  THEN [t EXCEPT ![l] = Rewritten(t[l], w, d)]
  ELSE Insert(t, n, NewRow(k, w, l, d))

\* begin_revocation enqueues and leases the row in the same transaction.
EnqueueLeased(t, k, w, n, u) ==
  LET e == Enqueue(t, k, w, NoId, n)
      i == EnqueuedId(t, k, n)
  IN  [e EXCEPT ![i] = Leased(e[i], u)]

Cancel(t, C) == [i \in DOMAIN t |-> IF i \in C THEN Cancelled(t[i]) ELSE t[i]]

\* CameraRepository.delete before the camera exists centrally.
CancelLatest(t, k) ==
  LET l == Latest(t, k)
  IN  Cancel(t, {i \in DOMAIN t : (i = l \/ t[i].dep = l) /\ t[i].state \in Waiting})

\* SessionRepository.save drops the revocations of the session it replaces.
CancelKey(t, k) ==
  Cancel(t, {i \in RowsOf(t, k) : t[i].state \in Waiting \cup {"dead_letter"}})

-----------------------------------------------------------------------------
(* Claiming and settling leases.                                           *)

Reclaimed(r) == [r EXCEPT !.state = "retry_wait", !.token = NoToken, !.due = TRUE]

\* Variant with a bug: takes over every lease, run out or not.
ReclaimAll(t, X) ==
  [i \in DOMAIN t |-> IF t[i].state = "inflight" THEN Reclaimed(t[i]) ELSE t[i]]

ReclaimExpired(t, X) ==
  [i \in DOMAIN t |-> IF t[i].state = "inflight" /\ t[i].token \in X THEN Reclaimed(t[i])
                      ELSE t[i]]

\* Variants with a bug: a claim that does not look at the predecessor, and one
\* for which an unfinished dependency is no obstacle.
ClaimableUnordered(t, i) ==
  /\ t[i].state \in Waiting
  /\ t[i].due
  /\ t[i].dep = NoId \/ (t[i].dep \in DOMAIN t /\ t[t[i].dep].state = "succeeded")
ClaimableIndependent(t, i) ==
  /\ t[i].state \in Waiting
  /\ t[i].due
  /\ t[i].pred = NoId \/ (t[i].pred \in DOMAIN t /\ t[t[i].pred].state \in Finished)

Claimable(t, i) ==
  /\ t[i].state \in Waiting
  /\ t[i].due
  /\ t[i].pred = NoId \/ (t[i].pred \in DOMAIN t /\ t[t[i].pred].state \in Finished)
  /\ t[i].dep = NoId \/ (t[i].dep \in DOMAIN t /\ t[t[i].dep].state = "succeeded")

\* The first n members of S in creation order (ORDER BY ... LIMIT n).
FirstRows(S, n) == {i \in S : Cardinality({j \in S : j < i}) < n}

\* The rows a claim restricted to the keys K takes from a reclaimed table.
ClaimIds(t, K, n) == FirstRows({i \in DOMAIN t : t[i].key \in K /\ Claimable(t, i)}, n)

Lease(t, C, u) == [i \in DOMAIN t |-> IF i \in C THEN Leased(t[i], u) ELSE t[i]]

\* _owned_clause: token u still holds row i and its lease has not run out.
Owned(t, i, u, X) ==
  i \in DOMAIN t /\ t[i].token = u /\ t[i].state = "inflight" /\ u \notin X

Completed(r) == [r EXCEPT !.state = "succeeded", !.token = NoToken]

Failed(r, permanent, max) ==
  [r EXCEPT !.state = IF permanent \/ r.attempts >= max THEN "dead_letter" ELSE "retry_wait",
            !.token = NoToken, !.due = FALSE]

Complete(t, i) == [t EXCEPT ![i] = Completed(t[i])]
Fail(t, i, permanent, max) == [t EXCEPT ![i] = Failed(t[i], permanent, max)]

-----------------------------------------------------------------------------
(* Operator actions on dead letters, and retention.                        *)

Requeued(r) == [r EXCEPT !.state = "pending", !.attempts = 0, !.due = TRUE, !.old = FALSE]

RetryDeadLetter(t, i) == [t EXCEPT ![i] = Requeued(t[i])]

DiscardDeadLetter(t, i) == Cancel(t, {i})

\* WITH RECURSIVE descendants: the least set holding every row that refers,
\* by predecessor_id or depends_on_id, to d or to a member of the set.
RefersTo(t, i, S) == t[i].pred \in S \/ t[i].dep \in S
Descendants(t, d) ==
  {x \in DOMAIN t :
     \A S \in SUBSET DOMAIN t :
        (\A i \in DOMAIN t : RefersTo(t, i, S \cup {d}) => i \in S) => x \in S}

Purgeable(t) == {i \in DOMAIN t : t[i].old /\ t[i].state \in Finished \cup {"dead_letter"}}

(***************************************************************************)
(* purge_retained visits the expired rows in creation order; references    *)
(* always point to earlier rows, so when a dead letter is visited the      *)
(* chain below it is still whole and the loop amounts to one step.         *)
(***************************************************************************)
PurgeCancels(t) ==
  {i \in DOMAIN t :
     /\ t[i].state # "inflight"
     /\ \/ \E d \in Purgeable(t) : t[d].state = "dead_letter" /\ i \in Descendants(t, d)
        \/ t[i].dep \in Purgeable(t) /\ t[t[i].dep].state = "cancelled"}

\* Variants with a bug: only one of the two references is cleared.
DetachedDepOnly(r, gone)  == [r EXCEPT !.dep = IF r.dep \in gone THEN NoId ELSE r.dep]
DetachedPredOnly(r, gone) == [r EXCEPT !.pred = IF r.pred \in gone THEN NoId ELSE r.pred]

Detached(r, gone) ==
  [r EXCEPT !.pred = IF r.pred \in gone THEN NoId ELSE r.pred,
            !.dep = IF r.dep \in gone THEN NoId ELSE r.dep]

PurgeRetained(t) ==
  [i \in DOMAIN t \ Purgeable(t) |->
     Detached(Cancel(t, PurgeCancels(t))[i], Purgeable(t))]
=============================================================================
