----------------------------- MODULE DesktopAuth -----------------------------
(***************************************************************************)
(* The desktop backend's session: AuthService (app/services.py) over the   *)
(* singleton local_sessions row (SessionRepository in                      *)
(* app/repositories.py), the session:revoke rows of the queue, and the     *)
(* part of flush_once that retries revocations.                            *)
(*                                                                         *)
(* login, logout and refresh hold AuthService._mutation_lock, so at most   *)
(* one of them is under way (op).  authenticate and flush_once do not take *)
(* the lock.  Between any two awaits everything else may run.              *)
(*                                                                         *)
(* A central session is a number.  The central backend ends it by itself   *)
(* when its account logs in again, here or elsewhere, and when a refresh   *)
(* token that was exchanged before is presented.  Access tokens and        *)
(* permissions are left out.                                               *)
(***************************************************************************)
EXTENDS QueueTable, Sequences, SequencesExt

CONSTANTS RevokeKey,    \* session:revoke
          MaxAttempts,  \* RSAP_QUEUE_MAX_ATTEMPTS
          MaxLogins,    \* bound: central sessions ever opened
          MaxRefresh,   \* bound: generation up to which a session is refreshed
          MaxClaims     \* bound: claim tokens ever issued

ASSUME AuthBoundsAssumption ==
  MaxAttempts \in Nat \ {0} /\ {MaxLogins, MaxRefresh, MaxClaims} \subseteq Nat

VARIABLES q, nextId, nextTok, expired,  \* the queue, as in SyncQueue
          sess,       \* the local_sessions row; status "none" when there is no row
          csess,      \* central sessions: "unused", "live", "revoked" by a logout call, or
                      \* "ended" by the central backend itself
          spent,      \* central sessions whose refresh token, as the desktop stores it, has
                      \* been exchanged for another
          op,         \* the login, logout or refresh that holds the mutation lock
          check,      \* an authenticate call about to clear the session it read
          flush,      \* a flush_once call
          loggedOut   \* history: central sessions whose logout has begun

queueVars == <<q, nextId, nextTok, expired>>
central == <<csess, spent>>
vars == <<queueVars, sess, central, op, check, flush, loggedOut>>

NoCid   == 0
Sids    == 1..MaxLogins
NoSess  == [status |-> "none", gen |-> 0, cid |-> NoCid, licensed |-> TRUE]
NoOp    == [kind |-> "none", pc |-> "none", gen |-> 0, cid |-> NoCid, id |-> NoId, tok |-> NoToken]
NoCheck == [gen |-> 0]
Idle    == [pc |-> "idle", rec |-> NoSess, tok |-> NoToken, items |-> << >>]

Init ==
  /\ q = [i \in {} |-> i]
  /\ nextId = 0 /\ nextTok = 0 /\ expired = {}
  /\ sess = NoSess /\ csess = [s \in Sids |-> "unused"] /\ spent = {}
  /\ op = NoOp /\ check = NoCheck /\ flush = Idle
  /\ loggedOut = {}

-----------------------------------------------------------------------------
(* SessionRepository.                                                      *)

\* clear(expected_generation): whatever the status of the row.
Cleared(gen) == IF sess.gen = gen THEN NoSess ELSE sess

\* Variant with a bug: deletes whatever session there is.
CompleteRevocationAny(i, u, gen) ==
  IF Owned(q, i, u, expired) THEN q' = Complete(q, i) /\ sess' = NoSess ELSE UNCHANGED <<q, sess>>

\* complete_revocation, for the holder of token u.
CompleteRevocation(i, u, gen) ==
  IF Owned(q, i, u, expired)
  THEN /\ q' = Complete(q, i)
       /\ sess' = IF sess.gen = gen /\ sess.status = "revocation_pending" THEN NoSess ELSE sess
  ELSE UNCHANGED <<q, sess>>

FailRevocation(i, u, permanent) ==
  q' = IF Owned(q, i, u, expired) THEN Fail(q, i, permanent, MaxAttempts) ELSE q

\* The central logout endpoint: it revokes a live session, or answers 401 or 403
\* and does nothing, or fails, with or without having revoked.
CentralLogout(s, result) ==
  /\ result \in {"done", "failed"}
  /\ \/ csess[s] = "live" /\ csess' = [csess EXCEPT ![s] = "revoked"]
     \/ UNCHANGED csess
  /\ UNCHANGED spent

\* Its account logs in from elsewhere, or is locked or loses its licence.
EndsElsewhere(s) ==
  /\ csess[s] = "live" /\ csess' = [csess EXCEPT ![s] = "ended"]
  /\ UNCHANGED <<queueVars, sess, spent, op, check, flush, loggedOut>>

-----------------------------------------------------------------------------
(* login.                                                                  *)

\* The central login endpoint issues the next session and ends the one its account
\* has: an account has at most one live session, and the account may be a new one.
CentralLogin(s) ==
  /\ csess[s] = "unused" /\ \A r \in Sids : r < s => csess[r] # "unused"
  /\ \/ csess' = [csess EXCEPT ![s] = "live"]
     \/ \E r \in Sids : csess[r] = "live" /\ csess' = [csess EXCEPT ![r] = "ended", ![s] = "live"]
  /\ UNCHANGED spent

\* The local session stays as it is, also when the answer is lost or invalid: then
\* nobody gives the new session back.
Login ==
  /\ op = NoOp
  /\ \E s \in Sids :
       /\ CentralLogin(s)
       /\ op' \in {[NoOp EXCEPT !.kind = "login", !.pc = "save", !.cid = s], NoOp}
  /\ UNCHANGED <<queueVars, sess, check, flush, loggedOut>>

\* The licence is missing or invalid, or saving fails: give the session back.
LoginFails ==
  /\ op.kind = "login"
  /\ \E result \in {"done", "failed"} : CentralLogout(op.cid, result)
  /\ op' = NoOp
  /\ UNCHANGED <<queueVars, sess, check, flush, loggedOut>>

Save ==
  /\ op.kind = "login"
  /\ sess' = [status |-> "active", gen |-> IF sess.status = "none" THEN 1 ELSE sess.gen + 1,
              cid |-> op.cid, licensed |-> TRUE]
  /\ q' = CancelKey(q, RevokeKey)
  /\ op' = NoOp
  /\ UNCHANGED <<nextId, nextTok, expired, central, check, flush, loggedOut>>

-----------------------------------------------------------------------------
(* logout.                                                                 *)

Logout ==
  /\ op = NoOp
  /\ sess.status = "active"
  /\ op' = [NoOp EXCEPT !.kind = "logout", !.pc = "begin", !.gen = sess.gen, !.cid = sess.cid]
  /\ UNCHANGED <<queueVars, sess, central, check, flush, loggedOut>>

BeginRevocation ==
  /\ op.kind = "logout" /\ op.pc = "begin"
  /\ nextTok < MaxClaims
  /\ IF sess.status = "active" /\ sess.gen = op.gen
     THEN /\ sess' = [sess EXCEPT !.status = "revocation_pending", !.gen = op.gen + 1]
          /\ q' = EnqueueLeased(q, RevokeKey, [gen |-> op.gen + 1, cid |-> op.cid],
                                nextId + 1, nextTok + 1)
          /\ nextId' = IF Coalesces(q, RevokeKey) THEN nextId ELSE nextId + 1
          /\ nextTok' = nextTok + 1
          /\ op' = [op EXCEPT !.pc = "central", !.gen = op.gen + 1, !.tok = nextTok + 1,
                              !.id = EnqueuedId(q, RevokeKey, nextId + 1)]
          /\ loggedOut' = loggedOut \cup {op.cid}
     ELSE /\ op' = NoOp
          /\ UNCHANGED <<sess, q, nextId, nextTok, loggedOut>>
  /\ UNCHANGED <<expired, central, check, flush>>

LogoutCentral ==
  /\ op.kind = "logout" /\ op.pc = "central"
  /\ \E result \in {"done", "failed"} :
       CentralLogout(op.cid, result) /\ op' = [op EXCEPT !.pc = result]
  /\ UNCHANGED <<queueVars, sess, check, flush, loggedOut>>

\* Variant with a bug: a failed logout is rolled back.
LogoutSettlesRollsBack ==
  /\ op.kind = "logout" /\ op.pc \in {"done", "failed"}
  /\ IF op.pc = "done" THEN CompleteRevocation(op.id, op.tok, op.gen)
     ELSE /\ FailRevocation(op.id, op.tok, FALSE)
          /\ sess' = IF sess.gen = op.gen THEN [sess EXCEPT !.status = "active"] ELSE sess
  /\ op' = NoOp
  /\ UNCHANGED <<nextId, nextTok, expired, central, check, flush, loggedOut>>

LogoutSettles ==
  /\ op.kind = "logout" /\ op.pc \in {"done", "failed"}
  /\ IF op.pc = "done" THEN CompleteRevocation(op.id, op.tok, op.gen)
     ELSE FailRevocation(op.id, op.tok, FALSE) /\ UNCHANGED sess
  /\ op' = NoOp
  /\ UNCHANGED <<nextId, nextTok, expired, central, check, flush, loggedOut>>

-----------------------------------------------------------------------------
(* refresh, and the clean-up authenticate does.                            *)

Refresh ==
  /\ op = NoOp
  /\ sess.status = "active" /\ sess.gen < MaxRefresh
  /\ op' = [NoOp EXCEPT !.kind = "refresh", !.pc = IF sess.licensed THEN "central" ELSE "clear",
                        !.gen = sess.gen, !.cid = sess.cid]
  /\ UNCHANGED <<queueVars, sess, central, check, flush, loggedOut>>

\* How a refresh goes on without new tokens: with a clear when the outcome is
\* uncertain or the answer is 401 or 403; not at all after another error or an
\* invalid answer, which leave the session alone.
RefreshRefused == {[op EXCEPT !.pc = "clear"], NoOp}

\* The central refresh endpoint exchanges the token, and its answer may still be
\* lost, an error or invalid ...
TokenRotates ==
  /\ csess[op.cid] = "live" /\ op.cid \notin spent
  /\ spent' = spent \cup {op.cid}
  /\ op' \in RefreshRefused \cup {[op EXCEPT !.pc = "replace"]}
  /\ UNCHANGED csess

\* ... ends the session when the token has been exchanged before ...
TokenReplayed ==
  /\ csess[op.cid] = "live" /\ op.cid \in spent
  /\ csess' = [csess EXCEPT ![op.cid] = "ended"]
  /\ op' \in RefreshRefused
  /\ UNCHANGED spent

\* ... or refuses or fails before it does either.
RefreshCentral ==
  /\ op.kind = "refresh" /\ op.pc = "central"
  /\ \/ TokenRotates
     \/ TokenReplayed
     \/ op' \in RefreshRefused /\ UNCHANGED central
  /\ UNCHANGED <<queueVars, sess, check, flush, loggedOut>>

\* The new tokens replace the old ones.
ReplaceActive ==
  /\ op.kind = "refresh" /\ op.pc = "replace"
  /\ IF sess.gen = op.gen /\ sess.status = "active"
     THEN sess' = [sess EXCEPT !.gen = op.gen + 1] /\ spent' = spent \ {sess.cid}
     ELSE UNCHANGED <<sess, spent>>
  /\ op' = NoOp
  /\ UNCHANGED <<queueVars, csess, check, flush, loggedOut>>

RefreshClear ==
  /\ op.kind = "refresh" /\ op.pc = "clear"
  /\ sess' = Cleared(op.gen)
  /\ op' = NoOp
  /\ UNCHANGED <<queueVars, central, check, flush, loggedOut>>

LicenceExpires ==
  /\ sess.status = "active" /\ sess.licensed
  /\ sess' = [sess EXCEPT !.licensed = FALSE]
  /\ UNCHANGED <<queueVars, central, op, check, flush, loggedOut>>

\* authenticate reads an active session whose licence is over ...
Authenticate ==
  /\ check = NoCheck
  /\ sess.status = "active" /\ ~sess.licensed
  /\ check' = [gen |-> sess.gen]
  /\ UNCHANGED <<queueVars, sess, central, op, flush, loggedOut>>

\* ... and clears it.
AuthenticateClear ==
  /\ check # NoCheck
  /\ sess' = Cleared(check.gen)
  /\ check' = NoCheck
  /\ UNCHANGED <<queueVars, central, op, flush, loggedOut>>

-----------------------------------------------------------------------------
(* flush_once, as far as it handles revocations.                           *)

FlushReads ==
  /\ flush.pc = "idle"
  /\ sess.status # "none"
  /\ flush' = [Idle EXCEPT !.pc = "claim", !.rec = sess]
  /\ UNCHANGED <<queueVars, sess, central, op, check, loggedOut>>

\* Variant with a bug: every revocation item is carried out.
ItemPcAny(rec, items) == IF items = << >> THEN "purge" ELSE "central"

\* An item is dropped unless it belongs to the revocation the record is in.
ItemPc(rec, items) ==
  IF items = << >> THEN "purge"
  ELSE IF rec.status = "revocation_pending" /\ Head(items).work.gen = rec.gen THEN "central"
       ELSE "drop"

FlushClaims ==
  LET r   == ReclaimExpired(q, expired)
      ids == ClaimIds(r, {RevokeKey}, Cardinality(DOMAIN r))
      its == [n \in 1..Cardinality(ids) |->
                LET i == SetToSortSeq(ids, <)[n] IN [id |-> i, work |-> r[i].work]]
  IN  /\ flush.pc = "claim"
      /\ nextTok < MaxClaims
      /\ q' = Lease(r, ids, nextTok + 1)
      /\ nextTok' = IF ids = {} THEN nextTok ELSE nextTok + 1
      /\ flush' = [flush EXCEPT !.pc = ItemPc(flush.rec, its), !.tok = nextTok + 1, !.items = its]
      /\ UNCHANGED <<nextId, expired, sess, central, op, check, loggedOut>>

FlushCentral ==
  /\ flush.pc = "central"
  /\ \E result \in {"done", "failed"} :
       CentralLogout(flush.rec.cid, result) /\ flush' = [flush EXCEPT !.pc = result]
  /\ UNCHANGED <<queueVars, sess, op, check, loggedOut>>

FlushSettles ==
  LET it == Head(flush.items) IN
  /\ flush.pc \in {"drop", "done", "failed"}
  /\ \/ /\ flush.pc = "drop"
        /\ q' = IF Owned(q, it.id, flush.tok, expired) THEN Complete(q, it.id) ELSE q
        /\ UNCHANGED sess
     \/ /\ flush.pc = "done"
        /\ CompleteRevocation(it.id, flush.tok, it.work.gen)
     \/ /\ flush.pc = "failed"
        /\ \E permanent \in BOOLEAN : FailRevocation(it.id, flush.tok, permanent)
        /\ UNCHANGED sess
  /\ flush' = [flush EXCEPT !.items = Tail(flush.items),
                            !.pc = ItemPc(flush.rec, Tail(flush.items))]
  /\ UNCHANGED <<nextId, nextTok, expired, central, op, check, loggedOut>>

FlushPurges ==
  /\ flush.pc = "purge"
  /\ q' = PurgeRetained(q)
  /\ flush' = Idle
  /\ UNCHANGED <<nextId, nextTok, expired, sess, central, op, check, loggedOut>>

\* The process dies: what is not in the database is gone.
Crash ==
  /\ <<op, check, flush>> # <<NoOp, NoCheck, Idle>>
  /\ op' = NoOp /\ check' = NoCheck /\ flush' = Idle
  /\ UNCHANGED <<queueVars, sess, central, loggedOut>>

-----------------------------------------------------------------------------
(* Operators and time.                                                     *)

OnRow(i) ==
  \/ q[i].state = "dead_letter" /\ q' = RetryDeadLetter(q, i)
  \/ q[i].state = "dead_letter" /\ q' = DiscardDeadLetter(q, i)
  \/ q[i].state = "retry_wait" /\ ~q[i].due /\ q' = [q EXCEPT ![i].due = TRUE]
  \/ /\ q[i].state \in Finished \cup {"dead_letter"} /\ ~q[i].old
     /\ q' = [q EXCEPT ![i].old = TRUE]

RowChanges ==
  /\ \E i \in DOMAIN q : OnRow(i)
  /\ UNCHANGED <<nextId, nextTok, expired, sess, central, op, check, flush, loggedOut>>

LeaseExpires ==
  /\ \E i \in DOMAIN q : q[i].token \notin expired \cup {NoToken}
                         /\ expired' = expired \cup {q[i].token}
  /\ UNCHANGED <<q, nextId, nextTok, sess, central, op, check, flush, loggedOut>>

Next ==
  \/ Login \/ LoginFails \/ Save
  \/ Logout \/ BeginRevocation \/ LogoutCentral \/ LogoutSettles
  \/ Refresh \/ RefreshCentral \/ ReplaceActive \/ RefreshClear
  \/ LicenceExpires \/ Authenticate \/ AuthenticateClear
  \/ FlushReads \/ FlushClaims \/ FlushCentral \/ FlushSettles \/ FlushPurges
  \/ Crash \/ RowChanges \/ LeaseExpires
  \/ \E s \in Sids : EndsElsewhere(s)

Spec == Init /\ [][Next]_vars

-----------------------------------------------------------------------------
(* Properties.                                                             *)

SessRows == [status : {"none", "active", "revocation_pending"}, gen : Nat,
             cid : Sids \cup {NoCid}, licensed : BOOLEAN]

\* Type correctness of the session row, the central sessions and the calls.
TypeOK ==
  /\ sess \in SessRows /\ flush.rec \in SessRows
  /\ csess \in [Sids -> {"unused", "live", "revoked", "ended"}]
  /\ spent \subseteq Sids
  /\ op.kind \in {"none", "login", "logout", "refresh"}
  /\ op.pc \in {"none", "save", "begin", "central", "done", "failed", "replace", "clear"}
  /\ flush.pc \in {"idle", "claim", "central", "drop", "done", "failed", "purge"}
  /\ \A i \in DOMAIN q : q[i].key = RevokeKey /\ q[i].work.gen \in Nat
  /\ loggedOut \subseteq Sids

\* The desktop's own logout calls spare the session it is using: neither a revocation
\* left over from an earlier session, in the queue or in a running flush, nor a failed
\* login that gives its session back is carried out against the active one.  The central
\* backend may have ended it all the same: by the login that is under way or has failed
\* (services.py:53-80), by a replayed refresh token, or by a login elsewhere.
LogoutsSpareActive == sess.status = "active" => csess[sess.cid] # "revoked"

\* Logout denies local authorization at once and for good: no refresh, late
\* flush or restart makes a session active again whose logout has begun.
LogoutIsFinal == sess.status = "active" => sess.cid \notin loggedOut

\* A revocation settled by a logout or a flush removes only the session it was
\* requested for: an active session is never dropped by one.
SettlingKeepsActiveSession ==
  [][sess.status = "active" /\ (LogoutSettles \/ FlushSettles) => sess' = sess]_vars

\* README: a failed logout leaves a durable revocation item.  So a revocation
\* item succeeds only if its session row goes with it: otherwise the session
\* would stay in revocation_pending with nothing left to revoke it.
RevocationItemIsDurable ==
  \A i \in DOMAIN q : q[i].state = "succeeded" =>
     ~(sess.status = "revocation_pending" /\ sess.cid = q[i].work.cid)

=============================================================================
