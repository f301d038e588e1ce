---------------------------- MODULE CentralSession ----------------------------
(***************************************************************************)
(* The sessions of one user of the central backend: the login, logout and  *)
(* refresh handlers (app/routers/auth.py), the administrator's changes of  *)
(* the account and its licences (users.py, licenses.py), the session       *)
(* outbox and its worker (services/session_service.py).                    *)
(*                                                                         *)
(* A session is a row of auth.sessions and two Redis keys,                 *)
(* session:{user} and refresh:{user}; a request is accepted when both      *)
(* agree.  A transaction is one step, except that of login, which keeps    *)
(* the user's row locked while it writes Redis.  A Redis command or script *)
(* is one step.  Every request holds a pooled connection until it returns, *)
(* and a pass over the outbox takes another.  Tokens are numbers; times    *)
(* are events (a key expires, a licence lapses).                           *)
(***************************************************************************)
EXTENDS Naturals, Sequences, FiniteSets, FiniteSetsExt

CONSTANTS Requests,     \* handlers that can be under way at once
          Worker,       \* the session_outbox_worker task
          Nobody,       \* no request holds the user's row
          PoolSize,     \* max_size of the connection pool
          MaxSids,      \* bound: login attempts that reach the user's row
          MaxTokens,    \* bound: refresh tokens ever issued
          MaxLicenses,  \* bound: licences ever created
          MaxRows,      \* bound: rows ever added to the outbox
          MaxFaults     \* bound: failed calls and restarts

ASSUME SessionAssumption ==
  /\ Worker \notin Requests /\ Nobody \notin Requests
  /\ {PoolSize, MaxSids, MaxTokens, MaxLicenses, MaxRows, MaxFaults} \subseteq Nat

VARIABLES account,   \* auth.users: "active", "inactive" or "deleted"
          lic,       \* rbac.licenses by id
          row,       \* auth.sessions by session
          sess,      \* the session key: session and licence; NoSid when absent
          ref,       \* the refresh key: session and token; NoSid when absent
          outbox,    \* auth.session_outbox
          userLock,  \* the request whose transaction holds the user's row
          req, pass, \* requests, and the passes over the outbox
          nextSid,   \* sessions drawn so far
          toks,      \* refresh tokens issued: session, and the token exchanged for it
          faults,
          accepted,  \* history: the session that was accepted last
          ended      \* history: sessions ended by logout, replay or administrator

store == <<account, lic, row>>
keys == <<sess, ref>>
history == <<accepted, ended>>
vars == <<store, keys, outbox, userLock, req, pass, nextSid, toks, faults, history>>

NoSid == 0
Sids == 1..MaxSids
Licenses == 1..MaxLicenses
Processors == Requests \union {Worker}
NoSess == [sid |-> NoSid, lic |-> 0]
NoRef  == [sid |-> NoSid, tok |-> 0]
Idle   == [pc |-> "idle", sid |-> NoSid, lic |-> 0, tok |-> 0]
NoPass == [pc |-> "idle", todo |-> {}, lic |-> 0, targets |-> {}]

\* An active account, with a licence or before it gets one; nobody logged in.
Init ==
  /\ account = "active"
  /\ \E n \in 0..1 : lic = [l \in Licenses |-> IF l <= n THEN "active" ELSE "unused"]
  /\ row = [s \in Sids |-> "unused"]
  /\ sess = NoSess /\ ref = NoRef /\ outbox = << >>
  /\ userLock = Nobody
  /\ req = [r \in Requests |-> Idle] /\ pass = [p \in Processors |-> NoPass]
  /\ nextSid = 0 /\ toks = << >> /\ faults = 0
  /\ accepted = NoSid /\ ended = {}

-----------------------------------------------------------------------------
(* Connections, requests and rows.                                         *)

\* Connections in use: get_db of every request, and one more for every pass.
Held == Cardinality({r \in Requests : req[r].pc # "idle"})
          + Cardinality({p \in Processors : pass[p].pc # "idle"})

\* Requests that may still issue a token, and those that may still add an outbox row.
Issuing == {r \in Requests : \/ req[r].pc = "activate"
                             \/ req[r].tok # 0 /\ req[r].pc \in {"check", "ttl", "rotate"}}
Enqueueing == {r \in Requests : req[r].pc \in {"check", "ttl", "rotate", "replay", "revoke"}}

\* A new request gets a connection.  Each adds at most one token and one row,
\* so that no request is stopped half-way by the bounds.
Starts(r) ==
  /\ req[r].pc = "idle" /\ Held < PoolSize
  /\ Len(toks) + Cardinality(Issuing) < MaxTokens
  /\ Len(outbox) + Cardinality(Enqueueing) < MaxRows

Goto(r, pc) == req' = [req EXCEPT ![r].pc = pc]
Return(r) == req' = [req EXCEPT ![r] = Idle]
Fault == faults < MaxFaults /\ faults' = faults + 1

Live == {s \in Sids : row[s] = "live"}
Revoke(gone) == row' = [s \in Sids |-> IF s \in gone \intersect Live THEN "revoked" ELSE row[s]]

\* enqueue_session_action, in the transaction of its caller.
Enqueue(op, s) == outbox' = Append(outbox, [op |-> op, sid |-> s, done |-> FALSE])

-----------------------------------------------------------------------------
(* Redis.                                                                  *)

ClearKeys == sess' = NoSess /\ ref' = NoRef

\* DELETE_IF_SID_LUA: without a session key the refresh key goes in any case.
DeleteIfSid(s) == IF sess.sid \in {NoSid, s} THEN ClearKeys ELSE UNCHANGED keys

\* RECONCILE_LUA: an incomplete or mixed pair is deleted.  The script gets the dates
\* the pass has read: one that has lapsed since changes nothing, one that an
\* administrator has ended since still counts.
ReconcilePair(l) ==
  IF sess.sid = NoSid \/ ref.sid # sess.sid THEN ClearKeys
  ELSE /\ sess' = IF lic[l] = "lapsed" THEN sess ELSE [sess EXCEPT !.lic = l]
       /\ UNCHANGED ref

\* Variant with a bug: any refresh token of the session is exchanged.
RotatesSession(s, t) == ref.sid = s /\ sess.sid = s

\* ROTATE_REFRESH_LUA: the token is the current one of the current session.
Rotates(s, t) == ref = [sid |-> s, tok |-> t] /\ sess.sid = s

\* A new refresh token of s becomes the current one.
IssueToken(s, parent) ==
  /\ toks' = Append(toks, [sid |-> s, parent |-> parent])
  /\ ref' = [sid |-> s, tok |-> Len(toks) + 1]

-----------------------------------------------------------------------------
(* login.                                                                  *)

\* Up to the locked read of the user and the licence; otherwise 401 or 403.
LoginBegin(r) ==
  /\ Starts(r) /\ nextSid < MaxSids
  /\ account = "active" /\ userLock = Nobody
  /\ \E l \in Licenses :
       /\ lic[l] = "active"
       /\ req' = [req EXCEPT ![r] = [pc |-> "activate", sid |-> nextSid + 1, lic |-> l, tok |-> 0]]
  /\ nextSid' = nextSid + 1 /\ userLock' = r
  /\ UNCHANGED <<store, keys, outbox, pass, toks, faults, history>>

\* activate_session: both keys in one MULTI.
Activate(r) ==
  /\ req[r].pc = "activate"
  /\ sess' = [sid |-> req[r].sid, lic |-> req[r].lic]
  /\ IssueToken(req[r].sid, 0)

LoginActivate(r) ==
  /\ Activate(r)
  /\ Goto(r, "commit")
  /\ UNCHANGED <<store, outbox, userLock, pass, nextSid, faults, history>>

\* The answer of Redis is lost: the transaction rolls back, the keys stay.
LoginActivateUnanswered(r) ==
  /\ Activate(r) /\ Fault
  /\ userLock' = Nobody /\ Return(r)
  /\ UNCHANGED <<store, outbox, pass, nextSid, history>>

\* Variant with a bug: the user's earlier sessions are not revoked.
NewRowOnly(s) == row' = [row EXCEPT ![s] = "live"]

\* The rows login leaves: its own is the only live one.
NewRow(s) == row' = [t \in Sids |-> IF t = s THEN "live"
                                    ELSE IF t \in Live THEN "revoked" ELSE row[t]]

LoginCommit(r) ==
  /\ req[r].pc = "commit"
  /\ NewRow(req[r].sid)
  /\ userLock' = Nobody /\ Return(r)
  /\ UNCHANGED <<account, lic, keys, outbox, pass, nextSid, toks, faults, history>>

\* The commit fails, or its answer is lost after it was done.
LoginCommitFails(r) ==
  /\ req[r].pc = "commit" /\ Fault
  /\ NewRow(req[r].sid) \/ UNCHANGED row
  /\ userLock' = Nobody /\ Goto(r, "compensate")
  /\ UNCHANGED <<account, lic, keys, outbox, pass, nextSid, toks, history>>

LoginCompensate(r) ==
  /\ req[r].pc = "compensate"
  /\ DeleteIfSid(req[r].sid)
  /\ Return(r)
  /\ UNCHANGED <<store, outbox, userLock, pass, nextSid, toks, faults, history>>

-----------------------------------------------------------------------------
(* Authenticated requests, logout and refresh.                             *)

\* validate_session_state reads the session key.  A request of another session
\* fails here.  A refresh also presents some token of its session.
ReadKey(r) ==
  /\ Starts(r) /\ sess.sid # NoSid
  /\ \E t \in {0} \union {u \in DOMAIN toks : toks[u].sid = sess.sid} :
       req' = [req EXCEPT ![r] = [pc |-> "check", sid |-> sess.sid, lic |-> sess.lic, tok |-> t]]
  /\ UNCHANGED <<store, keys, outbox, userLock, pass, nextSid, toks, faults, history>>

\* Its query: session row, account and the licence of the key it read.
Valid(r) == row[req[r].sid] = "live" /\ account = "active" /\ lic[req[r].lic] = "active"

\* An accepted request returns, goes on to log out, or is a refresh.
Accept(r) ==
  /\ req[r].pc = "check" /\ Valid(r)
  /\ accepted' = req[r].sid
  /\ IF req[r].tok # 0 THEN Goto(r, "ttl") ELSE Return(r) \/ Goto(r, "revoke")
  /\ UNCHANGED <<store, keys, outbox, userLock, pass, nextSid, toks, faults, ended>>

Reject(r) ==
  /\ req[r].pc = "check" /\ ~ Valid(r)
  /\ Return(r)
  /\ UNCHANGED <<store, keys, outbox, userLock, pass, nextSid, toks, faults, history>>

\* refresh asks for the session key's time to live.
RefreshTtl(r) ==
  /\ req[r].pc = "ttl"
  /\ IF sess.sid = NoSid THEN Return(r) ELSE Goto(r, "rotate")
  /\ UNCHANGED <<store, keys, outbox, userLock, pass, nextSid, toks, faults, history>>

RotateRefresh(r) ==
  /\ req[r].pc = "rotate"
  /\ IF Rotates(req[r].sid, req[r].tok)
       THEN IssueToken(req[r].sid, req[r].tok) /\ Return(r)
       ELSE UNCHANGED <<ref, toks>> /\ Goto(r, "replay")
  /\ UNCHANGED <<store, sess, outbox, userLock, pass, nextSid, faults, history>>

\* A token that does not rotate, of the key's session or without a key, ends
\* its session.
RefreshReplay(r) ==
  /\ req[r].pc = "replay"
  /\ IF ref.sid \in {NoSid, req[r].sid} THEN Goto(r, "revoke") ELSE Return(r)
  /\ UNCHANGED <<store, keys, outbox, userLock, pass, nextSid, toks, faults, history>>

\* The transaction of logout and of a replayed refresh.  The foreign key of
\* the outbox row waits for a login that holds the user's row.
RevokeSession(r) ==
  /\ req[r].pc = "revoke" /\ userLock = Nobody
  /\ Revoke({req[r].sid}) /\ Enqueue("revoke", req[r].sid)
  /\ ended' = ended \union {req[r].sid}
  /\ Goto(r, "due")
  /\ UNCHANGED <<account, lic, keys, userLock, pass, nextSid, toks, faults, accepted>>

\* A call fails before it has an effect, the transaction is rolled back, or the
\* answer to its commit is lost and the request ends without its pass.
RequestFails(r) ==
  /\ req[r].pc \in {"activate", "compensate", "check", "ttl", "rotate", "replay", "revoke", "due"}
  /\ Fault
  /\ userLock' = IF userLock = r THEN Nobody ELSE userLock
  /\ Return(r)
  /\ UNCHANGED <<store, keys, outbox, pass, nextSid, toks, history>>

-----------------------------------------------------------------------------
(* Users and licences: one transaction on the locked user, then a pass.    *)

AdminBegins(r) == Starts(r) /\ userLock = Nobody

EndSessions == Revoke(Live) /\ Enqueue("revoke", NoSid) /\ ended' = ended \union Live

\* toggle_active of an active account, and delete_user.
CloseAccount(r) ==
  /\ AdminBegins(r)
  /\ \/ account = "active" /\ account' = "inactive"
     \/ account # "deleted" /\ account' = "deleted"
  /\ EndSessions
  /\ Goto(r, "due")
  /\ UNCHANGED <<lic, keys, userLock, pass, nextSid, toks, faults, accepted>>

\* toggle_active of an inactive account; nothing is enqueued.
ReopenAccount(r) ==
  /\ AdminBegins(r) /\ account = "inactive"
  /\ account' = "active"
  /\ UNCHANGED <<lic, row, keys, outbox, userLock, req, pass, nextSid, toks, faults, history>>

\* create_license of a licence that is valid now; update_license, which may make
\* a licence invalid or valid again or leave that alone.
ChangeLicense(r, l) ==
  /\ AdminBegins(r)
  /\ \/ lic[l] = "unused" /\ account # "deleted" /\ lic' = [lic EXCEPT ![l] = "active"]
     \/ /\ lic[l] \in {"active", "inactive"}
        /\ \E v \in {"active", "inactive"} : lic' = [lic EXCEPT ![l] = v]
  /\ Enqueue("reconcile", NoSid)
  /\ Goto(r, "due")
  /\ UNCHANGED <<account, row, keys, userLock, pass, nextSid, toks, faults, history>>

\* expire_license ends every session, also those another licence covers.
ExpireLicense(r, l) ==
  /\ AdminBegins(r) /\ lic[l] # "unused"
  /\ lic' = [lic EXCEPT ![l] = IF @ = "lapsed" THEN @ ELSE "expired"]
  /\ EndSessions
  /\ Goto(r, "due")
  /\ UNCHANGED <<account, keys, userLock, pass, nextSid, toks, faults, accepted>>

-----------------------------------------------------------------------------
(* process_session_outbox_once, by the worker and by the handlers.         *)

Pending == {i \in DOMAIN outbox : ~ outbox[i].done}

\* The row a pass is at: rows are taken in the order of their ids.
AtRow(p) == Min(pass[p].todo)
At(p, pc) == pass[p].pc = pc /\ pass[p].todo # {}
Step(p, pc) == pass' = [pass EXCEPT ![p].pc = pc]
NextRow(p) == pass' = [pass EXCEPT ![p] =
                [pc |-> "row", todo |-> pass[p].todo \ {AtRow(p)}, lic |-> 0, targets |-> {}]]

\* Rows are neither locked nor claimed: two passes may work on the same ones.
\* LIMIT 100 is above the bound on rows.
PassBegin(p) ==
  /\ pass[p].pc = "idle" /\ Held < PoolSize
  /\ pass' = [pass EXCEPT ![p] = [NoPass EXCEPT !.pc = "row", !.todo = Pending]]
  /\ IF p = Worker THEN Pending # {} /\ UNCHANGED req
                   ELSE req[p].pc = "due" /\ Goto(p, "pass")
  /\ UNCHANGED <<store, keys, outbox, userLock, nextSid, toks, faults, history>>

RevokeRow(p) ==
  /\ At(p, "row") /\ outbox[AtRow(p)].op = "revoke"
  /\ IF outbox[AtRow(p)].sid = NoSid THEN ClearKeys ELSE DeleteIfSid(outbox[AtRow(p)].sid)
  /\ Step(p, "mark")
  /\ UNCHANGED <<store, outbox, userLock, req, nextSid, toks, faults, history>>

\* A reconcile row looks for a valid licence; which one of several comes first
\* depends on their dates.
ReadLicense(p) ==
  /\ At(p, "row") /\ outbox[AtRow(p)].op = "reconcile"
  /\ \/ \E l \in Licenses : /\ lic[l] = "active"
                            /\ pass' = [pass EXCEPT ![p].pc = "apply", ![p].lic = l]
     \/ (\A l \in Licenses : lic[l] # "active") /\ Step(p, "snapshot")
  /\ UNCHANGED <<store, keys, outbox, userLock, req, nextSid, toks, faults, history>>

\* The UPDATE of auth.sessions sees the rows committed when it starts ...
SnapshotSessions(p) ==
  /\ At(p, "snapshot")
  /\ pass' = [pass EXCEPT ![p].pc = "update", ![p].targets = Live]
  /\ UNCHANGED <<store, keys, outbox, userLock, req, nextSid, toks, faults, history>>

\* ... and waits for a login that is revoking them.
RevokeUnlicensed(p) ==
  /\ At(p, "update")
  /\ userLock = Nobody \/ pass[p].targets \intersect Live = {}
  /\ Revoke(pass[p].targets)
  /\ Step(p, "delete")
  /\ UNCHANGED <<account, lic, keys, outbox, userLock, req, nextSid, toks, faults, history>>

DeleteUnlicensed(p) ==
  /\ At(p, "delete")
  /\ ClearKeys
  /\ Step(p, "mark")
  /\ UNCHANGED <<store, outbox, userLock, req, nextSid, toks, faults, history>>

ReconcileKeys(p) ==
  /\ At(p, "apply")
  /\ ReconcilePair(pass[p].lic)
  /\ Step(p, "mark")
  /\ UNCHANGED <<store, outbox, userLock, req, nextSid, toks, faults, history>>

\* Variant with a bug: the whole pass is marked with its first row.
MarkAllRows(p) ==
  /\ At(p, "mark")
  /\ outbox' = [i \in DOMAIN outbox |-> [outbox[i] EXCEPT !.done = @ \/ i \in pass[p].todo]]
  /\ pass' = [pass EXCEPT ![p] = [NoPass EXCEPT !.pc = "row"]]
  /\ UNCHANGED <<store, keys, userLock, req, nextSid, toks, faults, history>>

MarkRow(p) ==
  /\ At(p, "mark")
  /\ outbox' = [outbox EXCEPT ![AtRow(p)].done = TRUE]
  /\ NextRow(p)
  /\ UNCHANGED <<store, keys, userLock, req, nextSid, toks, faults, history>>

\* A call for the row fails, maybe after its effect: the row stays pending.
RowFails(p) ==
  /\ pass[p].todo # {} /\ Fault
  /\ NextRow(p)
  /\ UNCHANGED <<store, keys, outbox, userLock, req, nextSid, toks, history>>

\* The pass is over, and with it the request that made it.
LeavePass(p) ==
  /\ pass' = [pass EXCEPT ![p] = NoPass]
  /\ IF p = Worker THEN UNCHANGED req ELSE Return(p)
  /\ UNCHANGED <<store, keys, outbox, userLock, nextSid, toks, history>>

PassEnd(p) == pass[p].pc = "row" /\ pass[p].todo = {} /\ LeavePass(p) /\ UNCHANGED faults

\* Recording the failure fails as well.
PassAborts(p) == pass[p].todo # {} /\ Fault /\ LeavePass(p)

-----------------------------------------------------------------------------
(* The surroundings.                                                       *)

SessionKeyExpires ==
  /\ sess # NoSess /\ sess' = NoSess
  /\ UNCHANGED <<store, ref, outbox, userLock, req, pass, nextSid, toks, faults, history>>

RefreshKeyExpires ==
  /\ ref # NoRef /\ ref' = NoRef
  /\ UNCHANGED <<store, sess, outbox, userLock, req, pass, nextSid, toks, faults, history>>

\* valid_until passes; neither this licence nor one that was expired is extended.
LicenseLapses(l) ==
  /\ lic[l] \in {"active", "inactive"} /\ lic' = [lic EXCEPT ![l] = "lapsed"]
  /\ UNCHANGED <<account, row, keys, outbox, userLock, req, pass, nextSid, toks, faults, history>>

\* The backend restarts: open transactions roll back.
Restart ==
  /\ Fault
  /\ userLock' = Nobody
  /\ req' = [r \in Requests |-> Idle] /\ pass' = [p \in Processors |-> NoPass]
  /\ UNCHANGED <<store, keys, outbox, nextSid, toks, history>>

\* What a request does once it has begun.
Proceeds(r) ==
  \/ LoginActivate(r) \/ LoginCommit(r) \/ LoginCompensate(r)
  \/ Accept(r) \/ Reject(r)
  \/ RefreshTtl(r) \/ RotateRefresh(r) \/ RefreshReplay(r) \/ RevokeSession(r)

Processes(p) ==
  \/ PassBegin(p) \/ RevokeRow(p) \/ ReadLicense(p) \/ SnapshotSessions(p)
  \/ RevokeUnlicensed(p) \/ DeleteUnlicensed(p) \/ ReconcileKeys(p) \/ MarkRow(p) \/ PassEnd(p)

Next ==
  \/ \E r \in Requests :
       \/ LoginBegin(r) \/ ReadKey(r) \/ CloseAccount(r) \/ ReopenAccount(r)
       \/ \E l \in Licenses : ChangeLicense(r, l) \/ ExpireLicense(r, l)
       \/ Proceeds(r)
       \/ LoginActivateUnanswered(r) \/ LoginCommitFails(r) \/ RequestFails(r)
  \/ \E p \in Processors : Processes(p) \/ RowFails(p) \/ PassAborts(p)
  \/ SessionKeyExpires \/ RefreshKeyExpires \/ Restart
  \/ \E l \in Licenses : LicenseLapses(l)

Spec == Init /\ [][Next]_vars

-----------------------------------------------------------------------------
(* Properties.                                                             *)

OutboxRow == [op : {"revoke", "reconcile"}, sid : Sids \union {NoSid}, done : BOOLEAN]
Token == [sid : Sids, parent : Nat]
Request == [pc : {"idle", "activate", "commit", "compensate", "check", "ttl", "rotate", "replay",
                  "revoke", "due", "pass"},
            sid : Sids \union {NoSid}, lic : Licenses \union {0}, tok : Nat]
Pass == [pc : {"idle", "row", "apply", "snapshot", "update", "delete", "mark"},
         todo : SUBSET Nat, lic : Licenses \union {0}, targets : SUBSET Sids]

\* Every variable has its type: rows, keys and requests name sessions and
\* licences that login, create_license and the refresh scripts can produce.
TypeOK ==
  /\ account \in {"active", "inactive", "deleted"}
  /\ lic \in [Licenses -> {"unused", "active", "inactive", "lapsed", "expired"}]
  /\ row \in [Sids -> {"unused", "live", "revoked"}]
  /\ sess \in [sid : Sids \union {NoSid}, lic : Licenses \union {0}]
  /\ ref \in [sid : Sids \union {NoSid}, tok : Nat]
  /\ outbox \in Seq(OutboxRow)
  /\ userLock \in Requests \union {Nobody}
  /\ req \in [Requests -> Request]
  /\ pass \in [Processors -> Pass]
  /\ nextSid \in 0..MaxSids
  /\ toks \in Seq(Token)
  /\ faults \in 0..MaxFaults
  /\ accepted \in Sids \union {NoSid} /\ ended \subseteq Sids

\* Single session: once a request of a newer login has been accepted, none of an
\* older login is, even if it read the session key before the newer login.
\* (Sessions are numbered in the order in which logins lock the user.)
AcceptedInLoginOrder == [][accepted' >= accepted]_vars

\* A refresh token is exchanged at most once, whatever refreshes overlap.
RefreshOnce ==
  \A t, u \in DOMAIN toks :
    toks[t].parent # 0 /\ toks[t].parent = toks[u].parent => t = u

\* Row i of the outbox takes the keys of session s away.
Covers(i, s) == outbox[i].op = "revoke" /\ outbox[i].sid \in {NoSid, s}

\* No revocation is lost: while a key still names a session ended by logout, by a
\* replayed token or by an administrator, a pending row will remove it, whatever
\* passes overlap, calls fail or backends restart.
NoRevocationLost ==
  \A s \in ended \intersect {sess.sid, ref.sid} : \E i \in Pending : Covers(i, s)
=============================================================================
