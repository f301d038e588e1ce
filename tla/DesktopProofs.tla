--------------------------- MODULE DesktopProofs ----------------------------
(***************************************************************************)
(* Machine-checked proofs about the two parts of the desktop backend that  *)
(* share nothing but the process: DesktopAuth, for any number of logins,   *)
(* refreshes and claims, and OrchestrationService with the CameraManager   *)
(* it runs, for any finite set of cameras, any users, any number of        *)
(* workers a camera may have had, and any limits.                          *)
(*                                                                         *)
(* What the queue holds does not matter to the proofs about DesktopAuth:   *)
(* an item decides whether a flush calls the central endpoint, but the     *)
(* session it names there is the one of the record the flush has read.     *)
(***************************************************************************)
EXTENDS DesktopAuth, OrchestrationService, SequenceTheorems, FiniteSetTheorems, TLAPS

-----------------------------------------------------------------------------
(* The inductive invariant.                                                *)

CentralStates == [Sids -> {"unused", "live", "revoked", "ended"}]

\* The types, for calls with the shape of their records.
AuthTypeOK ==
  /\ sess \in SessRows /\ csess \in CentralStates /\ spent \subseteq Sids
  /\ loggedOut \subseteq Sids
  /\ op = [kind |-> op.kind, pc |-> op.pc, gen |-> op.gen, cid |-> op.cid, id |-> op.id,
           tok |-> op.tok]
  /\ op.kind \in {"none", "login", "logout", "refresh"}
  /\ op.pc \in {"none", "save", "begin", "central", "done", "failed", "replace", "clear"}
  /\ op.gen \in Nat /\ op.cid \in Sids \cup {NoCid}
  /\ flush = [pc |-> flush.pc, rec |-> flush.rec, tok |-> flush.tok, items |-> flush.items]
  /\ flush.rec \in SessRows
  /\ flush.pc \in {"idle", "claim", "central", "drop", "done", "failed", "purge"}

\* A session some row or call names has been issued; one in revocation_pending
\* has been logged out.
Issued(r) ==
  /\ r.status # "none" => r.cid \in Sids /\ csess[r.cid] # "unused"
  /\ r.status = "revocation_pending" => r.cid \in loggedOut
SessionsIssued ==
  /\ Issued(sess) /\ Issued(flush.rec)
  /\ \A s \in loggedOut : csess[s] # "unused"

\* No logout call has revoked the active session, and none has begun for it.
ActiveIsFresh ==
  sess.status = "active" => csess[sess.cid] # "revoked" /\ sess.cid \notin loggedOut

\* The session a login is about to save is nobody's yet, though the central backend
\* may have ended it; the one a logout revokes is that of the active row until the
\* logout has begun, and logged out then; a refresh is of a session there is.
MutationKnows ==
  /\ op.kind = "login" => /\ op.cid \in Sids /\ csess[op.cid] \in {"live", "ended"}
                          /\ op.cid \notin loggedOut
                          /\ sess.status # "none" => sess.cid # op.cid
  /\ op.kind = "logout" => /\ op.pc \in {"begin", "central", "done", "failed"}
                           /\ op.cid \in Sids /\ csess[op.cid] # "unused"
                           /\ op.pc = "begin" /\ sess.status = "active" => sess.cid = op.cid
                           /\ op.pc # "begin" => op.cid \in loggedOut
  /\ op.kind = "refresh" => op.cid \in Sids

\* A flush calls the central endpoint only for a record in revocation_pending.
FlushKnows == flush.pc = "central" => flush.rec.status = "revocation_pending"

IInv == AuthTypeOK /\ SessionsIssued /\ ActiveIsFresh /\ MutationKnows /\ FlushKnows

-----------------------------------------------------------------------------
(* Facts about the steps' parts.                                           *)

\* An updated call, flush or row is a record of the same shape.
LEMMA OpUpdates ==
  ASSUME AuthTypeOK, NEW c, NEW g, NEW i, NEW t
  PROVE  /\ [op EXCEPT !.pc = c] = [kind |-> op.kind, pc |-> c, gen |-> op.gen,
                                    cid |-> op.cid, id |-> op.id, tok |-> op.tok]
         /\ [op EXCEPT !.pc = c, !.gen = g, !.tok = t, !.id = i]
              = [kind |-> op.kind, pc |-> c, gen |-> g, cid |-> op.cid, id |-> i, tok |-> t]
<1>1. op = [kind |-> op.kind, pc |-> op.pc, gen |-> op.gen, cid |-> op.cid, id |-> op.id,
            tok |-> op.tok]
  BY DEF AuthTypeOK
<1>2. [op EXCEPT !.pc = c] = [kind |-> op.kind, pc |-> c, gen |-> op.gen,
                              cid |-> op.cid, id |-> op.id, tok |-> op.tok]
  BY <1>1
<1>3. [op EXCEPT !.pc = c, !.gen = g, !.tok = t, !.id = i]
        = [kind |-> op.kind, pc |-> c, gen |-> g, cid |-> op.cid, id |-> i, tok |-> t]
  <2> DEFINE o1 == [op EXCEPT !.pc = c]
             o2 == [o1 EXCEPT !.gen = g]
             o3 == [o2 EXCEPT !.tok = t]
  <2>1. [op EXCEPT !.pc = c, !.gen = g, !.tok = t, !.id = i] = [o3 EXCEPT !.id = i] BY <1>1
  <2>2. o1 = [kind |-> op.kind, pc |-> c, gen |-> op.gen, cid |-> op.cid, id |-> op.id,
              tok |-> op.tok]
    BY <1>2
  <2> HIDE DEF o1
  <2>3. o2 = [kind |-> op.kind, pc |-> c, gen |-> g, cid |-> op.cid, id |-> op.id,
              tok |-> op.tok]
    BY <2>2
  <2> HIDE DEF o2
  <2>4. o3 = [kind |-> op.kind, pc |-> c, gen |-> g, cid |-> op.cid, id |-> op.id, tok |-> t]
    BY <2>3
  <2> HIDE DEF o3
  <2> QED BY <2>1, <2>4
<1> QED BY <1>2, <1>3

LEMMA FlushUpdates ==
  ASSUME AuthTypeOK, NEW c, NEW t, NEW s
  PROVE  /\ [flush EXCEPT !.pc = c]
              = [pc |-> c, rec |-> flush.rec, tok |-> flush.tok, items |-> flush.items]
         /\ [flush EXCEPT !.pc = c, !.tok = t, !.items = s]
              = [pc |-> c, rec |-> flush.rec, tok |-> t, items |-> s]
         /\ [flush EXCEPT !.items = s, !.pc = c]
              = [pc |-> c, rec |-> flush.rec, tok |-> flush.tok, items |-> s]
<1>1. flush = [pc |-> flush.pc, rec |-> flush.rec, tok |-> flush.tok, items |-> flush.items]
  BY DEF AuthTypeOK
<1>2. [flush EXCEPT !.pc = c]
        = [pc |-> c, rec |-> flush.rec, tok |-> flush.tok, items |-> flush.items]
  BY <1>1
<1>3. [flush EXCEPT !.pc = c, !.tok = t, !.items = s]
        = [pc |-> c, rec |-> flush.rec, tok |-> t, items |-> s]
  <2> DEFINE f1 == [flush EXCEPT !.pc = c]
             f2 == [f1 EXCEPT !.tok = t]
  <2>1. [flush EXCEPT !.pc = c, !.tok = t, !.items = s] = [f2 EXCEPT !.items = s] BY <1>1
  <2>2. f1 = [pc |-> c, rec |-> flush.rec, tok |-> flush.tok, items |-> flush.items] BY <1>2
  <2> HIDE DEF f1
  <2>3. f2 = [pc |-> c, rec |-> flush.rec, tok |-> t, items |-> flush.items] BY <2>2
  <2> HIDE DEF f2
  <2> QED BY <2>1, <2>3
<1>4. [flush EXCEPT !.items = s, !.pc = c]
        = [pc |-> c, rec |-> flush.rec, tok |-> flush.tok, items |-> s]
  <2> DEFINE f1 == [flush EXCEPT !.items = s]
  <2>1. [flush EXCEPT !.items = s, !.pc = c] = [f1 EXCEPT !.pc = c] BY <1>1
  <2>2. f1 = [pc |-> flush.pc, rec |-> flush.rec, tok |-> flush.tok, items |-> s] BY <1>1
  <2> HIDE DEF f1
  <2> QED BY <2>1, <2>2
<1> QED BY <1>2, <1>3, <1>4

LEMMA RowUpdates ==
  ASSUME NEW r \in SessRows, NEW g \in Nat, NEW l \in BOOLEAN,
         NEW v \in {"none", "active", "revocation_pending"}
  PROVE  /\ [r EXCEPT !.status = v, !.gen = g] \in SessRows
         /\ [r EXCEPT !.status = v, !.gen = g].status = v
         /\ [r EXCEPT !.status = v, !.gen = g].cid = r.cid
         /\ [r EXCEPT !.gen = g] \in SessRows
         /\ [r EXCEPT !.gen = g].status = r.status /\ [r EXCEPT !.gen = g].cid = r.cid
         /\ [r EXCEPT !.licensed = l] \in SessRows
         /\ [r EXCEPT !.licensed = l].status = r.status /\ [r EXCEPT !.licensed = l].cid = r.cid
<1>1. /\ [r EXCEPT !.status = v, !.gen = g] \in SessRows
      /\ [r EXCEPT !.status = v, !.gen = g].status = v
      /\ [r EXCEPT !.status = v, !.gen = g].cid = r.cid
  BY DEF SessRows
<1>2. /\ [r EXCEPT !.gen = g] \in SessRows
      /\ [r EXCEPT !.gen = g].status = r.status /\ [r EXCEPT !.gen = g].cid = r.cid
  BY DEF SessRows
<1>3. /\ [r EXCEPT !.licensed = l] \in SessRows
      /\ [r EXCEPT !.licensed = l].status = r.status /\ [r EXCEPT !.licensed = l].cid = r.cid
  BY DEF SessRows
<1> QED BY <1>1, <1>2, <1>3

\* The empty values have their types.
LEMMA Empties ==
  /\ NoSess \in SessRows /\ NoSess.status = "none"
  /\ NoOp.kind = "none" /\ NoOp.pc = "none" /\ NoOp.gen = 0 /\ NoOp.cid = NoCid
  /\ NoOp = [kind |-> NoOp.kind, pc |-> NoOp.pc, gen |-> NoOp.gen, cid |-> NoOp.cid,
             id |-> NoOp.id, tok |-> NoOp.tok]
  /\ Idle.pc = "idle" /\ Idle.rec = NoSess
  /\ Idle = [pc |-> Idle.pc, rec |-> Idle.rec, tok |-> Idle.tok, items |-> Idle.items]
BY DEF NoSess, SessRows, NoOp, Idle

\* The central logout endpoint revokes the session it is called for, or none.
LEMMA CentralLogoutRevokesOne ==
  ASSUME csess \in CentralStates, NEW s \in Sids, NEW result,
         CentralLogout(s, result)
  PROVE  /\ csess' \in CentralStates /\ spent' = spent
         /\ \A t \in Sids : csess'[t] = csess[t] \/ (t = s /\ csess'[t] = "revoked")
BY DEF CentralLogout, CentralStates

\* What the central backend may do by itself: end live sessions, exchange tokens.
CentralMoves ==
  /\ csess' \in CentralStates /\ spent' \subseteq Sids
  /\ \A t \in Sids : csess'[t] = csess[t] \/ (csess[t] = "live" /\ csess'[t] = "ended")

LEMMA NothingMoves == ASSUME IInv, UNCHANGED <<csess, spent>> PROVE CentralMoves
BY DEF IInv, AuthTypeOK, CentralMoves

\* Settling a revocation leaves the session row or removes one in
\* revocation_pending; clearing leaves it or removes it.
LEMMA SettledRow ==
  ASSUME NEW i, NEW u, NEW gen, CompleteRevocation(i, u, gen)
  PROVE  sess' = sess \/ (sess.status = "revocation_pending" /\ sess' = NoSess)
BY DEF CompleteRevocation

LEMMA ItemPcs ==
  ASSUME NEW row, NEW items
  PROVE  /\ ItemPc(row, items) \in {"purge", "central", "drop"}
         /\ ItemPc(row, items) = "central" => row.status = "revocation_pending"
BY DEF ItemPc

\* A step that ends the mutation under way, or goes on with it as it was, and
\* leaves the session row or removes it, keeps the invariant, whatever the central
\* backend does by itself.
LEMMA RowStaysOrGoes ==
  ASSUME IInv, sess' = sess \/ sess' = NoSess, op' = op \/ op' = NoOp, CentralMoves,
         UNCHANGED <<flush, loggedOut>>
  PROVE  IInv'
<1>1. AuthTypeOK' BY Empties DEF IInv, AuthTypeOK, NoCid, CentralMoves
<1>2. SessionsIssued'
  BY Empties DEF IInv, SessionsIssued, Issued, CentralMoves, AuthTypeOK
<1>3. ActiveIsFresh' BY Empties DEF IInv, ActiveIsFresh, CentralMoves, SessionsIssued, Issued
<1>4. MutationKnows' BY Empties DEF IInv, MutationKnows, CentralMoves
<1>5. FlushKnows' BY DEF IInv, FlushKnows
<1> QED BY <1>1, <1>2, <1>3, <1>4, <1>5 DEF IInv

-----------------------------------------------------------------------------
(* login.                                                                  *)

LEMMA LoginInv == ASSUME IInv, Login PROVE IInv'
<1>1. PICK s \in Sids :
        /\ CentralLogin(s)
        /\ op' = [NoOp EXCEPT !.kind = "login", !.pc = "save", !.cid = s] \/ op' = NoOp
  BY DEF Login
<1>2. csess \in CentralStates /\ UNCHANGED <<sess, flush, loggedOut>>
  BY DEF IInv, AuthTypeOK, Login
\* The new session is live, and at most one live session has been ended.
<1>3. /\ csess[s] = "unused" /\ csess'[s] = "live" /\ csess' \in CentralStates
      /\ spent' = spent
      /\ \A t \in Sids \ {s} : csess'[t] = csess[t] \/ (csess[t] = "live" /\ csess'[t] = "ended")
  BY <1>1, <1>2 DEF CentralLogin, CentralStates
<1>4. \/ op' = [kind |-> "login", pc |-> "save", gen |-> 0, cid |-> s, id |-> NoId,
                tok |-> NoToken]
      \/ op' = NoOp
  BY <1>1 DEF NoOp
<1>5. AuthTypeOK' BY <1>2, <1>3, <1>4, Empties DEF IInv, AuthTypeOK, NoCid
<1>6. SessionsIssued' BY <1>2, <1>3 DEF IInv, AuthTypeOK, SessionsIssued, Issued
<1>7. ActiveIsFresh' BY <1>2, <1>3 DEF IInv, ActiveIsFresh, SessionsIssued, Issued
<1>8. MutationKnows'
  BY <1>2, <1>3, <1>4, Empties DEF IInv, MutationKnows, SessionsIssued, Issued
<1>9. FlushKnows' BY <1>2 DEF IInv, FlushKnows
<1> QED BY <1>5, <1>6, <1>7, <1>8, <1>9 DEF IInv

\* Giving the new session back: no row names it yet.
LEMMA LoginFailsInv == ASSUME IInv, LoginFails PROVE IInv'
<1>1. PICK result \in {"done", "failed"} : CentralLogout(op.cid, result) BY DEF LoginFails
<1>2. /\ op.cid \in Sids /\ op.cid \notin loggedOut
      /\ sess.status # "none" => sess.cid # op.cid
  BY DEF IInv, MutationKnows, LoginFails
<1>3. /\ csess' \in CentralStates /\ spent' = spent
      /\ \A t \in Sids : csess'[t] = csess[t] \/ (t = op.cid /\ csess'[t] = "revoked")
  BY <1>1, <1>2, CentralLogoutRevokesOne DEF IInv, AuthTypeOK
<1>4. op' = NoOp /\ UNCHANGED <<sess, flush, loggedOut>> BY DEF LoginFails
<1>5. AuthTypeOK' BY <1>3, <1>4, Empties DEF IInv, AuthTypeOK, NoCid
<1>6. SessionsIssued' BY <1>3, <1>4 DEF IInv, AuthTypeOK, SessionsIssued, Issued
<1>7. ActiveIsFresh' BY <1>2, <1>3, <1>4 DEF IInv, ActiveIsFresh, SessionsIssued, Issued
<1>8. MutationKnows' BY <1>4, Empties DEF MutationKnows
<1>9. FlushKnows' BY <1>4 DEF IInv, FlushKnows
<1> QED BY <1>5, <1>6, <1>7, <1>8, <1>9 DEF IInv

LEMMA SaveInv == ASSUME IInv, Save PROVE IInv'
<1>1. op.cid \in Sids /\ csess[op.cid] \in {"live", "ended"} /\ op.cid \notin loggedOut
  BY DEF IInv, MutationKnows, Save
<1>2. /\ op' = NoOp /\ UNCHANGED <<csess, spent, flush, loggedOut>>
      /\ sess' = [status |-> "active", gen |-> IF sess.status = "none" THEN 1 ELSE sess.gen + 1,
                  cid |-> op.cid, licensed |-> TRUE]
  BY DEF Save, central
<1>3. sess.gen \in Nat BY DEF IInv, AuthTypeOK, SessRows
<1>4. sess' \in SessRows BY <1>1, <1>2, <1>3 DEF SessRows
<1>5. AuthTypeOK' BY <1>2, <1>4, Empties DEF IInv, AuthTypeOK, NoCid
<1>6. SessionsIssued' BY <1>1, <1>2 DEF IInv, SessionsIssued, Issued
<1>7. ActiveIsFresh' BY <1>1, <1>2 DEF ActiveIsFresh
<1>8. MutationKnows' BY <1>2, Empties DEF MutationKnows
<1>9. FlushKnows' BY <1>2 DEF IInv, FlushKnows
<1> QED BY <1>5, <1>6, <1>7, <1>8, <1>9 DEF IInv

-----------------------------------------------------------------------------
(* logout.                                                                 *)

LEMMA LogoutInv == ASSUME IInv, Logout PROVE IInv'
<1>1. /\ op' = [kind |-> "logout", pc |-> "begin", gen |-> sess.gen, cid |-> sess.cid,
                id |-> NoId, tok |-> NoToken]
      /\ sess.status = "active" /\ UNCHANGED <<sess, csess, spent, flush, loggedOut>>
  BY DEF Logout, NoOp, central
<1>2. sess.gen \in Nat /\ sess.cid \in Sids /\ csess[sess.cid] # "unused"
  BY <1>1 DEF IInv, AuthTypeOK, SessRows, SessionsIssued, Issued
<1>3. AuthTypeOK' BY <1>1, <1>2 DEF IInv, AuthTypeOK
<1>4. SessionsIssued' BY <1>1 DEF IInv, SessionsIssued, Issued
<1>5. ActiveIsFresh' BY <1>1 DEF IInv, ActiveIsFresh
<1>6. MutationKnows' BY <1>1, <1>2 DEF MutationKnows
<1>7. FlushKnows' BY <1>1 DEF IInv, FlushKnows
<1> QED BY <1>3, <1>4, <1>5, <1>6, <1>7 DEF IInv

\* The one step that logs a session out: it is the active one, which the same
\* step puts into revocation_pending.
LEMMA BeginRevocationInv == ASSUME IInv, BeginRevocation PROVE IInv'
<1>1. op.kind = "logout" /\ op.pc = "begin" /\ UNCHANGED <<csess, spent, flush>> BY DEF BeginRevocation, central
<1>2. CASE ~(sess.status = "active" /\ sess.gen = op.gen)
  <2>1. op' = NoOp /\ UNCHANGED <<sess, loggedOut>> BY <1>2 DEF BeginRevocation
  <2> QED BY <1>1, <2>1, NothingMoves, RowStaysOrGoes
<1>3. CASE sess.status = "active" /\ sess.gen = op.gen
  <2> DEFINE i == EnqueuedId(q, RevokeKey, nextId + 1)
             t == nextTok + 1
  <2>1. sess' = [sess EXCEPT !.status = "revocation_pending", !.gen = op.gen + 1]
    BY <1>3 DEF BeginRevocation
  <2>2. loggedOut' = loggedOut \cup {op.cid} BY <1>3 DEF BeginRevocation
  <2>3. op' = [kind |-> op.kind, pc |-> "central", gen |-> op.gen + 1, cid |-> op.cid,
               id |-> i, tok |-> t]
    <3>1. op' = [op EXCEPT !.pc = "central", !.gen = op.gen + 1, !.tok = t, !.id = i]
      BY <1>3 DEF BeginRevocation
    <3> HIDE DEF i, t
    <3> QED BY ZenonT(60), <3>1, OpUpdates DEF IInv
  <2> HIDE DEF i, t
  <2>4. /\ sess' \in SessRows /\ sess'.status = "revocation_pending" /\ sess'.cid = sess.cid
        /\ op.gen + 1 \in Nat
    <3>1. sess \in SessRows /\ op.gen + 1 \in Nat BY DEF IInv, AuthTypeOK
    <3> QED BY <2>1, <3>1, RowUpdates, ZenonT(60)
  <2>5. op.cid \in Sids /\ csess[op.cid] # "unused" /\ sess.cid = op.cid
    BY <1>1, <1>3 DEF IInv, MutationKnows
  <2>6. AuthTypeOK' BY <1>1, <2>2, <2>3, <2>4, <2>5 DEF IInv, AuthTypeOK
  <2>7. SessionsIssued' BY <1>1, <2>2, <2>4, <2>5 DEF IInv, SessionsIssued, Issued
  <2>8. ActiveIsFresh' BY <2>4 DEF ActiveIsFresh
  <2>9. MutationKnows' BY <1>1, <2>2, <2>3, <2>5 DEF MutationKnows
  <2>10. FlushKnows' BY <1>1 DEF IInv, FlushKnows
  <2> QED BY <2>6, <2>7, <2>8, <2>9, <2>10 DEF IInv
<1> QED BY <1>2, <1>3

\* The session revoked has been logged out: it is not the active one.
LEMMA LogoutCentralInv == ASSUME IInv, LogoutCentral PROVE IInv'
<1>1. PICK result \in {"done", "failed"} :
        CentralLogout(op.cid, result) /\ op' = [op EXCEPT !.pc = result]
  BY DEF LogoutCentral
<1>2. /\ op.kind = "logout" /\ op.pc = "central" /\ op.cid \in Sids /\ csess[op.cid] # "unused"
      /\ op.cid \in loggedOut
  BY DEF IInv, MutationKnows, LogoutCentral
<1>3. /\ csess' \in CentralStates /\ spent' = spent
      /\ \A t \in Sids : csess'[t] = csess[t] \/ (t = op.cid /\ csess'[t] = "revoked")
  BY <1>1, <1>2, CentralLogoutRevokesOne DEF IInv, AuthTypeOK
<1>4. UNCHANGED <<sess, flush, loggedOut>> BY DEF LogoutCentral
<1>5. op' = [kind |-> op.kind, pc |-> result, gen |-> op.gen, cid |-> op.cid, id |-> op.id,
             tok |-> op.tok]
  BY <1>1, OpUpdates, ZenonT(60) DEF IInv
<1>6. AuthTypeOK' BY <1>3, <1>4, <1>5 DEF IInv, AuthTypeOK
<1>7. SessionsIssued' BY <1>3, <1>4 DEF IInv, AuthTypeOK, SessionsIssued, Issued
<1>8. ActiveIsFresh' BY <1>2, <1>3, <1>4 DEF IInv, ActiveIsFresh, SessionsIssued, Issued
<1>9. MutationKnows' BY <1>2, <1>3, <1>4, <1>5 DEF MutationKnows
<1>10. FlushKnows' BY <1>4 DEF IInv, FlushKnows
<1> QED BY <1>6, <1>7, <1>8, <1>9, <1>10 DEF IInv

LEMMA LogoutSettlesInv == ASSUME IInv, LogoutSettles PROVE IInv'
<1>1. op' = NoOp /\ UNCHANGED <<csess, spent, flush, loggedOut>> BY DEF LogoutSettles, central
<1>2. sess' = sess \/ sess' = NoSess BY SettledRow DEF LogoutSettles
<1> QED BY <1>1, <1>2, NothingMoves, RowStaysOrGoes

-----------------------------------------------------------------------------
(* refresh and authenticate.                                               *)

\* A row that keeps its status and its session keeps what is known of it.
LEMMA RowKept ==
  ASSUME IInv, sess' \in SessRows, sess'.status = sess.status, sess'.cid = sess.cid,
         op' = op \/ op' = NoOp, CentralMoves, UNCHANGED <<csess, flush, loggedOut>>
  PROVE  IInv'
<1>1. AuthTypeOK' BY Empties DEF IInv, AuthTypeOK, NoCid, CentralMoves
<1>2. SessionsIssued' BY DEF IInv, SessionsIssued, Issued
<1>3. ActiveIsFresh' BY DEF IInv, ActiveIsFresh
<1>4. MutationKnows' BY Empties DEF IInv, MutationKnows
<1>5. FlushKnows' BY DEF IInv, FlushKnows
<1> QED BY <1>1, <1>2, <1>3, <1>4, <1>5 DEF IInv

\* A refresh needs to know only that its session exists.
LEMMA RefreshGoesOn ==
  ASSUME IInv, NEW c \in {"central", "replace", "clear"}, NEW g \in Nat, NEW s \in Sids,
         NEW i, NEW t,
         op' = [kind |-> "refresh", pc |-> c, gen |-> g, cid |-> s, id |-> i, tok |-> t],
         CentralMoves, UNCHANGED <<sess, flush, loggedOut>>
  PROVE  IInv'
<1>1. AuthTypeOK' BY DEF IInv, AuthTypeOK, CentralMoves
<1>2. SessionsIssued' BY DEF IInv, SessionsIssued, Issued, CentralMoves, AuthTypeOK
<1>3. ActiveIsFresh' BY DEF IInv, ActiveIsFresh, CentralMoves, SessionsIssued, Issued
<1>4. MutationKnows' BY DEF MutationKnows
<1>5. FlushKnows' BY DEF IInv, FlushKnows
<1> QED BY <1>1, <1>2, <1>3, <1>4, <1>5 DEF IInv

LEMMA RefreshInv == ASSUME IInv, Refresh PROVE IInv'
<1> DEFINE c == IF sess.licensed THEN "central" ELSE "clear"
<1>1. /\ op' = [kind |-> "refresh", pc |-> c, gen |-> sess.gen, cid |-> sess.cid,
                id |-> NoId, tok |-> NoToken]
      /\ UNCHANGED <<sess, csess, spent, flush, loggedOut>>
  BY DEF Refresh, NoOp, central
<1>2. c \in {"central", "clear"} OBVIOUS
<1>3. sess.gen \in Nat /\ sess.cid \in Sids
  BY DEF IInv, AuthTypeOK, SessRows, SessionsIssued, Issued, Refresh
<1> HIDE DEF c
<1>4. CentralMoves BY <1>1, NothingMoves
<1> QED BY <1>1, <1>2, <1>3, <1>4, RefreshGoesOn

\* The central backend exchanges the token or ends the session; the call goes on.
LEMMA RefreshCentralInv == ASSUME IInv, RefreshCentral PROVE IInv'
<1>1. op.kind = "refresh" /\ UNCHANGED <<sess, flush, loggedOut>> BY DEF RefreshCentral
<1>2. op.gen \in Nat /\ op.cid \in Sids BY <1>1 DEF IInv, AuthTypeOK, MutationKnows
<1>3. CentralMoves
  <2>1. CASE TokenRotates
    BY <1>2, <2>1 DEF TokenRotates, CentralMoves, IInv, AuthTypeOK
  <2>2. CASE TokenReplayed
    BY <1>2, <2>2 DEF TokenReplayed, CentralMoves, CentralStates, IInv, AuthTypeOK
  <2>3. CASE UNCHANGED central BY <2>3, NothingMoves DEF central
  <2> QED BY <2>1, <2>2, <2>3 DEF RefreshCentral
<1>4. CASE op' = NoOp BY <1>1, <1>3, <1>4, RowStaysOrGoes
<1>5. ASSUME NEW c \in {"replace", "clear"}, op' = [op EXCEPT !.pc = c] PROVE IInv'
  <2>1. op' = [kind |-> "refresh", pc |-> c, gen |-> op.gen, cid |-> op.cid, id |-> op.id,
               tok |-> op.tok]
    BY <1>1, <1>5, OpUpdates, ZenonT(60) DEF IInv
  <2> QED BY <1>1, <1>2, <1>3, <2>1, RefreshGoesOn
<1> QED BY <1>4, <1>5 DEF RefreshCentral, TokenRotates, TokenReplayed, RefreshRefused

LEMMA ReplaceActiveInv == ASSUME IInv, ReplaceActive PROVE IInv'
<1>1. op' = NoOp /\ UNCHANGED <<csess, flush, loggedOut>> BY DEF ReplaceActive
<1>2. sess \in SessRows /\ op.gen + 1 \in Nat BY DEF IInv, AuthTypeOK
<1>3. CentralMoves BY <1>1 DEF IInv, AuthTypeOK, CentralMoves, ReplaceActive
<1>4. CASE sess' = sess BY <1>1, <1>3, <1>4, RowStaysOrGoes
<1>5. CASE sess' = [sess EXCEPT !.gen = op.gen + 1]
  <2>1. sess' \in SessRows /\ sess'.status = sess.status /\ sess'.cid = sess.cid
    BY <1>2, <1>5, RowUpdates, ZenonT(60)
  <2> QED BY <1>1, <1>3, <2>1, RowKept
<1> QED BY <1>4, <1>5 DEF ReplaceActive

LEMMA RefreshClearInv == ASSUME IInv, RefreshClear PROVE IInv'
BY NothingMoves, RowStaysOrGoes DEF RefreshClear, Cleared, central

LEMMA LicenceExpiresInv == ASSUME IInv, LicenceExpires PROVE IInv'
<1>1. UNCHANGED <<op, csess, spent, flush, loggedOut>> BY DEF LicenceExpires, central
<1>2. sess \in SessRows BY DEF IInv, AuthTypeOK
<1>3. sess' = [sess EXCEPT !.licensed = FALSE] BY DEF LicenceExpires
<1>4. sess' \in SessRows /\ sess'.status = sess.status /\ sess'.cid = sess.cid
  BY <1>2, <1>3, RowUpdates, ZenonT(60)
<1> QED BY <1>1, <1>4, NothingMoves, RowKept

LEMMA AuthenticateInv == ASSUME IInv, Authenticate PROVE IInv'
BY NothingMoves, RowStaysOrGoes DEF Authenticate, central

LEMMA AuthenticateClearInv == ASSUME IInv, AuthenticateClear PROVE IInv'
BY NothingMoves, RowStaysOrGoes DEF AuthenticateClear, Cleared, central

LEMMA EndsElsewhereInv ==
  ASSUME IInv, NEW s \in Sids, EndsElsewhere(s) PROVE IInv'
<1>1. CentralMoves BY DEF EndsElsewhere, CentralMoves, CentralStates, IInv, AuthTypeOK
<1> QED BY <1>1, RowStaysOrGoes DEF EndsElsewhere

-----------------------------------------------------------------------------
(* flush_once.                                                             *)

\* A flush that keeps its record, and calls the central endpoint next only if
\* the record is in revocation_pending.
LEMMA FlushGoesOn ==
  ASSUME IInv, NEW c \in {"central", "drop", "done", "failed", "purge"}, NEW t, NEW s,
         flush' = [pc |-> c, rec |-> flush.rec, tok |-> t, items |-> s],
         c = "central" => flush.rec.status = "revocation_pending",
         sess' = sess \/ sess' = NoSess, UNCHANGED <<csess, spent, op, loggedOut>>
  PROVE  IInv'
<1>1. AuthTypeOK' BY Empties DEF IInv, AuthTypeOK
<1>2. SessionsIssued' BY Empties DEF IInv, SessionsIssued, Issued
<1>3. ActiveIsFresh' BY Empties DEF IInv, ActiveIsFresh
<1>4. MutationKnows' BY Empties DEF IInv, MutationKnows
<1>5. FlushKnows' BY DEF FlushKnows
<1> QED BY <1>1, <1>2, <1>3, <1>4, <1>5 DEF IInv

LEMMA FlushReadsInv == ASSUME IInv, FlushReads PROVE IInv'
<1>1. flush' = [pc |-> "claim", rec |-> sess, tok |-> NoToken, items |-> << >>]
  BY DEF FlushReads, Idle
<1>2. UNCHANGED <<sess, csess, spent, op, loggedOut>> BY DEF FlushReads, central
<1>3. AuthTypeOK' BY <1>1, <1>2 DEF IInv, AuthTypeOK
<1>4. SessionsIssued' BY <1>1, <1>2 DEF IInv, SessionsIssued, Issued
<1>5. ActiveIsFresh' BY <1>2 DEF IInv, ActiveIsFresh
<1>6. MutationKnows' BY <1>2 DEF IInv, MutationKnows
<1>7. FlushKnows' BY <1>1 DEF FlushKnows
<1> QED BY <1>3, <1>4, <1>5, <1>6, <1>7 DEF IInv

LEMMA FlushClaimsInv == ASSUME IInv, FlushClaims PROVE IInv'
<1>1. PICK its : flush' = [flush EXCEPT !.pc = ItemPc(flush.rec, its), !.tok = nextTok + 1,
                                        !.items = its]
  BY DEF FlushClaims
<1>2. UNCHANGED <<sess, csess, spent, op, loggedOut>> BY DEF FlushClaims, central
<1>3. flush' = [pc |-> ItemPc(flush.rec, its), rec |-> flush.rec, tok |-> nextTok + 1,
                items |-> its]
  BY ZenonT(60), <1>1, FlushUpdates DEF IInv
<1> QED BY <1>2, <1>3, ItemPcs, FlushGoesOn

\* The session revoked has been logged out: it is not the active one, nor the
\* one a login is about to save.
LEMMA FlushCentralInv == ASSUME IInv, FlushCentral PROVE IInv'
<1>1. PICK result \in {"done", "failed"} :
        CentralLogout(flush.rec.cid, result) /\ flush' = [flush EXCEPT !.pc = result]
  BY DEF FlushCentral
<1>2. flush.rec.cid \in Sids /\ flush.rec.cid \in loggedOut
  BY DEF IInv, FlushKnows, FlushCentral, SessionsIssued, Issued
<1>3. /\ csess' \in CentralStates /\ spent' = spent
      /\ \A t \in Sids : csess'[t] = csess[t] \/ (t = flush.rec.cid /\ csess'[t] = "revoked")
  BY <1>1, <1>2, CentralLogoutRevokesOne DEF IInv, AuthTypeOK
<1>4. UNCHANGED <<sess, op, loggedOut>> BY DEF FlushCentral
<1>5. flush' = [pc |-> result, rec |-> flush.rec, tok |-> flush.tok, items |-> flush.items]
  BY <1>1, FlushUpdates, ZenonT(60) DEF IInv
<1>6. AuthTypeOK' BY <1>3, <1>4, <1>5 DEF IInv, AuthTypeOK
<1>7. SessionsIssued' BY <1>3, <1>4, <1>5 DEF IInv, AuthTypeOK, SessionsIssued, Issued
<1>8. ActiveIsFresh' BY <1>2, <1>3, <1>4 DEF IInv, ActiveIsFresh, SessionsIssued, Issued
<1>9. MutationKnows' BY <1>2, <1>3, <1>4 DEF IInv, MutationKnows
<1>10. FlushKnows' BY <1>5 DEF FlushKnows
<1> QED BY <1>6, <1>7, <1>8, <1>9, <1>10 DEF IInv

LEMMA FlushSettlesInv == ASSUME IInv, FlushSettles PROVE IInv'
<1> DEFINE rest == Tail(flush.items)
<1>1. flush' = [flush EXCEPT !.items = rest, !.pc = ItemPc(flush.rec, rest)] BY DEF FlushSettles
<1>2. UNCHANGED <<csess, spent, op, loggedOut>> BY DEF FlushSettles, central
<1>3. sess' = sess \/ sess' = NoSess BY SettledRow DEF FlushSettles
<1> HIDE DEF rest
<1>4. flush' = [pc |-> ItemPc(flush.rec, rest), rec |-> flush.rec, tok |-> flush.tok,
                items |-> rest]
  BY <1>1, FlushUpdates, ZenonT(60) DEF IInv
<1> QED BY <1>2, <1>3, <1>4, ItemPcs, FlushGoesOn

\* The calls end: nothing is left of the flush or of the mutation.
LEMMA CallsEnd ==
  ASSUME IInv, flush' = Idle, op' = op \/ op' = NoOp, UNCHANGED <<sess, csess, spent, loggedOut>>
  PROVE  IInv'
<1>1. AuthTypeOK' BY Empties DEF IInv, AuthTypeOK, NoCid
<1>2. SessionsIssued' BY Empties DEF IInv, SessionsIssued, Issued
<1>3. ActiveIsFresh' BY DEF IInv, ActiveIsFresh
<1>4. MutationKnows' BY Empties DEF IInv, MutationKnows
<1>5. FlushKnows' BY Empties DEF FlushKnows
<1> QED BY <1>1, <1>2, <1>3, <1>4, <1>5 DEF IInv

-----------------------------------------------------------------------------
(* The theorems.                                                           *)

LEMMA InitInv == Init => IInv
<1> SUFFICES ASSUME Init PROVE IInv OBVIOUS
<1>1. AuthTypeOK BY Empties DEF Init, AuthTypeOK, NoCid, CentralStates
<1>2. SessionsIssued BY Empties DEF Init, SessionsIssued, Issued
<1>3. ActiveIsFresh BY Empties DEF Init, ActiveIsFresh
<1>4. MutationKnows BY Empties DEF Init, MutationKnows
<1>5. FlushKnows BY Empties DEF Init, FlushKnows
<1> QED BY <1>1, <1>2, <1>3, <1>4, <1>5 DEF IInv

\* Every step of the specification keeps the invariant.
LEMMA NextInv == IInv /\ [Next]_vars => IInv'
<1> SUFFICES ASSUME IInv, [Next]_vars PROVE IInv' OBVIOUS
<1>1. CASE UNCHANGED vars BY <1>1, NothingMoves, RowStaysOrGoes DEF vars, central
<1>2. CASE Login \/ LoginFails \/ Save BY <1>2, LoginInv, LoginFailsInv, SaveInv
<1>3. CASE Logout \/ BeginRevocation \/ LogoutCentral \/ LogoutSettles
  BY <1>3, LogoutInv, BeginRevocationInv, LogoutCentralInv, LogoutSettlesInv
<1>4. CASE Refresh \/ RefreshCentral \/ ReplaceActive \/ RefreshClear
  BY <1>4, RefreshInv, RefreshCentralInv, ReplaceActiveInv, RefreshClearInv
<1>5. CASE LicenceExpires \/ Authenticate \/ AuthenticateClear
  BY <1>5, LicenceExpiresInv, AuthenticateInv, AuthenticateClearInv
<1>6. CASE FlushReads \/ FlushClaims \/ FlushCentral \/ FlushSettles
  BY <1>6, FlushReadsInv, FlushClaimsInv, FlushCentralInv, FlushSettlesInv
<1>7. CASE FlushPurges BY <1>7, CallsEnd DEF FlushPurges, central
<1>8. CASE Crash BY <1>8, CallsEnd DEF Crash, central
<1>9. CASE RowChanges BY <1>9, NothingMoves, RowStaysOrGoes DEF RowChanges, central
<1>10. CASE LeaseExpires BY <1>10, NothingMoves, RowStaysOrGoes DEF LeaseExpires, central
<1>11. CASE \E s \in Sids : EndsElsewhere(s) BY <1>11, EndsElsewhereInv
<1> QED BY <1>1, <1>2, <1>3, <1>4, <1>5, <1>6, <1>7, <1>8, <1>9, <1>10, <1>11 DEF Next

LEMMA Invariance == Spec => []IInv
BY InitInv, NextInv, PTL DEF Spec

\* The session row, the central sessions and the calls keep their types,
\* whatever is in the queue.
THEOREM TypeCorrect == Spec => []AuthTypeOK
<1>1. IInv => AuthTypeOK BY DEF IInv
<1> QED BY <1>1, Invariance, PTL

\* The desktop's logout calls spare the session it is using, however many logins,
\* logouts, refreshes, flushes and crashes there have been, and whatever sessions the
\* central backend ends by itself meanwhile: a revocation is carried out only for a
\* session whose logout has begun, or for one a failed login gives back.
THEOREM ActiveSessionIsSpared == Spec => []LogoutsSpareActive
<1>1. IInv => LogoutsSpareActive BY DEF IInv, ActiveIsFresh, LogoutsSpareActive
<1> QED BY <1>1, Invariance, PTL

\* Logout is final: no refresh, late flush or restart makes a session active
\* again whose logout has begun.
THEOREM LogoutStaysFinal == Spec => []LogoutIsFinal
<1>1. IInv => LogoutIsFinal BY DEF IInv, ActiveIsFresh, LogoutIsFinal
<1> QED BY <1>1, Invariance, PTL

\* A revocation that is settled by a logout or a flush never drops an active
\* session: complete_revocation removes a row in revocation_pending only.
THEOREM SettlingKeepsActive == Spec => SettlingKeepsActiveSession
<1>1. [Next]_vars =>
        [sess.status = "active" /\ (LogoutSettles \/ FlushSettles) => sess' = sess]_vars
  BY SettledRow DEF LogoutSettles, FlushSettles
<1> QED BY <1>1, PTL DEF Spec, SettlingKeepsActiveSession

-----------------------------------------------------------------------------
(* The inductive invariant of the orchestration service, in parts.         *)

OpPcs == {"idle", "lock", "stopping", "starting", "refusing", "unwinding"}
OpKinds == {"none", "start", "restart", "stop", "shutdown"}
Wanted == Definitions \cup {Off}
Worker == [life : Lives, def : Wanted]
Operation == [pc : OpPcs, kind : OpKinds, def : Wanted, slot : Slots \cup {NoSlot}]
Reconciliation == [pc : {"idle", "removing", "starting", "cancelled", "ended"},
                   want : [Cameras -> Wanted], failed : BOOLEAN]

TasksTypeOK ==
  /\ closed \in BOOLEAN /\ shut \in {"none", "created", "stopping", "done"}
  /\ rec \in Reconciliation
  /\ startTask \in {"none", "catalog", "reconciling", "rollback", "done", "failed"}
  /\ stopTask \in {"none", "begun", "job", "shutdown", "done"}
  /\ job \in {"none", "sleeping", "catalog", "reconciling", "cancelled", "gone"}
  /\ catalog \in Catalogs
TablesTypeOK ==
  /\ life \in [Cameras -> [Slots -> Worker]] /\ owned \in [Cameras -> Slots \cup {NoSlot}]
  /\ statuses \in [Cameras -> LifeStates] /\ line \in [Cameras -> Seq(Tasks)]
  /\ ops \in [Tasks -> [Cameras -> Operation]]

\* The operations of all tasks on one camera.
OpsOn(c) == [t \in Tasks |-> ops[t][c]]

\* One camera's lock, with line ln and the tasks' operations p: a task is in the
\* line as long as its operation lasts, and only the first one gets past the
\* lock, where it knows the camera's worker ow.
LineOK(ln, p, ow) ==
  /\ ln \in Seq(Tasks) /\ \A m, n \in 1..Len(ln) : ln[m] = ln[n] => m = n
  /\ \A t \in Tasks : p[t].pc # "idle" <=> \E n \in 1..Len(ln) : ln[n] = t
  /\ \A t \in Tasks : p[t].pc \notin {"idle", "lock"} =>
       ln # << >> /\ Head(ln) = t /\ p[t].slot = ow /\ ow # NoSlot

\* One camera's workers wk: there is none but the registered one ow, and the
\* status st is that one's, or was its last.
WorkersOK(wk, ow, st) ==
  /\ \A s \in Slots : s # ow => wk[s] = NoWorker
  /\ ow # NoSlot => wk[ow].life.state # "NEW" /\ st = wk[ow].life.state
  /\ ow = NoSlot => st \in Terminal \cup {"NEW"}

CamerasKnow ==
  \A c \in Cameras : LineOK(line[c], OpsOn(c), owned[c]) /\ WorkersOK(life[c], owned[c], statuses[c])

\* A shutdown closes the manager first, and from the moment it has listed the
\* workers it has an operation in progress on every camera that has one.
ShutdownKnows ==
  /\ shut # "none" => closed
  /\ \A c \in Cameras : ops["shutdown"][c].pc # "idle" =>
       /\ shut = "stopping" /\ ops["shutdown"][c].pc \in {"lock", "stopping"}
       /\ ops["shutdown"][c].kind = "shutdown"
  /\ shut \in {"stopping", "done"} =>
       \A c \in Cameras : owned[c] # NoSlot => ops["shutdown"][c].pc # "idle"
  /\ stopTask = "done" \/ startTask = "failed" => shut = "done"

\* A reconciliation belongs to the start task or to the job, which exists only
\* after it, and its operations end with it.
ReconcileKnows ==
  /\ rec.pc \in {"idle", "ended"} => ~Busy("reconcile")
  /\ rec.pc # "idle" => startTask = "reconciling" \/ job \in {"reconciling", "cancelled"}
  /\ job # "none" => startTask = "done"
  /\ job = "cancelled" => stopTask \notin {"none", "begun"}

\* max_active_workers is never exceeded.
Registered(w) == {c \in Cameras : w[c] # NoSlot}
CapacityHeld == Cardinality(Registered(owned)) <= MaxActive

ServiceInv == /\ TasksTypeOK /\ TablesTypeOK /\ CamerasKnow /\ ShutdownKnows /\ ReconcileKnows
              /\ CapacityHeld

-----------------------------------------------------------------------------
(* The camera lock.                                                        *)

\* The last in line.
LEMMA LineJoins ==
  ASSUME NEW ln, NEW p \in [Tasks -> Operation], NEW ow, LineOK(ln, p, ow), NEW t \in Tasks,
         p[t].pc = "idle", NEW o \in Operation, o.pc = "lock"
  PROVE  LineOK(Append(ln, t), [p EXCEPT ![t] = o], ow)
<1> DEFINE l2 == Append(ln, t)
           p2 == [p EXCEPT ![t] = o]
<1>1. ln \in Seq(Tasks) /\ Len(ln) \in Nat
  BY DEF LineOK
<1>2. /\ l2 \in Seq(Tasks) /\ Len(l2) = Len(ln) + 1 /\ l2[Len(ln) + 1] = t
      /\ \A n \in 1..Len(ln) : l2[n] = ln[n]
  BY <1>1
<1>3. \A n \in 1..Len(ln) : ln[n] # t
  BY DEF LineOK
<1>4. ln # << >> => Head(l2) = Head(ln)
  BY <1>1, <1>2
<1>5. l2 # << >>
  BY <1>1
<1>6. p2[t] = o /\ \A x \in Tasks : x # t => p2[x] = p[x]
  OBVIOUS
<1> HIDE DEF l2, p2
<1>7. \A m, n \in 1..Len(l2) : l2[m] = l2[n] => m = n
  BY <1>1, <1>2, <1>3 DEF LineOK
<1>8. ASSUME NEW x \in Tasks PROVE p2[x].pc # "idle" <=> \E n \in 1..Len(l2) : l2[n] = x
  <2>1. CASE x = t
    BY <1>1, <1>2, <1>6, <2>1
  <2>2. CASE x # t
    <3>1. (\E n \in 1..Len(l2) : l2[n] = x) <=> \E n \in 1..Len(ln) : ln[n] = x
      BY <1>1, <1>2, <2>2
    <3> QED
      BY <1>6, <2>2, <3>1 DEF LineOK
  <2> QED
    BY <2>1, <2>2
<1>9. ASSUME NEW x \in Tasks, p2[x].pc \notin {"idle", "lock"}
      PROVE  l2 # << >> /\ Head(l2) = x /\ p2[x].slot = ow /\ ow # NoSlot
  BY <1>4, <1>5, <1>6, <1>9 DEF LineOK
<1> QED
  BY <1>2, <1>7, <1>8, <1>9 DEF LineOK, l2, p2

\* The first in line, which alone knows the worker, leaves; ow may change with it.
LEMMA LineLeft ==
  ASSUME NEW ln, NEW p \in [Tasks -> Operation], NEW ow, LineOK(ln, p, ow), NEW t \in Tasks,
         ln # << >>, Head(ln) = t, NEW ow2
  PROVE  LineOK(Tail(ln), [p EXCEPT ![t] = NoCall], ow2)
<1> DEFINE l2 == Tail(ln)
           p2 == [p EXCEPT ![t] = NoCall]
<1>1. ln \in Seq(Tasks) /\ Len(ln) \in Nat /\ Len(ln) # 0 /\ ln[1] = t
  BY EmptySeq DEF LineOK
<1>2. /\ l2 \in Seq(Tasks) /\ Len(l2) = Len(ln) - 1
      /\ \A n \in 1..Len(l2) : l2[n] = ln[n + 1]
  BY <1>1, HeadTailProperties
<1>3. p2[t] = NoCall /\ \A x \in Tasks : x # t => p2[x] = p[x]
  OBVIOUS
<1> HIDE DEF l2, p2
<1>4. \A m, n \in 1..Len(l2) : l2[m] = l2[n] => m = n
  <2> SUFFICES ASSUME NEW m \in 1..Len(l2), NEW n \in 1..Len(l2), l2[m] = l2[n] PROVE m = n
    OBVIOUS
  <2>1. m + 1 \in 1..Len(ln) /\ n + 1 \in 1..Len(ln) /\ ln[m + 1] = ln[n + 1]
    BY <1>1, <1>2
  <2>2. m + 1 = n + 1
    BY <2>1 DEF LineOK
  <2> QED
    BY <2>2
<1>5. ASSUME NEW x \in Tasks PROVE p2[x].pc # "idle" <=> \E n \in 1..Len(l2) : l2[n] = x
  <2>1. CASE x = t
    <3>1. ASSUME NEW n \in 1..Len(l2), l2[n] = t PROVE FALSE
      <4>1. n + 1 \in 1..Len(ln) /\ 1 \in 1..Len(ln) /\ ln[n + 1] = ln[1] /\ n + 1 # 1
        BY <1>1, <1>2, <3>1
      <4> QED
        BY <4>1 DEF LineOK
    <3> QED
      BY <1>3, <2>1, <3>1 DEF NoCall
  <2>2. CASE x # t
    <3>1. ASSUME NEW n \in 1..Len(ln), ln[n] = x PROVE n - 1 \in 1..Len(l2) /\ l2[n - 1] = x
      BY <1>1, <1>2, <2>2, <3>1
    <3>2. ASSUME NEW n \in 1..Len(l2), l2[n] = x PROVE n + 1 \in 1..Len(ln) /\ ln[n + 1] = x
      BY <1>1, <1>2, <3>2
    <3>3. p[x].pc # "idle" <=> \E n \in 1..Len(ln) : ln[n] = x
      BY DEF LineOK
    <3> QED
      BY <1>3, <2>2, <3>1, <3>2, <3>3
  <2> QED
    BY <2>1, <2>2
<1>6. ASSUME NEW x \in Tasks PROVE p2[x].pc \in {"idle", "lock"}
  BY <1>3 DEF LineOK, NoCall
<1> QED
  BY <1>2, <1>4, <1>5, <1>6 DEF LineOK, l2, p2

\* The first in line goes on, with a worker s it knows.
LEMMA LineGoesOn ==
  ASSUME NEW ln, NEW p \in [Tasks -> Operation], NEW ow, LineOK(ln, p, ow), NEW t \in Tasks,
         ln # << >>, Head(ln) = t, NEW s \in Slots, NEW o \in Operation, o.pc # "idle", o.slot = s
  PROVE  LineOK(ln, [p EXCEPT ![t] = o], s)
<1> DEFINE p2 == [p EXCEPT ![t] = o]
<1>1. p2[t] = o /\ \A x \in Tasks : x # t => p2[x] = p[x]
  OBVIOUS
<1> HIDE DEF p2
<1>2. ln \in Seq(Tasks) /\ Len(ln) \in Nat /\ Len(ln) # 0 /\ ln[1] = t
  BY EmptySeq DEF LineOK
<1>3. s # NoSlot
  BY ManagerAssumption DEF NoSlot
<1>4. p[t].pc # "idle" /\ \E n \in 1..Len(ln) : ln[n] = t
  BY <1>2 DEF LineOK
<1> QED
  BY <1>1, <1>2, <1>3, <1>4 DEF LineOK, p2

\* A task that is cancelled quits, wherever in the line it is.
LEMMA RemovedOnce ==
  ASSUME NEW ln \in Seq(Tasks), NEW i \in 1..Len(ln),
         \A m, n \in 1..Len(ln) : ln[m] = ln[n] => m = n
  PROVE  LET l2 == RemoveFirst(ln, ln[i]) IN
         /\ l2 \in Seq(Tasks) /\ Len(l2) = Len(ln) - 1
         /\ \A n \in 1..Len(l2) : l2[n] = IF n < i THEN ln[n] ELSE ln[n + 1]
<1> DEFINE I == {n \in 1..Len(ln) : ln[n] = ln[i]}
           a == SubSeq(ln, 1, i - 1)
           b == SubSeq(ln, i + 1, Len(ln))
<1>1. I = {i}
  OBVIOUS
<1>2. Min(I) = i
  BY <1>1 DEF Min
<1>3. RemoveFirst(ln, ln[i]) = a \o b
  BY <1>1, <1>2 DEF RemoveFirst, SelectInSeq, RemoveAt
<1>4. /\ a \in Seq(Tasks) /\ Len(a) = i - 1 /\ \A n \in 1..(i - 1) : a[n] = ln[n]
  <2>1. CASE i = 1
    <3>1. a = << >>
      BY <2>1, SubSeqEmpty
    <3> QED
      BY <2>1, <3>1
  <2>2. CASE i > 1
    BY <2>2, SubSeqProperties
  <2> QED
    BY <2>1, <2>2
<1>5. /\ b \in Seq(Tasks) /\ Len(b) = Len(ln) - i /\ \A n \in 1..(Len(ln) - i) : b[n] = ln[i + n]
  <2>1. Len(ln) \in Nat
    OBVIOUS
  <2>2. CASE i = Len(ln)
    <3>1. b = << >>
      BY <2>1, <2>2, SubSeqEmpty
    <3> QED
      BY <2>1, <2>2, <3>1
  <2>3. CASE i < Len(ln)
    BY <2>1, <2>3, SubSeqProperties
  <2> QED
    BY <2>1, <2>2, <2>3
<1> HIDE DEF a, b
<1>6. /\ a \o b \in Seq(Tasks) /\ Len(a \o b) = Len(a) + Len(b)
      /\ \A n \in 1..(Len(a) + Len(b)) : (a \o b)[n] = IF n <= Len(a) THEN a[n] ELSE b[n - Len(a)]
  <2>1. a \in Seq(Tasks) /\ b \in Seq(Tasks)
    BY <1>4, <1>5
  <2> QED
    BY <2>1, ConcatProperties
<1> DEFINE l2 == a \o b
<1> HIDE DEF l2
<1>7. l2 \in Seq(Tasks) /\ Len(l2) = Len(ln) - 1
  BY <1>4, <1>5, <1>6 DEF l2
<1>8. ASSUME NEW n \in 1..Len(l2) PROVE l2[n] = IF n < i THEN ln[n] ELSE ln[n + 1]
  <2>1. CASE n < i
    <3>1. n \in 1..(i - 1) /\ n <= Len(a) /\ n \in 1..(Len(a) + Len(b))
      BY <1>4, <1>5, <1>7, <2>1
    <3> QED
      BY <1>4, <1>6, <2>1, <3>1 DEF l2
  <2>2. CASE ~(n < i)
    <3>1. n - Len(a) \in 1..(Len(ln) - i) /\ i + (n - Len(a)) = n + 1 /\ ~(n <= Len(a))
      BY <1>4, <1>7, <2>2
    <3> QED
      BY <1>4, <1>5, <1>6, <1>7, <2>2, <3>1 DEF l2
  <2> QED
    BY <2>1, <2>2
<1> QED
  BY <1>3, <1>7, <1>8 DEF l2

LEMMA LineQuits ==
  ASSUME NEW ln, NEW p \in [Tasks -> Operation], NEW ow, LineOK(ln, p, ow), NEW t \in Tasks,
         p[t].pc # "idle"
  PROVE  LineOK(RemoveFirst(ln, t), [p EXCEPT ![t] = NoCall], ow)
<1> DEFINE l2 == RemoveFirst(ln, t)
           p2 == [p EXCEPT ![t] = NoCall]
<1>1. ln \in Seq(Tasks) /\ Len(ln) \in Nat /\ \A m, n \in 1..Len(ln) : ln[m] = ln[n] => m = n
  BY DEF LineOK
<1>2. PICK i \in 1..Len(ln) : ln[i] = t
  BY DEF LineOK
<1>3. /\ l2 \in Seq(Tasks) /\ Len(l2) = Len(ln) - 1
      /\ \A n \in 1..Len(l2) : l2[n] = IF n < i THEN ln[n] ELSE ln[n + 1]
  BY <1>1, <1>2, RemovedOnce
<1>4. p2[t] = NoCall /\ \A x \in Tasks : x # t => p2[x] = p[x]
  OBVIOUS
<1> HIDE DEF l2, p2
<1>5. \A m, n \in 1..Len(l2) : l2[m] = l2[n] => m = n
  <2> SUFFICES ASSUME NEW m \in 1..Len(l2), NEW n \in 1..Len(l2), l2[m] = l2[n] PROVE m = n
    OBVIOUS
  <2> DEFINE m2 == IF m < i THEN m ELSE m + 1
             n2 == IF n < i THEN n ELSE n + 1
  <2>1. m2 \in 1..Len(ln) /\ n2 \in 1..Len(ln) /\ ln[m2] = ln[n2]
    BY <1>1, <1>3
  <2>2. m2 = n2
    BY <1>1, <2>1
  <2> QED
    BY <2>2
<1>6. ASSUME NEW x \in Tasks PROVE p2[x].pc # "idle" <=> \E n \in 1..Len(l2) : l2[n] = x
  <2>1. CASE x = t
    <3>1. ASSUME NEW n \in 1..Len(l2), l2[n] = t PROVE FALSE
      BY <1>1, <1>2, <1>3, <3>1
    <3> QED
      BY <1>4, <2>1, <3>1 DEF NoCall
  <2>2. CASE x # t
    <3>1. ASSUME NEW n \in 1..Len(ln), ln[n] = x PROVE \E m \in 1..Len(l2) : l2[m] = x
      <4>1. CASE n < i
        BY <1>1, <1>3, <3>1, <4>1
      <4>2. CASE ~(n < i)
        <5>1. n - 1 \in 1..Len(l2) /\ ~(n - 1 < i) /\ (n - 1) + 1 = n
          BY <1>1, <1>2, <1>3, <2>2, <3>1, <4>2
        <5>2. l2[n - 1] = x
          BY <1>3, <3>1, <5>1
        <5> QED
          BY <5>1, <5>2
      <4> QED
        BY <4>1, <4>2
    <3>2. ASSUME NEW n \in 1..Len(l2), l2[n] = x PROVE \E m \in 1..Len(ln) : ln[m] = x
      BY <1>1, <1>3, <3>2
    <3>3. p[x].pc # "idle" <=> \E n \in 1..Len(ln) : ln[n] = x
      BY DEF LineOK
    <3> QED
      BY <1>4, <2>2, <3>1, <3>2, <3>3
  <2> QED
    BY <2>1, <2>2
<1>7. ASSUME NEW x \in Tasks, p2[x].pc \notin {"idle", "lock"}
      PROVE  l2 # << >> /\ Head(l2) = x /\ p2[x].slot = ow /\ ow # NoSlot
  <2>1. x # t /\ p2[x] = p[x]
    BY <1>4, <1>7 DEF NoCall
  <2>2. ln # << >> /\ Head(ln) = x /\ p[x].slot = ow /\ ow # NoSlot
    BY <1>7, <2>1 DEF LineOK
  <2>3. i # 1 /\ Len(ln) # 1 /\ ln[1] = x
    BY <1>1, <1>2, <2>1, <2>2
  <2>4. Len(l2) # 0 /\ l2[1] = x
    <3>1. Len(ln) \in Nat /\ i \in Nat /\ 1 < i /\ i <= Len(ln)
      BY <1>1, <2>3
    <3>2. Len(l2) # 0 /\ 1 \in 1..Len(l2)
      BY <1>1, <1>3, <3>1
    <3>3. l2[1] = ln[1]
      BY <1>3, <3>1, <3>2
    <3> QED
      BY <2>3, <3>2, <3>3
  <2>5. l2 # << >> /\ Head(l2) = l2[1]
    BY <1>3, <2>4
  <2> QED
    BY <2>1, <2>2, <2>4, <2>5
<1> QED
  BY <1>3, <1>5, <1>6, <1>7 DEF LineOK, l2, p2

\* A start that is cancelled stays first in line.
LEMMA LineSame ==
  ASSUME NEW ln, NEW p \in [Tasks -> Operation], NEW ow, LineOK(ln, p, ow), NEW t \in Tasks,
         NEW o \in Operation, o.pc # "idle", p[t].pc \notin {"idle", "lock"}, o.slot = p[t].slot
  PROVE  LineOK(ln, [p EXCEPT ![t] = o], ow)
<1> DEFINE p2 == [p EXCEPT ![t] = o]
<1>1. p2[t] = o /\ \A x \in Tasks : x # t => p2[x] = p[x]
  OBVIOUS
<1> HIDE DEF p2
<1> QED
  BY <1>1 DEF LineOK, p2

-----------------------------------------------------------------------------
(* A camera's workers.                                                     *)

\* The registered worker takes a step.
LEMMA WorkerPublishes ==
  ASSUME NEW wk \in [Slots -> Worker], NEW ow \in Slots, NEW st, WorkersOK(wk, ow, st),
         NEW l \in Lives, l.state # "NEW"
  PROVE  /\ [wk EXCEPT ![ow].life = l] \in [Slots -> Worker]
         /\ WorkersOK([wk EXCEPT ![ow].life = l], ow, l.state)
<1>1. ow # NoSlot
  BY ManagerAssumption DEF NoSlot
<1> QED
  BY <1>1 DEF WorkersOK, Worker

\* The registered worker, which is over, is forgotten.
LEMMA WorkerForgotten ==
  ASSUME NEW wk \in [Slots -> Worker], NEW ow \in Slots, NEW st, WorkersOK(wk, ow, st),
         wk[ow].life.state \in Terminal
  PROVE  /\ [wk EXCEPT ![ow] = NoWorker] \in [Slots -> Worker]
         /\ WorkersOK([wk EXCEPT ![ow] = NoWorker], NoSlot, st)
<1>1. ow # NoSlot
  BY ManagerAssumption DEF NoSlot
<1>2. NoWorker \in Worker
  BY DEF NoWorker, Worker, NewLife, Lives, LifeStates, Wanted
<1> QED
  BY <1>1, <1>2 DEF WorkersOK

\* A worker is registered where there was none.
LEMMA WorkerAdmitted ==
  ASSUME NEW wk \in [Slots -> Worker], NEW st, WorkersOK(wk, NoSlot, st), NEW s \in Slots,
         NEW d \in Wanted
  PROVE  /\ [wk EXCEPT ![s] = NewWorker(d)] \in [Slots -> Worker]
         /\ WorkersOK([wk EXCEPT ![s] = NewWorker(d)], s, "STARTING")
<1>1. s # NoSlot /\ NoSlot \notin Slots
  BY ManagerAssumption DEF NoSlot
<1>2. NewWorker(d) \in Worker /\ NewWorker(d).life.state = "STARTING"
  BY DEF NewWorker, Worker, Begun, Lives, LifeStates
<1> QED
  BY <1>1, <1>2 DEF WorkersOK

LEMMA AskedIsALife ==
  ASSUME NEW l \in Lives, l.state # "NEW"
  PROVE  AskedToStop(l) \in Lives /\ AskedToStop(l).state # "NEW"
BY DEF AskedToStop, Lives, LifeStates

LEMMA StepIsALife ==
  ASSUME NEW l \in Lives, NEW m \in OwnSteps(l)
  PROVE  l.state # "NEW" /\ m \in Lives /\ m.state # "NEW"
<1>1. l.state \in LifeStates /\ l.ready \in BOOLEAN
  BY DEF Lives
<1>2. l.state \in {"STARTING", "RUNNING", "STOPPING"}
  BY <1>1 DEF OwnSteps, LifeStates, Terminal
<1>3. m \in {[state |-> "RUNNING", ready |-> TRUE], [l EXCEPT !.state = "FAILED"],
             [state |-> "STOPPED", ready |-> TRUE]}
  BY <1>2 DEF OwnSteps
<1>4. [l EXCEPT !.state = "FAILED"] \in Lives /\ [l EXCEPT !.state = "FAILED"].state = "FAILED"
  BY DEF Lives, LifeStates, Terminal
<1>5. \A x \in {"RUNNING", "STOPPED"} : [state |-> x, ready |-> TRUE] \in Lives
  BY DEF Lives, LifeStates, Terminal
<1>6. m \in Lives /\ m.state # "NEW"
  <2>1. CASE m = [l EXCEPT !.state = "FAILED"]
    BY <1>4, <2>1
  <2>2. ASSUME NEW x \in {"RUNNING", "STOPPED"}, m = [state |-> x, ready |-> TRUE]
        PROVE  m \in Lives /\ m.state # "NEW"
    BY <1>5, <2>2
  <2> QED
    BY <1>3, <2>1, <2>2
<1> QED
  BY <1>2, <1>6

-----------------------------------------------------------------------------
(* Steps on the tables.                                                    *)

LEMMA SomeTasks ==
  /\ "reconcile" \in Tasks /\ "shutdown" \in Tasks
  /\ "reconcile" \notin Users /\ "shutdown" \notin Users /\ Users \subseteq Tasks
BY ManagerAssumption DEF Tasks

LEMMA NoCallTyped == NoCall \in Operation /\ NoCall.pc = "idle"
BY DEF NoCall, Operation, OpPcs, OpKinds, Wanted

LEMMA OpsOnTyped ==
  ASSUME TablesTypeOK, NEW c \in Cameras
  PROVE  OpsOn(c) \in [Tasks -> Operation] /\ \A t \in Tasks : OpsOn(c)[t] = ops[t][c]
BY DEF TablesTypeOK, OpsOn

\* One task moves, on any of the cameras.
LEMMA TaskMoves ==
  ASSUME TablesTypeOK, NEW t \in Tasks, NEW moves \in [Cameras -> Operation],
         ops' = [ops EXCEPT ![t] = moves],
         life' \in [Cameras -> [Slots -> Worker]], owned' \in [Cameras -> Slots \cup {NoSlot}],
         statuses' \in [Cameras -> LifeStates], line' \in [Cameras -> Seq(Tasks)],
         \A c \in Cameras : /\ LineOK(line'[c], [OpsOn(c) EXCEPT ![t] = moves[c]], owned'[c])
                            /\ WorkersOK(life'[c], owned'[c], statuses'[c])
  PROVE  TablesTypeOK' /\ CamerasKnow'
<1>1. TablesTypeOK'
  BY DEF TablesTypeOK
<1>2. ASSUME NEW c \in Cameras PROVE OpsOn(c)' = [OpsOn(c) EXCEPT ![t] = moves[c]]
  BY DEF TablesTypeOK, OpsOn
<1>3. CamerasKnow'
  BY <1>2 DEF CamerasKnow
<1> QED
  BY <1>1, <1>3

\* One task moves on one camera.
LEMMA OneCamera ==
  ASSUME TablesTypeOK, CamerasKnow, NEW t \in Tasks, NEW c \in Cameras, NEW o \in Operation,
         NEW ln \in Seq(Tasks), NEW ow \in Slots \cup {NoSlot}, NEW wk \in [Slots -> Worker],
         NEW st \in LifeStates,
         ops' = [ops EXCEPT ![t][c] = o], line' = [line EXCEPT ![c] = ln],
         owned' = [owned EXCEPT ![c] = ow], life' = [life EXCEPT ![c] = wk],
         statuses' = [statuses EXCEPT ![c] = st],
         LineOK(ln, [OpsOn(c) EXCEPT ![t] = o], ow), WorkersOK(wk, ow, st)
  PROVE  TablesTypeOK' /\ CamerasKnow'
<1> DEFINE moves == [ops[t] EXCEPT ![c] = o]
<1>1. moves \in [Cameras -> Operation] /\ ops' = [ops EXCEPT ![t] = moves] /\ moves[c] = o
      /\ \A x \in Cameras : x # c => moves[x] = ops[t][x]
  BY DEF TablesTypeOK
<1> HIDE DEF moves
<1>2. /\ life' \in [Cameras -> [Slots -> Worker]] /\ owned' \in [Cameras -> Slots \cup {NoSlot}]
      /\ statuses' \in [Cameras -> LifeStates] /\ line' \in [Cameras -> Seq(Tasks)]
  BY DEF TablesTypeOK
<1>3. ASSUME NEW x \in Cameras
      PROVE  /\ LineOK(line'[x], [OpsOn(x) EXCEPT ![t] = moves[x]], owned'[x])
             /\ WorkersOK(life'[x], owned'[x], statuses'[x])
  <2>1. CASE x = c
    BY <1>1, <2>1 DEF TablesTypeOK
  <2>2. CASE x # c
    <3>1. [OpsOn(x) EXCEPT ![t] = moves[x]] = OpsOn(x)
      BY <1>1, <2>2 DEF OpsOn
    <3>2. line'[x] = line[x] /\ owned'[x] = owned[x] /\ life'[x] = life[x] /\ statuses'[x] = statuses[x]
      BY <2>2 DEF TablesTypeOK
    <3> QED
      BY <3>1, <3>2 DEF CamerasKnow
  <2> QED
    BY <2>1, <2>2
<1> QED
  BY <1>1, <1>2, <1>3, TaskMoves

\* A registered worker fewer, and one more.
LEMMA CapacityFreed ==
  ASSUME TablesTypeOK, CapacityHeld, NEW c \in Cameras
  PROVE  /\ Registered([owned EXCEPT ![c] = NoSlot]) = Registered(owned) \ {c}
         /\ Cardinality(Registered([owned EXCEPT ![c] = NoSlot])) \in Nat
         /\ Cardinality(Registered([owned EXCEPT ![c] = NoSlot])) <= MaxActive
<1> DEFINE w == [owned EXCEPT ![c] = NoSlot]
<1>1. Registered(w) = Registered(owned) \ {c}
  BY DEF Registered, TablesTypeOK
<1> HIDE DEF w
<1>2. IsFiniteSet(Registered(owned)) /\ Registered(owned) \ {c} \subseteq Registered(owned)
  BY ManagerAssumption, FS_Subset DEF Registered
<1>3. /\ Cardinality(Registered(owned)) \in Nat /\ Cardinality(Registered(owned) \ {c}) \in Nat
      /\ Cardinality(Registered(owned) \ {c}) <= Cardinality(Registered(owned))
  BY <1>2, FS_Subset, FS_CardinalityType
<1>4. MaxActive \in Nat
  BY ManagerAssumption
<1>5. Cardinality(Registered(w)) \in Nat /\ Cardinality(Registered(w)) <= MaxActive
  BY <1>1, <1>3, <1>4 DEF CapacityHeld
<1> QED
  BY <1>1, <1>5 DEF w

LEMMA CapacityTaken ==
  ASSUME NEW w \in [Cameras -> Slots \cup {NoSlot}], NEW c \in Cameras, NEW s \in Slots, w[c] = NoSlot,
         ~(Cardinality(Registered(w)) >= MaxActive)
  PROVE  Cardinality(Registered([w EXCEPT ![c] = s])) <= MaxActive
<1>1. s # NoSlot /\ MaxActive \in Nat
  BY ManagerAssumption DEF NoSlot
<1> DEFINE v == [w EXCEPT ![c] = s]
<1>2. Registered(v) = Registered(w) \cup {c} /\ c \notin Registered(w)
  BY <1>1 DEF Registered
<1> HIDE DEF v
<1>3. IsFiniteSet(Registered(w))
  BY ManagerAssumption, FS_Subset DEF Registered
<1>4. Cardinality(Registered(w) \cup {c}) = Cardinality(Registered(w)) + 1
  BY <1>2, <1>3, FS_AddElement
<1>5. Cardinality(Registered(w)) \in Nat
  BY <1>3, FS_CardinalityType
<1>6. Cardinality(Registered(v)) <= MaxActive
  BY <1>1, <1>2, <1>4, <1>5
<1> QED
  BY <1>6 DEF v

\* A step of one operation keeps the invariant if it keeps the camera's parts of
\* it; a shutdown's operation ends only where there is no worker, and a worker
\* is admitted only while the manager is open.
LEMMA OpMoves ==
  ASSUME ServiceInv, NEW t \in Tasks, NEW c \in Cameras, ops[t][c].pc # "idle", NEW o \in Operation,
         NEW ln \in Seq(Tasks), NEW ow \in Slots \cup {NoSlot}, NEW wk \in [Slots -> Worker],
         NEW st \in LifeStates,
         ops' = [ops EXCEPT ![t][c] = o], line' = [line EXCEPT ![c] = ln],
         owned' = [owned EXCEPT ![c] = ow], life' = [life EXCEPT ![c] = wk],
         statuses' = [statuses EXCEPT ![c] = st],
         LineOK(ln, [OpsOn(c) EXCEPT ![t] = o], ow), WorkersOK(wk, ow, st),
         rec' \in Reconciliation, rec'.pc = rec.pc, UNCHANGED <<closed, shut, serviceVars>>,
         t = "shutdown" => \/ o.pc = "idle" /\ ow = NoSlot
                           \/ o.pc = "stopping" /\ o.kind = "shutdown",
         ow # NoSlot /\ owned[c] = NoSlot => ~closed,
         CapacityHeld'
  PROVE  ServiceInv'
<1>1. TablesTypeOK /\ CamerasKnow
  BY DEF ServiceInv
<1>2. TablesTypeOK' /\ CamerasKnow'
  BY <1>1, OneCamera
<1>3. TasksTypeOK'
  BY DEF ServiceInv, TasksTypeOK, serviceVars
<1>4. /\ ops'[t][c] = o
      /\ \A y \in Cameras : y # c => ops'[t][y] = ops[t][y] /\ owned'[y] = owned[y]
      /\ \A x \in Tasks, y \in Cameras : x # t => ops'[x][y] = ops[x][y]
      /\ owned'[c] = ow
  BY <1>1 DEF TablesTypeOK
<1>5. ShutdownKnows'
  <2>1. shut' = shut /\ closed' = closed /\ stopTask' = stopTask /\ startTask' = startTask
    BY DEF serviceVars
  <2>2. ShutdownKnows
    BY DEF ServiceInv
  <2>3. ASSUME NEW y \in Cameras, ops'["shutdown"][y].pc # "idle"
        PROVE  /\ shut = "stopping" /\ ops'["shutdown"][y].pc \in {"lock", "stopping"}
               /\ ops'["shutdown"][y].kind = "shutdown"
    <3>1. CASE t = "shutdown" /\ y = c
      <4>1. ops["shutdown"][c].pc # "idle"
        BY <3>1
      <4> QED
        BY <1>4, <2>2, <2>3, <3>1, <4>1 DEF ShutdownKnows
    <3>2. CASE t # "shutdown" \/ y # c
      <4>1. ops'["shutdown"][y] = ops["shutdown"][y]
        BY <1>4, <3>2, SomeTasks
      <4> QED
        BY <2>2, <2>3, <4>1 DEF ShutdownKnows
    <3> QED
      BY <3>1, <3>2
  <2>4. ASSUME shut \in {"stopping", "done"}, NEW y \in Cameras, owned'[y] # NoSlot
        PROVE  ops'["shutdown"][y].pc # "idle"
    <3>1. owned[y] # NoSlot
      BY <1>4, <2>2, <2>4 DEF ShutdownKnows
    <3>2. ops["shutdown"][y].pc # "idle"
      BY <2>2, <2>4, <3>1 DEF ShutdownKnows
    <3>3. CASE t = "shutdown" /\ y = c
      BY <1>4, <2>4, <3>3
    <3>4. CASE t # "shutdown" \/ y # c
      BY <1>4, <3>2, <3>4, SomeTasks
    <3> QED
      BY <3>3, <3>4
  <2> QED
    BY <2>1, <2>2, <2>3, <2>4 DEF ShutdownKnows
<1>6. ReconcileKnows'
  <2>1. rec'.pc = rec.pc /\ startTask' = startTask /\ stopTask' = stopTask /\ job' = job
    BY DEF serviceVars
  <2>2. ReconcileKnows
    BY DEF ServiceInv
  <2>3. ASSUME rec.pc \in {"idle", "ended"}, NEW y \in Cameras PROVE ops'["reconcile"][y].pc = "idle"
    <3>1. \A x \in Cameras : ops["reconcile"][x].pc = "idle"
      BY <2>2, <2>3 DEF ReconcileKnows, Busy
    <3>2. t # "reconcile"
      BY <3>1
    <3> QED
      BY <1>4, <3>1, <3>2, SomeTasks
  <2>4. rec'.pc \in {"idle", "ended"} => ~Busy("reconcile")'
    BY <2>1, <2>3 DEF Busy
  <2> QED
    BY <2>1, <2>2, <2>4 DEF ReconcileKnows
<1> QED
  BY <1>2, <1>3, <1>5, <1>6 DEF ServiceInv

-----------------------------------------------------------------------------
(* The steps of an operation.                                              *)

\* What the invariant says of camera c, and of a task that is past its lock.
LEMMA CameraFacts ==
  ASSUME ServiceInv, NEW c \in Cameras
  PROVE  /\ OpsOn(c) \in [Tasks -> Operation] /\ \A t \in Tasks : OpsOn(c)[t] = ops[t][c]
         /\ life[c] \in [Slots -> Worker] /\ owned[c] \in Slots \cup {NoSlot}
         /\ statuses[c] \in LifeStates /\ line[c] \in Seq(Tasks)
         /\ LineOK(line[c], OpsOn(c), owned[c]) /\ WorkersOK(life[c], owned[c], statuses[c])
         /\ \A t \in Tasks : ops[t][c] \in Operation
<1>1. TablesTypeOK /\ CamerasKnow
  BY DEF ServiceInv
<1>2. OpsOn(c) \in [Tasks -> Operation] /\ \A t \in Tasks : OpsOn(c)[t] = ops[t][c]
  BY <1>1, OpsOnTyped
<1> QED
  BY <1>1, <1>2 DEF TablesTypeOK, CamerasKnow

LEMMA PastTheLock ==
  ASSUME ServiceInv, NEW t \in Tasks, NEW c \in Cameras, ops[t][c].pc \notin {"idle", "lock"}
  PROVE  /\ Holds(t, c) /\ ops[t][c].slot = owned[c] /\ owned[c] \in Slots
         /\ life[c][owned[c]] \in Worker /\ life[c][owned[c]].life \in Lives
         /\ life[c][owned[c]].life.state # "NEW"
<1>1. /\ OpsOn(c)[t] = ops[t][c] /\ life[c] \in [Slots -> Worker] /\ owned[c] \in Slots \cup {NoSlot}
      /\ LineOK(line[c], OpsOn(c), owned[c]) /\ WorkersOK(life[c], owned[c], statuses[c])
  BY CameraFacts
<1>2. Holds(t, c) /\ ops[t][c].slot = owned[c] /\ owned[c] # NoSlot
  BY <1>1 DEF LineOK, Holds
<1>3. owned[c] \in Slots /\ life[c][owned[c]] \in Worker /\ life[c][owned[c]].life.state # "NEW"
  BY <1>1, <1>2 DEF WorkersOK
<1> QED
  BY <1>2, <1>3 DEF Worker

\* The operation ends; its camera's worker stays or is forgotten.
LEMMA OpLeaves ==
  ASSUME ServiceInv, NEW t \in Tasks, NEW c \in Cameras, ops[t][c].pc # "idle", Holds(t, c),
         NEW failed \in BOOLEAN, Leaves(t, c, failed),
         NEW ow \in {owned[c], NoSlot}, NEW wk \in [Slots -> Worker], WorkersOK(wk, ow, statuses[c]),
         owned' = [owned EXCEPT ![c] = ow], life' = [life EXCEPT ![c] = wk], statuses' = statuses,
         UNCHANGED <<closed, shut, serviceVars>>, t = "shutdown" => ow = NoSlot
  PROVE  ServiceInv'
<1>1. /\ OpsOn(c) \in [Tasks -> Operation] /\ owned[c] \in Slots \cup {NoSlot}
      /\ statuses[c] \in LifeStates /\ line[c] \in Seq(Tasks)
      /\ LineOK(line[c], OpsOn(c), owned[c])
  BY CameraFacts
<1>2. line[c] # << >> /\ Head(line[c]) = t
  BY DEF Holds
<1>3. LineOK(Tail(line[c]), [OpsOn(c) EXCEPT ![t] = NoCall], ow)
  BY <1>1, <1>2, LineLeft
<1>4. Tail(line[c]) \in Seq(Tasks)
  BY <1>1, <1>2
<1>5. TablesTypeOK /\ CapacityHeld /\ TasksTypeOK
  BY DEF ServiceInv
<1>6. statuses' = [statuses EXCEPT ![c] = statuses[c]]
  BY <1>5 DEF TablesTypeOK
<1>7. rec' \in Reconciliation /\ rec'.pc = rec.pc
  <2>1. rec \in Reconciliation /\ rec' = [rec EXCEPT !.failed = @ \/ (failed /\ t = "reconcile")]
    BY <1>5 DEF Leaves, TasksTypeOK
  <2> DEFINE f == rec.failed \/ (failed /\ t = "reconcile")
  <2>2. f \in BOOLEAN /\ rec' = [rec EXCEPT !.failed = f]
    BY <2>1, Zenon
  <2> HIDE DEF f
  <2> QED
    BY <2>1, <2>2 DEF Reconciliation
<1>8. CapacityHeld'
  <2>1. CASE ow = NoSlot
    BY <1>5, <2>1, CapacityFreed DEF CapacityHeld
  <2>2. CASE ow = owned[c]
    <3>1. owned' = owned
      BY <1>5, <2>2 DEF TablesTypeOK
    <3> QED
      BY <1>5, <3>1 DEF CapacityHeld, Registered
  <2> QED
    BY <2>1, <2>2
<1>9. line' = [line EXCEPT ![c] = Tail(line[c])] /\ ops' = [ops EXCEPT ![t][c] = NoCall]
  BY <1>5 DEF Leaves, TablesTypeOK
<1>10. NoCall \in Operation /\ NoCall.pc = "idle"
  BY NoCallTyped
<1>11. ow \in Slots \cup {NoSlot} /\ (ow # NoSlot /\ owned[c] = NoSlot => ~closed)
  BY <1>1
<1> QED
  BY <1>1, <1>3, <1>4, <1>6, <1>7, <1>8, <1>9, <1>10, <1>11, OpMoves

\* The operation goes on, past the lock, to wait for the worker of slot s.
LEMMA OpWaits ==
  ASSUME ServiceInv, NEW t \in Tasks, NEW c \in Cameras, ops[t][c].pc # "idle", Holds(t, c),
         NEW pc \in OpPcs \ {"idle"}, NEW s \in Slots, Waits(t, c, pc, s),
         NEW wk \in [Slots -> Worker], NEW st \in LifeStates, WorkersOK(wk, s, st),
         owned' = [owned EXCEPT ![c] = s], life' = [life EXCEPT ![c] = wk],
         statuses' = [statuses EXCEPT ![c] = st], CapacityHeld',
         UNCHANGED <<closed, shut, serviceVars>>, t = "shutdown" => pc = "stopping",
         owned[c] = NoSlot => ~closed
  PROVE  ServiceInv'
<1> DEFINE o == [ops[t][c] EXCEPT !.pc = pc, !.slot = s]
<1>1. /\ OpsOn(c) \in [Tasks -> Operation] /\ owned[c] \in Slots \cup {NoSlot} /\ ops[t][c] \in Operation
      /\ statuses[c] \in LifeStates /\ line[c] \in Seq(Tasks)
      /\ LineOK(line[c], OpsOn(c), owned[c])
  BY CameraFacts
<1>2. line[c] # << >> /\ Head(line[c]) = t
  BY DEF Holds
<1>3. TablesTypeOK /\ TasksTypeOK /\ ShutdownKnows
  BY DEF ServiceInv
<1>4. o \in Operation /\ o.pc = pc /\ o.slot = s /\ o.kind = ops[t][c].kind
  BY <1>1 DEF Operation
<1>5. ops' = [ops EXCEPT ![t][c] = o]
  BY <1>3 DEF Waits, TablesTypeOK, Operation
<1> HIDE DEF o
<1>6. LineOK(line[c], [OpsOn(c) EXCEPT ![t] = o], s)
  BY <1>1, <1>2, <1>4, LineGoesOn
<1>7. line' = [line EXCEPT ![c] = line[c]] /\ rec' = rec /\ rec \in Reconciliation
  BY <1>3 DEF Waits, TablesTypeOK, TasksTypeOK
<1>8. t = "shutdown" => o.pc = "stopping" /\ o.kind = "shutdown"
  BY <1>3, <1>4 DEF ShutdownKnows
<1> QED
  BY <1>1, <1>4, <1>5, <1>6, <1>7, <1>8, OpMoves

\* The second half of start and restart, where the camera has no worker any more.
LEMMA AdmitKeeps ==
  ASSUME ServiceInv, NEW t \in Tasks, NEW c \in Cameras, ops[t][c].pc # "idle", Holds(t, c),
         t # "shutdown", NEW wk \in [Slots -> Worker], WorkersOK(wk, NoSlot, statuses[c]),
         NEW w, w = [owned EXCEPT ![c] = NoSlot], NEW v, v = [life EXCEPT ![c] = wk],
         Admit(t, c, w, v), UNCHANGED <<closed, shut, serviceVars>>
  PROVE  ServiceInv'
<1>1. TablesTypeOK /\ CapacityHeld /\ ops[t][c] \in Operation
  BY CameraFacts DEF ServiceInv
<1>2. w \in [Cameras -> Slots \cup {NoSlot}] /\ w[c] = NoSlot /\ v[c] = wk
  BY <1>1 DEF TablesTypeOK
<1>3. CASE ~AdmissionOpen \/ Cardinality(Registered(w)) >= MaxActive
  <2>1. Leaves(t, c, TRUE) /\ owned' = w /\ life' = v /\ statuses' = statuses
    BY <1>3 DEF Admit, Registered
  <2> QED
    BY <2>1, OpLeaves
<1>4. CASE ~(~AdmissionOpen \/ Cardinality(Registered(w)) >= MaxActive)
  <2>1. PICK s \in Slots :
          /\ owned' = [w EXCEPT ![c] = s]
          /\ life' = [v EXCEPT ![c][s] = NewWorker(ops[t][c].def)]
          /\ statuses' = [statuses EXCEPT ![c] = "STARTING"]
          /\ Waits(t, c, "starting", s)
    BY <1>4 DEF Admit, Registered
  <2> DEFINE wk2 == [wk EXCEPT ![s] = NewWorker(ops[t][c].def)]
  <2>2. ops[t][c].def \in Wanted
    BY <1>1 DEF Operation
  <2>3. wk2 \in [Slots -> Worker] /\ WorkersOK(wk2, s, "STARTING")
    BY <2>2, WorkerAdmitted
  <2>4. owned' = [owned EXCEPT ![c] = s] /\ life' = [life EXCEPT ![c] = wk2]
    BY <1>1, <2>1 DEF TablesTypeOK
  <2> HIDE DEF wk2
  <2>5. CapacityHeld'
    BY <1>2, <1>4, <2>1, CapacityTaken DEF CapacityHeld
  <2>6. ~closed /\ "starting" \in OpPcs \ {"idle"} /\ "STARTING" \in LifeStates
    BY <1>4 DEF AdmissionOpen, OpPcs, LifeStates
  <2> QED
    BY <2>1, <2>3, <2>4, <2>5, <2>6, OpWaits
<1> QED
  BY <1>3, <1>4

\* The registered worker publishes l, and the operation waits for it.
LEMMA PublishAndWait ==
  ASSUME ServiceInv, NEW t \in Tasks, NEW c \in Cameras, ops[t][c].pc # "idle", Holds(t, c),
         owned[c] # NoSlot, NEW pc \in OpPcs \ {"idle"}, t = "shutdown" => pc = "stopping",
         Publish(c, owned[c], AskedToStop(life[c][owned[c]].life)), Waits(t, c, pc, owned[c]),
         UNCHANGED <<owned, closed, shut, serviceVars>>
  PROVE  ServiceInv'
<1> DEFINE s == owned[c]
           l == AskedToStop(life[c][s].life)
           wk == [life[c] EXCEPT ![s].life = l]
<1>1. /\ s \in Slots /\ life[c] \in [Slots -> Worker] /\ WorkersOK(life[c], s, statuses[c])
      /\ TablesTypeOK /\ CapacityHeld
  BY CameraFacts DEF ServiceInv
<1>2. life[c][s].life \in Lives /\ life[c][s].life.state # "NEW"
  BY <1>1 DEF WorkersOK, Worker
<1>3. l \in Lives /\ l.state # "NEW"
  BY <1>2, AskedIsALife
<1> HIDE DEF l
<1>4. wk \in [Slots -> Worker] /\ WorkersOK(wk, s, l.state)
  BY <1>1, <1>3, WorkerPublishes
<1>5. /\ life' = [life EXCEPT ![c] = wk] /\ statuses' = [statuses EXCEPT ![c] = l.state]
      /\ owned' = [owned EXCEPT ![c] = s]
  BY <1>1 DEF Publish, TablesTypeOK, l
<1>6. CapacityHeld'
  BY <1>1 DEF CapacityHeld, Registered
<1>7. l.state \in LifeStates
  BY <1>3 DEF Lives
<1> HIDE DEF wk
<1> QED
  BY <1>1, <1>4, <1>5, <1>6, <1>7, OpWaits

LEMMA EnterKeeps ==
  ASSUME ServiceInv, NEW t \in Tasks, NEW c \in Cameras, Enter(t, c), UNCHANGED serviceVars
  PROVE  ServiceInv'
<1> DEFINE s == owned[c]
           kind == ops[t][c].kind
<1>1. /\ ops[t][c].pc = "lock" /\ Holds(t, c) /\ UNCHANGED <<closed, shut, serviceVars>>
  BY DEF Enter
<1>2. /\ life[c] \in [Slots -> Worker] /\ s \in Slots \cup {NoSlot}
      /\ WorkersOK(life[c], s, statuses[c]) /\ TablesTypeOK /\ ShutdownKnows
  BY CameraFacts DEF ServiceInv
<1>3. t = "shutdown" => kind = "shutdown"
  BY <1>1 DEF ServiceInv, ShutdownKnows
<1>4. owned = [owned EXCEPT ![c] = owned[c]] /\ life = [life EXCEPT ![c] = life[c]]
  BY <1>2 DEF TablesTypeOK
<1>5. CASE Leaves(t, c, FALSE) /\ UNCHANGED workerVars /\ (t = "shutdown" => s = NoSlot)
  <2>1. owned' = [owned EXCEPT ![c] = owned[c]] /\ life' = [life EXCEPT ![c] = life[c]] /\ statuses' = statuses
    BY <1>4, <1>5 DEF workerVars
  <2> QED
    BY <1>1, <1>2, <1>5, <2>1, OpLeaves
<1>6. CASE /\ s # NoSlot /\ Publish(c, s, AskedToStop(life[c][s].life)) /\ Waits(t, c, "stopping", s)
           /\ UNCHANGED owned
  <2>1. "stopping" \in OpPcs \ {"idle"}
    BY DEF OpPcs
  <2> QED
    BY <1>1, <1>6, <2>1, PublishAndWait
<1>7. CASE s = NoSlot /\ kind \in {"start", "restart"} /\ Admit(t, c, owned, life)
  <2>1. owned = [owned EXCEPT ![c] = NoSlot] /\ t # "shutdown"
    BY <1>3, <1>4, <1>7
  <2>2. WorkersOK(life[c], NoSlot, statuses[c])
    BY <1>2, <1>7
  <2> QED
    BY <1>1, <1>2, <1>4, <1>7, <2>1, <2>2, AdmitKeeps
<1> QED
  BY <1>3, <1>5, <1>6, <1>7 DEF Enter

\* What _remove_worker leaves of the registered worker, which is over.
LEMMA Forgets ==
  ASSUME ServiceInv, NEW c \in Cameras, owned[c] \in Slots, Over(c, owned[c])
  PROVE  /\ Removed(c, owned[c]) = [owned EXCEPT ![c] = NoSlot]
         /\ Forgotten(c, owned[c]) = [life EXCEPT ![c] = [life[c] EXCEPT ![owned[c]] = NoWorker]]
         /\ [life[c] EXCEPT ![owned[c]] = NoWorker] \in [Slots -> Worker]
         /\ WorkersOK([life[c] EXCEPT ![owned[c]] = NoWorker], NoSlot, statuses[c])
<1>1. TablesTypeOK /\ life[c] \in [Slots -> Worker] /\ WorkersOK(life[c], owned[c], statuses[c])
  BY CameraFacts DEF ServiceInv
<1>2. Removed(c, owned[c]) = [owned EXCEPT ![c] = NoSlot]
  BY <1>1 DEF Removed, TablesTypeOK
<1>3. Forgotten(c, owned[c]) = [life EXCEPT ![c] = [life[c] EXCEPT ![owned[c]] = NoWorker]]
  BY <1>1 DEF Forgotten, TablesTypeOK
<1>4. life[c][owned[c]].life.state \in Terminal
  BY DEF Over
<1> QED
  BY <1>1, <1>2, <1>3, <1>4, WorkerForgotten

\* The operation ends and its worker, which is over, is forgotten.
LEMMA ForgetAndLeave ==
  ASSUME ServiceInv, NEW t \in Tasks, NEW c \in Cameras, ops[t][c].pc \notin {"idle", "lock"},
         Over(c, owned[c]), NEW failed \in BOOLEAN, Leaves(t, c, failed),
         owned' = Removed(c, owned[c]), life' = Forgotten(c, owned[c]), statuses' = statuses,
         UNCHANGED <<closed, shut, serviceVars>>
  PROVE  ServiceInv'
<1> DEFINE wk == [life[c] EXCEPT ![owned[c]] = NoWorker]
<1>1. Holds(t, c) /\ owned[c] \in Slots
  BY PastTheLock
<1>2. /\ owned' = [owned EXCEPT ![c] = NoSlot] /\ life' = [life EXCEPT ![c] = wk]
      /\ wk \in [Slots -> Worker] /\ WorkersOK(wk, NoSlot, statuses[c])
  BY <1>1, Forgets
<1> HIDE DEF wk
<1>3. CASE failed = TRUE
  <2>1. Leaves(t, c, TRUE)
    BY <1>3
  <2> QED
    BY <1>1, <1>2, <2>1, OpLeaves
<1>4. CASE failed = FALSE
  <2>1. Leaves(t, c, FALSE)
    BY <1>4
  <2> QED
    BY <1>1, <1>2, <2>1, OpLeaves
<1> QED
  BY <1>3, <1>4

LEMMA StopReturnsKeeps ==
  ASSUME ServiceInv, NEW t \in Tasks, NEW c \in Cameras, NEW unclean \in BOOLEAN,
         StopReturns(t, c, unclean), UNCHANGED serviceVars
  PROVE  ServiceInv'
<1> DEFINE s == ops[t][c].slot
           kind == ops[t][c].kind
<1>1. ops[t][c].pc = "stopping" /\ Over(c, s) /\ UNCHANGED <<closed, shut, serviceVars>>
  BY DEF StopReturns
<1>2. Holds(t, c) /\ s = owned[c] /\ owned[c] \in Slots
  BY <1>1, PastTheLock
<1>3. CASE kind \in {"start", "restart"} /\ ~unclean
  <2> DEFINE wk == [life[c] EXCEPT ![owned[c]] = NoWorker]
  <2>1. t # "shutdown"
    BY <1>1, <1>3 DEF ServiceInv, ShutdownKnows
  <2>2. Admit(t, c, Removed(c, owned[c]), Forgotten(c, owned[c]))
    BY <1>2, <1>3 DEF StopReturns
  <2>3. /\ Removed(c, owned[c]) = [owned EXCEPT ![c] = NoSlot]
        /\ Forgotten(c, owned[c]) = [life EXCEPT ![c] = wk]
        /\ wk \in [Slots -> Worker] /\ WorkersOK(wk, NoSlot, statuses[c])
    BY <1>1, <1>2, Forgets
  <2> HIDE DEF wk
  <2> QED
    BY <1>1, <1>2, <2>1, <2>2, <2>3, AdmitKeeps
<1>4. CASE ~(kind \in {"start", "restart"} /\ ~unclean)
  <2> DEFINE f == unclean \/ life[c][s].life.state = "FAILED"
  <2>1. /\ Leaves(t, c, f) /\ owned' = Removed(c, owned[c]) /\ life' = Forgotten(c, owned[c])
        /\ statuses' = statuses
    BY <1>2, <1>4 DEF StopReturns
  <2>2. f \in BOOLEAN
    BY Zenon
  <2> HIDE DEF f
  <2> QED
    BY <1>1, <1>2, <2>1, <2>2, ForgetAndLeave
<1> QED
  BY <1>3, <1>4

LEMMA StartReturnsKeeps ==
  ASSUME ServiceInv, NEW t \in Tasks, NEW c \in Cameras, StartReturns(t, c), UNCHANGED serviceVars
  PROVE  ServiceInv'
<1> DEFINE s == ops[t][c].slot
<1>1. ops[t][c].pc = "starting" /\ UNCHANGED <<owned, closed, shut, serviceVars>>
  BY DEF StartReturns
<1>2. Holds(t, c) /\ s = owned[c] /\ owned[c] \in Slots /\ owned[c] # NoSlot
  BY <1>1, PastTheLock, ManagerAssumption DEF NoSlot
<1>3. t # "shutdown"
  BY <1>1 DEF ServiceInv, ShutdownKnows
<1>4. CASE ~AdmissionOpen
  <2>1. Publish(c, owned[c], AskedToStop(life[c][owned[c]].life)) /\ Waits(t, c, "refusing", owned[c])
    BY <1>2, <1>4 DEF StartReturns
  <2>2. "refusing" \in OpPcs \ {"idle"}
    BY DEF OpPcs
  <2> QED
    BY <1>1, <1>2, <1>3, <2>1, <2>2, PublishAndWait
<1>5. CASE AdmissionOpen
  <2>1. /\ life[c] \in [Slots -> Worker] /\ WorkersOK(life[c], owned[c], statuses[c]) /\ TablesTypeOK
    BY CameraFacts DEF ServiceInv
  <2>2. Leaves(t, c, FALSE) /\ statuses' = statuses
    BY <1>5 DEF StartReturns
  <2>3. owned' = [owned EXCEPT ![c] = owned[c]] /\ life' = [life EXCEPT ![c] = life[c]]
    BY <1>1, <1>5, <2>1 DEF StartReturns, TablesTypeOK
  <2> QED
    BY <1>1, <1>2, <1>3, <2>1, <2>2, <2>3, OpLeaves
<1> QED
  BY <1>4, <1>5

LEMMA StartFailsKeeps ==
  ASSUME ServiceInv, NEW t \in Tasks, NEW c \in Cameras, StartFails(t, c), UNCHANGED serviceVars
  PROVE  ServiceInv'
<1> DEFINE s == ops[t][c].slot
<1>1. /\ \/ ops[t][c].pc = "starting"
         \/ ops[t][c].pc \in {"refusing", "unwinding"}
      /\ Over(c, s) /\ Leaves(t, c, TRUE)
      /\ owned' = Removed(c, s) /\ life' = Forgotten(c, s) /\ statuses' = statuses
      /\ UNCHANGED <<closed, shut, serviceVars>>
  BY DEF StartFails
<1>2. ops[t][c].pc \notin {"idle", "lock"}
  BY <1>1
<1>3. s = owned[c]
  BY <1>2, PastTheLock
<1> QED
  BY <1>1, <1>2, <1>3, ForgetAndLeave

-----------------------------------------------------------------------------
(* Steps that concern several cameras, or none.                            *)

LEMMA SameTables ==
  ASSUME TablesTypeOK, CamerasKnow, UNCHANGED <<life, owned, statuses, line, ops>>
  PROVE  TablesTypeOK' /\ CamerasKnow'
<1>1. TablesTypeOK'
  BY DEF TablesTypeOK
<1>2. CamerasKnow'
  BY DEF CamerasKnow, OpsOn
<1> QED
  BY <1>1, <1>2

\* A worker takes a step of its own.
LEMMA WorkerStepsKeeps ==
  ASSUME ServiceInv, NEW c \in Cameras, NEW s \in Slots, WorkerSteps(c, s), UNCHANGED serviceVars
  PROVE  ServiceInv'
<1>1. PICK l \in OwnSteps(life[c][s].life) : Publish(c, s, l)
  BY DEF WorkerSteps
<1>2. UNCHANGED <<owned, line, ops, closed, shut, rec, serviceVars>>
  BY DEF WorkerSteps
<1>3. /\ life[c] \in [Slots -> Worker] /\ WorkersOK(life[c], owned[c], statuses[c])
      /\ OpsOn(c) \in [Tasks -> Operation] /\ line[c] \in Seq(Tasks) /\ owned[c] \in Slots \cup {NoSlot}
      /\ LineOK(line[c], OpsOn(c), owned[c]) /\ TablesTypeOK /\ CamerasKnow
  BY CameraFacts DEF ServiceInv
<1>4. life[c][s].life \in Lives
  BY <1>3 DEF Worker
<1>5. life[c][s].life.state # "NEW" /\ l \in Lives /\ l.state # "NEW" /\ l.state \in LifeStates
  BY <1>4, StepIsALife DEF Lives
<1>6. owned[c] = s
  BY <1>3, <1>5 DEF WorkersOK, NoWorker, NewLife
<1> DEFINE wk == [life[c] EXCEPT ![s].life = l]
           o == ops["shutdown"][c]
<1>7. wk \in [Slots -> Worker] /\ WorkersOK(wk, owned[c], l.state)
  BY <1>3, <1>5, <1>6, WorkerPublishes
<1>8. /\ life' = [life EXCEPT ![c] = wk] /\ statuses' = [statuses EXCEPT ![c] = l.state]
      /\ owned' = [owned EXCEPT ![c] = owned[c]] /\ line' = [line EXCEPT ![c] = line[c]]
  BY <1>1, <1>2, <1>3 DEF Publish, TablesTypeOK
<1> HIDE DEF wk
<1>9. /\ o \in Operation /\ ops' = [ops EXCEPT !["shutdown"][c] = o]
      /\ [OpsOn(c) EXCEPT !["shutdown"] = o] = OpsOn(c)
  BY <1>2, <1>3, SomeTasks DEF TablesTypeOK, OpsOn
<1> HIDE DEF o
<1>10. TablesTypeOK' /\ CamerasKnow'
  <2>1. LineOK(line[c], [OpsOn(c) EXCEPT !["shutdown"] = o], owned[c]) /\ "shutdown" \in Tasks
    BY <1>3, <1>9, SomeTasks
  <2> QED
    BY <1>3, <1>5, <1>7, <1>8, <1>9, <2>1, OneCamera
<1>11. TasksTypeOK' /\ ShutdownKnows' /\ ReconcileKnows' /\ CapacityHeld'
  BY <1>2 DEF ServiceInv, TasksTypeOK, ShutdownKnows, ReconcileKnows, Busy, CapacityHeld, Registered, serviceVars
<1> QED
  BY <1>10, <1>11 DEF ServiceInv

LEMMA LineIdle ==
  ASSUME NEW ln, NEW p \in [Tasks -> Operation], NEW ow, LineOK(ln, p, ow), NEW t \in Tasks,
         p[t].pc = "idle"
  PROVE  LineOK(ln, [p EXCEPT ![t] = NoCall], ow)
<1> DEFINE p2 == [p EXCEPT ![t] = NoCall]
<1>1. p2[t] = NoCall /\ \A x \in Tasks : x # t => p2[x] = p[x]
  OBVIOUS
<1> HIDE DEF p2
<1> QED
  BY <1>1, NoCallTyped DEF LineOK, p2

\* A task begins an operation on each camera of K.
LEMMA GatherKeeps ==
  ASSUME ServiceInv, NEW t \in Tasks, ~Busy(t), NEW K \in SUBSET Cameras,
         NEW kind \in [Cameras -> OpKinds], NEW d \in [Cameras -> Wanted],
         Gather(t, K, kind, d), UNCHANGED workerVars
  PROVE  /\ TablesTypeOK' /\ CamerasKnow'
         /\ \A c \in Cameras : c \in K => ops'[t][c].pc = "lock" /\ ops'[t][c].kind = kind[c]
         /\ \A c \in Cameras : c \notin K => ops'[t][c].pc = "idle"
         /\ \A x \in Tasks : x # t => ops'[x] = ops[x]
<1> DEFINE o(c) == [NoCall EXCEPT !.pc = "lock", !.kind = kind[c], !.def = d[c]]
           moves == [c \in Cameras |-> IF c \in K THEN o(c) ELSE NoCall]
<1>1. TablesTypeOK
  BY DEF ServiceInv
<1>2. ASSUME NEW c \in Cameras
      PROVE  /\ o(c) \in Operation /\ o(c).pc = "lock" /\ o(c).kind = kind[c]
  BY DEF NoCall, Operation, OpPcs, OpKinds
<1>3. ops' = [ops EXCEPT ![t] = moves]
  BY DEF Gather
<1>4. /\ moves \in [Cameras -> Operation] /\ \A c \in Cameras : c \in K => moves[c] = o(c)
      /\ \A c \in Cameras : c \notin K => moves[c] = NoCall
  BY <1>2, NoCallTyped
<1> HIDE DEF moves, o
<1>5. \A c \in Cameras : line'[c] = IF c \in K THEN Append(line[c], t) ELSE line[c]
  BY DEF Gather
<1>6. line' \in [Cameras -> Seq(Tasks)]
  <2>1. \A c \in Cameras : line[c] \in Seq(Tasks) /\ Append(line[c], t) \in Seq(Tasks)
    BY <1>1 DEF TablesTypeOK
  <2> QED
    BY <2>1 DEF Gather
<1>7. /\ life' = life /\ owned' = owned /\ statuses' = statuses
  BY DEF workerVars
<1>8. ASSUME NEW c \in Cameras
      PROVE  /\ LineOK(line'[c], [OpsOn(c) EXCEPT ![t] = moves[c]], owned'[c])
             /\ WorkersOK(life'[c], owned'[c], statuses'[c])
  <2>1. /\ OpsOn(c) \in [Tasks -> Operation] /\ OpsOn(c)[t] = ops[t][c]
        /\ LineOK(line[c], OpsOn(c), owned[c]) /\ WorkersOK(life[c], owned[c], statuses[c])
    BY CameraFacts
  <2>2. OpsOn(c)[t].pc = "idle"
    BY <2>1 DEF Busy
  <2>3. CASE c \in K
    <3>1. LineOK(Append(line[c], t), [OpsOn(c) EXCEPT ![t] = o(c)], owned[c])
      BY <1>2, <2>1, <2>2, LineJoins
    <3> QED
      BY <1>4, <1>5, <1>7, <2>1, <2>3, <3>1
  <2>4. CASE c \notin K
    <3>1. LineOK(line[c], [OpsOn(c) EXCEPT ![t] = NoCall], owned[c])
      BY <2>1, <2>2, LineIdle
    <3> QED
      BY <1>4, <1>5, <1>7, <2>1, <2>4, <3>1
  <2> QED
    BY <2>3, <2>4
<1>9. TablesTypeOK' /\ CamerasKnow'
  <2>1. /\ life' \in [Cameras -> [Slots -> Worker]] /\ owned' \in [Cameras -> Slots \cup {NoSlot}]
        /\ statuses' \in [Cameras -> LifeStates]
    BY <1>1, <1>7 DEF TablesTypeOK
  <2> QED
    BY <1>1, <1>3, <1>4, <1>6, <1>8, <2>1, TaskMoves
<1>10. ops'[t] = moves /\ \A x \in Tasks : x # t => ops'[x] = ops[x]
  BY <1>1, <1>3 DEF TablesTypeOK
<1> QED
  BY <1>2, <1>4, <1>9, <1>10, NoCallTyped

\* What cancellation makes of an operation.
LEMMA CancelCases ==
  ASSUME NEW o \in Operation
  PROVE  /\ o.pc \in {"lock", "stopping", "refusing"} => AfterCancel(o) = NoCall
         /\ o.pc = "starting" => /\ AfterCancel(o) \in Operation /\ AfterCancel(o).pc = "unwinding"
                                 /\ AfterCancel(o).slot = o.slot /\ AfterCancel(o) # NoCall
                                 /\ AfterCancel(o).kind = o.kind
         /\ o.pc \in {"idle", "unwinding"} => AfterCancel(o) = o
         /\ o.pc = "unwinding" => AfterCancel(o) # NoCall
         /\ AfterCancel(o) \in Operation
<1>1. CASE o.pc \in {"lock", "stopping", "refusing"}
  BY <1>1, NoCallTyped DEF AfterCancel
<1>2. CASE o.pc = "starting"
  <2>1. AfterCancel(o) = [o EXCEPT !.pc = "unwinding"]
    BY <1>2 DEF AfterCancel
  <2>2. AfterCancel(o) \in Operation /\ AfterCancel(o).pc = "unwinding" /\ AfterCancel(o).slot = o.slot
        /\ AfterCancel(o).kind = o.kind
    BY <2>1 DEF Operation, OpPcs
  <2> QED
    BY <1>2, <2>2, NoCallTyped
<1>3. CASE o.pc \in {"idle", "unwinding"}
  <2>1. AfterCancel(o) = o
    BY <1>3 DEF AfterCancel
  <2> QED
    BY <1>3, <2>1, NoCallTyped
<1>4. o.pc \in OpPcs
  BY DEF Operation
<1> QED
  BY <1>1, <1>2, <1>3, <1>4 DEF OpPcs

LEMMA CancelOpsKeeps ==
  ASSUME ServiceInv, NEW t \in Tasks, CancelOps(t)
  PROVE  /\ TablesTypeOK' /\ CamerasKnow' /\ owned' = owned
         /\ \A c \in Cameras : ops'[t][c] = AfterCancel(ops[t][c])
         /\ \A x \in Tasks : x # t => ops'[x] = ops[x]
<1> DEFINE moves == [c \in Cameras |-> AfterCancel(ops[t][c])]
           stops(c) == ops[t][c].pc = "starting"
           quits(c) == ops[t][c].pc # "idle" /\ AfterCancel(ops[t][c]) = NoCall
           after(c) == AskedToStop(life[c][ops[t][c].slot].life)
<1>1. TablesTypeOK /\ \A c \in Cameras : ops[t][c] \in Operation
  BY DEF ServiceInv, TablesTypeOK
<1>2. /\ ops' = [ops EXCEPT ![t] = moves]
      /\ line' = [c \in Cameras |-> IF quits(c) THEN RemoveFirst(line[c], t) ELSE line[c]]
      /\ life' = [c \in Cameras |-> IF stops(c) THEN [life[c] EXCEPT ![ops[t][c].slot].life = after(c)]
                                    ELSE life[c]]
      /\ statuses' = [c \in Cameras |-> IF stops(c) THEN after(c).state ELSE statuses[c]]
      /\ owned' = owned
  BY DEF CancelOps
<1>3. moves \in [Cameras -> Operation] /\ \A c \in Cameras : moves[c] = AfterCancel(ops[t][c])
  BY <1>1, CancelCases
<1> HIDE DEF moves
<1>4. ASSUME NEW c \in Cameras
      PROVE  /\ line'[c] \in Seq(Tasks) /\ life'[c] \in [Slots -> Worker] /\ statuses'[c] \in LifeStates
             /\ LineOK(line'[c], [OpsOn(c) EXCEPT ![t] = moves[c]], owned'[c])
             /\ WorkersOK(life'[c], owned'[c], statuses'[c])
  <2> DEFINE o == ops[t][c]
  <2>1. /\ OpsOn(c) \in [Tasks -> Operation] /\ OpsOn(c)[t] = o /\ o \in Operation
        /\ life[c] \in [Slots -> Worker] /\ statuses[c] \in LifeStates /\ line[c] \in Seq(Tasks)
        /\ LineOK(line[c], OpsOn(c), owned[c]) /\ WorkersOK(life[c], owned[c], statuses[c])
    BY CameraFacts
  <2>2. CASE o.pc \in {"lock", "stopping", "refusing"}
    <3>1. AfterCancel(o) = NoCall
      BY <2>1, <2>2, CancelCases
    <3>2. line'[c] = RemoveFirst(line[c], t) /\ life'[c] = life[c] /\ statuses'[c] = statuses[c]
      BY <1>2, <2>2, <3>1
    <3>3. LineOK(RemoveFirst(line[c], t), [OpsOn(c) EXCEPT ![t] = NoCall], owned[c])
      BY <2>1, <2>2, LineQuits
    <3>4. moves[c] = NoCall
      BY <1>3, <3>1
    <3>5. LineOK(line'[c], [OpsOn(c) EXCEPT ![t] = moves[c]], owned'[c])
      BY <1>2, <3>2, <3>3, <3>4
    <3>6. line'[c] \in Seq(Tasks)
      BY <3>5 DEF LineOK
    <3> QED
      BY <1>2, <2>1, <3>2, <3>5, <3>6
  <2>3. CASE o.pc = "starting"
    <3>1. o.slot = owned[c] /\ owned[c] \in Slots /\ life[c][owned[c]].life \in Lives
          /\ life[c][owned[c]].life.state # "NEW"
      BY <2>3, PastTheLock
    <3> DEFINE l == after(c)
               wk == [life[c] EXCEPT ![owned[c]].life = l]
    <3>2. l \in Lives /\ l.state # "NEW" /\ l.state \in LifeStates
      BY <3>1, AskedIsALife DEF Lives
    <3>3. AfterCancel(o) \in Operation /\ AfterCancel(o).pc = "unwinding"
          /\ AfterCancel(o).slot = o.slot /\ AfterCancel(o) # NoCall
      BY <2>1, <2>3, CancelCases
    <3>4. line'[c] = line[c] /\ life'[c] = wk /\ statuses'[c] = l.state
      BY <1>2, <2>3, <3>1, <3>3
    <3> HIDE DEF l
    <3>5. wk \in [Slots -> Worker] /\ WorkersOK(wk, owned[c], l.state)
      BY <2>1, <3>1, <3>2, WorkerPublishes
    <3>6. LineOK(line[c], [OpsOn(c) EXCEPT ![t] = AfterCancel(o)], owned[c])
      BY <2>1, <2>3, <3>3, LineSame
    <3> HIDE DEF wk
    <3> QED
      BY <1>2, <1>3, <2>1, <3>2, <3>4, <3>5, <3>6
  <2>4. CASE o.pc \in {"idle", "unwinding"}
    <3>1. AfterCancel(o) = o /\ ~quits(c) /\ ~stops(c)
      BY <2>1, <2>4, CancelCases
    <3>2. line'[c] = line[c] /\ life'[c] = life[c] /\ statuses'[c] = statuses[c]
      BY <1>2, <3>1
    <3>3. [OpsOn(c) EXCEPT ![t] = moves[c]] = OpsOn(c)
      BY <1>3, <2>1, <3>1
    <3> QED
      BY <1>2, <2>1, <3>2, <3>3
  <2> QED
    BY <2>1, <2>2, <2>3, <2>4 DEF Operation, OpPcs
<1>5. /\ life' \in [Cameras -> [Slots -> Worker]] /\ owned' \in [Cameras -> Slots \cup {NoSlot}]
      /\ statuses' \in [Cameras -> LifeStates] /\ line' \in [Cameras -> Seq(Tasks)]
  <2>1. owned' \in [Cameras -> Slots \cup {NoSlot}]
    BY <1>1, <1>2 DEF TablesTypeOK
  <2>2. life' \in [Cameras -> [Slots -> Worker]]
    BY <1>2, <1>4
  <2>3. statuses' \in [Cameras -> LifeStates]
    BY <1>2, <1>4
  <2>4. line' \in [Cameras -> Seq(Tasks)]
    BY <1>2, <1>4
  <2> QED
    BY <2>1, <2>2, <2>3, <2>4
<1>6. TablesTypeOK' /\ CamerasKnow'
  BY <1>1, <1>2, <1>3, <1>4, <1>5, TaskMoves
<1>7. ops'[t] = moves /\ \A x \in Tasks : x # t => ops'[x] = ops[x]
  BY <1>1, <1>2 DEF TablesTypeOK
<1> QED
  BY <1>2, <1>3, <1>6, <1>7

\* A step of users' requests: shutdown, reconciliation and service see nothing of it.
LEMMA UsersMove ==
  ASSUME ServiceInv, TablesTypeOK', CamerasKnow', ops'["shutdown"] = ops["shutdown"],
         ops'["reconcile"] = ops["reconcile"], UNCHANGED <<owned, closed, shut, rec, serviceVars>>
  PROVE  ServiceInv'
<1>1. TasksTypeOK' /\ CapacityHeld'
  BY DEF ServiceInv, TasksTypeOK, CapacityHeld, Registered, serviceVars
<1>2. ShutdownKnows'
  BY DEF ServiceInv, ShutdownKnows, serviceVars
<1>3. ReconcileKnows'
  BY DEF ServiceInv, ReconcileKnows, Busy, serviceVars
<1> QED
  BY <1>1, <1>2, <1>3 DEF ServiceInv

LEMMA RequestKeeps ==
  ASSUME ServiceInv, NEW u \in Users, NEW c \in Cameras, NEW kind \in {"start", "restart", "stop"},
         NEW d \in Wanted, Request(u, c, kind, d), UNCHANGED serviceVars
  PROVE  ServiceInv'
<1> DEFINE o == [NoCall EXCEPT !.pc = "lock", !.kind = kind, !.def = d]
<1>1. /\ ~Busy(u) /\ ops' = [ops EXCEPT ![u][c] = o] /\ line' = [line EXCEPT ![c] = Append(line[c], u)]
      /\ UNCHANGED <<life, owned, statuses, closed, shut, rec, serviceVars>>
  BY DEF Request, Call, workerVars
<1>2. o \in Operation /\ o.pc = "lock"
  BY DEF NoCall, Operation, OpPcs, OpKinds
<1> HIDE DEF o
<1>3. u \in Tasks /\ u # "shutdown" /\ u # "reconcile" /\ "shutdown" \in Tasks /\ "reconcile" \in Tasks
  BY SomeTasks
<1>4. /\ OpsOn(c) \in [Tasks -> Operation] /\ OpsOn(c)[u] = ops[u][c] /\ life[c] \in [Slots -> Worker]
      /\ owned[c] \in Slots \cup {NoSlot} /\ statuses[c] \in LifeStates /\ line[c] \in Seq(Tasks)
      /\ LineOK(line[c], OpsOn(c), owned[c]) /\ WorkersOK(life[c], owned[c], statuses[c])
      /\ TablesTypeOK /\ CamerasKnow
  BY <1>3, CameraFacts DEF ServiceInv
<1>5. LineOK(Append(line[c], u), [OpsOn(c) EXCEPT ![u] = o], owned[c])
  BY <1>1, <1>2, <1>3, <1>4, LineJoins DEF Busy
<1>6. Append(line[c], u) \in Seq(Tasks)
  BY <1>3, <1>4
<1>7. /\ owned' = [owned EXCEPT ![c] = owned[c]] /\ life' = [life EXCEPT ![c] = life[c]]
      /\ statuses' = [statuses EXCEPT ![c] = statuses[c]]
  BY <1>1, <1>4 DEF TablesTypeOK
<1>8. TablesTypeOK' /\ CamerasKnow'
  <2>1. ops' = [ops EXCEPT ![u][c] = o] /\ line' = [line EXCEPT ![c] = Append(line[c], u)] /\ u \in Tasks
    BY <1>1, <1>3
  <2> QED
    BY <1>2, <1>4, <1>5, <1>6, <1>7, <2>1, OneCamera
<1>9. ops'["shutdown"] = ops["shutdown"] /\ ops'["reconcile"] = ops["reconcile"]
  BY <1>1, <1>3, <1>4 DEF TablesTypeOK
<1> QED
  BY <1>1, <1>8, <1>9, UsersMove

LEMMA CatalogTyped ==
  ASSUME ServiceInv
  PROVE  catalog \in [Cameras -> Wanted] /\ rec \in Reconciliation /\ rec.want \in [Cameras -> Wanted]
BY DEF ServiceInv, TasksTypeOK, Catalogs, Wanted, Reconciliation

LEMMA UserRequestsKeeps ==
  ASSUME ServiceInv, NEW u \in Users, NEW c \in Cameras, UserRequests(u, c)
  PROVE  ServiceInv'
<1>1. catalog[c] \in Wanted /\ Off \in Wanted /\ UNCHANGED serviceVars
  BY CatalogTyped DEF Wanted, UserRequests
<1>2. CASE Request(u, c, "stop", Off)
  BY <1>1, <1>2, RequestKeeps
<1>3. CASE \E kind \in {"start", "restart"} : Request(u, c, kind, catalog[c])
  BY <1>1, <1>3, RequestKeeps
<1> QED
  BY <1>2, <1>3 DEF UserRequests

LEMMA CancelRequestKeeps ==
  ASSUME ServiceInv, NEW u \in Users, CancelRequest(u), UNCHANGED serviceVars
  PROVE  ServiceInv'
<1>1. CancelOps(u) /\ UNCHANGED <<closed, shut, rec, serviceVars>>
  BY DEF CancelRequest
<1>2. u \in Tasks /\ u # "shutdown" /\ u # "reconcile" /\ "shutdown" \in Tasks /\ "reconcile" \in Tasks
  BY SomeTasks
<1>3. /\ TablesTypeOK' /\ CamerasKnow' /\ owned' = owned
      /\ ops'["shutdown"] = ops["shutdown"] /\ ops'["reconcile"] = ops["reconcile"]
  BY <1>1, <1>2, CancelOpsKeeps
<1> QED
  BY <1>1, <1>3, UsersMove

-----------------------------------------------------------------------------
(* Reconciliation.                                                         *)

\* A step that touches only the reconciliation's operations.
LEMMA ShutdownSame ==
  ASSUME ServiceInv, ops'["shutdown"] = ops["shutdown"], UNCHANGED <<owned, closed, shut>>,
         stopTask' = "done" => stopTask = "done", startTask' = "failed" => startTask = "failed"
  PROVE  ShutdownKnows' /\ CapacityHeld'
<1>1. CapacityHeld'
  BY DEF ServiceInv, CapacityHeld, Registered
<1>2. ShutdownKnows'
  BY DEF ServiceInv, ShutdownKnows
<1> QED
  BY <1>1, <1>2

LEMMA ReconcileBeginsKeeps ==
  ASSUME ServiceInv, rec.pc = "idle", ReconcileBegins(catalog), UNCHANGED workerVars
  PROVE  /\ TablesTypeOK' /\ CamerasKnow' /\ ops'["shutdown"] = ops["shutdown"]
         /\ rec' \in Reconciliation /\ rec'.pc \in {"ended", "removing"}
         /\ rec'.pc = "ended" => ~Busy("reconcile")'
<1>1. ~Busy("reconcile")
  BY DEF ServiceInv, ReconcileKnows
<1>2. /\ TablesTypeOK /\ CamerasKnow /\ catalog \in [Cameras -> Wanted] /\ rec \in Reconciliation
  BY CatalogTyped DEF ServiceInv
<1>3. CASE ~AdmissionOpen
  <2>1. rec' = [rec EXCEPT !.pc = "ended", !.failed = TRUE] /\ UNCHANGED <<ops, line, life, owned, statuses>>
    BY <1>3 DEF ReconcileBegins, workerVars
  <2>2. rec' \in Reconciliation /\ rec'.pc = "ended"
    BY <1>2, <2>1 DEF Reconciliation
  <2>3. ~Busy("reconcile")'
    BY <1>1, <2>1 DEF Busy
  <2> QED
    BY <1>2, <2>1, <2>2, <2>3, SameTables
<1>4. CASE AdmissionOpen
  <2> DEFINE surplus == {c \in Cameras : owned[c] # NoSlot /\ catalog[c] = Off}
             kind == [c \in Cameras |-> "stop"]
  <2>1. Gather("reconcile", surplus, kind, catalog) /\ UNCHANGED workerVars
    BY <1>4 DEF ReconcileBegins
  <2>2. surplus \in SUBSET Cameras /\ kind \in [Cameras -> OpKinds]
    BY DEF OpKinds
  <2> HIDE DEF surplus, kind
  <2>3. TablesTypeOK' /\ CamerasKnow' /\ ops'["shutdown"] = ops["shutdown"]
    <3>1. "reconcile" \in Tasks /\ "shutdown" \in Tasks /\ "shutdown" # "reconcile"
      BY SomeTasks
    <3> QED
      BY <1>1, <1>2, <2>1, <2>2, <3>1, GatherKeeps
  <2>4. rec' \in Reconciliation /\ rec'.pc = "removing"
    <3>1. rec' = [pc |-> "removing", want |-> catalog, failed |-> FALSE]
      BY <1>4 DEF ReconcileBegins
    <3> QED
      BY <1>2, <3>1 DEF Reconciliation
  <2> QED
    BY <2>3, <2>4
<1> QED
  BY <1>3, <1>4

LEMMA ReconcileStartsKeeps ==
  ASSUME ServiceInv, ReconcileStarts, UNCHANGED serviceVars
  PROVE  ServiceInv'
<1>1. rec.pc = "removing" /\ ~Busy("reconcile") /\ UNCHANGED <<workerVars, closed, shut, serviceVars>>
  BY DEF ReconcileStarts
<1>2. /\ TablesTypeOK /\ CamerasKnow /\ rec \in Reconciliation /\ rec.want \in [Cameras -> Wanted]
  BY CatalogTyped DEF ServiceInv
<1>3. /\ TablesTypeOK' /\ CamerasKnow' /\ ops'["shutdown"] = ops["shutdown"]
      /\ rec' \in Reconciliation /\ rec'.pc \in {"ended", "starting"}
      /\ rec'.pc = "ended" => ~Busy("reconcile")'
  <2>1. CASE rec.failed
    <3>1. rec' = [rec EXCEPT !.pc = "ended"] /\ UNCHANGED <<ops, line, life, owned, statuses>>
      BY <1>1, <2>1 DEF ReconcileStarts, workerVars
    <3>2. rec' \in Reconciliation /\ rec'.pc = "ended"
      BY <1>2, <3>1 DEF Reconciliation
    <3>3. ~Busy("reconcile")'
      BY <1>1, <3>1 DEF Busy
    <3> QED
      BY <1>2, <3>1, <3>2, <3>3, SameTables
  <2>2. CASE ~rec.failed
    <3> DEFINE wanted == {c \in Cameras : rec.want[c] # Off}
               absent == {c \in wanted : owned[c] = NoSlot}
               wrong  == {c \in wanted \ absent : LET w == life[c][owned[c]]
                                                  IN  w.def # rec.want[c] \/ w.life.state # "RUNNING"}
               kind == [c \in Cameras |-> IF c \in absent THEN "start" ELSE "restart"]
    <3>1. Gather("reconcile", absent \cup wrong, kind, rec.want) /\ rec' = [rec EXCEPT !.pc = "starting"]
      BY <2>2 DEF ReconcileStarts
    <3>2. absent \cup wrong \in SUBSET Cameras /\ kind \in [Cameras -> OpKinds]
      BY DEF OpKinds
    <3> HIDE DEF absent, wrong, kind
    <3>3. TablesTypeOK' /\ CamerasKnow' /\ ops'["shutdown"] = ops["shutdown"]
      <4>1. "reconcile" \in Tasks /\ "shutdown" \in Tasks /\ "shutdown" # "reconcile"
        BY SomeTasks
      <4> QED
        BY <1>1, <1>2, <3>1, <3>2, <4>1, GatherKeeps
    <3>4. rec' \in Reconciliation /\ rec'.pc = "starting"
      BY <1>2, <3>1 DEF Reconciliation
    <3> QED
      BY <3>3, <3>4
  <2> QED
    BY <2>1, <2>2
<1>4. TasksTypeOK'
  BY <1>1, <1>3 DEF ServiceInv, TasksTypeOK, serviceVars
<1>5. ShutdownKnows' /\ CapacityHeld'
  BY <1>1, <1>3, ShutdownSame DEF workerVars, serviceVars
<1>6. ReconcileKnows'
  BY <1>1, <1>3 DEF ServiceInv, ReconcileKnows, serviceVars
<1> QED
  BY <1>3, <1>4, <1>5, <1>6 DEF ServiceInv

LEMMA ReconcileEndsKeeps ==
  ASSUME ServiceInv, ReconcileEnds, UNCHANGED serviceVars
  PROVE  ServiceInv'
<1>1. /\ rec.pc \in {"starting", "cancelled"} /\ ~Busy("reconcile") /\ rec' = [rec EXCEPT !.pc = "ended"]
      /\ UNCHANGED <<life, owned, statuses, ops, line, closed, shut, serviceVars>>
  BY DEF ReconcileEnds, workerVars
<1>2. TablesTypeOK' /\ CamerasKnow'
  BY <1>1, SameTables DEF ServiceInv
<1>3. rec' \in Reconciliation /\ rec'.pc = "ended"
  BY <1>1, CatalogTyped DEF Reconciliation
<1>4. ~Busy("reconcile")'
  BY <1>1 DEF Busy
<1>5. TasksTypeOK'
  BY <1>1, <1>3 DEF ServiceInv, TasksTypeOK, serviceVars
<1>6. ShutdownKnows' /\ CapacityHeld'
  BY <1>1, ShutdownSame DEF serviceVars
<1>7. ReconcileKnows'
  BY <1>1, <1>3, <1>4 DEF ServiceInv, ReconcileKnows, serviceVars
<1> QED
  BY <1>2, <1>5, <1>6, <1>7 DEF ServiceInv

-----------------------------------------------------------------------------
(* Shutdown.                                                               *)

LEMMA ShutdownListsKeeps ==
  ASSUME ServiceInv, ShutdownLists, UNCHANGED serviceVars
  PROVE  ServiceInv'
<1> DEFINE listed == {c \in Cameras : owned[c] # NoSlot}
           kind == [c \in Cameras |-> "shutdown"]
           none == [c \in Cameras |-> Off]
<1>1. /\ shut = "created" /\ shut' = "stopping" /\ Gather("shutdown", listed, kind, none)
      /\ UNCHANGED <<workerVars, closed, rec, serviceVars>>
  BY DEF ShutdownLists
<1>2. ~Busy("shutdown")
  BY <1>1 DEF ServiceInv, ShutdownKnows, Busy
<1>3. listed \in SUBSET Cameras /\ kind \in [Cameras -> OpKinds] /\ none \in [Cameras -> Wanted]
  BY DEF OpKinds, Wanted
<1>4. "reconcile" \in Tasks /\ "shutdown" \in Tasks
  BY SomeTasks
<1>5. Gather("shutdown", listed, kind, none) /\ UNCHANGED workerVars /\ owned' = owned
  BY <1>1 DEF workerVars
<1>6. \A c \in Cameras : kind[c] = "shutdown" /\ (c \in listed <=> owned[c] # NoSlot)
  OBVIOUS
<1> HIDE DEF listed, kind, none
<1>7. /\ TablesTypeOK' /\ CamerasKnow'
      /\ \A c \in Cameras : c \in listed => ops'["shutdown"][c].pc = "lock" /\ ops'["shutdown"][c].kind = kind[c]
      /\ \A c \in Cameras : c \notin listed => ops'["shutdown"][c].pc = "idle"
      /\ ops'["reconcile"] = ops["reconcile"]
  BY <1>2, <1>3, <1>4, <1>5, GatherKeeps, SMTT(30)
<1>8. TasksTypeOK' /\ CapacityHeld'
  BY <1>1, <1>5 DEF ServiceInv, TasksTypeOK, CapacityHeld, Registered, serviceVars
<1>9. ShutdownKnows'
  <2>1. closed' /\ stopTask' = stopTask /\ startTask' = startTask /\ stopTask # "done" /\ startTask # "failed"
    BY <1>1 DEF ServiceInv, ShutdownKnows, serviceVars
  <2> QED
    BY <1>1, <1>5, <1>6, <1>7, <2>1 DEF ShutdownKnows
<1>10. ReconcileKnows'
  BY <1>1, <1>7 DEF ServiceInv, ReconcileKnows, Busy, serviceVars
<1> QED
  BY <1>7, <1>8, <1>9, <1>10 DEF ServiceInv

LEMMA ShutdownEndsKeeps ==
  ASSUME ServiceInv, ShutdownEnds, UNCHANGED serviceVars
  PROVE  ServiceInv'
<1>1. /\ shut = "stopping" /\ ~Busy("shutdown") /\ shut' = "done"
      /\ UNCHANGED <<life, owned, statuses, line, ops, closed, rec, serviceVars>>
  BY DEF ShutdownEnds, workerVars
<1>2. TablesTypeOK' /\ CamerasKnow'
  BY <1>1, SameTables DEF ServiceInv
<1>3. TasksTypeOK' /\ CapacityHeld' /\ ReconcileKnows'
  BY <1>1 DEF ServiceInv, TasksTypeOK, CapacityHeld, Registered, ReconcileKnows, Busy, serviceVars
<1>4. ShutdownKnows'
  BY <1>1 DEF ServiceInv, ShutdownKnows, Busy, serviceVars
<1> QED
  BY <1>2, <1>3, <1>4 DEF ServiceInv

\* The first call of shutdown creates the task; the others find it.
LEMMA ShutdownCalledKeeps ==
  ASSUME ServiceInv, ShutdownCalled, UNCHANGED <<owned, ops>>,
         stopTask' = "done" => stopTask = "done", startTask' = "failed" => startTask = "failed"
  PROVE  /\ ShutdownKnows' /\ closed' \in BOOLEAN /\ shut' \in {"none", "created", "stopping", "done"}
         /\ CapacityHeld'
<1>1. closed' = TRUE /\ shut' = IF shut = "none" THEN "created" ELSE shut
  BY DEF ShutdownCalled
<1>2. shut' \in {"none", "created", "stopping", "done"} /\ CapacityHeld'
  BY <1>1 DEF ServiceInv, TasksTypeOK, CapacityHeld, Registered
<1>3. ShutdownKnows'
  BY <1>1 DEF ServiceInv, ShutdownKnows
<1> QED
  BY <1>1, <1>2, <1>3

-----------------------------------------------------------------------------
(* The service.                                                            *)

\* A step of the service's own variables.
LEMMA OwnVariables ==
  ASSUME ServiceInv, UNCHANGED managerVars, TasksTypeOK', ReconcileKnows',
         stopTask' = "done" \/ startTask' = "failed" => shut = "done"
  PROVE  ServiceInv'
<1>1. UNCHANGED <<life, owned, statuses, line, ops, closed, shut, rec>>
  BY DEF managerVars, workerVars
<1>2. TablesTypeOK' /\ CamerasKnow'
  BY <1>1, SameTables DEF ServiceInv
<1>3. ShutdownKnows' /\ CapacityHeld'
  BY <1>1 DEF ServiceInv, ShutdownKnows, CapacityHeld, Registered
<1> QED
  BY <1>2, <1>3 DEF ServiceInv

LEMMA OwnStepsKeep ==
  ASSUME ServiceInv, Start \/ StartRolledBack \/ Tick \/ Stop \/ StopEnds \/ EditCatalog
  PROVE  ServiceInv'
<1>1. UNCHANGED <<ops, rec>> /\ UNCHANGED managerVars
  BY DEF Start, StartRolledBack, Tick, Stop, StopEnds, EditCatalog, managerVars
<1>2. Busy("reconcile")' = Busy("reconcile") /\ closed' = closed /\ shut' = shut
  BY <1>1 DEF Busy, managerVars
<1>3. TasksTypeOK /\ ReconcileKnows /\ ShutdownKnows
  BY DEF ServiceInv
<1>4. CASE Start
  <2>1. TasksTypeOK' /\ ReconcileKnows'
    BY <1>1, <1>2, <1>3, <1>4 DEF TasksTypeOK, ReconcileKnows, Start
  <2>2. stopTask' # "done" /\ startTask' # "failed"
    BY <1>4 DEF Start
  <2> QED
    BY <1>1, <2>1, <2>2, OwnVariables
<1>5. CASE StartRolledBack
  <2>1. TasksTypeOK' /\ ReconcileKnows'
    BY <1>1, <1>2, <1>3, <1>5 DEF TasksTypeOK, ReconcileKnows, StartRolledBack
  <2>2. shut = "done"
    BY <1>5 DEF StartRolledBack
  <2> QED
    BY <1>1, <2>1, <2>2, OwnVariables
<1>6. CASE Tick
  <2>1. TasksTypeOK' /\ ReconcileKnows'
    BY <1>1, <1>2, <1>3, <1>6 DEF TasksTypeOK, ReconcileKnows, Tick
  <2>2. stopTask' = "done" \/ startTask' = "failed" => shut = "done"
    BY <1>3, <1>6 DEF Tick, ShutdownKnows
  <2> QED
    BY <1>1, <2>1, <2>2, OwnVariables
<1>7. CASE Stop
  <2>1. TasksTypeOK' /\ ReconcileKnows'
    BY <1>1, <1>2, <1>3, <1>7 DEF TasksTypeOK, ReconcileKnows, Stop
  <2>2. stopTask' = "done" \/ startTask' = "failed" => shut = "done"
    BY <1>3, <1>7 DEF Stop, ShutdownKnows
  <2> QED
    BY <1>1, <2>1, <2>2, OwnVariables
<1>8. CASE StopEnds
  <2>1. TasksTypeOK' /\ ReconcileKnows'
    BY <1>1, <1>2, <1>3, <1>8 DEF TasksTypeOK, ReconcileKnows, StopEnds
  <2>2. shut = "done"
    BY <1>8 DEF StopEnds
  <2> QED
    BY <1>1, <2>1, <2>2, OwnVariables
<1>9. CASE EditCatalog
  <2>1. TasksTypeOK' /\ ReconcileKnows'
    BY <1>1, <1>2, <1>3, <1>9 DEF TasksTypeOK, ReconcileKnows, EditCatalog
  <2>2. stopTask' = "done" \/ startTask' = "failed" => shut = "done"
    BY <1>3, <1>9 DEF EditCatalog, ShutdownKnows
  <2> QED
    BY <1>1, <2>1, <2>2, OwnVariables
<1> QED
  BY <1>4, <1>5, <1>6, <1>7, <1>8, <1>9

\* The start task goes on when no reconciliation is under way any more.
LEMMA StartGoesOnKeeps ==
  ASSUME ServiceInv, NEW failed \in BOOLEAN, StartGoesOn(failed), startTask \in {"catalog", "reconciling"},
         UNCHANGED <<life, owned, statuses, line, ops, stopTask, catalog>>,
         rec' \in Reconciliation, rec'.pc = "idle", ~Busy("reconcile")
  PROVE  ServiceInv'
<1>1. TablesTypeOK' /\ CamerasKnow'
  BY SameTables DEF ServiceInv
<1>2. job = "none"
  BY DEF ServiceInv, ReconcileKnows
<1>3. ~Busy("reconcile")'
  BY DEF Busy
<1>4. TasksTypeOK /\ ShutdownKnows /\ CapacityHeld
  BY DEF ServiceInv
<1>5. CASE ShutdownCalled /\ startTask' = "rollback" /\ UNCHANGED job
  <2>1. /\ ShutdownKnows' /\ closed' \in BOOLEAN /\ shut' \in {"none", "created", "stopping", "done"}
        /\ CapacityHeld'
    BY <1>5, ShutdownCalledKeeps
  <2>2. TasksTypeOK'
    BY <1>4, <1>5, <2>1 DEF TasksTypeOK
  <2>3. ReconcileKnows'
    BY <1>2, <1>3, <1>5 DEF ReconcileKnows
  <2> QED
    BY <1>1, <2>1, <2>2, <2>3 DEF ServiceInv
<1>6. CASE startTask' = "done" /\ UNCHANGED <<closed, shut>> /\ (UNCHANGED job \/ AddJob)
  <2>1. job' \in {"none", "sleeping"}
    BY <1>2, <1>6 DEF AddJob
  <2>2. TasksTypeOK'
    BY <1>4, <1>6, <2>1 DEF TasksTypeOK
  <2>3. ReconcileKnows'
    BY <1>3, <1>6, <2>1 DEF ReconcileKnows
  <2>4. ShutdownKnows' /\ CapacityHeld'
    BY <1>4, <1>6 DEF ShutdownKnows, CapacityHeld, Registered
  <2> QED
    BY <1>1, <2>2, <2>3, <2>4 DEF ServiceInv
<1> QED
  BY <1>5, <1>6 DEF StartGoesOn

LEMMA StartReadsCatalogKeeps ==
  ASSUME ServiceInv, NEW ok \in BOOLEAN, StartReadsCatalog(ok)
  PROVE  ServiceInv'
<1>1. startTask = "catalog" /\ CatalogAnswers(ok)
  BY DEF StartReadsCatalog
<1>2. job = "none" /\ rec.pc = "idle" /\ ~Busy("reconcile") /\ rec \in Reconciliation
  BY <1>1 DEF ServiceInv, ReconcileKnows, TasksTypeOK
<1>3. UNCHANGED <<workerVars, stopTask, catalog>>
  BY <1>1 DEF CatalogAnswers
<1>4. CASE ok /\ accepting
  <2>1. /\ startTask' = "reconciling" /\ UNCHANGED <<closed, shut, job>> /\ ReconcileBegins(catalog)
    BY <1>1, <1>4 DEF StartReadsCatalog, CatalogAnswers
  <2>2. /\ TablesTypeOK' /\ CamerasKnow' /\ ops'["shutdown"] = ops["shutdown"]
        /\ rec' \in Reconciliation /\ rec'.pc \in {"ended", "removing"}
        /\ rec'.pc = "ended" => ~Busy("reconcile")'
    BY <1>2, <1>3, <2>1, ReconcileBeginsKeeps
  <2>3. TasksTypeOK'
    BY <1>3, <2>1, <2>2 DEF ServiceInv, TasksTypeOK
  <2>4. ShutdownKnows' /\ CapacityHeld'
    BY <1>3, <2>1, <2>2, ShutdownSame DEF workerVars
  <2>5. ReconcileKnows'
    BY <1>2, <2>1, <2>2 DEF ReconcileKnows
  <2> QED
    BY <2>2, <2>3, <2>4, <2>5 DEF ServiceInv
<1>5. CASE ~(ok /\ accepting)
  <2>1. UNCHANGED <<ops, line, rec>>
    BY <1>1, <1>5 DEF CatalogAnswers
  <2>2. CASE ok = TRUE
    <3>1. StartGoesOn(FALSE)
      BY <1>5, <2>2 DEF StartReadsCatalog
    <3> QED
      BY <1>1, <1>2, <1>3, <2>1, <3>1, StartGoesOnKeeps DEF workerVars
  <2>3. CASE ok = FALSE
    <3>1. StartGoesOn(TRUE)
      BY <1>5, <2>3 DEF StartReadsCatalog
    <3> QED
      BY <1>1, <1>2, <1>3, <2>1, <3>1, StartGoesOnKeeps DEF workerVars
  <2> QED
    BY <2>2, <2>3
<1> QED
  BY <1>4, <1>5

LEMMA NoRecTyped == NoRec \in Reconciliation /\ NoRec.pc = "idle"
BY DEF NoRec, Reconciliation, Wanted

LEMMA StartReconciledKeeps ==
  ASSUME ServiceInv, NEW refused \in BOOLEAN, StartReconciled(refused)
  PROVE  ServiceInv'
<1> DEFINE f == rec.failed \/ refused
<1>1. /\ startTask = "reconciling" /\ rec.pc = "ended" /\ StartGoesOn(f) /\ rec' = NoRec
      /\ UNCHANGED <<life, owned, statuses, ops, line, stopTask, catalog>>
  BY DEF StartReconciled, workerVars
<1>2. ~Busy("reconcile") /\ rec' \in Reconciliation /\ rec'.pc = "idle"
  BY <1>1, NoRecTyped DEF ServiceInv, ReconcileKnows
<1>3. f \in BOOLEAN
  BY Zenon
<1> HIDE DEF f
<1>4. CASE f = TRUE
  <2>1. StartGoesOn(TRUE)
    BY <1>1, <1>4
  <2> QED
    BY <1>1, <1>2, <2>1, StartGoesOnKeeps
<1>5. CASE f = FALSE
  <2>1. StartGoesOn(FALSE)
    BY <1>1, <1>5
  <2> QED
    BY <1>1, <1>2, <2>1, StartGoesOnKeeps
<1> QED
  BY <1>3, <1>4, <1>5

LEMMA JobReadsCatalogKeeps ==
  ASSUME ServiceInv, NEW ok \in BOOLEAN, JobReadsCatalog(ok)
  PROVE  ServiceInv'
<1>1. /\ job = "catalog" /\ CatalogAnswers(ok) /\ job' = IF ok /\ accepting THEN "reconciling" ELSE "sleeping"
      /\ UNCHANGED <<closed, shut, startTask>>
  BY DEF JobReadsCatalog
<1>2. startTask = "done" /\ rec.pc = "idle" /\ ~Busy("reconcile") /\ rec \in Reconciliation
  BY <1>1 DEF ServiceInv, ReconcileKnows, TasksTypeOK
<1>3. UNCHANGED <<workerVars, stopTask, catalog>>
  BY <1>1 DEF CatalogAnswers
<1>4. CASE ok /\ accepting
  <2>1. job' = "reconciling" /\ ReconcileBegins(catalog)
    BY <1>1, <1>4 DEF CatalogAnswers
  <2>2. /\ TablesTypeOK' /\ CamerasKnow' /\ ops'["shutdown"] = ops["shutdown"]
        /\ rec' \in Reconciliation /\ rec'.pc \in {"ended", "removing"}
        /\ rec'.pc = "ended" => ~Busy("reconcile")'
    BY <1>2, <1>3, <2>1, ReconcileBeginsKeeps
  <2>3. TasksTypeOK'
    BY <1>1, <1>3, <2>1, <2>2 DEF ServiceInv, TasksTypeOK
  <2>4. ShutdownKnows' /\ CapacityHeld'
    BY <1>1, <1>3, <2>2, ShutdownSame DEF workerVars
  <2>5. ReconcileKnows'
    BY <1>1, <1>2, <2>1, <2>2 DEF ReconcileKnows
  <2> QED
    BY <2>2, <2>3, <2>4, <2>5 DEF ServiceInv
<1>5. CASE ~(ok /\ accepting)
  <2>1. /\ UNCHANGED <<ops, line, rec, life, owned, statuses, closed, shut, startTask, stopTask, catalog>>
        /\ job' = "sleeping"
    BY <1>1, <1>3, <1>5 DEF CatalogAnswers, workerVars
  <2>2. TablesTypeOK' /\ CamerasKnow'
    BY <2>1, SameTables DEF ServiceInv
  <2>3. ShutdownKnows' /\ CapacityHeld'
    BY <2>1, ShutdownSame
  <2>4. TasksTypeOK' /\ ReconcileKnows'
    BY <1>2, <2>1 DEF ServiceInv, TasksTypeOK, ReconcileKnows, Busy
  <2> QED
    BY <2>2, <2>3, <2>4 DEF ServiceInv
<1> QED
  BY <1>4, <1>5

LEMMA JobReconciledKeeps ==
  ASSUME ServiceInv, JobReconciled
  PROVE  ServiceInv'
<1>1. /\ job \in {"reconciling", "cancelled"} /\ rec.pc = "ended" /\ rec' = NoRec
      /\ job' = IF job = "cancelled" THEN "gone" ELSE "sleeping"
      /\ UNCHANGED <<ops, line, life, owned, statuses, closed, shut, startTask, stopTask, catalog>>
  BY DEF JobReconciled, workerVars
<1>2. TablesTypeOK' /\ CamerasKnow'
  BY <1>1, SameTables DEF ServiceInv
<1>3. ShutdownKnows' /\ CapacityHeld'
  BY <1>1, ShutdownSame
<1>4. rec' \in Reconciliation /\ rec'.pc = "idle" /\ ~Busy("reconcile")' /\ job' \in {"gone", "sleeping"}
      /\ startTask = "done"
  BY <1>1, NoRecTyped DEF ServiceInv, ReconcileKnows, Busy
<1>5. TasksTypeOK'
  BY <1>1, <1>4 DEF ServiceInv, TasksTypeOK
<1>6. ReconcileKnows'
  BY <1>1, <1>4 DEF ReconcileKnows
<1> QED
  BY <1>2, <1>3, <1>5, <1>6 DEF ServiceInv

LEMMA StopRemovesJobKeeps ==
  ASSUME ServiceInv, StopRemovesJob
  PROVE  ServiceInv'
<1>1. /\ stopTask = "begun" /\ startTask \in {"none", "done", "failed"} /\ stopTask' = "job" /\ RemoveJob
      /\ UNCHANGED <<closed, shut, startTask, catalog>>
  BY DEF StopRemovesJob
<1>2. ReconcileKnows /\ TasksTypeOK
  BY DEF ServiceInv
<1>3. CASE job = "reconciling"
  <2>1. CancelOps("reconcile") /\ rec' = [rec EXCEPT !.pc = "cancelled"] /\ job' = "cancelled"
    BY <1>1, <1>3 DEF RemoveJob
  <2>2. "reconcile" \in Tasks /\ "shutdown" \in Tasks /\ "reconcile" # "shutdown"
    BY SomeTasks
  <2>3. TablesTypeOK' /\ CamerasKnow' /\ owned' = owned /\ ops'["shutdown"] = ops["shutdown"]
    BY <2>1, <2>2, CancelOpsKeeps
  <2>4. rec' \in Reconciliation /\ rec'.pc = "cancelled"
    BY <2>1, CatalogTyped DEF Reconciliation
  <2>5. TasksTypeOK'
    BY <1>1, <1>2, <2>1, <2>4 DEF TasksTypeOK
  <2>6. ShutdownKnows' /\ CapacityHeld'
    BY <1>1, <2>3, ShutdownSame
  <2>7. ReconcileKnows'
    BY <1>1, <1>2, <1>3, <2>1, <2>4 DEF ReconcileKnows
  <2> QED
    BY <2>3, <2>5, <2>6, <2>7 DEF ServiceInv
<1>4. CASE job # "reconciling"
  <2>1. /\ job' = IF job = "none" THEN "none" ELSE "gone"
        /\ UNCHANGED <<ops, line, rec, life, owned, statuses, closed, shut, startTask, catalog>>
    BY <1>1, <1>4 DEF RemoveJob, workerVars
  <2>2. rec.pc = "idle"
    BY <1>1, <1>2, <1>4 DEF ReconcileKnows
  <2>3. TablesTypeOK' /\ CamerasKnow'
    BY <2>1, SameTables DEF ServiceInv
  <2>4. ShutdownKnows' /\ CapacityHeld'
    BY <1>1, <2>1, ShutdownSame
  <2>5. TasksTypeOK' /\ ReconcileKnows'
    BY <1>1, <1>2, <2>1, <2>2 DEF TasksTypeOK, ReconcileKnows, Busy
  <2> QED
    BY <2>3, <2>4, <2>5 DEF ServiceInv
<1> QED
  BY <1>3, <1>4

LEMMA StopShutsDownKeeps ==
  ASSUME ServiceInv, StopShutsDown
  PROVE  ServiceInv'
<1>1. /\ stopTask' = "shutdown" /\ ShutdownCalled
      /\ UNCHANGED <<ops, line, rec, life, owned, statuses, startTask, job, catalog>>
      /\ stopTask = "job"
  BY DEF StopShutsDown, workerVars
<1>2. TablesTypeOK' /\ CamerasKnow'
  BY <1>1, SameTables DEF ServiceInv
<1>3. /\ ShutdownKnows' /\ closed' \in BOOLEAN /\ shut' \in {"none", "created", "stopping", "done"}
      /\ CapacityHeld'
  BY <1>1, ShutdownCalledKeeps
<1>4. TasksTypeOK' /\ ReconcileKnows'
  BY <1>1, <1>3 DEF ServiceInv, TasksTypeOK, ReconcileKnows, Busy
<1> QED
  BY <1>2, <1>3, <1>4 DEF ServiceInv

-----------------------------------------------------------------------------
(* The theorems.                                                           *)

LEMMA ServiceInitKeeps == ServiceInit => ServiceInv
<1> SUFFICES ASSUME ServiceInit PROVE ServiceInv
  OBVIOUS
<1>1. /\ life = [c \in Cameras |-> [s \in Slots |-> NoWorker]] /\ owned = [c \in Cameras |-> NoSlot]
      /\ statuses = [c \in Cameras |-> "NEW"] /\ line = [c \in Cameras |-> << >>]
      /\ ops = [t \in Tasks |-> [c \in Cameras |-> NoCall]]
      /\ closed = FALSE /\ shut = "none" /\ rec = NoRec
      /\ startTask = "none" /\ stopTask = "none" /\ job = "none" /\ catalog \in Catalogs
  BY DEF ServiceInit, ManagerInit
<1>2. NoWorker \in Worker /\ "NEW" \in LifeStates
  BY DEF NoWorker, Worker, NewLife, Lives, LifeStates, Wanted
<1>3. TablesTypeOK
  BY <1>1, <1>2, NoCallTyped DEF TablesTypeOK
<1>4. TasksTypeOK
  BY <1>1, NoRecTyped DEF TasksTypeOK
<1>5. ASSUME NEW c \in Cameras
      PROVE  LineOK(line[c], OpsOn(c), owned[c]) /\ WorkersOK(life[c], owned[c], statuses[c])
  <2>1. line[c] = << >> /\ owned[c] = NoSlot /\ statuses[c] = "NEW" /\ life[c] = [s \in Slots |-> NoWorker]
    BY <1>1
  <2>2. \A t \in Tasks : OpsOn(c)[t] = NoCall
    BY <1>1 DEF OpsOn
  <2>3. LineOK(line[c], OpsOn(c), owned[c])
    BY <2>1, <2>2, NoCallTyped DEF LineOK
  <2>4. WorkersOK(life[c], owned[c], statuses[c])
    BY <2>1 DEF WorkersOK
  <2> QED
    BY <2>3, <2>4
<1>6. \A t \in Tasks, c \in Cameras : ops[t][c].pc = "idle"
  BY <1>1, NoCallTyped
<1>7. ShutdownKnows
  BY <1>1, <1>6, SomeTasks DEF ShutdownKnows
<1>8. ReconcileKnows
  BY <1>1, <1>6, SomeTasks, NoRecTyped DEF ReconcileKnows, Busy
<1>9. CapacityHeld
  <2>1. Registered(owned) = {}
    BY <1>1 DEF Registered
  <2>2. MaxActive \in Nat /\ Cardinality({}) = 0
    BY ManagerAssumption, FS_EmptySet
  <2> QED
    BY <2>1, <2>2 DEF CapacityHeld
<1> QED
  BY <1>3, <1>4, <1>5, <1>7, <1>8, <1>9 DEF ServiceInv, CamerasKnow

LEMMA OpStepKeeps ==
  ASSUME ServiceInv, NEW t \in Tasks, NEW c \in Cameras, OpStep(t, c), UNCHANGED serviceVars
  PROVE  ServiceInv'
BY EnterKeeps, StopReturnsKeeps, StartReturnsKeeps, StartFailsKeeps DEF OpStep

LEMMA ServiceNextKeeps == ServiceInv /\ [ServiceNext]_allVars => ServiceInv'
<1> SUFFICES ASSUME ServiceInv, [ServiceNext]_allVars PROVE ServiceInv'
  OBVIOUS
<1>1. CASE Start \/ StartRolledBack \/ Tick \/ Stop \/ StopEnds \/ EditCatalog
  BY <1>1, OwnStepsKeep
<1>2. CASE \E ok \in BOOLEAN : StartReadsCatalog(ok)
  BY <1>2, StartReadsCatalogKeeps
<1>3. CASE \E refused \in BOOLEAN : StartReconciled(refused)
  BY <1>3, StartReconciledKeeps
<1>4. CASE \E ok \in BOOLEAN : JobReadsCatalog(ok)
  BY <1>4, JobReadsCatalogKeeps
<1>5. CASE JobReconciled \/ StopRemovesJob \/ StopShutsDown
  BY <1>5, JobReconciledKeeps, StopRemovesJobKeeps, StopShutsDownKeeps
<1>6. CASE \E u \in Users, c \in Cameras : UserRequests(u, c)
  BY <1>6, UserRequestsKeeps
<1>7. CASE ManagerSteps /\ UNCHANGED serviceVars
  <2>1. CASE \E c \in Cameras, s \in Slots : WorkerSteps(c, s)
    BY <1>7, <2>1, WorkerStepsKeeps
  <2>2. CASE \E t \in Tasks, c \in Cameras : OpStep(t, c)
    BY <1>7, <2>2, OpStepKeeps
  <2>3. CASE \E u \in Users : CancelRequest(u)
    BY <1>7, <2>3, CancelRequestKeeps
  <2>4. CASE ReconcileStarts \/ ReconcileEnds \/ ShutdownLists \/ ShutdownEnds
    BY <1>7, <2>4, ReconcileStartsKeeps, ReconcileEndsKeeps, ShutdownListsKeeps, ShutdownEndsKeeps
  <2> QED
    BY <1>7, <2>1, <2>2, <2>3, <2>4 DEF ManagerSteps
<1>8. CASE UNCHANGED allVars
  <2>1. UNCHANGED <<life, owned, statuses, line, ops, closed, shut, rec, serviceVars>>
    BY <1>8 DEF allVars, managerVars, workerVars
  <2>2. TablesTypeOK' /\ CamerasKnow'
    BY <2>1, SameTables DEF ServiceInv
  <2> QED
    BY <2>1, <2>2, UsersMove
<1>9. ASSUME NEW ok \in BOOLEAN, StartReconciled(~ok) PROVE ServiceInv'
  <2>1. (~ok) \in BOOLEAN
    BY Zenon
  <2> QED
    BY <1>9, <2>1, <1>3
<1> QED
  BY <1>1, <1>2, <1>4, <1>5, <1>6, <1>7, <1>8, <1>9
     DEF ServiceNext, StartTask, Job, StopTask, ManagerNext

\* The inductive invariant of the service and the camera manager.
THEOREM ServiceInvariance == ServiceSpec => []ServiceInv
<1>1. ServiceInit => ServiceInv
  BY ServiceInitKeeps
<1>2. ServiceInv /\ [ServiceNext]_allVars => ServiceInv'
  BY ServiceNextKeeps
<1> QED
  BY <1>1, <1>2, PTL DEF ServiceSpec

\* Type correctness; the lock of a camera has no task in line twice, and exactly
\* the tasks with an operation in progress.
THEOREM ServiceTypeCorrect == ServiceSpec => []ServiceTypeOK
<1>1. ServiceInv => ServiceTypeOK
  <2> SUFFICES ASSUME ServiceInv PROVE ServiceTypeOK
    OBVIOUS
  <2>1. TablesTypeOK /\ TasksTypeOK
    BY DEF ServiceInv
  <2>2. ASSUME NEW c \in Cameras PROVE line[c] \in Seq(Tasks) /\ IsInjective(line[c])
    <3>1. LineOK(line[c], OpsOn(c), owned[c]) /\ line[c] \in Seq(Tasks)
      BY CameraFacts
    <3>2. DOMAIN line[c] = 1..Len(line[c])
      BY <3>1
    <3> QED
      BY <3>1, <3>2 DEF LineOK, IsInjective
  <2>3. ASSUME NEW t \in Tasks, NEW c \in Cameras
        PROVE  /\ ops[t][c].pc \in {"idle", "lock", "stopping", "starting", "refusing", "unwinding"}
               /\ (ops[t][c].pc = "idle") = (\A n \in DOMAIN line[c] : line[c][n] # t)
    <3>1. /\ LineOK(line[c], OpsOn(c), owned[c]) /\ line[c] \in Seq(Tasks) /\ OpsOn(c)[t] = ops[t][c]
          /\ ops[t][c] \in Operation
      BY CameraFacts
    <3>2. DOMAIN line[c] = 1..Len(line[c]) /\ ops[t][c].pc \in OpPcs
      BY <3>1 DEF Operation
    <3>3. ops[t][c].pc = "idle" <=> \A n \in DOMAIN line[c] : line[c][n] # t
      BY <3>1, <3>2 DEF LineOK
    <3> QED
      BY <3>2, <3>3 DEF OpPcs
  <2>4. rec.pc \in {"idle", "removing", "starting", "cancelled", "ended"}
    BY <2>1 DEF TasksTypeOK, Reconciliation
  <2> QED
    BY <2>1, <2>2, <2>3, <2>4 DEF ServiceTypeOK, TablesTypeOK, TasksTypeOK, Worker, Wanted
<1> QED
  BY <1>1, ServiceInvariance, PTL

\* A worker that is alive is the one registered for its camera: none is ever lost,
\* however operations, failures and cancellations overlap.
THEOREM NoWorkerIsLost == ServiceSpec => []LiveIsOwned
<1>1. ServiceInv => LiveIsOwned
  <2> SUFFICES ASSUME ServiceInv, NEW c \in Cameras, NEW s \in Slots, Live(c, s) PROVE owned[c] = s
    BY DEF LiveIsOwned
  <2>1. WorkersOK(life[c], owned[c], statuses[c])
    BY CameraFacts
  <2> QED
    BY <2>1 DEF WorkersOK, Live, NoWorker, NewLife
<1> QED
  BY <1>1, ServiceInvariance, PTL

\* A registered camera's status is its worker's, and a camera that is not
\* registered is never reported alive.
THEOREM StatusesAreCurrent == ServiceSpec => []StatusIsCurrent
<1>1. ServiceInv => StatusIsCurrent
  <2> SUFFICES ASSUME ServiceInv PROVE StatusIsCurrent
    OBVIOUS
  <2>1. \A c \in Cameras : WorkersOK(life[c], owned[c], statuses[c])
    BY CameraFacts
  <2> QED
    BY <2>1 DEF WorkersOK, StatusIsCurrent
<1> QED
  BY <1>1, ServiceInvariance, PTL

\* With nothing registered, nothing is alive.
LEMMA NothingLeft ==
  ASSUME ServiceInv, shut = "done"
  PROVE  \A c \in Cameras, s \in Slots : owned[c] = NoSlot /\ ~Live(c, s)
<1> SUFFICES ASSUME NEW c \in Cameras, NEW s \in Slots PROVE owned[c] = NoSlot /\ ~Live(c, s)
  OBVIOUS
<1>1. owned[c] = NoSlot
  BY DEF ServiceInv, ShutdownKnows
<1>2. WorkersOK(life[c], owned[c], statuses[c]) /\ s # NoSlot
  BY CameraFacts, ManagerAssumption DEF NoSlot
<1> QED
  BY <1>1, <1>2 DEF WorkersOK, Live, NoWorker, NewLife

\* Once _shutdown_impl has ended there is no worker, and none ever appears again.
THEOREM ShutdownIsFinal == ServiceSpec => []ShutdownLeavesNothing
<1>1. ServiceInv => ShutdownLeavesNothing
  BY NothingLeft DEF ShutdownLeavesNothing
<1> QED
  BY <1>1, ServiceInvariance, PTL

\* stop() returns, and a start that failed reports it, only when no camera has a
\* worker, registered or alive.
ReturnsLeaveNothing ==
  stopTask = "done" \/ startTask = "failed" =>
     \A c \in Cameras, s \in Slots : owned[c] = NoSlot /\ ~Live(c, s)

\* A stop that has returned and a start that has rolled back are both behind a finished
\* shutdown (_stop_impl, and the rollback of _start_impl).
THEOREM ReturnsAreClean == ServiceSpec => []ReturnsLeaveNothing
<1>1. ServiceInv => ReturnsLeaveNothing
  <2> SUFFICES ASSUME ServiceInv, stopTask = "done" \/ startTask = "failed"
               PROVE  \A c \in Cameras, s \in Slots : owned[c] = NoSlot /\ ~Live(c, s)
    BY DEF ReturnsLeaveNothing
  <2>1. shut = "done"
    BY DEF ServiceInv, ShutdownKnows
  <2> QED
    BY <2>1, NothingLeft
<1> QED
  BY <1>1, ServiceInvariance, PTL

\* max_active_workers is never exceeded: the check and the registration of
\* start_camera and restart_camera are under one registry lock.
THEOREM CapacityNeverExceeded == ServiceSpec => []CapacityHeld
<1>1. ServiceInv => CapacityHeld
  BY DEF ServiceInv
<1> QED
  BY <1>1, ServiceInvariance, PTL

\* What a step may do to the registry: a worker goes only when it is over, and one
\* comes only while the manager is open, which it never is again.
RegistryStep ==
  /\ closed => closed'
  /\ \A c \in Cameras : owned'[c] # owned[c] =>
       /\ owned[c] # NoSlot => Over(c, owned[c])
       /\ owned'[c] # NoSlot => ~closed

LEMMA AdmitRegisters ==
  ASSUME NEW t, NEW c \in Cameras, NEW w \in [Cameras -> Slots \cup {NoSlot}], NEW v, Admit(t, c, w, v)
  PROVE  \A x \in Cameras : owned'[x] # w[x] => x = c /\ ~closed
<1>1. CASE owned' = w
  BY <1>1
<1>2. CASE ~closed /\ \E s \in Slots : owned' = [w EXCEPT ![c] = s]
  BY <1>2
<1> QED
  BY <1>1, <1>2 DEF Admit, AdmissionOpen

LEMMA OpStepRegisters ==
  ASSUME ServiceInv, NEW t \in Tasks, NEW c \in Cameras, OpStep(t, c)
  PROVE  RegistryStep
<1>1. owned \in [Cameras -> Slots \cup {NoSlot}]
  BY DEF ServiceInv, TablesTypeOK
<1>2. CASE Enter(t, c)
  <2>1. closed' = closed
    BY <1>2 DEF Enter
  <2>2. CASE UNCHANGED owned
    BY <2>1, <2>2 DEF RegistryStep
  <2>3. CASE owned[c] = NoSlot /\ Admit(t, c, owned, life)
    <3>1. \A x \in Cameras : owned'[x] # owned[x] => x = c /\ ~closed
      BY <1>1, <2>3, AdmitRegisters
    <3> QED
      BY <2>1, <2>3, <3>1 DEF RegistryStep
  <2> QED
    BY <1>2, <2>2, <2>3 DEF Enter, workerVars
<1>3. ASSUME ops[t][c].pc \notin {"idle", "lock"}, Over(c, ops[t][c].slot), UNCHANGED closed,
             \/ owned' = Removed(c, ops[t][c].slot)
             \/ Admit(t, c, Removed(c, ops[t][c].slot), Forgotten(c, ops[t][c].slot))
      PROVE  RegistryStep
  <2> DEFINE w == Removed(c, ops[t][c].slot)
  <2>1. ops[t][c].slot = owned[c] /\ owned[c] \in Slots /\ Over(c, owned[c])
    BY <1>3, PastTheLock
  <2>2. w \in [Cameras -> Slots \cup {NoSlot}] /\ \A x \in Cameras : w[x] = IF x = c THEN NoSlot ELSE owned[x]
    BY <1>1, <2>1 DEF Removed
  <2>3. owned' = w \/ Admit(t, c, w, Forgotten(c, ops[t][c].slot))
    BY <1>3
  <2> HIDE DEF w
  <2>4. \A x \in Cameras : owned'[x] # w[x] => x = c /\ ~closed
    BY <2>2, <2>3, AdmitRegisters
  <2> QED
    BY <1>3, <2>1, <2>2, <2>4 DEF RegistryStep
<1>4. CASE \E unclean \in BOOLEAN : StopReturns(t, c, unclean)
  <2>1. ops[t][c].pc = "stopping" /\ Over(c, ops[t][c].slot) /\ UNCHANGED closed
    BY <1>4 DEF StopReturns
  <2>2. \/ owned' = Removed(c, ops[t][c].slot)
        \/ Admit(t, c, Removed(c, ops[t][c].slot), Forgotten(c, ops[t][c].slot))
    BY <1>4 DEF StopReturns
  <2> QED
    BY <1>3, <2>1, <2>2
<1>5. CASE StartReturns(t, c)
  BY <1>5 DEF StartReturns, RegistryStep
<1>6. CASE StartFails(t, c)
  <2>1. /\ ops[t][c].pc \in {"starting", "refusing", "unwinding"} /\ Over(c, ops[t][c].slot)
        /\ UNCHANGED closed /\ owned' = Removed(c, ops[t][c].slot)
    BY <1>6 DEF StartFails
  <2> QED
    BY <1>3, <2>1
<1> QED
  BY <1>2, <1>4, <1>5, <1>6 DEF OpStep

\* No worker is dropped that is not over, and nothing is started once the manager
\* has been closed: what _remove_worker and _ensure_admission_open are for.
RegistryIsSafe == [][RegistryStep]_allVars

\* Every step of the service and of the manager treats the registry so: a worker is
\* removed after its stop has settled it, and admission is checked where one is added.
THEOREM RegistrySafety == ServiceSpec => RegistryIsSafe
<1>1. ServiceInv /\ ServiceNext => RegistryStep
  <2> SUFFICES ASSUME ServiceInv, ServiceNext PROVE RegistryStep
    OBVIOUS
  <2>1. CASE UNCHANGED owned /\ (closed' = closed \/ closed' = TRUE)
    BY <2>1 DEF RegistryStep
  <2>2. CASE \E t \in Tasks, c \in Cameras : OpStep(t, c)
    BY <2>2, OpStepRegisters
  <2>3. CASE Start \/ Tick \/ Stop \/ EditCatalog
    BY <2>1, <2>3 DEF Start, Tick, Stop, EditCatalog, managerVars, workerVars
  <2>4. CASE StartTask
    <3>1. UNCHANGED owned
      BY <2>4 DEF StartTask, StartReadsCatalog, CatalogAnswers, StartReconciled, StartRolledBack,
                  managerVars, workerVars
    <3>2. closed' = closed \/ closed' = TRUE
      BY <2>4 DEF StartTask, StartReadsCatalog, StartGoesOn, ShutdownCalled, StartReconciled,
                  StartRolledBack, managerVars
    <3> QED
      BY <2>1, <3>1, <3>2
  <2>5. CASE Job
    BY <2>1, <2>5 DEF Job, JobReconciled, JobReadsCatalog, CatalogAnswers, workerVars
  <2>6. CASE StopTask
    BY <2>1, <2>6 DEF StopTask, StopRemovesJob, RemoveJob, CancelOps, StopShutsDown, ShutdownCalled,
                      StopEnds, managerVars, workerVars
  <2>7. CASE \E u \in Users, c \in Cameras : UserRequests(u, c)
    BY <2>1, <2>7 DEF UserRequests, Request, workerVars
  <2>8. CASE \E c \in Cameras, s \in Slots : WorkerSteps(c, s)
    BY <2>1, <2>8 DEF WorkerSteps
  <2>9. CASE \E u \in Users : CancelRequest(u)
    BY <2>1, <2>9 DEF CancelRequest, CancelOps
  <2>10. CASE ReconcileStarts \/ ReconcileEnds \/ ShutdownLists \/ ShutdownEnds
    BY <2>1, <2>10 DEF ReconcileStarts, ReconcileEnds, ShutdownLists, ShutdownEnds, workerVars
  <2> QED
    BY <2>2, <2>3, <2>4, <2>5, <2>6, <2>7, <2>8, <2>9, <2>10 DEF ServiceNext, ManagerNext, ManagerSteps
<1> QED
  BY <1>1, ServiceInvariance, PTL DEF ServiceSpec, RegistryIsSafe
=============================================================================
