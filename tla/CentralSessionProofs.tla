------------------------ MODULE CentralSessionProofs ------------------------
(***************************************************************************)
(* Machine-checked proofs about CentralSession, for any set of requests,   *)
(* any pool and any bounds.                                                *)
(***************************************************************************)
EXTENDS CentralSession, WellFoundedInduction, TLAPS

-----------------------------------------------------------------------------
(* The inductive invariant, in parts.                                      *)

\* A login that holds the user's row works on the latest session drawn, which
\* has no row yet; a request past authentication works on one that has a row.
RequestsKnowSession ==
  \A r \in Requests :
    /\ req[r].pc \notin {"idle", "due", "pass"} => req[r].sid \in Sids
    /\ req[r].pc \in {"activate", "commit"} =>
         userLock = r /\ req[r].sid = nextSid /\ row[req[r].sid] = "unused"
    /\ req[r].pc \in {"ttl", "rotate", "replay", "revoke"} => row[req[r].sid] # "unused"

\* At most one row is live, and no later session was accepted before it.
LiveIsLatest ==
  /\ \A s \in Sids : row[s] # "unused" => s <= nextSid
  /\ \A s, t \in Live : s = t
  /\ \A s \in Live : accepted <= s
  /\ accepted <= nextSid
  /\ \A s \in ended : row[s] # "unused"

\* The keys are a pair, and the current token has not been exchanged.
CurrentTokenUnused ==
  /\ sess.sid # NoSid /\ ref.sid # NoSid => sess.sid = ref.sid
  /\ ref.sid # NoSid => ref.tok \in DOMAIN toks
  /\ \A u \in DOMAIN toks : toks[u].parent <= Len(toks)
  /\ \A u \in DOMAIN toks : ref.sid # NoSid => toks[u].parent # ref.tok
  /\ RefreshOnce

\* A pass works on rows of the outbox, by the kind of the one it is at.
PassKnowsRow ==
  \A p \in Processors :
    /\ pass[p].todo \subseteq DOMAIN outbox
    /\ pass[p].pc \in {"apply", "snapshot", "update", "delete", "mark"} => pass[p].todo # {}
    /\ pass[p].pc \in {"apply", "snapshot", "update", "delete"} =>
         outbox[AtRow(p)].op = "reconcile"

\* No pass has dealt with row i and is about to mark it.
Untouched(i) == \A p \in Processors : pass[p].pc = "mark" => AtRow(p) # i

\* While a key names an ended session, a row that no pass has dealt with covers it.
RevocationWaits ==
  \A s \in ended \intersect {sess.sid, ref.sid} :
    \E i \in Pending : Covers(i, s) /\ Untouched(i)

IInv == /\ TypeOK /\ RequestsKnowSession /\ LiveIsLatest
        /\ CurrentTokenUnused /\ PassKnowsRow /\ RevocationWaits

-----------------------------------------------------------------------------
(* Facts used throughout.                                                  *)

\* A pass with rows left is at one of them.
LEMMA AtRowIsTodo ==
  ASSUME TypeOK, NEW p \in Processors, pass[p].todo # {}
  PROVE  AtRow(p) \in pass[p].todo
<1> DEFINE T == pass[p].todo
<1>1. T \subseteq Nat /\ T # {}
  BY DEF TypeOK, Pass
<1>2. PICK m \in T : \A k \in T : ~(<<k, m>> \in OpToRel(<, Nat))
  <2> HIDE DEF T
  <2> QED
    BY <1>1, WFMin, NatLessThanWellFounded
<1>3. \A k \in T : ~(k < m)
  BY <1>1, <1>2 DEF OpToRel
<1>4. \A k \in T : m <= k
  BY <1>1, <1>3
<1> QED
  BY <1>4 DEF AtRow, Min

LEMMA InitIInv == Init => IInv
<1> SUFFICES ASSUME Init PROVE IInv
  OBVIOUS
<1>1. TypeOK
  BY SessionAssumption DEF Init, TypeOK, Request, Pass, Idle, NoPass, NoSess, NoRef, NoSid
<1>2. RequestsKnowSession /\ LiveIsLatest
  BY DEF Init, RequestsKnowSession, LiveIsLatest, Idle, Live, NoSid, Sids
<1>3. CurrentTokenUnused
  BY DEF Init, CurrentTokenUnused, RefreshOnce, NoSess, NoRef, NoSid
<1>4. PassKnowsRow /\ RevocationWaits
  BY DEF Init, PassKnowsRow, RevocationWaits, NoPass
<1> QED
  BY <1>1, <1>2, <1>3, <1>4 DEF IInv

\* Every step is a step of one request, of one pass, or of the surroundings.
RequestStep(r) ==
  \/ LoginBegin(r)
  \/ LoginActivate(r)
  \/ LoginActivateUnanswered(r)
  \/ LoginCommit(r)
  \/ LoginCommitFails(r)
  \/ LoginCompensate(r)
  \/ ReadKey(r)
  \/ Accept(r)
  \/ Reject(r)
  \/ RefreshTtl(r)
  \/ RotateRefresh(r)
  \/ RefreshReplay(r)
  \/ RevokeSession(r)
  \/ RequestFails(r)
  \/ CloseAccount(r)
  \/ ReopenAccount(r)
  \/ \E l \in Licenses : ChangeLicense(r, l) \/ ExpireLicense(r, l)

PassStep(p) ==
  \/ PassBegin(p)
  \/ RevokeRow(p)
  \/ ReadLicense(p)
  \/ SnapshotSessions(p)
  \/ RevokeUnlicensed(p)
  \/ DeleteUnlicensed(p)
  \/ ReconcileKeys(p)
  \/ MarkRow(p)
  \/ RowFails(p)
  \/ PassEnd(p)
  \/ PassAborts(p)

OtherStep == \/ SessionKeyExpires \/ RefreshKeyExpires \/ Restart
             \/ \E l \in Licenses : LicenseLapses(l)
             \/ UNCHANGED vars

LEMMA NextCases ==
  ASSUME [Next]_vars
  PROVE  (\E r \in Requests : RequestStep(r)) \/ (\E p \in Processors : PassStep(p)) \/ OtherStep
BY Zenon DEF Next, Proceeds, Processes, RequestStep, PassStep, OtherStep

-----------------------------------------------------------------------------
(* Types.                                                                  *)

\* What the helpers of the actions leave is typed.
LEMMA GotoType ==
  ASSUME TypeOK, NEW r \in Requests, NEW c,
         c \in {"idle", "activate", "commit", "compensate", "check", "ttl", "rotate", "replay",
                "revoke", "due", "pass"}, Goto(r, c)
  PROVE  req' \in [Requests -> Request]
<1>1. req \in [Requests -> Request]
  BY DEF TypeOK
<1>2. [req[r] EXCEPT !.pc = c] \in Request
  BY <1>1 DEF Request
<1> QED
  BY <1>1, <1>2 DEF Goto

LEMMA ReturnType ==
  ASSUME TypeOK, NEW r \in Requests, Return(r)
  PROVE  req' \in [Requests -> Request]
BY DEF TypeOK, Return, Request, Idle, NoSid

LEMMA StepType ==
  ASSUME TypeOK, NEW p \in Processors, NEW c,
         c \in {"idle", "row", "apply", "snapshot", "update", "delete", "mark"}, Step(p, c)
  PROVE  pass' \in [Processors -> Pass]
<1>1. pass[p] \in Pass
  BY DEF TypeOK
<1>2. [pass[p] EXCEPT !.pc = c] \in Pass
  BY <1>1 DEF Pass
<1>3. pass' = [pass EXCEPT ![p] = [pass[p] EXCEPT !.pc = c]]
  BY DEF Step
<1> QED
  BY <1>2, <1>3 DEF TypeOK

LEMMA NextRowType ==
  ASSUME TypeOK, NEW p \in Processors, NextRow(p)
  PROVE  pass' \in [Processors -> Pass]
<1>1. [pc |-> "row", todo |-> pass[p].todo \ {AtRow(p)}, lic |-> 0, targets |-> {}] \in Pass
  BY DEF TypeOK, Pass
<1> QED
  BY <1>1 DEF TypeOK, NextRow

LEMMA EnqueueType ==
  ASSUME TypeOK, NEW s \in Sids \union {NoSid}, NEW op \in {"revoke", "reconcile"}, Enqueue(op, s)
  PROVE  outbox' \in Seq(OutboxRow)
<1>1. [op |-> op, sid |-> s, done |-> FALSE] \in OutboxRow
  BY DEF OutboxRow
<1> QED
  BY <1>1 DEF TypeOK, Enqueue

LEMMA RevokeType ==
  ASSUME TypeOK, NEW gone, Revoke(gone)
  PROVE  row' \in [Sids -> {"unused", "live", "revoked"}]
BY DEF TypeOK, Revoke

LEMMA NewRowType ==
  ASSUME TypeOK, NEW s \in Sids, NewRow(s)
  PROVE  row' \in [Sids -> {"unused", "live", "revoked"}]
BY DEF TypeOK, NewRow

\* The types of the two keys.
KeyTypes == /\ sess \in [sid : Sids \union {NoSid}, lic : Licenses \union {0}]
            /\ ref \in [sid : Sids \union {NoSid}, tok : Nat]

LEMMA ClearType == ClearKeys => KeyTypes'
BY DEF ClearKeys, KeyTypes, NoSess, NoRef

LEMMA DeleteType ==
  ASSUME TypeOK, NEW s, DeleteIfSid(s)
  PROVE  KeyTypes'
BY ClearType DEF DeleteIfSid, KeyTypes, TypeOK, keys

LEMMA IssueType ==
  ASSUME TypeOK, NEW s \in Sids, NEW t \in Nat, IssueToken(s, t)
  PROVE  toks' \in Seq(Token) /\ ref' \in [sid : Sids \union {NoSid}, tok : Nat]
<1>1. [sid |-> s, parent |-> t] \in Token /\ Len(toks) \in Nat
  BY DEF Token, TypeOK
<1> QED
  BY <1>1 DEF TypeOK, IssueToken

LEMMA FaultType == ASSUME TypeOK, Fault PROVE faults' \in 0..MaxFaults
BY SessionAssumption DEF TypeOK, Fault

LEMMA LoginTypes ==
  ASSUME IInv, NEW r \in Requests,
         LoginBegin(r) \/ LoginActivate(r) \/ LoginActivateUnanswered(r) \/ LoginCommit(r)
           \/ LoginCommitFails(r) \/ LoginCompensate(r)
  PROVE  TypeOK'
<1> USE DEF store, keys, history
<1>1. TypeOK /\ (req[r].pc \in {"activate", "commit"} => req[r].sid \in Sids)
  BY DEF IInv, RequestsKnowSession
<1>2. req[r] \in Request
  BY <1>1 DEF TypeOK
<1>3. CASE LoginBegin(r)
  <2>1. nextSid' \in 0..MaxSids /\ nextSid + 1 \in Sids
    BY <1>1, <1>3, SessionAssumption DEF LoginBegin, TypeOK, Sids
  <2>2. req' \in [Requests -> Request]
    BY <1>1, <1>3, <2>1 DEF LoginBegin, TypeOK, Request
  <2> QED
    BY <1>1, <1>3, <2>1, <2>2 DEF LoginBegin, TypeOK
<1>4. CASE LoginActivate(r) \/ LoginActivateUnanswered(r)
  <2>1. Activate(r) /\ req[r].sid \in Sids
    BY <1>1, <1>4 DEF LoginActivate, LoginActivateUnanswered, Activate
  <2>2. /\ sess' \in [sid : Sids \union {NoSid}, lic : Licenses \union {0}]
        /\ toks' \in Seq(Token) /\ ref' \in [sid : Sids \union {NoSid}, tok : Nat]
    BY <1>1, <1>2, <2>1, IssueType DEF Activate, Request
  <2>3. req' \in [Requests -> Request] /\ faults' \in 0..MaxFaults
    BY <1>1, <1>4, GotoType, ReturnType, FaultType DEF LoginActivate, LoginActivateUnanswered, TypeOK
  <2> QED
    BY <1>1, <1>4, <2>2, <2>3 DEF LoginActivate, LoginActivateUnanswered, TypeOK
<1>5. CASE LoginCommit(r) \/ LoginCommitFails(r)
  <2>1. row' \in [Sids -> {"unused", "live", "revoked"}]
    BY <1>1, <1>5, NewRowType DEF LoginCommit, LoginCommitFails, TypeOK
  <2>2. req' \in [Requests -> Request] /\ faults' \in 0..MaxFaults
    BY <1>1, <1>5, GotoType, ReturnType, FaultType DEF LoginCommit, LoginCommitFails, TypeOK
  <2> QED
    BY <1>1, <1>5, <2>1, <2>2 DEF LoginCommit, LoginCommitFails, TypeOK
<1>6. CASE LoginCompensate(r)
  <2>1. req' \in [Requests -> Request] /\ KeyTypes'
    BY <1>1, <1>6, ReturnType, DeleteType DEF LoginCompensate
  <2> QED
    BY <1>1, <1>6, <2>1 DEF LoginCompensate, TypeOK, KeyTypes
<1> QED
  BY <1>3, <1>4, <1>5, <1>6

LEMMA RequestTypes ==
  ASSUME IInv, NEW r \in Requests,
         ReadKey(r) \/ Accept(r) \/ Reject(r) \/ RefreshTtl(r) \/ RotateRefresh(r)
           \/ RefreshReplay(r) \/ RevokeSession(r) \/ RequestFails(r)
  PROVE  TypeOK'
<1> USE DEF store, keys, history
<1>1. TypeOK /\ (req[r].pc \in {"check", "rotate", "revoke"} => req[r].sid \in Sids)
  BY DEF IInv, RequestsKnowSession
<1>2. req[r].tok \in Nat
  BY <1>1 DEF TypeOK, Request
<1>3. CASE ReadKey(r)
  <2>1. req' \in [Requests -> Request]
    BY <1>1, <1>3 DEF ReadKey, TypeOK, Request
  <2> QED
    BY <1>1, <1>3, <2>1 DEF ReadKey, TypeOK
<1>4. CASE Accept(r)
  <2>1. req' \in [Requests -> Request] /\ accepted' \in Sids
    BY <1>1, <1>4, GotoType, ReturnType DEF Accept
  <2> QED
    BY <1>1, <1>4, <2>1 DEF Accept, TypeOK
<1>5. CASE Reject(r) \/ RefreshTtl(r) \/ RefreshReplay(r)
  <2>1. req' \in [Requests -> Request]
    BY <1>1, <1>5, GotoType, ReturnType DEF Reject, RefreshTtl, RefreshReplay
  <2> QED
    BY <1>1, <1>5, <2>1 DEF Reject, RefreshTtl, RefreshReplay, TypeOK
<1>6. CASE RotateRefresh(r)
  <2>1. req' \in [Requests -> Request]
    BY <1>1, <1>6, GotoType, ReturnType DEF RotateRefresh
  <2>2. toks' \in Seq(Token) /\ ref' \in [sid : Sids \union {NoSid}, tok : Nat]
    BY <1>1, <1>2, <1>6, IssueType DEF RotateRefresh, TypeOK
  <2> QED
    BY <1>1, <1>6, <2>1, <2>2 DEF RotateRefresh, TypeOK
<1>7. CASE RevokeSession(r)
  <2>1. req' \in [Requests -> Request] /\ req[r].sid \in Sids
    BY <1>1, <1>7, GotoType DEF RevokeSession
  <2>2. outbox' \in Seq(OutboxRow) /\ row' \in [Sids -> {"unused", "live", "revoked"}]
    BY <1>1, <1>7, <2>1, EnqueueType, RevokeType DEF RevokeSession
  <2> QED
    BY <1>1, <1>7, <2>1, <2>2 DEF RevokeSession, TypeOK
<1>8. CASE RequestFails(r)
  <2>1. req' \in [Requests -> Request] /\ faults' \in 0..MaxFaults
    BY <1>1, <1>8, ReturnType, FaultType DEF RequestFails
  <2> QED
    BY <1>1, <1>8, <2>1 DEF RequestFails, TypeOK
<1> QED
  BY <1>3, <1>4, <1>5, <1>6, <1>7, <1>8

LEMMA AdminTypes ==
  ASSUME IInv, NEW r \in Requests,
         CloseAccount(r) \/ ReopenAccount(r)
           \/ \E l \in Licenses : ChangeLicense(r, l) \/ ExpireLicense(r, l)
  PROVE  TypeOK'
<1> USE DEF store, keys, history
<1>1. TypeOK
  BY DEF IInv
<1>2. CASE CloseAccount(r) \/ \E l \in Licenses : ExpireLicense(r, l)
  <2>1. req' \in [Requests -> Request]
    BY <1>1, <1>2, GotoType DEF CloseAccount, ExpireLicense
  <2>2. /\ outbox' \in Seq(OutboxRow) /\ row' \in [Sids -> {"unused", "live", "revoked"}]
        /\ ended' \subseteq Sids
    <3>1. EndSessions
      BY <1>2 DEF CloseAccount, ExpireLicense
    <3>2. row' \in [Sids -> {"unused", "live", "revoked"}] /\ ended' \subseteq Sids
      BY <1>1, <3>1, RevokeType DEF EndSessions, TypeOK, Live
    <3> QED
      BY <1>1, <3>1, <3>2, EnqueueType DEF EndSessions
  <2> QED
    BY <1>1, <1>2, <2>1, <2>2 DEF CloseAccount, ExpireLicense, TypeOK
<1>3. CASE ReopenAccount(r)
  BY <1>1, <1>3 DEF ReopenAccount, TypeOK
<1>4. CASE \E l \in Licenses : ChangeLicense(r, l)
  <2>1. req' \in [Requests -> Request] /\ outbox' \in Seq(OutboxRow)
    BY <1>1, <1>4, GotoType, EnqueueType DEF ChangeLicense
  <2> QED
    BY <1>1, <1>4, <2>1 DEF ChangeLicense, TypeOK
<1> QED
  BY <1>2, <1>3, <1>4

LEMMA PassTypes ==
  ASSUME IInv, NEW p \in Processors, PassStep(p)
  PROVE  TypeOK'
<1> USE DEF store, keys, history
<1>1. TypeOK /\ pass[p] \in Pass
  BY DEF IInv, TypeOK
<1>2. CASE PassBegin(p)
  <2>1. [NoPass EXCEPT !.pc = "row", !.todo = Pending] \in Pass
    <3>1. Pending \subseteq Nat
      BY <1>1 DEF TypeOK, Pending
    <3> QED
      BY <3>1 DEF NoPass, Pass
  <2>2. req' \in [Requests -> Request]
    BY <1>1, <1>2, GotoType DEF PassBegin, TypeOK, Processors
  <2> QED
    BY <1>1, <1>2, <2>1, <2>2 DEF PassBegin, TypeOK
<1>3. CASE RevokeRow(p)
  <2>1. KeyTypes' /\ pass' \in [Processors -> Pass]
    BY <1>1, <1>3, ClearType, DeleteType, StepType DEF RevokeRow
  <2> QED
    BY <1>1, <1>3, <2>1 DEF RevokeRow, TypeOK, KeyTypes
<1>4. CASE ReadLicense(p)
  <2>1. ASSUME NEW l \in Licenses, pass' = [pass EXCEPT ![p].pc = "apply", ![p].lic = l]
        PROVE  pass' \in [Processors -> Pass]
    <3>1. [pass[p] EXCEPT !.pc = "apply", !.lic = l] \in Pass
      BY <1>1 DEF Pass
    <3> QED
      BY <1>1, <2>1, <3>1 DEF TypeOK
  <2>2. pass' \in [Processors -> Pass]
    BY <1>1, <1>4, <2>1, StepType DEF ReadLicense
  <2> QED
    BY <1>1, <1>4, <2>2 DEF ReadLicense, TypeOK
<1>5. CASE SnapshotSessions(p)
  <2>1. [pass[p] EXCEPT !.pc = "update", !.targets = Live] \in Pass
    BY <1>1 DEF Pass, Live
  <2> QED
    BY <1>1, <1>5, <2>1 DEF SnapshotSessions, TypeOK
<1>6. CASE RevokeUnlicensed(p)
  <2>1. pass' \in [Processors -> Pass] /\ row' \in [Sids -> {"unused", "live", "revoked"}]
    BY <1>1, <1>6, StepType, RevokeType DEF RevokeUnlicensed
  <2> QED
    BY <1>1, <1>6, <2>1 DEF RevokeUnlicensed, TypeOK
<1>7. CASE DeleteUnlicensed(p) \/ ReconcileKeys(p)
  <2>1. pass' \in [Processors -> Pass]
    BY <1>1, <1>7, StepType DEF DeleteUnlicensed, ReconcileKeys
  <2>2. KeyTypes'
    BY <1>1, <1>7, ClearType DEF DeleteUnlicensed, ReconcileKeys, ReconcilePair, KeyTypes, TypeOK, Pass
  <2> QED
    BY <1>1, <1>7, <2>1, <2>2 DEF DeleteUnlicensed, ReconcileKeys, TypeOK, KeyTypes
<1>8. CASE MarkRow(p)
  <2>1. AtRow(p) \in pass[p].todo /\ pass[p].todo \subseteq DOMAIN outbox
    BY <1>1, <1>8, AtRowIsTodo DEF MarkRow, At, IInv, PassKnowsRow
  <2>2. outbox' \in Seq(OutboxRow)
    <3> DEFINE i == AtRow(p)
    <3>1. i \in DOMAIN outbox /\ [outbox[i] EXCEPT !.done = TRUE] \in OutboxRow
      <4>1. i \in DOMAIN outbox
        BY <2>1
      <4>2. outbox[i] \in OutboxRow
        BY <1>1, <4>1 DEF TypeOK
      <4> HIDE DEF i
      <4>3. [outbox[i] EXCEPT !.done = TRUE] \in OutboxRow
        BY <4>2 DEF OutboxRow
      <4> QED
        BY <4>1, <4>3
    <3>2. outbox' = [outbox EXCEPT ![i] = [outbox[i] EXCEPT !.done = TRUE]]
      BY <1>8 DEF MarkRow
    <3> HIDE DEF i
    <3> QED
      BY <1>1, <3>1, <3>2 DEF TypeOK
  <2> QED
    BY <1>1, <1>8, <2>2, NextRowType DEF MarkRow, TypeOK
<1>9. CASE RowFails(p)
  BY <1>1, <1>9, NextRowType, FaultType DEF RowFails, TypeOK
<1>10. CASE PassEnd(p) \/ PassAborts(p)
  <2>1. NoPass \in Pass
    BY DEF NoPass, Pass
  <2>2. LeavePass(p) /\ faults' \in 0..MaxFaults
    BY <1>1, <1>10, FaultType DEF PassEnd, PassAborts, TypeOK
  <2>3. req' \in [Requests -> Request]
    BY <1>1, <2>2, ReturnType DEF LeavePass, TypeOK, Processors
  <2> QED
    BY <1>1, <2>1, <2>2, <2>3 DEF LeavePass, TypeOK
<1> QED
  BY <1>2, <1>3, <1>4, <1>5, <1>6, <1>7, <1>8, <1>9, <1>10 DEF PassStep

LEMMA OtherTypes ==
  ASSUME IInv, OtherStep
  PROVE  TypeOK'
<1> USE DEF store, keys, history
<1>1. TypeOK /\ Idle \in Request /\ NoPass \in Pass
  BY DEF IInv, Idle, NoPass, Request, Pass
<1>2. CASE SessionKeyExpires \/ RefreshKeyExpires
  BY <1>1, <1>2 DEF SessionKeyExpires, RefreshKeyExpires, TypeOK, NoSess, NoRef
<1>3. CASE Restart
  BY <1>1, <1>3, FaultType DEF Restart, TypeOK
<1>4. CASE \E l \in Licenses : LicenseLapses(l)
  BY <1>1, <1>4 DEF LicenseLapses, TypeOK
<1>5. CASE UNCHANGED vars
  BY <1>1, <1>5 DEF vars, TypeOK
<1> QED
  BY <1>2, <1>3, <1>4, <1>5 DEF OtherStep

-----------------------------------------------------------------------------
(* The order of logins: RequestsKnowSession and LiveIsLatest.              *)

\* A step may revoke rows, but no session appears or becomes live.
RowsKept == \A s \in Sids : /\ row'[s] = "unused" <=> row[s] = "unused"
                            /\ row'[s] = "live" => row[s] = "live"

\* Request q ends, waits, or keeps what it knows of its session.
KeepsSession(q) ==
  \/ req'[q].pc \in {"idle", "due", "pass"}
  \/ req'[q] = req[q] /\ (userLock = q => userLock' = q)
  \/ /\ req'[q].sid = req[q].sid /\ req[q].pc \notin {"idle", "due", "pass"}
     /\ \/ req'[q].pc \in {"ttl", "rotate", "replay", "revoke"} /\ row[req[q].sid] # "unused"
        \/ req'[q].pc = "commit" /\ req[q].pc = "activate" /\ userLock' = userLock

LEMMA OrderKept ==
  ASSUME IInv, RowsKept, UNCHANGED nextSid, \A q \in Requests : KeepsSession(q),
         accepted' \in {accepted} \union Live,
         ended' \subseteq Sids, \A s \in ended' : s \in ended \/ row[s] # "unused"
  PROVE  RequestsKnowSession' /\ LiveIsLatest'
<1>1. TypeOK /\ RequestsKnowSession /\ LiveIsLatest
  BY DEF IInv
<1>2. RequestsKnowSession'
  <2> SUFFICES ASSUME NEW r \in Requests
               PROVE  /\ req'[r].pc \notin {"idle", "due", "pass"} => req'[r].sid \in Sids
                      /\ req'[r].pc \in {"activate", "commit"} =>
                           /\ userLock' = r /\ req'[r].sid = nextSid'
                           /\ row'[req'[r].sid] = "unused"
                      /\ req'[r].pc \in {"ttl", "rotate", "replay", "revoke"} =>
                           row'[req'[r].sid] # "unused"
    BY DEF RequestsKnowSession
  <2>1. KeepsSession(r)
    OBVIOUS
  <2> QED
    BY <1>1, <2>1 DEF KeepsSession, RequestsKnowSession, RowsKept
<1>3. LiveIsLatest'
  <2>1. Live' \subseteq Live
    BY DEF Live, RowsKept
  <2>2. \A s \in Sids : row'[s] # "unused" => s <= nextSid'
    BY <1>1 DEF RowsKept, LiveIsLatest
  <2>3. \A s, t \in Live' : s = t
    BY <1>1, <2>1 DEF LiveIsLatest
  <2>4. \A s \in Live' : accepted' <= s
    BY <1>1, <2>1 DEF LiveIsLatest, Live, Sids
  <2>5. accepted' <= nextSid'
    BY <1>1 DEF LiveIsLatest, Live
  <2>6. \A s \in ended' : row'[s] # "unused"
    BY <1>1 DEF LiveIsLatest, RowsKept
  <2> QED
    BY <2>2, <2>3, <2>4, <2>5, <2>6 DEF LiveIsLatest
<1> QED
  BY <1>2, <1>3

LEMMA RevokeKeepsRows ==
  ASSUME TypeOK, NEW gone, Revoke(gone)
  PROVE  RowsKept
BY DEF Revoke, RowsKept, Live, TypeOK

\* What the helpers do to the requests.
LEMMA ReturnKeeps ==
  ASSUME TypeOK, NEW r \in Requests, Return(r), \A q \in Requests \ {r} : userLock = q => userLock' = q
  PROVE  \A q \in Requests : KeepsSession(q)
BY DEF TypeOK, Return, KeepsSession, Idle

LEMMA GotoKeeps ==
  ASSUME TypeOK, NEW r \in Requests, NEW c, Goto(r, c), UNCHANGED userLock,
         \/ c \in {"due", "pass"}
         \/ /\ c \in {"ttl", "rotate", "replay", "revoke"} /\ row[req[r].sid] # "unused"
            /\ req[r].pc \notin {"idle", "due", "pass"}
         \/ c = "commit" /\ req[r].pc = "activate"
  PROVE  \A q \in Requests : KeepsSession(q)
<1>1. \A q \in Requests \ {r} : req'[q] = req[q]
  BY DEF TypeOK, Goto
<1>2. req'[r].pc = c /\ req'[r].sid = req[r].sid
  BY DEF TypeOK, Goto, Request
<1> QED
  BY <1>1, <1>2 DEF KeepsSession

LEMMA LoginOrder ==
  ASSUME IInv, NEW r \in Requests,
         LoginBegin(r) \/ LoginActivate(r) \/ LoginActivateUnanswered(r) \/ LoginCommit(r)
           \/ LoginCommitFails(r) \/ LoginCompensate(r)
  PROVE  RequestsKnowSession' /\ LiveIsLatest'
<1> USE DEF store, keys, history
<1>1. TypeOK /\ RequestsKnowSession /\ LiveIsLatest
  BY DEF IInv
<1>2. CASE UNCHANGED row
  <2>1. RowsKept
    BY <1>2 DEF RowsKept
  <2>2. CASE LoginBegin(r)
    <3>1. nextSid + 1 \in Sids /\ row[nextSid + 1] = "unused" /\ nextSid \in Nat
      BY <1>1, <2>2, SessionAssumption DEF LoginBegin, TypeOK, Sids, LiveIsLatest
    <3>2. \A q \in Requests : req[q].pc \notin {"activate", "commit"}
      BY <1>1, <2>2, SessionAssumption DEF LoginBegin, RequestsKnowSession
    <3>3. \A q \in Requests \ {r} : req'[q] = req[q]
      BY <1>1, <2>2 DEF LoginBegin, TypeOK
    <3>4. req'[r].pc = "activate" /\ req'[r].sid = nextSid + 1 /\ userLock' = r /\ nextSid' = nextSid + 1
      BY <1>1, <2>2 DEF LoginBegin, TypeOK
    <3>5. RequestsKnowSession'
      BY <1>1, <1>2, <3>1, <3>2, <3>3, <3>4 DEF RequestsKnowSession
    <3>6. LiveIsLatest'
      BY <1>1, <1>2, <2>2, <3>1, <3>4 DEF LoginBegin, LiveIsLatest, Live, TypeOK, Sids, NoSid
    <3> QED
      BY <3>5, <3>6
  <2>3. CASE LoginActivate(r)
    <3>1. \A q \in Requests : KeepsSession(q)
      BY <1>1, <2>3, GotoKeeps DEF LoginActivate, Activate
    <3> QED
      BY <1>1, <2>1, <2>3, <3>1, OrderKept DEF LoginActivate, TypeOK
  <2>4. CASE LoginActivateUnanswered(r)
    <3>1. userLock = r
      BY <1>1, <2>4 DEF LoginActivateUnanswered, Activate, RequestsKnowSession
    <3>2. \A q \in Requests : KeepsSession(q)
      BY <1>1, <2>4, <3>1, ReturnKeeps DEF LoginActivateUnanswered
    <3> QED
      BY <1>1, <2>1, <2>4, <3>2, OrderKept DEF LoginActivateUnanswered, TypeOK
  <2>5. CASE LoginCompensate(r)
    <3>1. \A q \in Requests : KeepsSession(q)
      BY <1>1, <2>5, ReturnKeeps DEF LoginCompensate
    <3> QED
      BY <1>1, <2>1, <2>5, <3>1, OrderKept DEF LoginCompensate, TypeOK
  <2>6. CASE LoginCommitFails(r)
    <3>1. userLock = r /\ userLock' = Nobody /\ req[r].sid \in Sids
      BY <1>1, <2>6 DEF LoginCommitFails, RequestsKnowSession
    <3>2. \A q \in Requests \ {r} : req'[q] = req[q] /\ req[q].pc \notin {"activate", "commit"}
      BY <1>1, <2>6, <3>1 DEF LoginCommitFails, Goto, TypeOK, RequestsKnowSession
    <3>3. req'[r].pc = "compensate" /\ req'[r].sid = req[r].sid
      BY <1>1, <2>6 DEF LoginCommitFails, Goto, TypeOK, Request
    <3>4. RequestsKnowSession'
      BY <1>1, <1>2, <3>1, <3>2, <3>3 DEF RequestsKnowSession
    <3>5. LiveIsLatest'
      BY <1>1, <1>2, <2>6 DEF LoginCommitFails, LiveIsLatest, Live
    <3> QED
      BY <3>4, <3>5
  <2>7. CASE LoginCommit(r)
    <3>1. FALSE
      BY <1>1, <1>2, <2>7 DEF LoginCommit, NewRow, RequestsKnowSession, TypeOK
    <3> QED
      BY <3>1
  <2> QED
    BY <2>2, <2>3, <2>4, <2>5, <2>6, <2>7
<1>3. CASE ~ UNCHANGED row
  <2>1. /\ req[r].pc = "commit" /\ NewRow(req[r].sid) /\ userLock' = Nobody
        /\ Goto(r, "compensate") \/ Return(r)
        /\ UNCHANGED <<nextSid, accepted, ended>>
    BY <1>3 DEF LoginBegin, LoginActivate, LoginActivateUnanswered, LoginCommit, LoginCommitFails,
                LoginCompensate
  <2>2. req[r].sid \in Sids /\ req[r].sid = nextSid /\ userLock = r
    BY <1>1, <2>1 DEF RequestsKnowSession
  <2>3. \A q \in Requests \ {r} : req'[q] = req[q] /\ req[q].pc \notin {"activate", "commit"}
    BY <1>1, <2>1, <2>2 DEF Goto, Return, TypeOK, RequestsKnowSession
  <2>4. req'[r].pc \in {"idle", "compensate"} /\ (req'[r].pc = "compensate" => req'[r].sid = req[r].sid)
    BY <1>1, <2>1 DEF Goto, Return, Idle, TypeOK, Request
  <2>5. \A s \in Sids : row[s] # "unused" => row'[s] # "unused"
    BY <1>1, <2>1 DEF NewRow, TypeOK
  <2>6. RequestsKnowSession'
    BY <1>1, <2>2, <2>3, <2>4, <2>5 DEF RequestsKnowSession
  <2>7. Live' = {nextSid}
    BY <1>1, <2>1, <2>2 DEF NewRow, Live, TypeOK
  <2>8. \A s \in Sids : row'[s] # "unused" => s <= nextSid
    BY <1>1, <2>1, <2>2 DEF NewRow, Live, TypeOK, LiveIsLatest, Sids
  <2>9. LiveIsLatest'
    BY <1>1, <2>1, <2>5, <2>7, <2>8 DEF LiveIsLatest, TypeOK
  <2> QED
    BY <2>6, <2>9
<1> QED
  BY <1>2, <1>3

LEMMA RequestOrder ==
  ASSUME IInv, NEW r \in Requests,
         ReadKey(r) \/ Accept(r) \/ Reject(r) \/ RefreshTtl(r) \/ RotateRefresh(r)
           \/ RefreshReplay(r) \/ RevokeSession(r) \/ RequestFails(r)
  PROVE  RequestsKnowSession' /\ LiveIsLatest'
<1> USE DEF store, keys, history
<1>1. TypeOK /\ RequestsKnowSession /\ LiveIsLatest /\ ended \subseteq Sids
  BY DEF IInv, TypeOK
<1>2. CASE ReadKey(r)
  <2>1. \A q \in Requests \ {r} : req'[q] = req[q]
    BY <1>1, <1>2 DEF ReadKey, TypeOK
  <2>2. req'[r].pc = "check" /\ req'[r].sid \in Sids
    BY <1>1, <1>2 DEF ReadKey, TypeOK
  <2>3. UNCHANGED <<row, nextSid, userLock, accepted, ended>>
    BY <1>2 DEF ReadKey
  <2>4. RequestsKnowSession'
    BY <1>1, <2>1, <2>2, <2>3 DEF RequestsKnowSession
  <2>5. LiveIsLatest'
    BY <1>1, <2>3 DEF LiveIsLatest, Live
  <2> QED
    BY <2>4, <2>5
<1>3. CASE RevokeSession(r)
  <2>1. RowsKept
    BY <1>1, <1>3, RevokeKeepsRows DEF RevokeSession
  <2>2. \A q \in Requests : KeepsSession(q)
    BY <1>1, <1>3, GotoKeeps DEF RevokeSession
  <2>3. req[r].sid \in Sids /\ row[req[r].sid] # "unused"
    BY <1>1, <1>3 DEF RevokeSession, RequestsKnowSession
  <2> QED
    BY <1>1, <1>3, <2>1, <2>2, <2>3, OrderKept DEF RevokeSession
<1>4. CASE Accept(r)
  <2>1. req[r].sid \in Live
    BY <1>1, <1>4 DEF Accept, Valid, Live, RequestsKnowSession
  <2>2. \A q \in Requests : KeepsSession(q)
    BY <1>1, <1>4, <2>1, GotoKeeps, ReturnKeeps DEF Accept, Live
  <2>3. RowsKept
    BY <1>4 DEF Accept, RowsKept
  <2> QED
    BY <1>1, <1>4, <2>1, <2>2, <2>3, OrderKept DEF Accept
<1>5. CASE Reject(r) \/ RefreshTtl(r) \/ RotateRefresh(r) \/ RefreshReplay(r) \/ RequestFails(r)
  <2>1. RowsKept /\ UNCHANGED <<nextSid, accepted, ended>>
    BY <1>5 DEF Reject, RefreshTtl, RotateRefresh, RefreshReplay, RequestFails, RowsKept
  <2>2. \A q \in Requests : KeepsSession(q)
    <3>1. CASE Return(r)
      BY <1>1, <1>5, <3>1, ReturnKeeps
         DEF Reject, RefreshTtl, RotateRefresh, RefreshReplay, RequestFails
    <3>2. CASE ~ Return(r)
      <4>1. row[req[r].sid] # "unused"
        BY <1>1, <1>5, <3>2
           DEF Reject, RefreshTtl, RotateRefresh, RefreshReplay, RequestFails, RequestsKnowSession
      <4> QED
        BY <1>1, <1>5, <3>2, <4>1, GotoKeeps
           DEF Reject, RefreshTtl, RotateRefresh, RefreshReplay, RequestFails
    <3> QED
      BY <3>1, <3>2
  <2> QED
    BY <1>1, <2>1, <2>2, OrderKept
<1> QED
  BY <1>2, <1>3, <1>4, <1>5

LEMMA AdminOrder ==
  ASSUME IInv, NEW r \in Requests,
         CloseAccount(r) \/ ReopenAccount(r)
           \/ \E l \in Licenses : ChangeLicense(r, l) \/ ExpireLicense(r, l)
  PROVE  RequestsKnowSession' /\ LiveIsLatest'
<1> USE DEF store, keys, history
<1>1. TypeOK /\ ended \subseteq Sids
  BY DEF IInv, TypeOK
<1>2. \A q \in Requests : KeepsSession(q)
  BY <1>1, GotoKeeps DEF CloseAccount, ReopenAccount, ChangeLicense, ExpireLicense, KeepsSession
<1>3. UNCHANGED <<nextSid, accepted>>
  BY DEF CloseAccount, ReopenAccount, ChangeLicense, ExpireLicense
<1>4. CASE EndSessions
  BY <1>1, <1>2, <1>3, <1>4, RevokeKeepsRows, OrderKept DEF EndSessions, Live
<1>5. CASE ~ EndSessions
  <2>1. UNCHANGED <<row, ended>>
    BY <1>5 DEF CloseAccount, ReopenAccount, ChangeLicense, ExpireLicense
  <2>2. RowsKept
    BY <2>1 DEF RowsKept
  <2> QED
    BY <1>1, <1>2, <1>3, <2>1, <2>2, OrderKept
<1> QED
  BY <1>4, <1>5

LEMMA PassOrder ==
  ASSUME IInv, NEW p \in Processors, PassStep(p)
  PROVE  RequestsKnowSession' /\ LiveIsLatest'
<1> USE DEF store, keys, history
<1>1. TypeOK /\ ended \subseteq Sids
  BY DEF IInv, TypeOK
<1>2. UNCHANGED <<nextSid, accepted, ended, userLock>>
  BY DEF PassStep, PassBegin, RevokeRow, ReadLicense, SnapshotSessions, RevokeUnlicensed,
         DeleteUnlicensed, ReconcileKeys, MarkRow, RowFails, PassEnd, PassAborts, LeavePass
<1>3. RowsKept
  <2>1. CASE RevokeUnlicensed(p)
    BY <1>1, <2>1, RevokeKeepsRows DEF RevokeUnlicensed
  <2>2. CASE ~ RevokeUnlicensed(p)
    BY <2>2 DEF PassStep, PassBegin, RevokeRow, ReadLicense, SnapshotSessions, DeleteUnlicensed,
                ReconcileKeys, MarkRow, RowFails, PassEnd, PassAborts, LeavePass, RowsKept
  <2> QED
    BY <2>1, <2>2
<1>4. UNCHANGED req \/ (p \in Requests /\ (Return(p) \/ Goto(p, "pass")))
  BY DEF PassStep, PassBegin, RevokeRow, ReadLicense, SnapshotSessions, RevokeUnlicensed,
         DeleteUnlicensed, ReconcileKeys, MarkRow, RowFails, PassEnd, PassAborts, LeavePass, Processors
<1>5. \A q \in Requests : KeepsSession(q)
  BY <1>1, <1>2, <1>4, ReturnKeeps, GotoKeeps DEF KeepsSession
<1> QED
  BY <1>1, <1>2, <1>3, <1>5, OrderKept

LEMMA OtherOrder ==
  ASSUME IInv, OtherStep
  PROVE  RequestsKnowSession' /\ LiveIsLatest'
<1>1. UNCHANGED <<row, nextSid, accepted, ended>> /\ ended \subseteq Sids
  BY DEF IInv, TypeOK, OtherStep, SessionKeyExpires, RefreshKeyExpires, Restart, LicenseLapses,
         vars, store, history
<1>2. RowsKept
  BY <1>1 DEF RowsKept
<1>3. \A q \in Requests : KeepsSession(q)
  BY DEF OtherStep, SessionKeyExpires, RefreshKeyExpires, Restart, LicenseLapses, vars,
         KeepsSession, Idle
<1> QED
  BY <1>1, <1>2, <1>3, OrderKept

-----------------------------------------------------------------------------
(* Tokens: CurrentTokenUnused.                                             *)

\* The keys stay or go, one or both, and no token is issued.
KeysShrink == /\ UNCHANGED toks
              /\ sess'.sid \in {sess.sid, NoSid}
              /\ ref' = ref \/ ref'.sid = NoSid

LEMMA TokensKept ==
  ASSUME CurrentTokenUnused, KeysShrink
  PROVE  CurrentTokenUnused'
BY DEF CurrentTokenUnused, KeysShrink, RefreshOnce

\* A new token of session s, in exchange for the current one or for none.
LEMMA IssueFresh ==
  ASSUME TypeOK, CurrentTokenUnused, NEW s \in Sids, NEW t \in Nat, IssueToken(s, t),
         sess'.sid = s, t # 0 => ref.sid # NoSid /\ ref.tok = t
  PROVE  CurrentTokenUnused'
<1> DEFINE n == Len(toks)
<1>1. n \in Nat /\ DOMAIN toks = 1..n /\ DOMAIN toks' = 1..(n + 1)
  BY DEF TypeOK, IssueToken
<1>2. \A u \in 1..n : toks'[u] = toks[u] /\ toks[u].parent \in Nat
  <2>1. \A u \in 1..n : toks[u] \in Token
    BY DEF TypeOK
  <2>2. \A u \in 1..n : toks'[u] = toks[u]
    BY DEF TypeOK, IssueToken
  <2> QED
    BY <2>1, <2>2 DEF Token
<1>3. toks'[n + 1].parent = t /\ Len(toks') = n + 1
  BY DEF TypeOK, IssueToken
<1>4. t <= n /\ \A u \in 1..n : t # 0 => toks[u].parent # t
  BY <1>1 DEF CurrentTokenUnused
<1>5. \A u \in 1..n : toks[u].parent <= n
  BY <1>1 DEF CurrentTokenUnused
<1>6. ref'.sid = s /\ ref'.tok = n + 1
  BY DEF IssueToken
<1> HIDE DEF n
<1>7. \A u \in DOMAIN toks' : toks'[u].parent <= Len(toks') /\ toks'[u].parent # ref'.tok
  BY <1>1, <1>2, <1>3, <1>4, <1>5, <1>6
<1>8. RefreshOnce'
  <2>1. \A u, v \in 1..n : toks[u].parent # 0 /\ toks[u].parent = toks[v].parent => u = v
    BY <1>1 DEF CurrentTokenUnused, RefreshOnce
  <2> QED
    BY <1>1, <1>2, <1>3, <1>4, <2>1 DEF RefreshOnce
<1> QED
  BY <1>1, <1>6, <1>7, <1>8 DEF CurrentTokenUnused

LEMMA TokensStep ==
  ASSUME IInv, [Next]_vars
  PROVE  CurrentTokenUnused'
<1> USE DEF store, keys, history
<1>1. TypeOK /\ CurrentTokenUnused /\ RequestsKnowSession
  BY DEF IInv
<1>2. CASE \E r \in Requests : LoginActivate(r) \/ LoginActivateUnanswered(r)
  <2>1. PICK r \in Requests : Activate(r)
    BY <1>2 DEF LoginActivate, LoginActivateUnanswered
  <2>2. req[r].sid \in Sids /\ IssueToken(req[r].sid, 0) /\ sess'.sid = req[r].sid
    BY <1>1, <2>1 DEF Activate, RequestsKnowSession
  <2> QED
    BY <1>1, <2>2, IssueFresh
<1>3. CASE \E r \in Requests : RotateRefresh(r)
  <2>1. PICK r \in Requests : RotateRefresh(r)
    BY <1>3
  <2>2. CASE Rotates(req[r].sid, req[r].tok)
    <3>1. req[r].sid \in Sids /\ req[r].tok \in Nat
      BY <1>1, <2>1 DEF RotateRefresh, RequestsKnowSession, TypeOK, Request
    <3>2. IssueToken(req[r].sid, req[r].tok) /\ sess'.sid = req[r].sid
      BY <2>1, <2>2 DEF RotateRefresh, Rotates
    <3>3. ref.sid = req[r].sid /\ ref.tok = req[r].tok /\ req[r].sid # NoSid
      BY <2>2, <3>1 DEF Rotates, Sids, NoSid
    <3> QED
      BY <1>1, <3>1, <3>2, <3>3, IssueFresh
  <2>3. CASE ~ Rotates(req[r].sid, req[r].tok)
    BY <1>1, <2>1, <2>3, TokensKept DEF RotateRefresh, KeysShrink
  <2> QED
    BY <2>2, <2>3
<1>4. CASE ~ \E r \in Requests : LoginActivate(r) \/ LoginActivateUnanswered(r) \/ RotateRefresh(r)
  <2>1. CASE \E r \in Requests : RequestStep(r)
    <3>1. PICK r \in Requests : RequestStep(r)
      BY <2>1
    <3>2. KeysShrink
      BY <1>1, <1>4, <3>1
         DEF RequestStep, LoginBegin, LoginCommit, LoginCommitFails, LoginCompensate, ReadKey, Accept,
             Reject, RefreshTtl, RefreshReplay, RevokeSession, RequestFails, CloseAccount,
             ReopenAccount, ChangeLicense, ExpireLicense, DeleteIfSid, ClearKeys, NoSess, NoRef,
             KeysShrink
    <3> QED
      BY <1>1, <3>2, TokensKept
  <2>2. CASE \E p \in Processors : PassStep(p)
    <3>1. PICK p \in Processors : PassStep(p)
      BY <2>2
    <3>2. KeysShrink
      BY <1>1, <3>1
         DEF PassStep, PassBegin, RevokeRow, ReadLicense, SnapshotSessions, RevokeUnlicensed,
             DeleteUnlicensed, ReconcileKeys, ReconcilePair, MarkRow, RowFails, PassEnd, PassAborts,
             LeavePass, DeleteIfSid, ClearKeys, NoSess, NoRef, KeysShrink, TypeOK
    <3> QED
      BY <1>1, <3>2, TokensKept
  <2>3. CASE OtherStep
    <3>1. KeysShrink
      BY <1>1, <2>3 DEF OtherStep, SessionKeyExpires, RefreshKeyExpires, Restart, LicenseLapses, vars,
                        NoSess, NoRef, KeysShrink
    <3> QED
      BY <1>1, <3>1, TokensKept
  <2> QED
    BY <2>1, <2>2, <2>3, NextCases
<1> QED
  BY <1>2, <1>3, <1>4

-----------------------------------------------------------------------------
(* The outbox: PassKnowsRow and RevocationWaits.                           *)

\* The rows there were are still there, unchanged.
RowsStay == \A i \in DOMAIN outbox : i \in DOMAIN outbox' /\ outbox'[i] = outbox[i]

LEMMA EnqueueRow ==
  ASSUME TypeOK, NEW op, NEW s, Enqueue(op, s)
  PROVE  /\ RowsStay
         /\ \E i \in Pending' : i \notin DOMAIN outbox /\ outbox'[i].op = op /\ outbox'[i].sid = s
<1>1. Len(outbox) \in Nat /\ DOMAIN outbox = 1..Len(outbox) /\ DOMAIN outbox' = 1..(Len(outbox) + 1)
  BY DEF TypeOK, Enqueue
<1>2. RowsStay
  BY <1>1 DEF TypeOK, Enqueue, RowsStay
<1>3. outbox'[Len(outbox) + 1] = [op |-> op, sid |-> s, done |-> FALSE]
  BY <1>1 DEF TypeOK, Enqueue
<1> QED
  BY <1>1, <1>2, <1>3 DEF Pending

\* Steps of requests: the passes are where they were, and an ended session that a
\* key names was named before or has a new row.
LEMMA WaitsKept ==
  ASSUME IInv, RowsStay, UNCHANGED pass,
         \A s \in ended' \intersect {sess'.sid, ref'.sid} :
           \/ s \in ended \intersect {sess.sid, ref.sid}
           \/ \E i \in Pending' : Covers(i, s)' /\ i \notin DOMAIN outbox
  PROVE  PassKnowsRow' /\ RevocationWaits'
<1>1. TypeOK /\ PassKnowsRow /\ RevocationWaits
  BY DEF IInv
<1>2. \A p \in Processors : AtRow(p)' = AtRow(p)
  BY DEF AtRow
<1>3. \A p \in Processors : pass[p].todo # {} => AtRow(p) \in DOMAIN outbox
  BY <1>1, AtRowIsTodo DEF PassKnowsRow
<1>4. PassKnowsRow'
  BY <1>1, <1>2, <1>3 DEF PassKnowsRow, RowsStay
<1>5. \A i : Untouched(i) => Untouched(i)'
  BY <1>2 DEF Untouched
<1>6. \A i : i \notin DOMAIN outbox => Untouched(i)'
  BY <1>1, <1>2, <1>3 DEF Untouched, PassKnowsRow
<1>7. RevocationWaits'
  <2> SUFFICES ASSUME NEW s \in ended' \intersect {sess'.sid, ref'.sid}
               PROVE  \E i \in Pending' : Covers(i, s)' /\ Untouched(i)'
    BY DEF RevocationWaits
  <2>1. CASE s \in ended \intersect {sess.sid, ref.sid}
    <3>1. PICK i \in Pending : Covers(i, s) /\ Untouched(i)
      BY <1>1, <2>1 DEF RevocationWaits
    <3> QED
      BY <1>5, <3>1 DEF Pending, Covers, RowsStay
  <2>2. CASE \E i \in Pending' : Covers(i, s)' /\ i \notin DOMAIN outbox
    BY <1>6, <2>2
  <2> QED
    BY <2>1, <2>2
<1> QED
  BY <1>4, <1>7

LEMMA RequestOutbox ==
  ASSUME IInv, NEW r \in Requests, RequestStep(r)
  PROVE  PassKnowsRow' /\ RevocationWaits'
<1> USE DEF store, keys, history
<1>1. TypeOK /\ RequestsKnowSession /\ LiveIsLatest /\ NoSid \notin ended
  BY DEF IInv, TypeOK, Sids, NoSid
<1>2. UNCHANGED pass
  BY DEF RequestStep, LoginBegin, LoginActivate, LoginActivateUnanswered, LoginCommit,
         LoginCommitFails, LoginCompensate, ReadKey, Accept, Reject, RefreshTtl, RotateRefresh,
         RefreshReplay, RevokeSession, RequestFails, CloseAccount, ReopenAccount, ChangeLicense,
         ExpireLicense
<1>3. CASE LoginActivate(r) \/ LoginActivateUnanswered(r)
  <2>1. UNCHANGED <<outbox, ended>> /\ Activate(r)
    BY <1>3 DEF LoginActivate, LoginActivateUnanswered
  <2>2. sess'.sid = req[r].sid /\ ref'.sid = req[r].sid
    BY <2>1 DEF Activate, IssueToken
  <2>3. req[r].sid \notin ended
    BY <1>1, <2>1 DEF Activate, RequestsKnowSession, LiveIsLatest
  <2> QED
    BY <1>2, <2>1, <2>2, <2>3, WaitsKept DEF RowsStay
<1>4. CASE RotateRefresh(r)
  <2>1. UNCHANGED <<outbox, ended, sess>> /\ ref'.sid \in {ref.sid, sess.sid}
    BY <1>4 DEF RotateRefresh, Rotates, IssueToken
  <2> QED
    BY <1>2, <2>1, WaitsKept DEF RowsStay
<1>5. CASE RevokeSession(r)
  <2>1. Enqueue("revoke", req[r].sid) /\ ended' = ended \union {req[r].sid} /\ UNCHANGED <<sess, ref>>
    BY <1>5 DEF RevokeSession
  <2>2. RowsStay
    BY <1>1, <2>1, EnqueueRow
  <2>3. PICK i \in Pending' : /\ i \notin DOMAIN outbox
                              /\ outbox'[i].op = "revoke" /\ outbox'[i].sid = req[r].sid
    BY <1>1, <2>1, EnqueueRow
  <2>4. \A s \in {req[r].sid} : Covers(i, s)'
    BY <2>3 DEF Covers
  <2> QED
    BY <1>2, <2>1, <2>2, <2>3, <2>4, WaitsKept
<1>6. CASE EndSessions /\ UNCHANGED keys
  <2>1. Enqueue("revoke", NoSid) /\ UNCHANGED <<sess, ref>>
    BY <1>6 DEF EndSessions
  <2>2. RowsStay
    BY <1>1, <2>1, EnqueueRow
  <2>3. PICK i \in Pending' : i \notin DOMAIN outbox /\ outbox'[i].op = "revoke" /\ outbox'[i].sid = NoSid
    BY <1>1, <2>1, EnqueueRow
  <2>4. \A s : Covers(i, s)'
    BY <2>3 DEF Covers
  <2> QED
    BY <1>2, <2>2, <2>3, <2>4, WaitsKept
<1>7. CASE \E l \in Licenses : ChangeLicense(r, l)
  <2>1. Enqueue("reconcile", NoSid) /\ UNCHANGED <<sess, ref, ended>>
    BY <1>7 DEF ChangeLicense
  <2> QED
    BY <1>1, <1>2, <2>1, EnqueueRow, WaitsKept
<1>8. CASE LoginCompensate(r)
  <2>1. UNCHANGED <<outbox, ended>> /\ (UNCHANGED keys \/ ClearKeys)
    BY <1>8 DEF LoginCompensate, DeleteIfSid
  <2> QED
    BY <1>1, <1>2, <2>1, WaitsKept DEF RowsStay, ClearKeys, NoSess, NoRef
<1>9. CASE \/ LoginBegin(r) \/ LoginCommit(r) \/ LoginCommitFails(r) \/ ReadKey(r) \/ Accept(r)
           \/ Reject(r) \/ RefreshTtl(r) \/ RefreshReplay(r) \/ RequestFails(r) \/ ReopenAccount(r)
  <2>1. UNCHANGED <<outbox, ended, sess, ref>>
    BY <1>9 DEF LoginBegin, LoginCommit, LoginCommitFails, ReadKey, Accept, Reject, RefreshTtl,
                RefreshReplay, RequestFails, ReopenAccount
  <2> QED
    BY <1>2, <2>1, WaitsKept DEF RowsStay
<1>10. CASE CloseAccount(r) \/ \E l \in Licenses : ExpireLicense(r, l)
  BY <1>6, <1>10 DEF CloseAccount, ExpireLicense
<1> QED
  BY <1>3, <1>4, <1>5, <1>7, <1>8, <1>9, <1>10 DEF RequestStep

\* Steps of pass p that do not mark a row.
LEMMA PassWaits ==
  ASSUME IInv, NEW p \in Processors, UNCHANGED <<outbox, ended>>,
         pass' \in [Processors -> Pass], \A q \in Processors \ {p} : pass'[q] = pass[q],
         pass'[p].todo \subseteq DOMAIN outbox,
         pass'[p].pc \in {"apply", "snapshot", "update", "delete", "mark"} =>
           pass'[p].todo = pass[p].todo /\ pass[p].todo # {},
         pass'[p].pc \in {"apply", "snapshot", "update", "delete"} =>
           outbox[AtRow(p)].op = "reconcile",
         {sess'.sid, ref'.sid} \subseteq {sess.sid, ref.sid, NoSid},
         pass'[p].pc = "mark" => \A s \in ended \intersect {sess'.sid, ref'.sid} : ~ Covers(AtRow(p), s)
  PROVE  PassKnowsRow' /\ RevocationWaits'
<1>1. PassKnowsRow /\ RevocationWaits /\ NoSid \notin ended
  BY DEF IInv, TypeOK, Sids, NoSid
<1>2. \A q \in Processors : pass'[q].todo = pass[q].todo => AtRow(q)' = AtRow(q)
  BY DEF AtRow
<1>3. PassKnowsRow'
  BY <1>1, <1>2 DEF PassKnowsRow
<1>4. RevocationWaits'
  <2> SUFFICES ASSUME NEW s \in ended \intersect {sess'.sid, ref'.sid}
               PROVE  \E i \in Pending' : Covers(i, s)' /\ Untouched(i)'
    BY DEF RevocationWaits
  <2>1. PICK i \in Pending : Covers(i, s) /\ Untouched(i)
    BY <1>1 DEF RevocationWaits
  <2>2. Untouched(i)'
    BY <1>2, <2>1 DEF Untouched
  <2> QED
    BY <2>1, <2>2 DEF Pending, Covers
<1> QED
  BY <1>3, <1>4

LEMMA PassOutbox ==
  ASSUME IInv, NEW p \in Processors, PassStep(p)
  PROVE  PassKnowsRow' /\ RevocationWaits'
<1> USE DEF store, keys, history
<1>1. TypeOK /\ PassKnowsRow /\ RevocationWaits /\ NoSid \notin ended
  BY DEF IInv, TypeOK, Sids, NoSid
<1>2. /\ pass' \in [Processors -> Pass] /\ pass[p] \in Pass
      /\ pass[p].todo \subseteq DOMAIN outbox
  BY <1>1, PassTypes DEF TypeOK, PassKnowsRow
<1>3. \A q \in Processors \ {p} : pass'[q] = pass[q]
  BY <1>1 DEF PassStep, PassBegin, RevokeRow, ReadLicense, SnapshotSessions, RevokeUnlicensed,
              DeleteUnlicensed, ReconcileKeys, MarkRow, RowFails, PassEnd, PassAborts, LeavePass,
              Step, NextRow, TypeOK
<1>4. CASE PassBegin(p) \/ RowFails(p) \/ PassEnd(p) \/ PassAborts(p)
  <2>1. UNCHANGED <<outbox, ended, sess, ref>>
    BY <1>4 DEF PassBegin, RowFails, PassEnd, PassAborts, LeavePass
  <2>2. pass'[p].pc \in {"idle", "row"} /\ pass'[p].todo \subseteq DOMAIN outbox
    <3>1. CASE PassBegin(p)
      <4>1. pass'[p] = [NoPass EXCEPT !.pc = "row", !.todo = Pending]
        BY <1>1, <3>1 DEF PassBegin, TypeOK
      <4> QED
        BY <4>1 DEF NoPass, Pending
    <3>2. CASE RowFails(p)
      BY <1>1, <1>2, <3>2 DEF RowFails, NextRow, TypeOK
    <3>3. CASE PassEnd(p) \/ PassAborts(p)
      BY <1>1, <3>3 DEF PassEnd, PassAborts, LeavePass, NoPass, TypeOK
    <3> QED
      BY <1>4, <3>1, <3>2, <3>3
  <2> QED
    BY <1>2, <1>3, <2>1, <2>2, PassWaits
<1>5. CASE RevokeRow(p)
  <2>1. /\ pass'[p].pc = "mark" /\ pass'[p].todo = pass[p].todo /\ pass[p].todo # {}
        /\ UNCHANGED <<outbox, ended>>
    BY <1>1, <1>2, <1>5 DEF RevokeRow, Step, At, TypeOK, Pass
  <2>2. \/ sess'.sid = NoSid /\ ref'.sid = NoSid
        \/ UNCHANGED <<sess, ref>> /\ sess.sid # NoSid /\ outbox[AtRow(p)].sid \notin {sess.sid, NoSid}
    BY <1>5 DEF RevokeRow, DeleteIfSid, ClearKeys, NoSess, NoRef
  <2>3. sess.sid # NoSid => ref.sid \in {sess.sid, NoSid}
    BY DEF IInv, CurrentTokenUnused
  <2>4. \A s \in ended \intersect {sess'.sid, ref'.sid} : ~ Covers(AtRow(p), s)
    BY <1>1, <2>2, <2>3 DEF Covers
  <2> QED
    BY <1>2, <1>3, <2>1, <2>2, <2>4, PassWaits
<1>6. CASE ReadLicense(p) \/ SnapshotSessions(p) \/ RevokeUnlicensed(p)
  <2>1. /\ UNCHANGED <<outbox, ended, sess, ref>> /\ pass[p].todo # {}
        /\ outbox[AtRow(p)].op = "reconcile"
    BY <1>1, <1>6 DEF ReadLicense, SnapshotSessions, RevokeUnlicensed, At, PassKnowsRow
  <2>2. pass'[p].todo = pass[p].todo /\ pass'[p].pc # "mark"
    BY <1>1, <1>2, <1>6 DEF ReadLicense, SnapshotSessions, RevokeUnlicensed, Step, TypeOK, Pass
  <2> QED
    BY <1>2, <1>3, <2>1, <2>2, PassWaits
<1>7. CASE DeleteUnlicensed(p) \/ ReconcileKeys(p)
  <2>1. /\ UNCHANGED <<outbox, ended>> /\ pass[p].todo # {} /\ outbox[AtRow(p)].op = "reconcile"
    BY <1>1, <1>7 DEF DeleteUnlicensed, ReconcileKeys, At, PassKnowsRow
  <2>2. pass'[p].todo = pass[p].todo
    BY <1>1, <1>2, <1>7 DEF DeleteUnlicensed, ReconcileKeys, Step, TypeOK, Pass
  <2>3. {sess'.sid, ref'.sid} \subseteq {sess.sid, ref.sid, NoSid}
    <3>1. ClearKeys \/ (UNCHANGED ref /\ sess'.sid = sess.sid)
      BY <1>1, <1>7 DEF DeleteUnlicensed, ReconcileKeys, ReconcilePair, TypeOK
    <3> QED
      BY <3>1 DEF ClearKeys, NoSess, NoRef
  <2>4. \A s : ~ Covers(AtRow(p), s)
    BY <2>1 DEF Covers
  <2> QED
    BY <1>2, <1>3, <2>1, <2>2, <2>3, <2>4, PassWaits
<1>8. CASE MarkRow(p)
  <2> DEFINE i == AtRow(p)
  <2>1. i \in DOMAIN outbox /\ pass[p].pc = "mark" /\ UNCHANGED <<sess, ref, ended>>
    BY <1>1, <1>2, <1>8, AtRowIsTodo DEF MarkRow, At
  <2>2. pass'[p].pc = "row" /\ pass'[p].todo \subseteq DOMAIN outbox
    BY <1>1, <1>2, <1>8 DEF MarkRow, NextRow, TypeOK
  <2>3. /\ DOMAIN outbox' = DOMAIN outbox
        /\ \A j \in DOMAIN outbox : /\ j # i => outbox'[j] = outbox[j]
                                    /\ outbox'[j].op = outbox[j].op
    BY <1>1, <1>8 DEF MarkRow, TypeOK, OutboxRow
  <2>4. \A q \in Processors \ {p} : AtRow(q)' = AtRow(q)
    BY <1>3 DEF AtRow
  <2>5. \A q \in Processors : pass[q].todo # {} => AtRow(q) \in DOMAIN outbox
    BY <1>1, AtRowIsTodo DEF PassKnowsRow
  <2>6. PassKnowsRow'
    BY <1>1, <1>3, <2>2, <2>3, <2>4, <2>5 DEF PassKnowsRow
  <2>7. RevocationWaits'
    <3> SUFFICES ASSUME NEW s \in ended \intersect {sess.sid, ref.sid}
                 PROVE  \E j \in Pending' : Covers(j, s)' /\ Untouched(j)'
      BY <2>1 DEF RevocationWaits
    <3>1. PICK j \in Pending : Covers(j, s) /\ Untouched(j)
      BY <1>1 DEF RevocationWaits
    <3>2. j # i
      BY <2>1, <3>1 DEF Untouched
    <3>3. j \in Pending' /\ Covers(j, s)'
      BY <2>3, <3>1, <3>2 DEF Pending, Covers
    <3>4. Untouched(j)'
      BY <1>3, <2>2, <2>4, <3>1 DEF Untouched
    <3> QED
      BY <3>3, <3>4
  <2> QED
    BY <2>6, <2>7
<1> QED
  BY <1>4, <1>5, <1>6, <1>7, <1>8 DEF PassStep

LEMMA OtherOutbox ==
  ASSUME IInv, OtherStep
  PROVE  PassKnowsRow' /\ RevocationWaits'
<1> USE DEF store, keys, history
<1>1. TypeOK /\ PassKnowsRow /\ RevocationWaits /\ NoSid \notin ended
  BY DEF IInv, TypeOK, Sids, NoSid
<1>2. UNCHANGED <<outbox, ended>> /\ {sess'.sid, ref'.sid} \subseteq {sess.sid, ref.sid, NoSid}
  BY DEF OtherStep, SessionKeyExpires, RefreshKeyExpires, Restart, LicenseLapses, vars, NoSess, NoRef
<1>3. CASE UNCHANGED pass
  BY <1>1, <1>2, <1>3, WaitsKept DEF RowsStay
<1>4. CASE Restart
  <2>1. \A p \in Processors : pass'[p].pc = "idle" /\ pass'[p].todo = {}
    BY <1>4 DEF Restart, NoPass
  <2>2. PassKnowsRow'
    BY <2>1 DEF PassKnowsRow
  <2>3. \A i : Untouched(i)'
    BY <2>1 DEF Untouched
  <2> QED
    BY <1>1, <1>2, <2>2, <2>3 DEF RevocationWaits, Pending, Covers
<1> QED
  BY <1>3, <1>4 DEF OtherStep, SessionKeyExpires, RefreshKeyExpires, LicenseLapses, vars

-----------------------------------------------------------------------------
(* The theorems.                                                           *)

LEMMA NextIInv == IInv /\ [Next]_vars => IInv'
<1> SUFFICES ASSUME IInv, [Next]_vars PROVE IInv'
  OBVIOUS
<1>1. TypeOK'
  BY NextCases, LoginTypes, RequestTypes, AdminTypes, PassTypes, OtherTypes DEF RequestStep
<1>2. RequestsKnowSession' /\ LiveIsLatest'
  BY NextCases, LoginOrder, RequestOrder, AdminOrder, PassOrder, OtherOrder DEF RequestStep
<1>3. CurrentTokenUnused'
  BY TokensStep
<1>4. PassKnowsRow' /\ RevocationWaits'
  BY NextCases, RequestOutbox, PassOutbox, OtherOutbox
<1> QED
  BY <1>1, <1>2, <1>3, <1>4 DEF IInv

LEMMA Invariance == Spec => []IInv
BY InitIInv, NextIInv, PTL DEF Spec

\* The state of login, refresh and the outbox stays typed.
THEOREM TypeCorrect == Spec => []TypeOK
<1>1. IInv => TypeOK
  BY DEF IInv
<1> QED
  BY <1>1, Invariance, PTL

\* ROTATE_REFRESH_LUA exchanges a refresh token at most once, for any number of
\* concurrent refreshes, logins and outbox passes.
THEOREM RefreshTokensAreSingleUse == Spec => []RefreshOnce
<1>1. IInv => RefreshOnce
  BY DEF IInv, CurrentTokenUnused
<1> QED
  BY <1>1, Invariance, PTL

\* process_session_outbox_once marks no revocation before the keys are gone, for any
\* number of overlapping passes, failures and restarts.
THEOREM RevocationsSurvive == Spec => []NoRevocationLost
<1>1. IInv => NoRevocationLost
  BY DEF IInv, RevocationWaits, NoRevocationLost
<1> QED
  BY <1>1, Invariance, PTL

\* The transaction of login lets no older session be accepted after a newer one.
THEOREM SingleSession == Spec => AcceptedInLoginOrder
<1>1. ASSUME IInv, [Next]_vars PROVE [accepted' >= accepted]_vars
  <2>1. TypeOK /\ LiveIsLatest /\ RequestsKnowSession
    BY <1>1 DEF IInv
  <2>2. accepted' = accepted \/ \E r \in Requests : Accept(r)
    BY <1>1, NextCases
       DEF RequestStep, PassStep, OtherStep, history, vars, LoginBegin, LoginActivate,
           LoginActivateUnanswered, LoginCommit, LoginCommitFails, LoginCompensate, ReadKey, Reject,
           RefreshTtl, RotateRefresh, RefreshReplay, RevokeSession, RequestFails, CloseAccount,
           ReopenAccount, ChangeLicense, ExpireLicense, PassBegin, RevokeRow, ReadLicense,
           SnapshotSessions, RevokeUnlicensed, DeleteUnlicensed, ReconcileKeys, MarkRow, RowFails,
           PassEnd, PassAborts, LeavePass, SessionKeyExpires, RefreshKeyExpires, Restart,
           LicenseLapses
  <2>3. CASE \E r \in Requests : Accept(r)
    <3>1. PICK r \in Requests : Accept(r)
      BY <2>3
    <3>2. req[r].sid \in Live /\ accepted' = req[r].sid
      BY <2>1, <3>1 DEF Accept, Valid, Live, RequestsKnowSession
    <3> QED
      BY <2>1, <3>2 DEF LiveIsLatest, Live, Sids, TypeOK, NoSid
  <2> QED
    BY <2>1, <2>2, <2>3 DEF TypeOK, Sids, NoSid
<1> QED
  BY <1>1, Invariance, PTL DEF Spec, AcceptedInLoginOrder
=============================================================================
