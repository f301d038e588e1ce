-------------------------- MODULE DesktopSyncProofs --------------------------
(***************************************************************************)
(* Machine-checked proofs about DesktopSync, for any cameras, records,     *)
(* columns, flushes and limits.                                            *)
(***************************************************************************)
EXTENDS DesktopSync, FiniteSetTheorems, TLAPS

-----------------------------------------------------------------------------
(* The inductive invariant, in parts.  What it says of the queue and of a  *)
(* batch is said of any table t, so that a transaction can be followed     *)
(* from one table to the next; n and u are the last row id and the last    *)
(* token, ca and re the local tables, and cr the cameras created so far.   *)

Keys == Cameras \cup Records
CamRow == [stage : {"none", "here", "gone"}, known : BOOLEAN, sync : {"pending", "synced"},
           val : [Fields -> Values]]
RecRow == [stage : {"none", "here", "gone"}, cam : Cameras \cup {NoId}, synced : BOOLEAN]
Row == [key : Keys, work : Payloads, pred : Nat, dep : Nat, state : States, attempts : Nat,
        attempted : BOOLEAN, token : Nat, due : BOOLEAN, old : BOOLEAN]
ItemType == [id : Nat, key : Keys, work : Payloads]
Batches == UNION {[S -> ItemType] : S \in SUBSET Nat}
FlushType == [pc : {"idle", "send", "analytics", "settle", "purge"}, tok : Nat, items : Batches,
              outcome : {"ok", "rejected", "unavailable"}]

TablesTypeOK ==
  /\ cam \in [Cameras -> CamRow] /\ rec \in [Records -> RecRow]
  /\ ccam \in [Cameras -> [there : BOOLEAN, val : [Fields -> Values]]]
  /\ crec \in [Records -> Cameras \cup {NoId}]
FlushTypeOK == flush \in [Flushers -> FlushType]

IsTable(t, n, u) ==
  /\ n \in Nat /\ u \in Nat
  /\ DOMAIN t \subseteq 1..n /\ t \in [DOMAIN t -> Row]
  /\ \A i \in DOMAIN t : t[i].token <= u

\* A row is about the camera or the record of its key, and only a claim gives a
\* row the state of one that was sent.
RowsKnow(t, ca, re) ==
  \A i \in DOMAIN t :
    /\ t[i].key \in Cameras =>
         /\ t[i].work.method # "RECORD" /\ t[i].work.cam = t[i].key
         /\ ca[t[i].key].stage # "none"
         /\ t[i].work.method = "DELETE" => ca[t[i].key].stage = "gone"
    /\ t[i].key \in Records =>
         /\ t[i].work.method = "RECORD" /\ t[i].work.cam = re[t[i].key].cam
         /\ re[t[i].key].stage # "none"
    /\ t[i].state \in {"inflight", "succeeded", "dead_letter"} => t[i].attempted

\* A camera one of whose mutations succeeded was created.
SucceededIsCreated(t, cr) ==
  \A i \in DOMAIN t : t[i].key \in Cameras /\ t[i].state = "succeeded" =>
     t[i].work.method = "DELETE" \/ t[i].key \in cr

\* What a record's row waits for: a row of its camera, or nothing if the camera
\* was created.  A row whose camera was never created is never sent.
RecordsWait(t, cr) ==
  \A i \in DOMAIN t : t[i].key \in Records =>
    /\ t[i].attempted => t[i].work.cam \in cr
    /\ t[i].dep # NoId =>
         /\ t[i].dep \in DOMAIN t /\ t[t[i].dep].key = t[i].work.cam
         /\ t[t[i].dep].work.method = "DELETE" => t[i].work.cam \in cr
    /\ t[i].dep = NoId /\ t[i].state # "cancelled" => t[i].work.cam \in cr

TableOK(t, n, u, ca, re, cr) ==
  IsTable(t, n, u) /\ RowsKnow(t, ca, re) /\ SucceededIsCreated(t, cr) /\ RecordsWait(t, cr)

\* A batch f is what its claim returned: rows that were issued, with work that
\* cannot have changed while the claim holds them.
BatchOK(f, t, n, u, re, cr) ==
  /\ f.pc \in {"idle", "purge"} <=> DOMAIN f.items = {}
  /\ \A i \in DOMAIN f.items :
       /\ f.items[i].id = i /\ i \in 1..n /\ f.tok \in 1..u
       /\ f.items[i].key \in Cameras =>
            f.items[i].work.method # "RECORD" /\ f.items[i].work.cam = f.items[i].key
       /\ f.items[i].key \in Records =>
            /\ f.items[i].work.method = "RECORD" /\ f.items[i].work.cam = re[f.items[i].key].cam
            /\ re[f.items[i].key].stage # "none" /\ f.items[i].work.cam \in cr
       /\ i \in DOMAIN t /\ t[i].state = "inflight" /\ t[i].token = f.tok =>
            t[i].work = f.items[i].work /\ t[i].key = f.items[i].key

\* What the answer "ok" says of the item it is about.
AnswerOK(f, cre, cr) ==
  LET it == f.items[First(f.items)] IN
  /\ f.pc = "analytics" => it.work.method = "PATCH"
  /\ f.pc = "settle" /\ f.outcome = "ok" =>
       /\ it.work.method = "RECORD" => cre[it.key] = it.work.cam
       /\ it.work.method \in {"POST", "PATCH"} => it.work.cam \in cr

QueueKnows == TableOK(q, nextId, nextTok, cam, rec, created)
BatchesKnow == \A g \in Flushers : BatchOK(flush[g], q, nextId, nextTok, rec, created)
BatchesDiffer ==
  \A g, h \in Flushers : DOMAIN flush[g].items # {} /\ DOMAIN flush[h].items # {} =>
     g = h \/ flush[g].tok # flush[h].tok
OkMeansDone == \A g \in Flushers : AnswerOK(flush[g], crec, created)

\* Cameras the desktop takes for known, and those that are there, were created.
KnownIsCreated == \A c \in Cameras : cam[c].known \/ ccam[c].there => c \in created

\* A record that was added has a camera, and only such a record is marked.
RecordsOwned ==
  \A r \in Records : /\ rec[r].stage = "none" <=> rec[r].cam = NoId
                     /\ rec[r].stage = "none" => ~rec[r].synced

IInv == /\ TablesTypeOK /\ FlushTypeOK /\ QueueKnows /\ BatchesKnow /\ BatchesDiffer
        /\ OkMeansDone /\ KnownIsCreated /\ RecordsOwned /\ SyncedRecordIsStored

-----------------------------------------------------------------------------
(* Rows and work.                                                          *)

LEMMA PayloadType ==
  ASSUME NEW m \in {"POST", "PATCH", "DELETE", "RECORD"}, NEW c \in Cameras,
         NEW F \in SUBSET Fields, NEW v \in [F -> Values], m = "POST" => F = PostFields
  PROVE  Payload(m, c, v) \in Payloads
<1>1. v \in UNION {[G -> Values] : G \in SUBSET Fields}
  OBVIOUS
<1> QED
  BY <1>1 DEF Payload, Payloads

LEMMA NoFieldsType == NoFields \in [{} -> Values] /\ {} \in SUBSET Fields
BY DEF NoFields

\* What a transaction may do to a row it does not claim.
Moved(r, s) ==
  /\ s \in Row
  /\ s.key = r.key /\ s.work = r.work /\ s.dep = r.dep /\ s.attempted = r.attempted
  /\ s.state = "inflight" => r.state = "inflight" /\ s.token = r.token
  /\ s.state \in {"succeeded", "dead_letter"} =>
       r.state \in {"inflight", "succeeded", "dead_letter"}
  /\ r.state = "cancelled" => s.state = "cancelled"
  /\ s.token \in {r.token, NoToken}

LEMMA SameMoved == \A r \in Row : Moved(r, r)
BY DEF Moved

LEMMA CancelledMoved ==
  \A r \in Row : r.state # "inflight" => Moved(r, Cancelled(r)) /\ Cancelled(r).state = "cancelled"
BY DEF Moved, Cancelled, Row, States, NoToken

LEMMA ReclaimedMoved == 
  \A r \in Row : r.state = "inflight" => Moved(r, Reclaimed(r)) /\ Reclaimed(r).state = "retry_wait"
BY DEF Moved, Reclaimed, Row, States, NoToken

LEMMA CompletedMoved ==
  \A r \in Row : r.state = "inflight" => Moved(r, Completed(r)) /\ Completed(r).state = "succeeded"
BY DEF Moved, Completed, Row, States, NoToken

LEMMA FailedMoved ==
  \A r \in Row, p \in BOOLEAN : r.state = "inflight" =>
     Moved(r, Failed(r, p, MaxAttempts)) /\ Failed(r, p, MaxAttempts).state # "succeeded"
<1> SUFFICES ASSUME NEW r \in Row, NEW p \in BOOLEAN, r.state = "inflight"
             PROVE  LET s == Failed(r, p, MaxAttempts) IN Moved(r, s) /\ s.state # "succeeded"
  OBVIOUS
<1>1. PICK st \in {"dead_letter", "retry_wait"} :
        Failed(r, p, MaxAttempts) = [r EXCEPT !.state = st, !.token = NoToken, !.due = FALSE]
  BY DEF Failed
<1>2. [r EXCEPT !.state = st, !.token = NoToken, !.due = FALSE] \in Row
  BY DEF Row, States, NoToken
<1> QED
  BY <1>1, <1>2 DEF Moved, Row

LEMMA RequeuedMoved ==
  \A r \in Row : r.state = "dead_letter" => Moved(r, Requeued(r)) /\ Requeued(r).state = "pending"
BY DEF Moved, Requeued, Row, States, NoToken

-----------------------------------------------------------------------------
(* From table to table.                                                    *)

\* The local tables and the set of created cameras only grow in this sense.
Grows(ca, re, cr, ca2, re2, cr2) ==
  /\ \A c \in Cameras : /\ ca[c].stage # "none" => ca2[c].stage # "none"
                        /\ ca[c].stage = "gone" => ca2[c].stage = "gone"
  /\ \A r \in Records : re[r].stage # "none" => re2[r].stage # "none" /\ re2[r].cam = re[r].cam
  /\ cr \subseteq cr2

\* A lease in the new table was one in the old.
LeasesKept(t, t2) ==
  \A i \in DOMAIN t2 : t2[i].state = "inflight" =>
     /\ i \in DOMAIN t /\ t[i].state = "inflight" /\ t[i].token = t2[i].token
     /\ t[i].work = t2[i].work /\ t[i].key = t2[i].key

LEMMA GrowKeepsTable ==
  ASSUME NEW t, NEW n, NEW u, NEW ca, NEW re, NEW cr, NEW ca2, NEW re2, NEW cr2,
         TableOK(t, n, u, ca, re, cr), Grows(ca, re, cr, ca2, re2, cr2)
  PROVE  TableOK(t, n, u, ca2, re2, cr2)
<1>1. RowsKnow(t, ca2, re2)
  BY DEF TableOK, RowsKnow, Grows
<1>2. SucceededIsCreated(t, cr2) /\ RecordsWait(t, cr2)
  BY DEF TableOK, SucceededIsCreated, RecordsWait, Grows
<1> QED
  BY <1>1, <1>2 DEF TableOK

MovesTo(t, t2) ==
  /\ DOMAIN t2 = DOMAIN t /\ t2 = [i \in DOMAIN t2 |-> t2[i]]
  /\ \A i \in DOMAIN t : Moved(t[i], t2[i])

LEMMA MoveKeepsTable ==
  ASSUME NEW t, NEW n, NEW u, NEW ca, NEW re, NEW cr, TableOK(t, n, u, ca, re, cr),
         NEW t2, MovesTo(t, t2),
         \A i \in DOMAIN t : t2[i].state = "succeeded" /\ t[i].key \in Cameras =>
            t[i].state = "succeeded" \/ t[i].work.method = "DELETE" \/ t[i].key \in cr
  PROVE  TableOK(t2, n, u, ca, re, cr) /\ LeasesKept(t, t2)
<1>1. IsTable(t2, n, u)
  BY DEF TableOK, IsTable, MovesTo, Moved, Row, NoToken
<1>2. RowsKnow(t2, ca, re)
  BY DEF TableOK, RowsKnow, MovesTo, Moved
<1>3. SucceededIsCreated(t2, cr)
  BY DEF TableOK, SucceededIsCreated, MovesTo, Moved
<1>4. RecordsWait(t2, cr)
  BY DEF TableOK, RecordsWait, MovesTo, Moved
<1>5. LeasesKept(t, t2)
  BY DEF LeasesKept, MovesTo, Moved
<1> QED
  BY <1>1, <1>2, <1>3, <1>4, <1>5 DEF TableOK

\* One row is replaced.
LEMMA ReplaceMoves ==
  ASSUME NEW t, NEW n, NEW u, IsTable(t, n, u), NEW i \in DOMAIN t, NEW s, Moved(t[i], s)
  PROVE  MovesTo(t, [t EXCEPT ![i] = s])
BY SameMoved DEF IsTable, MovesTo

LEMMA CancelMoves ==
  ASSUME NEW t, NEW n, NEW u, IsTable(t, n, u), NEW C, \A i \in C : t[i].state # "inflight"
  PROVE  /\ MovesTo(t, Cancel(t, C))
         /\ \A i \in DOMAIN t : Cancel(t, C)[i].state = "succeeded" => t[i].state = "succeeded"
<1>1. ASSUME NEW i \in DOMAIN t
      PROVE  /\ Moved(t[i], Cancel(t, C)[i])
             /\ Cancel(t, C)[i].state = "succeeded" => t[i].state = "succeeded"
  <2>1. t[i] \in Row
    BY DEF IsTable
  <2> QED
    BY <2>1, SameMoved, CancelledMoved DEF Cancel
<1> QED
  BY <1>1 DEF MovesTo, Cancel

LEMMA ReclaimMoves ==
  ASSUME NEW t, NEW n, NEW u, IsTable(t, n, u), NEW X
  PROVE  /\ MovesTo(t, ReclaimExpired(t, X))
         /\ \A i \in DOMAIN t : ReclaimExpired(t, X)[i].state = "succeeded" => t[i].state = "succeeded"
<1>1. ASSUME NEW i \in DOMAIN t
      PROVE  /\ Moved(t[i], ReclaimExpired(t, X)[i])
             /\ ReclaimExpired(t, X)[i].state = "succeeded" => t[i].state = "succeeded"
  <2>1. t[i] \in Row
    BY DEF IsTable
  <2> QED
    BY <2>1, SameMoved, ReclaimedMoved DEF ReclaimExpired
<1> QED
  BY <1>1 DEF MovesTo, ReclaimExpired

\* A nonempty set of numbers up to n has a largest member.
LEMMA LargestRow ==
  ASSUME NEW n \in Nat, NEW S \in SUBSET (1..n), S # {}
  PROVE  \E i \in S : \A j \in S : j <= i
<1> DEFINE U == {m \in Nat : \A j \in S : j <= m}
<1>1. U \subseteq Nat /\ n \in U
  OBVIOUS
<1>2. PICK m \in U : \A k \in U : ~(<<k, m>> \in OpToRel(<, Nat))
  BY <1>1, WFMin, NatLessThanWellFounded
<1>3. \A k \in U : ~(k < m)
  BY <1>1, <1>2 DEF OpToRel
<1>4. m \in S
  <2> SUFFICES ASSUME m \notin S PROVE FALSE
    OBVIOUS
  <2>1. m # 0
    <3>1. PICK j \in S : j \in 1..n
      OBVIOUS
    <3>2. j <= m
      BY <3>1
    <3> QED
      BY <3>1, <3>2
  <2>2. m - 1 \in U
    BY <2>1
  <2> QED
    BY <2>2, <1>3
<1> QED
  BY <1>4

LEMMA SmallestNumber ==
  ASSUME NEW S \in SUBSET Nat, S # {}
  PROVE  \E i \in S : \A j \in S : i <= j
<1>1. PICK m \in S : \A k \in S : ~(<<k, m>> \in OpToRel(<, Nat))
  BY WFMin, NatLessThanWellFounded
<1>2. \A k \in S : ~(k < m)
  BY <1>1 DEF OpToRel
<1> QED
  BY <1>2

LEMMA LatestIsRow ==
  ASSUME NEW t, NEW n, NEW u, IsTable(t, n, u), NEW k, Latest(t, k) # NoId
  PROVE  Latest(t, k) \in DOMAIN t /\ t[Latest(t, k)].key = k
<1>1. RowsOf(t, k) # {}
  BY DEF Latest
<1>2. n \in Nat /\ RowsOf(t, k) \in SUBSET (1..n)
  BY DEF IsTable, RowsOf
<1>3. \E i \in RowsOf(t, k) : \A j \in RowsOf(t, k) : j <= i
  BY <1>1, <1>2, LargestRow
<1>4. Latest(t, k) \in RowsOf(t, k)
  BY <1>1, <1>3 DEF Latest
<1> QED
  BY <1>4 DEF RowsOf

LEMMA LowestIsRow ==
  ASSUME NEW t, NEW n, NEW u, IsTable(t, n, u), NEW k, Lowest(t, k) # NoId
  PROVE  Lowest(t, k) \in DOMAIN t /\ t[Lowest(t, k)].key = k
<1>1. RowsOf(t, k) # {}
  BY DEF Lowest
<1>2. RowsOf(t, k) \in SUBSET Nat
  BY DEF IsTable, RowsOf
<1>3. \E i \in RowsOf(t, k) : \A j \in RowsOf(t, k) : i <= j
  BY <1>1, <1>2, SmallestNumber
<1>4. Lowest(t, k) \in RowsOf(t, k)
  BY <1>1, <1>3 DEF Lowest
<1> QED
  BY <1>4 DEF RowsOf

LEMMA LatestNat ==
  ASSUME NEW t, NEW n, NEW u, IsTable(t, n, u), NEW k
  PROVE  Latest(t, k) \in Nat
<1>1. CASE Latest(t, k) = NoId
  BY <1>1 DEF NoId
<1>2. CASE Latest(t, k) # NoId
  BY <1>2, LatestIsRow DEF IsTable
<1> QED
  BY <1>1, <1>2

LEMMA RewrittenFacts ==
  ASSUME NEW r \in Row, NEW w \in Payloads
  PROVE  LET s == Rewritten(r, w, NoId) IN
         /\ s \in Row /\ s.key = r.key /\ s.work = w /\ s.dep = r.dep
         /\ s.attempted = r.attempted /\ s.state = r.state /\ s.token = r.token
BY DEF Rewritten, Row, NoId

LEMMA NewRowFacts ==
  ASSUME NEW k \in Keys, NEW w \in Payloads, NEW p \in Nat, NEW d \in Nat
  PROVE  LET s == NewRow(k, w, p, d) IN
         /\ s \in Row /\ s.key = k /\ s.work = w /\ s.dep = d
         /\ ~s.attempted /\ s.state = "pending" /\ s.token = 0
BY DEF NewRow, Row, NoToken, States

\* _enqueue for a camera.
LEMMA EnqueueCamera ==
  ASSUME NEW t, NEW n, NEW u, NEW ca, NEW re, NEW cr, TableOK(t, n, u, ca, re, cr),
         NEW k \in Cameras, NEW w \in Payloads, w.cam = k, w.method # "RECORD",
         ca[k].stage # "none", w.method = "DELETE" => ca[k].stage = "gone",
         Coalesces(t, k) /\ w.method = "DELETE" => k \in cr
  PROVE  LET t2 == Enqueue(t, k, w, NoId, n + 1) IN
         /\ TableOK(t2, IF Coalesces(t, k) THEN n ELSE n + 1, u, ca, re, cr)
         /\ LeasesKept(t, t2)
<1> DEFINE l == Latest(t, k)
           t2 == Enqueue(t, k, w, NoId, n + 1)
<1>0. /\ IsTable(t, n, u) /\ RowsKnow(t, ca, re) /\ SucceededIsCreated(t, cr) /\ RecordsWait(t, cr)
      /\ n \in Nat /\ u \in Nat /\ k \in Keys /\ k \notin Records
  BY SyncAssumption DEF TableOK, IsTable, Keys
<1>1. CASE Coalesces(t, k)
  <2> DEFINE s == Rewritten(t[l], w, NoId)
  <2>1. l \in DOMAIN t /\ t[l].key = k /\ t[l] \in Row
    BY <1>0, <1>1, LatestIsRow DEF Coalesces, IsTable
  <2>2. t[l].state = "pending" /\ ~t[l].attempted
    BY <1>1 DEF Coalesces
  <2>3. /\ s \in Row /\ s.key = k /\ s.work = w /\ s.dep = t[l].dep
        /\ s.attempted = t[l].attempted /\ s.state = "pending" /\ s.token = t[l].token
    BY <2>1, <2>2, RewrittenFacts
  <2>4. t2 = [t EXCEPT ![l] = s]
    BY <1>1 DEF Enqueue
  <2> HIDE DEF s, l, t2
  <2>5. DOMAIN t2 = DOMAIN t /\ t2[l] = s /\ \A i \in DOMAIN t : i # l => t2[i] = t[i]
    BY <2>1, <2>4 DEF IsTable
  <2>6. IsTable(t2, n, u)
    BY <1>0, <2>1, <2>3, <2>4 DEF IsTable
  <2>7. RowsKnow(t2, ca, re)
    BY <1>0, <2>2, <2>3, <2>5 DEF RowsKnow
  <2>8. SucceededIsCreated(t2, cr)
    BY <1>0, <2>3, <2>5 DEF SucceededIsCreated
  <2>9. RecordsWait(t2, cr)
    BY <1>0, <1>1, <2>1, <2>3, <2>5 DEF RecordsWait
  <2>10. LeasesKept(t, t2)
    BY <2>1, <2>3, <2>5 DEF LeasesKept
  <2> QED
    BY <1>1, <2>6, <2>7, <2>8, <2>9, <2>10 DEF TableOK, t2
<1>2. CASE ~Coalesces(t, k)
  <2> DEFINE s == NewRow(k, w, l, NoId)
  <2>1. /\ s \in Row /\ s.key = k /\ s.work = w /\ s.dep = NoId
        /\ ~s.attempted /\ s.state = "pending" /\ s.token = 0
    BY <1>0, LatestNat, NewRowFacts DEF NoId
  <2>2. t2 = [j \in DOMAIN t \cup {n + 1} |-> IF j = n + 1 THEN s ELSE t[j]]
    BY <1>2 DEF Enqueue, Insert
  <2> HIDE DEF s, l, t2
  <2>3. n + 1 \notin DOMAIN t /\ n + 1 \in Nat
    BY <1>0 DEF IsTable
  <2>4. /\ DOMAIN t2 = DOMAIN t \cup {n + 1} /\ t2[n + 1] = s
        /\ \A i \in DOMAIN t : i # n + 1 /\ t2[i] = t[i]
    BY <2>2, <2>3
  <2>5. IsTable(t2, n + 1, u)
    BY <1>0, <2>1, <2>2, <2>3, <2>4 DEF IsTable
  <2>6. RowsKnow(t2, ca, re)
    BY <1>0, <2>1, <2>4 DEF RowsKnow
  <2>7. SucceededIsCreated(t2, cr)
    BY <1>0, <2>1, <2>4 DEF SucceededIsCreated
  <2>8. RecordsWait(t2, cr)
    BY <1>0, <2>1, <2>4 DEF RecordsWait
  <2>9. LeasesKept(t, t2)
    BY <2>1, <2>4 DEF LeasesKept
  <2> QED
    BY <1>2, <2>5, <2>6, <2>7, <2>8, <2>9 DEF TableOK, t2
<1> QED
  BY <1>1, <1>2

\* _enqueue for a record, whose key has no row yet.
LEMMA EnqueueRecord ==
  ASSUME NEW t, NEW n, NEW u, NEW ca, NEW re, NEW cr, TableOK(t, n, u, ca, re, cr),
         NEW k \in Records, \A i \in DOMAIN t : t[i].key # k,
         NEW w \in Payloads, w.method = "RECORD", w.cam = re[k].cam, re[k].stage # "none",
         NEW d \in Nat, d = NoId => w.cam \in cr,
         d # NoId => /\ d \in DOMAIN t /\ t[d].key = w.cam
                     /\ t[d].work.method = "DELETE" => w.cam \in cr
  PROVE  LET t2 == Enqueue(t, k, w, d, n + 1) IN
         /\ ~Coalesces(t, k) /\ TableOK(t2, n + 1, u, ca, re, cr) /\ LeasesKept(t, t2)
<1> DEFINE l == Latest(t, k)
           t2 == Enqueue(t, k, w, d, n + 1)
           s == NewRow(k, w, l, d)
<1>0. /\ IsTable(t, n, u) /\ RowsKnow(t, ca, re) /\ SucceededIsCreated(t, cr) /\ RecordsWait(t, cr)
      /\ n \in Nat /\ u \in Nat /\ k \in Keys /\ k \notin Cameras
  BY SyncAssumption DEF TableOK, IsTable, Keys
<1>1. l = NoId /\ ~Coalesces(t, k)
  BY DEF Latest, RowsOf, Coalesces
<1>2. /\ s \in Row /\ s.key = k /\ s.work = w /\ s.dep = d
      /\ ~s.attempted /\ s.state = "pending" /\ s.token = 0
  BY <1>0, <1>1, NewRowFacts DEF NoId
<1>3. t2 = [j \in DOMAIN t \cup {n + 1} |-> IF j = n + 1 THEN s ELSE t[j]]
  BY <1>1 DEF Enqueue, Insert
<1> HIDE DEF s, l, t2
<1>4. n + 1 \notin DOMAIN t /\ n + 1 \in Nat
  BY <1>0 DEF IsTable
<1>5. /\ DOMAIN t2 = DOMAIN t \cup {n + 1} /\ t2[n + 1] = s
      /\ \A i \in DOMAIN t : i # n + 1 /\ t2[i] = t[i]
  BY <1>3, <1>4
<1>6. IsTable(t2, n + 1, u)
  BY <1>0, <1>2, <1>3, <1>4, <1>5 DEF IsTable
<1>7. RowsKnow(t2, ca, re)
  BY <1>0, <1>2, <1>5 DEF RowsKnow
<1>8. SucceededIsCreated(t2, cr)
  BY <1>0, <1>2, <1>5 DEF SucceededIsCreated
<1>9. RecordsWait(t2, cr)
  BY <1>0, <1>2, <1>5 DEF RecordsWait
<1>10. LeasesKept(t, t2)
  BY <1>2, <1>5 DEF LeasesKept
<1> QED
  BY <1>1, <1>6, <1>7, <1>8, <1>9, <1>10 DEF TableOK, t2

LEMMA LeasedFacts ==
  ASSUME NEW r \in Row, NEW u \in Nat
  PROVE  LET s == Leased(r, u) IN
         /\ s \in Row /\ s.key = r.key /\ s.work = r.work /\ s.dep = r.dep
         /\ s.attempted /\ s.state = "inflight" /\ s.token = u
<1>1. r.attempts + 1 \in Nat /\ "inflight" \in States
  BY DEF Row, States
<1> QED
  BY <1>1 DEF Leased, Row

\* A claim of the claimable rows C under the new token u + 1.
LEMMA LeaseKeepsTable ==
  ASSUME NEW t, NEW n, NEW u, NEW ca, NEW re, NEW cr, TableOK(t, n, u, ca, re, cr),
         NEW C, \A i \in C : i \in DOMAIN t /\ Claimable(t, i)
  PROVE  LET t2 == Lease(t, C, u + 1) IN
         /\ TableOK(t2, n, IF C = {} THEN u ELSE u + 1, ca, re, cr)
         /\ DOMAIN t2 = DOMAIN t
         /\ \A i \in DOMAIN t : IF i \in C THEN /\ t2[i].work = t[i].work /\ t2[i].key = t[i].key
                                                /\ t2[i].token = u + 1
                                           ELSE t2[i] = t[i]
         /\ \A i \in C : t[i].key \in Records => t[i].work.cam \in cr
<1> DEFINE t2 == Lease(t, C, u + 1)
           v == IF C = {} THEN u ELSE u + 1
<1>0. /\ IsTable(t, n, u) /\ RowsKnow(t, ca, re) /\ SucceededIsCreated(t, cr) /\ RecordsWait(t, cr)
      /\ n \in Nat /\ u \in Nat /\ u + 1 \in Nat
  BY DEF TableOK, IsTable
<1>1. DOMAIN t2 = DOMAIN t /\ t2 = [i \in DOMAIN t2 |-> t2[i]]
  BY DEF Lease
<1>2. ASSUME NEW i \in C
      PROVE  /\ t2[i] \in Row /\ t2[i].key = t[i].key /\ t2[i].work = t[i].work
             /\ t2[i].dep = t[i].dep /\ t2[i].attempted /\ t2[i].state = "inflight"
             /\ t2[i].token = u + 1
  <2>1. t[i] \in Row /\ t2[i] = Leased(t[i], u + 1)
    BY <1>0 DEF IsTable, Lease
  <2> QED
    BY <1>0, <2>1, LeasedFacts
<1>3. \A i \in DOMAIN t : i \notin C => t2[i] = t[i]
  BY DEF Lease
<1>4. ASSUME NEW i \in C, t[i].key \in Records
      PROVE  t[i].work.cam \in cr
  <2>1. i \in DOMAIN t /\ t[i].state \in {"pending", "retry_wait"}
    BY DEF Claimable, Waiting
  <2>2. t[i].dep = NoId \/ (t[i].dep \in DOMAIN t /\ t[t[i].dep].state = "succeeded")
    BY DEF Claimable
  <2>3. CASE t[i].dep = NoId
    BY <1>0, <1>4, <2>1, <2>3 DEF RecordsWait
  <2>4. CASE t[i].dep # NoId
    <3>1. t[i].work.cam \in Cameras
      BY <1>0, <2>1 DEF IsTable, Row, Payloads
    <3> QED
      BY <1>0, <1>4, <2>1, <2>2, <2>4, <3>1 DEF RecordsWait, SucceededIsCreated
  <2> QED
    BY <2>3, <2>4
<1> HIDE DEF t2
<1>5. IsTable(t2, n, v)
  <2>1. \A i \in DOMAIN t2 : t2[i] \in Row
    BY <1>0, <1>1, <1>2, <1>3 DEF IsTable
  <2>2. \A i \in DOMAIN t2 : t2[i].token <= v
    BY <1>0, <1>1, <1>2, <1>3 DEF IsTable, Row
  <2> QED
    BY <1>0, <1>1, <2>1, <2>2 DEF IsTable
<1>6. RowsKnow(t2, ca, re)
  BY <1>0, <1>1, <1>2, <1>3 DEF RowsKnow
<1>7. SucceededIsCreated(t2, cr)
  BY <1>0, <1>1, <1>2, <1>3 DEF SucceededIsCreated
<1>8. RecordsWait(t2, cr)
  <2> SUFFICES ASSUME NEW i \in DOMAIN t, t[i].key \in Records
               PROVE  /\ t2[i].attempted => t2[i].work.cam \in cr
                      /\ t2[i].dep # NoId =>
                           /\ t2[i].dep \in DOMAIN t /\ t2[t2[i].dep].key = t2[i].work.cam
                           /\ t2[t2[i].dep].work.method = "DELETE" => t2[i].work.cam \in cr
                      /\ t2[i].dep = NoId /\ t2[i].state # "cancelled" => t2[i].work.cam \in cr
    BY <1>1, <1>2, <1>3 DEF RecordsWait
  <2>1. \A j \in DOMAIN t : t2[j].key = t[j].key /\ t2[j].work = t[j].work /\ t2[j].dep = t[j].dep
    BY <1>2, <1>3
  <2>2. CASE i \in C
    BY <1>0, <1>4, <2>1, <2>2 DEF RecordsWait
  <2>3. CASE i \notin C
    BY <1>0, <1>3, <2>1, <2>3 DEF RecordsWait
  <2> QED
    BY <2>2, <2>3
<1> QED
  BY <1>1, <1>2, <1>3, <1>4, <1>5, <1>6, <1>7, <1>8 DEF TableOK, t2

LEMMA DetachedFacts ==
  ASSUME NEW r \in Row, NEW P
  PROVE  LET s == Detached(r, P) IN
         /\ s \in Row /\ s.key = r.key /\ s.work = r.work /\ s.token = r.token
         /\ s.attempted = r.attempted /\ s.state = r.state
         /\ s.dep = IF r.dep \in P THEN NoId ELSE r.dep
<1>1. NoId \in Nat
  BY DEF NoId
<1> QED
  BY <1>1 DEF Detached, Row

\* A row that depends on a purged dead letter or a purged cancelled row is cancelled.
LEMMA PurgeCancelsDependents ==
  ASSUME NEW t, NEW i \in DOMAIN t, t[i].state # "inflight", t[i].dep \in Purgeable(t),
         t[t[i].dep].state \in {"dead_letter", "cancelled"}
  PROVE  i \in PurgeCancels(t)
<1>1. CASE t[t[i].dep].state = "cancelled"
  BY <1>1 DEF PurgeCancels
<1>2. CASE t[t[i].dep].state = "dead_letter"
  <2>1. i \in Descendants(t, t[i].dep)
    BY DEF Descendants, RefersTo
  <2> QED
    BY <1>2, <2>1 DEF PurgeCancels
<1> QED
  BY <1>1, <1>2

LEMMA PurgeKeepsTable ==
  ASSUME NEW t, NEW n, NEW u, NEW ca, NEW re, NEW cr, TableOK(t, n, u, ca, re, cr)
  PROVE  /\ TableOK(PurgeRetained(t), n, u, ca, re, cr)
         /\ LeasesKept(t, PurgeRetained(t))
<1> DEFINE P == Purgeable(t)
           t1 == Cancel(t, PurgeCancels(t))
           t2 == PurgeRetained(t)
<1>0. IsTable(t, n, u) /\ RowsKnow(t, ca, re) /\ SucceededIsCreated(t, cr) /\ RecordsWait(t, cr)
  BY DEF TableOK
<1>1. \A i \in PurgeCancels(t) : t[i].state # "inflight"
  BY DEF PurgeCancels
<1>2. /\ MovesTo(t, t1)
      /\ \A i \in DOMAIN t : t1[i].state = "succeeded" => t[i].state = "succeeded"
  BY <1>0, <1>1, CancelMoves
<1>3. TableOK(t1, n, u, ca, re, cr) /\ LeasesKept(t, t1)
  BY <1>2, MoveKeepsTable
<1>4. DOMAIN t1 = DOMAIN t
  BY DEF Cancel
<1>5. P \subseteq DOMAIN t /\ NoId \notin P
  BY <1>0 DEF Purgeable, IsTable, NoId
<1>6. t2 = [i \in DOMAIN t \ P |-> Detached(t1[i], P)]
  BY DEF PurgeRetained
<1>7. \A i \in DOMAIN t \cap PurgeCancels(t) : t1[i].state = "cancelled"
  <2> SUFFICES ASSUME NEW i \in DOMAIN t \cap PurgeCancels(t) PROVE t1[i].state = "cancelled"
    OBVIOUS
  <2>1. t[i] \in Row /\ t[i].state # "inflight" /\ t1[i] = Cancelled(t[i])
    BY <1>0, <1>1 DEF IsTable, Cancel
  <2> QED
    BY <2>1, CancelledMoved
<1>8. \A i \in DOMAIN t : t[i].dep \in P =>
        t[t[i].dep].state \in {"succeeded", "cancelled", "dead_letter"}
  BY DEF Purgeable, Finished
<1>9. \A i \in DOMAIN t : t[i].state # "inflight" /\ t[i].dep \in P
                           /\ t[t[i].dep].state \in {"dead_letter", "cancelled"}
                           => i \in PurgeCancels(t)
  BY PurgeCancelsDependents
<1> HIDE DEF t1, t2, P
<1>10. ASSUME NEW i \in DOMAIN t2
       PROVE  /\ i \in DOMAIN t /\ i \notin P /\ t2[i] \in Row /\ t2[i].key = t1[i].key
              /\ t2[i].work = t1[i].work /\ t2[i].token = t1[i].token
              /\ t2[i].attempted = t1[i].attempted /\ t2[i].state = t1[i].state
              /\ t2[i].dep = IF t1[i].dep \in P THEN NoId ELSE t1[i].dep
  <2>1. i \in DOMAIN t /\ i \notin P /\ t2[i] = Detached(t1[i], P) /\ t1[i] \in Row
    BY <1>3, <1>4, <1>6 DEF TableOK, IsTable
  <2> QED
    BY <2>1, DetachedFacts
<1>11. IsTable(t2, n, u)
  BY <1>3, <1>4, <1>6, <1>10 DEF TableOK, IsTable
<1>12. RowsKnow(t2, ca, re)
  BY <1>3, <1>4, <1>10 DEF TableOK, RowsKnow
<1>13. SucceededIsCreated(t2, cr)
  BY <1>3, <1>4, <1>10 DEF TableOK, SucceededIsCreated
<1>14. RecordsWait(t2, cr)
  <2> SUFFICES ASSUME NEW i \in DOMAIN t2, t2[i].key \in Records
               PROVE  /\ t2[i].attempted => t2[i].work.cam \in cr
                      /\ t2[i].dep # NoId =>
                           /\ t2[i].dep \in DOMAIN t2 /\ t2[t2[i].dep].key = t2[i].work.cam
                           /\ t2[t2[i].dep].work.method = "DELETE" => t2[i].work.cam \in cr
                      /\ t2[i].dep = NoId /\ t2[i].state # "cancelled" => t2[i].work.cam \in cr
    BY DEF RecordsWait
  <2>1. RecordsWait(t1, cr) /\ i \in DOMAIN t1 /\ t1[i].key \in Records
    BY <1>3, <1>4, <1>10 DEF TableOK
  <2>2. t2[i].attempted => t2[i].work.cam \in cr
    BY <1>10, <2>1 DEF RecordsWait
  <2>3. ASSUME t2[i].dep # NoId
        PROVE  /\ t2[i].dep \in DOMAIN t2 /\ t2[t2[i].dep].key = t2[i].work.cam
               /\ t2[t2[i].dep].work.method = "DELETE" => t2[i].work.cam \in cr
    <3>1. t2[i].dep = t1[i].dep /\ t1[i].dep \notin P
      BY <1>10, <2>3
    <3>2. /\ t1[i].dep \in DOMAIN t1 /\ t1[t1[i].dep].key = t1[i].work.cam
          /\ t1[t1[i].dep].work.method = "DELETE" => t1[i].work.cam \in cr
      BY <2>1, <2>3, <3>1 DEF RecordsWait
    <3>3. t1[i].dep \in DOMAIN t2
      BY <1>4, <1>6, <3>1, <3>2
    <3> QED
      BY <1>10, <3>1, <3>2, <3>3
  <2>4. ASSUME t2[i].dep = NoId, t2[i].state # "cancelled"
        PROVE  t2[i].work.cam \in cr
    <3>1. CASE t1[i].dep = NoId
      BY <1>10, <2>1, <2>4, <3>1 DEF RecordsWait
    <3>2. CASE t1[i].dep # NoId
      <4>1. i \in DOMAIN t /\ t1[i].dep \in P /\ t1[i].state # "cancelled"
        BY <1>10, <2>4, <3>2
      <4>2. t1[i].dep = t[i].dep /\ t1[i].work = t[i].work /\ t1[i].key = t[i].key
        BY <1>2, <4>1 DEF MovesTo, Moved
      <4>3. i \notin PurgeCancels(t)
        BY <1>7, <4>1
      <4>4. CASE t[i].state = "inflight"
        BY <1>0, <1>10, <2>1, <4>1, <4>2, <4>4 DEF RowsKnow, RecordsWait
      <4>5. CASE t[i].state # "inflight"
        <5>1. t[t[i].dep].state = "succeeded"
          BY <1>8, <1>9, <4>1, <4>2, <4>3, <4>5
        <5>2. t[i].work.cam \in Cameras
          BY <1>0, <4>1 DEF IsTable, Row, Payloads
        <5>3. /\ t[i].dep \in DOMAIN t /\ t[t[i].dep].key = t[i].work.cam
              /\ t[t[i].dep].work.method = "DELETE" => t[i].work.cam \in cr
          BY <1>0, <2>1, <3>2, <4>1, <4>2 DEF RecordsWait
        <5>4. t[i].work.cam \in cr
          BY <1>0, <5>1, <5>2, <5>3 DEF SucceededIsCreated
        <5> QED
          BY <1>10, <4>2, <5>4
      <4> QED
        BY <4>4, <4>5
    <3> QED
      BY <3>1, <3>2
  <2> QED
    BY <2>2, <2>3, <2>4
<1>15. LeasesKept(t, t2)
  BY <1>3, <1>4, <1>10 DEF LeasesKept
<1> QED
  BY <1>11, <1>12, <1>13, <1>14, <1>15 DEF TableOK, t2

-----------------------------------------------------------------------------
(* Batches.                                                                *)

\* A lease in the new table under one of the first u tokens was one in the old.
OldLeasesKept(t, t2, u) ==
  \A i \in DOMAIN t2 : t2[i].state = "inflight" /\ t2[i].token <= u =>
     /\ i \in DOMAIN t /\ t[i].state = "inflight" /\ t[i].token = t2[i].token
     /\ t[i].work = t2[i].work /\ t[i].key = t2[i].key

LEMMA LeasesKeptOld == ASSUME NEW t, NEW t2, NEW u, LeasesKept(t, t2) PROVE OldLeasesKept(t, t2, u)
BY DEF LeasesKept, OldLeasesKept

LEMMA SameBatch ==
  ASSUME NEW f, NEW f2, NEW t, NEW n, NEW u, NEW re, NEW cr, BatchOK(f, t, n, u, re, cr),
         f2.items = f.items, f2.tok = f.tok, f2.pc \in {"idle", "purge"} <=> f.pc \in {"idle", "purge"}
  PROVE  BatchOK(f2, t, n, u, re, cr)
BY DEF BatchOK

LEMMA GrowKeepsBatch ==
  ASSUME NEW f, NEW t, NEW n \in Nat, NEW u \in Nat, NEW re, NEW cr, BatchOK(f, t, n, u, re, cr),
         NEW t2, NEW n2 \in Nat, NEW u2 \in Nat, NEW re2, NEW cr2, n <= n2, u <= u2,
         OldLeasesKept(t, t2, u), NEW ca, NEW ca2, Grows(ca, re, cr, ca2, re2, cr2)
  PROVE  BatchOK(f, t2, n2, u2, re2, cr2)
<1>1. ASSUME NEW i \in DOMAIN f.items
      PROVE  /\ f.items[i].id = i /\ i \in 1..n2 /\ f.tok \in 1..u2
             /\ f.items[i].key \in Cameras =>
                  f.items[i].work.method # "RECORD" /\ f.items[i].work.cam = f.items[i].key
  BY DEF BatchOK
<1>2. ASSUME NEW i \in DOMAIN f.items, f.items[i].key \in Records
      PROVE  /\ f.items[i].work.method = "RECORD" /\ f.items[i].work.cam = re2[f.items[i].key].cam
             /\ re2[f.items[i].key].stage # "none" /\ f.items[i].work.cam \in cr2
  BY <1>2 DEF BatchOK, Grows
<1>3. ASSUME NEW i \in DOMAIN f.items, i \in DOMAIN t2, t2[i].state = "inflight",
             t2[i].token = f.tok
      PROVE  t2[i].work = f.items[i].work /\ t2[i].key = f.items[i].key
  <2>1. f.tok \in 1..u
    BY DEF BatchOK
  <2>2. /\ i \in DOMAIN t /\ t[i].state = "inflight" /\ t[i].token = t2[i].token
        /\ t[i].work = t2[i].work /\ t[i].key = t2[i].key
    BY <1>3, <2>1 DEF OldLeasesKept
  <2> QED
    BY <1>3, <2>2 DEF BatchOK
<1>4. f.pc \in {"idle", "purge"} <=> DOMAIN f.items = {}
  BY DEF BatchOK
<1> QED
  BY <1>1, <1>2, <1>3, <1>4, Zenon DEF BatchOK

\* Records keep the camera they are stored under, and created cameras stay created.
CentralGrows(cre, cr, cre2, cr2) ==
  (\A r \in Records : cre[r] # NoId => cre2[r] = cre[r]) /\ cr \subseteq cr2

LEMMA BatchType ==
  ASSUME NEW b
  PROVE  b \in Batches <=> /\ DOMAIN b \subseteq Nat /\ b = [i \in DOMAIN b |-> b[i]]
                           /\ \A i \in DOMAIN b : b[i] \in ItemType
<1>1. ASSUME b \in Batches
      PROVE  /\ DOMAIN b \subseteq Nat /\ b = [i \in DOMAIN b |-> b[i]]
             /\ \A i \in DOMAIN b : b[i] \in ItemType
  <2>1. PICK S \in SUBSET Nat : b \in [S -> ItemType]
    BY <1>1 DEF Batches
  <2> QED
    BY <2>1
<1>2. ASSUME DOMAIN b \subseteq Nat, b = [i \in DOMAIN b |-> b[i]],
             \A i \in DOMAIN b : b[i] \in ItemType
      PROVE  b \in Batches
  <2>1. b \in [DOMAIN b -> ItemType]
    BY <1>2
  <2> QED
    BY <1>2, <2>1 DEF Batches
<1> QED
  BY <1>1, <1>2

LEMMA FirstIsItem ==
  ASSUME NEW f \in FlushType, DOMAIN f.items # {}
  PROVE  /\ First(f.items) \in DOMAIN f.items /\ f.items[First(f.items)] \in ItemType
         /\ DOMAIN f.items \subseteq Nat /\ \A i \in DOMAIN f.items : f.items[i] \in ItemType
<1>1. DOMAIN f.items \in SUBSET Nat /\ \A i \in DOMAIN f.items : f.items[i] \in ItemType
  <2>1. f.items \in Batches
    BY DEF FlushType
  <2> QED
    BY <2>1, BatchType
<1>2. \E i \in DOMAIN f.items : \A j \in DOMAIN f.items : i <= j
  BY <1>1, SmallestNumber
<1>3. First(f.items) \in DOMAIN f.items
  BY <1>2 DEF First, Min
<1> QED
  BY <1>1, <1>3

LEMMA GrowKeepsAnswer ==
  ASSUME NEW f \in FlushType, NEW t, NEW n, NEW u, NEW re, NEW cr, BatchOK(f, t, n, u, re, cr),
         NEW cre, AnswerOK(f, cre, cr), NEW cre2, NEW cr2, CentralGrows(cre, cr, cre2, cr2)
  PROVE  AnswerOK(f, cre2, cr2)
<1>1. CASE f.pc = "settle"
  <2> DEFINE it == f.items[First(f.items)]
  <2>1. DOMAIN f.items # {}
    BY <1>1 DEF BatchOK
  <2>2. First(f.items) \in DOMAIN f.items /\ it \in ItemType
    BY <2>1, FirstIsItem
  <2>3. it.work.cam \in Cameras /\ it.work.cam # NoId /\ it.key \in Keys
    BY <2>2, SyncAssumption DEF ItemType, Payloads
  <2>4. it.work.method = "RECORD" => it.key \in Records
    BY <2>2, <2>3 DEF BatchOK, Keys
  <2> QED
    BY <1>1, <2>3, <2>4 DEF AnswerOK, CentralGrows
<1>2. CASE f.pc # "settle"
  BY <1>2 DEF AnswerOK
<1> QED
  BY <1>1, <1>2

\* A step of a repository, an operator or the clock: no flush and nothing central changes.
LEMMA LocalStep ==
  ASSUME IInv, UNCHANGED <<flush, centralVars>>,
         cam' \in [Cameras -> CamRow], rec' \in [Records -> RecRow],
         Grows(cam, rec, created, cam', rec', created),
         \A c \in Cameras : cam'[c].known = cam[c].known,
         \A r \in Records : rec'[r].synced => rec[r].synced /\ rec'[r].cam = rec[r].cam,
         TableOK(q', nextId', nextTok, cam', rec', created), LeasesKept(q, q'),
         nextTok' = nextTok, nextId <= nextId', RecordsOwned'
  PROVE  IInv'
<1>0. nextId \in Nat /\ nextTok \in Nat /\ nextId' \in Nat
  BY DEF IInv, QueueKnows, TableOK, IsTable
<1>1. TablesTypeOK' /\ FlushTypeOK' /\ QueueKnows' /\ BatchesDiffer' /\ OkMeansDone'
  BY DEF IInv, TablesTypeOK, FlushTypeOK, QueueKnows, BatchesDiffer, OkMeansDone, centralVars
<1>2. BatchesKnow'
  <2> SUFFICES ASSUME NEW g \in Flushers
               PROVE  BatchOK(flush[g], q', nextId', nextTok, rec', created)
    BY DEF BatchesKnow, centralVars
  <2>1. BatchOK(flush[g], q, nextId, nextTok, rec, created)
    BY DEF IInv, BatchesKnow
  <2>2. OldLeasesKept(q, q', nextTok)
    BY LeasesKeptOld
  <2> QED
    BY <1>0, <2>1, <2>2, GrowKeepsBatch
<1>3. KnownIsCreated' /\ SyncedRecordIsStored'
  BY DEF IInv, KnownIsCreated, SyncedRecordIsStored, centralVars
<1> QED
  BY <1>1, <1>2, <1>3 DEF IInv

-----------------------------------------------------------------------------
(* The repositories.                                                       *)

LEMMA GrowsRefl == \A ca, re, cr : Grows(ca, re, cr, ca, re, cr)
BY DEF Grows

LEMMA StageUpdates ==
  ASSUME TablesTypeOK, NEW c \in Cameras
  PROVE  \A s \in {"none", "here", "gone"} :
            LET ca == [cam EXCEPT ![c].stage = s] IN
            /\ ca \in [Cameras -> CamRow] /\ ca[c].stage = s
            /\ \A d \in Cameras : ca[d].known = cam[d].known /\ (d # c => ca[d] = cam[d])
<1>1. cam \in [Cameras -> CamRow]
  BY DEF TablesTypeOK
<1> QED
  BY <1>1 DEF CamRow

\* The work the repositories enqueue for a camera.
LEMMA CreateWork ==
  ASSUME TablesTypeOK, NEW c \in Cameras
  PROVE  LET w == Payload("POST", c, [f \in PostFields |-> cam[c].val[f]])
         IN  w \in Payloads /\ w.cam = c /\ w.method = "POST"
<1>1. PostFields \in SUBSET Fields
  BY DEF PostFields
<1>2. [f \in PostFields |-> cam[c].val[f]] \in [PostFields -> Values]
  BY <1>1 DEF TablesTypeOK, CamRow
<1>3. \A v : LET w == Payload("POST", c, v) IN w.cam = c /\ w.method = "POST"
  BY DEF Payload
<1> QED
  BY <1>1, <1>2, <1>3, PayloadType

LEMMA UpdateWork ==
  ASSUME TablesTypeOK, NEW c \in Cameras, NEW F \in Edits
  PROVE  LET v == [f \in Fields |-> IF f \in F THEN 1 - cam[c].val[f] ELSE cam[c].val[f]]
             w == IF StillUnsent(c) THEN Payload("POST", c, [f \in PostFields |-> v[f]])
                  ELSE Payload("PATCH", c, [f \in F |-> v[f]])
         IN  /\ v \in [Fields -> Values]
             /\ w \in Payloads /\ w.cam = c /\ w.method \in {"POST", "PATCH"}
<1> DEFINE v == [f \in Fields |-> IF f \in F THEN 1 - cam[c].val[f] ELSE cam[c].val[f]]
           w == IF StillUnsent(c) THEN Payload("POST", c, [f \in PostFields |-> v[f]])
                ELSE Payload("PATCH", c, [f \in F |-> v[f]])
<1>1. v \in [Fields -> Values]
  <2>1. cam[c].val \in [Fields -> Values]
    BY DEF TablesTypeOK, CamRow
  <2> QED
    BY <2>1 DEF Values
<1>2. w \in Payloads /\ w.cam = c /\ w.method \in {"POST", "PATCH"}
  <2>1. PostFields \in SUBSET Fields /\ F \in SUBSET Fields
    BY SyncAssumption DEF PostFields
  <2>2. [f \in PostFields |-> v[f]] \in [PostFields -> Values] /\ [f \in F |-> v[f]] \in [F -> Values]
    BY <1>1, <2>1
  <2> HIDE DEF v
  <2>3. /\ Payload("POST", c, [f \in PostFields |-> v[f]]) \in Payloads
        /\ Payload("PATCH", c, [f \in F |-> v[f]]) \in Payloads
    BY <2>1, <2>2, PayloadType
  <2>4. w.cam = c /\ w.method \in {"POST", "PATCH"}
    BY DEF Payload
  <2> QED
    BY <2>3, <2>4
<1> QED
  BY <1>1, <1>2

LEMMA CreateCameraStep ==
  ASSUME IInv, NEW c \in Cameras, CreateCamera(c)
  PROVE  IInv'
<1> DEFINE w == Payload("POST", c, [f \in PostFields |-> cam[c].val[f]])
<1>0. TablesTypeOK /\ QueueKnows
  BY DEF IInv
<1>1. w \in Payloads /\ w.cam = c /\ w.method = "POST"
  BY <1>0, CreateWork
<1>2. /\ cam' \in [Cameras -> CamRow] /\ cam'[c].stage = "here"
      /\ \A d \in Cameras : cam'[d].known = cam[d].known /\ (d # c => cam'[d] = cam[d])
  BY <1>0, StageUpdates DEF CreateCamera
<1>3. rec' = rec /\ UNCHANGED <<flush, centralVars>> /\ cam[c].stage = "none"
  BY DEF CreateCamera
<1>4. Grows(cam, rec, created, cam', rec, created)
  BY <1>2, <1>3 DEF Grows
<1>5. TableOK(q, nextId, nextTok, cam', rec, created)
  BY <1>0, <1>4, GrowKeepsTable DEF QueueKnows
<1>6. /\ q' = Enqueue(q, c, w, NoId, nextId + 1) /\ nextTok' = nextTok
      /\ nextId' = IF Coalesces(q, c) THEN nextId ELSE nextId + 1
  BY DEF CreateCamera, Enqueues
<1> HIDE DEF w
<1>7. TableOK(q', nextId', nextTok, cam', rec, created) /\ LeasesKept(q, q')
  BY <1>1, <1>2, <1>5, <1>6, EnqueueCamera
<1>8. nextId <= nextId'
  BY <1>0, <1>6 DEF QueueKnows, TableOK, IsTable
<1>9. rec' \in [Records -> RecRow] /\ RecordsOwned'
  BY <1>0, <1>3 DEF TablesTypeOK, IInv, RecordsOwned
<1> QED
  BY <1>2, <1>3, <1>4, <1>6, <1>7, <1>8, <1>9, LocalStep

LEMMA UpdateCameraStep ==
  ASSUME IInv, NEW c \in Cameras, NEW F \in Edits, UpdateCamera(c, F)
  PROVE  IInv'
<1> DEFINE v == [f \in Fields |-> IF f \in F THEN 1 - cam[c].val[f] ELSE cam[c].val[f]]
           w == IF StillUnsent(c) THEN Payload("POST", c, [f \in PostFields |-> v[f]])
                ELSE Payload("PATCH", c, [f \in F |-> v[f]])
<1>0. TablesTypeOK /\ QueueKnows
  BY DEF IInv
<1>1. v \in [Fields -> Values]
  BY <1>0, UpdateWork
<1>2. w \in Payloads /\ w.cam = c /\ w.method \in {"POST", "PATCH"}
  BY <1>0, UpdateWork
<1>3. /\ cam' = [cam EXCEPT ![c].val = v, ![c].sync = "pending"]
      /\ Enqueues(c, w, NoId)
  BY DEF UpdateCamera
<1>4. rec' = rec /\ UNCHANGED <<flush, centralVars>> /\ cam[c].stage = "here"
  BY DEF UpdateCamera, Here
<1> HIDE DEF w, v
<1>5. /\ cam' \in [Cameras -> CamRow]
      /\ \A d \in Cameras : cam'[d].known = cam[d].known /\ cam'[d].stage = cam[d].stage
  <2> DEFINE s == [cam[c] EXCEPT !.val = v, !.sync = "pending"]
  <2>1. cam \in [Cameras -> CamRow]
    BY <1>0 DEF TablesTypeOK
  <2>2. s \in CamRow /\ s.known = cam[c].known /\ s.stage = cam[c].stage
    BY <1>1, <2>1 DEF CamRow
  <2>3. cam' = [cam EXCEPT ![c] = s]
    BY <1>3
  <2> HIDE DEF s
  <2> QED
    BY <2>1, <2>2, <2>3
<1>6. Grows(cam, rec, created, cam', rec, created)
  BY <1>5 DEF Grows
<1>7. TableOK(q, nextId, nextTok, cam', rec, created)
  BY <1>0, <1>6, GrowKeepsTable DEF QueueKnows
<1>8. /\ q' = Enqueue(q, c, w, NoId, nextId + 1) /\ nextTok' = nextTok
      /\ nextId' = IF Coalesces(q, c) THEN nextId ELSE nextId + 1
  BY <1>3 DEF Enqueues
<1>9. TableOK(q', nextId', nextTok, cam', rec, created) /\ LeasesKept(q, q')
  BY <1>2, <1>4, <1>5, <1>7, <1>8, EnqueueCamera
<1>10. nextId <= nextId'
  BY <1>0, <1>8 DEF QueueKnows, TableOK, IsTable
<1>11. rec' \in [Records -> RecRow] /\ RecordsOwned'
  BY <1>0, <1>4 DEF TablesTypeOK, IInv, RecordsOwned
<1> QED
  BY <1>4, <1>5, <1>6, <1>8, <1>9, <1>10, <1>11, LocalStep

LEMMA DeleteCameraStep ==
  ASSUME IInv, NEW c \in Cameras, DeleteCamera(c)
  PROVE  IInv'
<1> DEFINE w == Payload("DELETE", c, NoFields)
<1>0. TablesTypeOK /\ QueueKnows /\ KnownIsCreated
  BY DEF IInv
<1>1. w \in Payloads /\ w.cam = c /\ w.method = "DELETE"
  <2>1. w.cam = c /\ w.method = "DELETE"
    BY DEF Payload
  <2> QED
    BY <2>1, NoFieldsType, PayloadType
<1>2. /\ cam' \in [Cameras -> CamRow] /\ cam'[c].stage = "gone"
      /\ \A d \in Cameras : cam'[d].known = cam[d].known /\ (d # c => cam'[d] = cam[d])
  BY <1>0, StageUpdates DEF DeleteCamera
<1>3. UNCHANGED <<flush, centralVars>> /\ cam[c].stage = "here"
  BY DEF DeleteCamera, Here
<1>4. /\ rec' \in [Records -> RecRow]
      /\ \A r \in Records : /\ rec'[r].cam = rec[r].cam /\ rec'[r].synced = rec[r].synced
                            /\ rec[r].stage # "none" <=> rec'[r].stage # "none"
  <2>1. rec \in [Records -> RecRow]
    BY <1>0 DEF TablesTypeOK
  <2>2. rec' = [r \in Records |-> IF rec[r].cam = c THEN [rec[r] EXCEPT !.stage = "gone"]
                                  ELSE rec[r]]
    BY DEF DeleteCamera
  <2>3. \A r \in Records : rec[r].cam = c => rec[r].stage # "none"
    <3>1. RecordsOwned /\ c # NoId
      BY SyncAssumption DEF IInv
    <3> QED
      BY <3>1 DEF RecordsOwned
  <2> QED
    BY <2>1, <2>2, <2>3 DEF RecRow
<1>5. Grows(cam, rec, created, cam', rec', created)
  BY <1>2, <1>3, <1>4 DEF Grows
<1>6. TableOK(q, nextId, nextTok, cam', rec', created) /\ IsTable(q, nextId, nextTok)
  BY <1>0, <1>5, GrowKeepsTable DEF QueueKnows, TableOK
<1>7. /\ TableOK(q', nextId', nextTok, cam', rec', created) /\ LeasesKept(q, q')
      /\ nextTok' = nextTok /\ nextId <= nextId'
  <2>1. CASE ~cam[c].known /\ Latest(q, c) # NoId /\ q[Latest(q, c)].state \in Waiting
    <3> DEFINE C == {i \in DOMAIN q : (i = Latest(q, c) \/ q[i].dep = Latest(q, c))
                                      /\ q[i].state \in Waiting}
    <3>1. q' = Cancel(q, C) /\ nextTok' = nextTok /\ nextId' = nextId
      BY <2>1 DEF DeleteCamera, CancelLatest
    <3>2. \A i \in C : q[i].state # "inflight"
      BY DEF Waiting
    <3> HIDE DEF C
    <3>3. /\ MovesTo(q, q')
          /\ \A i \in DOMAIN q : q'[i].state = "succeeded" => q[i].state = "succeeded"
      BY <1>6, <3>1, <3>2, CancelMoves
    <3>4. TableOK(q', nextId, nextTok, cam', rec', created) /\ LeasesKept(q, q')
      BY <1>6, <3>3, MoveKeepsTable
    <3> QED
      BY <1>6, <3>1, <3>4 DEF IsTable
  <2>2. CASE ~(~cam[c].known /\ Latest(q, c) # NoId /\ q[Latest(q, c)].state \in Waiting)
    <3>1. /\ q' = Enqueue(q, c, w, NoId, nextId + 1) /\ nextTok' = nextTok
          /\ nextId' = IF Coalesces(q, c) THEN nextId ELSE nextId + 1
      BY <2>2 DEF DeleteCamera, Enqueues
    <3>2. Coalesces(q, c) => cam[c].known
      BY <2>2 DEF Coalesces, Waiting
    <3>3. Coalesces(q, c) => c \in created
      BY <1>0, <3>2 DEF KnownIsCreated
    <3> HIDE DEF w
    <3>4. TableOK(q', nextId', nextTok, cam', rec', created) /\ LeasesKept(q, q')
      BY <1>1, <1>2, <1>6, <3>1, <3>3, EnqueueCamera
    <3> QED
      BY <1>6, <3>1, <3>4 DEF IsTable
  <2> QED
    BY <2>1, <2>2
<1>8. RecordsOwned'
  BY <1>4 DEF IInv, RecordsOwned
<1> QED
  BY <1>2, <1>3, <1>4, <1>5, <1>7, <1>8, LocalStep

LEMMA AddRecordStep ==
  ASSUME IInv, NEW r \in Records, NEW c \in Cameras, AddRecord(r, c)
  PROVE  IInv'
<1> DEFINE w == Payload("RECORD", c, NoFields)
           d == CameraDependency(c)
<1>0. TablesTypeOK /\ QueueKnows /\ KnownIsCreated /\ SyncedRecordIsStored
  BY DEF IInv
<1>1. w \in Payloads /\ w.cam = c /\ w.method = "RECORD"
  <2>1. w.cam = c /\ w.method = "RECORD"
    BY DEF Payload
  <2> QED
    BY <2>1, NoFieldsType, PayloadType
<1>2. /\ cam' = cam /\ UNCHANGED <<flush, centralVars>> /\ cam[c].stage = "here"
      /\ rec[r].stage = "none"
  BY DEF AddRecord, Here
<1>3. /\ rec' \in [Records -> RecRow] /\ rec'[r].cam = c /\ rec'[r].stage = "here"
      /\ ~rec'[r].synced /\ \A o \in Records \ {r} : rec'[o] = rec[o]
  BY <1>0 DEF AddRecord, TablesTypeOK, RecRow
<1>4. Grows(cam, rec, created, cam, rec', created)
  BY <1>2, <1>3 DEF Grows
<1>5. TableOK(q, nextId, nextTok, cam, rec', created) /\ IsTable(q, nextId, nextTok)
  BY <1>0, <1>4, GrowKeepsTable DEF QueueKnows, TableOK
<1>6. \A i \in DOMAIN q : q[i].key # r
  BY <1>0, <1>2 DEF QueueKnows, TableOK, RowsKnow
<1>7. /\ d \in Nat
      /\ d = NoId => c \in created
      /\ d # NoId => d \in DOMAIN q /\ q[d].key = c /\ q[d].work.method # "DELETE"
  <2>1. CASE cam[c].known
    BY <1>0, <2>1 DEF CameraDependency, KnownIsCreated, NoId
  <2>2. CASE ~cam[c].known
    <3>1. d = Lowest(q, c) /\ Lowest(q, c) # NoId
      BY <2>2 DEF CameraDependency, AddRecord
    <3>2. d \in DOMAIN q /\ q[d].key = c
      BY <1>5, <3>1, LowestIsRow
    <3>3. d \in Nat
      BY <1>5, <3>2 DEF IsTable
    <3>4. q[d].work.method # "DELETE"
      BY <1>0, <1>2, <3>2 DEF QueueKnows, TableOK, RowsKnow
    <3> QED
      BY <3>1, <3>2, <3>3, <3>4
  <2> QED
    BY <2>1, <2>2
<1>8. /\ q' = Enqueue(q, r, w, d, nextId + 1) /\ nextTok' = nextTok
      /\ nextId' = IF Coalesces(q, r) THEN nextId ELSE nextId + 1
  BY DEF AddRecord, Enqueues
<1> HIDE DEF w, d
<1>9. /\ ~Coalesces(q, r) /\ LeasesKept(q, q')
      /\ TableOK(q', nextId + 1, nextTok, cam, rec', created)
  BY <1>1, <1>3, <1>5, <1>6, <1>7, <1>8, EnqueueRecord
<1>10. nextId' = nextId + 1 /\ nextId <= nextId'
  BY <1>5, <1>8, <1>9 DEF IsTable
<1>11. cam' \in [Cameras -> CamRow]
  BY <1>0, <1>2 DEF TablesTypeOK
<1>12. \A o \in Records : rec'[o].synced => rec[o].synced /\ rec'[o].cam = rec[o].cam
  BY <1>3
<1>13. RecordsOwned'
  BY <1>3, SyncAssumption DEF IInv, RecordsOwned
<1> QED
  BY <1>2, <1>3, <1>4, <1>8, <1>9, <1>10, <1>11, <1>12, <1>13, LocalStep

-----------------------------------------------------------------------------
(* Operators and time.                                                     *)

\* A step that only moves rows of the queue.
LEMMA QueueStep ==
  ASSUME IInv, MovesTo(q, q'),
         \A i \in DOMAIN q : q'[i].state = "succeeded" => q[i].state = "succeeded",
         UNCHANGED <<nextId, nextTok, localVars, centralVars, flush>>
  PROVE  IInv'
<1>0. TablesTypeOK /\ TableOK(q, nextId, nextTok, cam, rec, created) /\ nextId \in Nat
  BY DEF IInv, QueueKnows, TableOK, IsTable
<1>1. TableOK(q', nextId, nextTok, cam, rec, created) /\ LeasesKept(q, q')
  BY <1>0, MoveKeepsTable
<1>2. cam' = cam /\ rec' = rec /\ nextTok' = nextTok /\ nextId' = nextId
  BY DEF localVars
<1>3. Grows(cam, rec, created, cam', rec', created)
  BY <1>2, GrowsRefl
<1>4. RecordsOwned'
  BY <1>2 DEF IInv, RecordsOwned
<1> QED
  BY <1>0, <1>1, <1>2, <1>3, <1>4, LocalStep DEF TablesTypeOK

LEMMA RowUpdates ==
  ASSUME NEW r \in Row
  PROVE  /\ Moved(r, [r EXCEPT !.due = TRUE]) /\ [r EXCEPT !.due = TRUE].state = r.state
         /\ Moved(r, [r EXCEPT !.old = TRUE]) /\ [r EXCEPT !.old = TRUE].state = r.state
BY DEF Moved, Row, NoToken

LEMMA OperatorStep ==
  ASSUME IInv, NEW i \in DOMAIN q,
         RetryDead(i) \/ DiscardDead(i) \/ BackoffElapses(i) \/ RetentionElapses(i)
  PROVE  IInv'
<1>0. IsTable(q, nextId, nextTok) /\ q[i] \in Row
  BY DEF IInv, QueueKnows, TableOK, IsTable
<1>1. CASE RetryDead(i)
  <2>1. q' = [q EXCEPT ![i] = Requeued(q[i])] /\ q[i].state = "dead_letter"
    BY <1>1 DEF RetryDead, RetryDeadLetter
  <2>2. Moved(q[i], Requeued(q[i])) /\ Requeued(q[i]).state = "pending"
    BY <1>0, <2>1, RequeuedMoved
  <2>3. MovesTo(q, q')
    BY <1>0, <2>1, <2>2, ReplaceMoves
  <2>4. \A j \in DOMAIN q : q'[j].state = "succeeded" => q[j].state = "succeeded"
    BY <1>0, <2>1, <2>2 DEF IsTable
  <2> QED
    BY <1>1, <2>3, <2>4, QueueStep DEF RetryDead
<1>2. CASE DiscardDead(i)
  <2>1. q' = Cancel(q, {i}) /\ q[i].state = "dead_letter"
    BY <1>2 DEF DiscardDead, DiscardDeadLetter
  <2>2. \A j \in {i} : q[j].state # "inflight"
    BY <2>1
  <2>3. /\ MovesTo(q, q')
        /\ \A j \in DOMAIN q : q'[j].state = "succeeded" => q[j].state = "succeeded"
    BY <1>0, <2>1, <2>2, CancelMoves
  <2> QED
    BY <1>2, <2>3, QueueStep DEF DiscardDead
<1>3. CASE BackoffElapses(i)
  <2> DEFINE s == [q[i] EXCEPT !.due = TRUE]
  <2>1. q' = [q EXCEPT ![i] = s]
    BY <1>3 DEF BackoffElapses
  <2>2. Moved(q[i], s) /\ s.state = q[i].state
    BY <1>0, RowUpdates
  <2> HIDE DEF s
  <2>3. MovesTo(q, q')
    BY <1>0, <2>1, <2>2, ReplaceMoves
  <2>4. \A j \in DOMAIN q : q'[j].state = "succeeded" => q[j].state = "succeeded"
    BY <1>0, <2>1, <2>2 DEF IsTable
  <2> QED
    BY <1>3, <2>3, <2>4, QueueStep DEF BackoffElapses
<1>4. CASE RetentionElapses(i)
  <2> DEFINE s == [q[i] EXCEPT !.old = TRUE]
  <2>1. q' = [q EXCEPT ![i] = s]
    BY <1>4 DEF RetentionElapses
  <2>2. Moved(q[i], s) /\ s.state = q[i].state
    BY <1>0, RowUpdates
  <2> HIDE DEF s
  <2>3. MovesTo(q, q')
    BY <1>0, <2>1, <2>2, ReplaceMoves
  <2>4. \A j \in DOMAIN q : q'[j].state = "succeeded" => q[j].state = "succeeded"
    BY <1>0, <2>1, <2>2 DEF IsTable
  <2> QED
    BY <1>4, <2>3, <2>4, QueueStep DEF RetentionElapses
<1> QED
  BY <1>1, <1>2, <1>3, <1>4

LEMMA StutterStep ==
  ASSUME IInv, UNCHANGED <<q, nextId, nextTok, localVars, centralVars, flush>>
  PROVE  IInv'
BY DEF IInv, TablesTypeOK, FlushTypeOK, QueueKnows, BatchesKnow, BatchesDiffer, OkMeansDone,
     KnownIsCreated, RecordsOwned, SyncedRecordIsStored, localVars, centralVars

-----------------------------------------------------------------------------
(* The flushes.                                                            *)

\* A step of flush g, which leaves it with f.
LEMMA FlushStep ==
  ASSUME IInv, NEW g \in Flushers, NEW f \in FlushType, flush' = [flush EXCEPT ![g] = f],
         TablesTypeOK', KnownIsCreated', RecordsOwned', SyncedRecordIsStored',
         Grows(cam, rec, created, cam', rec', created'),
         CentralGrows(crec, created, crec', created'),
         QueueKnows', OldLeasesKept(q, q', nextTok), nextId <= nextId', nextTok <= nextTok',
         BatchOK(f, q', nextId', nextTok', rec', created'), AnswerOK(f, crec', created'),
         DOMAIN f.items = {} \/ f.tok = nextTok + 1
           \/ (DOMAIN flush[g].items # {} /\ f.tok = flush[g].tok)
  PROVE  IInv'
<1>0. nextId \in Nat /\ nextTok \in Nat /\ nextId' \in Nat /\ nextTok' \in Nat
  BY DEF IInv, QueueKnows, TableOK, IsTable
<1>1. FlushTypeOK' /\ flush'[g] = f /\ \A h \in Flushers \ {g} : flush'[h] = flush[h]
  BY DEF IInv, FlushTypeOK
<1>2. BatchesKnow'
  <2> SUFFICES ASSUME NEW h \in Flushers
               PROVE  BatchOK(flush'[h], q', nextId', nextTok', rec', created')
    BY DEF BatchesKnow
  <2>1. CASE h = g
    BY <1>1, <2>1
  <2>2. CASE h # g
    <3>1. flush'[h] = flush[h] /\ BatchOK(flush[h], q, nextId, nextTok, rec, created)
      BY <1>1, <2>2 DEF IInv, BatchesKnow
    <3> QED
      BY <1>0, <3>1, GrowKeepsBatch
  <2> QED
    BY <2>1, <2>2
<1>3. BatchesDiffer'
  <2>1. \A h \in Flushers : DOMAIN flush[h].items # {} => flush[h].tok \in 1..nextTok
    BY DEF IInv, BatchesKnow, BatchOK
  <2>2. nextTok + 1 \notin 1..nextTok
    BY <1>0
  <2>3. ASSUME NEW h \in Flushers \ {g}, DOMAIN f.items # {}, DOMAIN flush[h].items # {}
        PROVE  f.tok # flush[h].tok
    <3>1. CASE f.tok = nextTok + 1
      BY <2>1, <2>2, <2>3, <3>1
    <3>2. CASE DOMAIN flush[g].items # {} /\ f.tok = flush[g].tok
      BY <2>3, <3>2 DEF IInv, BatchesDiffer
    <3> QED
      BY <2>3, <3>1, <3>2
  <2> QED
    BY <1>1, <2>3 DEF IInv, BatchesDiffer
<1>4. OkMeansDone'
  <2> SUFFICES ASSUME NEW h \in Flushers
               PROVE  AnswerOK(flush'[h], crec', created')
    BY DEF OkMeansDone
  <2>1. CASE h = g
    BY <1>1, <2>1
  <2>2. CASE h # g
    <3>1. /\ flush'[h] = flush[h] /\ flush[h] \in FlushType /\ AnswerOK(flush[h], crec, created)
          /\ BatchOK(flush[h], q, nextId, nextTok, rec, created)
      BY <1>1, <2>2 DEF IInv, BatchesKnow, OkMeansDone, FlushTypeOK
    <3> QED
      BY <3>1, GrowKeepsAnswer
  <2> QED
    BY <2>1, <2>2
<1> QED
  BY <1>1, <1>2, <1>3, <1>4 DEF IInv

\* The item a flush is at.
LEMMA ItemFacts ==
  ASSUME IInv, NEW g \in Flushers, flush[g].pc \in {"send", "analytics", "settle"}
  PROVE  /\ flush[g] \in FlushType /\ DOMAIN flush[g].items # {} /\ Item(g) \in ItemType
         /\ First(flush[g].items) \in DOMAIN flush[g].items /\ Item(g).id = First(flush[g].items)
         /\ Item(g) = flush[g].items[Item(g).id]
         /\ Item(g).work.cam \in Cameras /\ Item(g).work.cam # NoId
         /\ Item(g).work.method \in {"POST", "PATCH", "DELETE", "RECORD"}
         /\ IF Item(g).work.method = "RECORD"
            THEN Item(g).key \in Records /\ Item(g).work.cam = rec[Item(g).key].cam
            ELSE Item(g).key = Item(g).work.cam
<1>1. flush[g] \in FlushType /\ BatchOK(flush[g], q, nextId, nextTok, rec, created)
  BY DEF IInv, FlushTypeOK, BatchesKnow
<1>2. DOMAIN flush[g].items # {}
  BY <1>1 DEF BatchOK
<1>3. First(flush[g].items) \in DOMAIN flush[g].items /\ Item(g) \in ItemType
  BY <1>1, <1>2, FirstIsItem DEF Item
<1>4. Item(g).id = First(flush[g].items) /\ Item(g) = flush[g].items[Item(g).id]
  BY <1>1, <1>3 DEF BatchOK, Item
<1>5. /\ Item(g).work.cam \in Cameras /\ Item(g).work.cam # NoId /\ Item(g).key \in Keys
      /\ Item(g).work.method \in {"POST", "PATCH", "DELETE", "RECORD"}
  BY <1>3, SyncAssumption DEF ItemType, Payloads
<1>6. IF Item(g).work.method = "RECORD"
      THEN Item(g).key \in Records /\ Item(g).work.cam = rec[Item(g).key].cam
      ELSE Item(g).key = Item(g).work.cam
  BY <1>1, <1>3, <1>5 DEF BatchOK, Item, Keys
<1> QED
  BY <1>1, <1>2, <1>3, <1>4, <1>5, <1>6

\* What the central handlers do with an item, and what they leave alone.
LEMMA ServeFacts ==
  ASSUME TablesTypeOK, KnownIsCreated, NEW i, NEW k, NEW w \in Payloads, NEW F,
         w.method = "RECORD" => k \in Records, Serve(i, k, w, F)
  PROVE  /\ ccam' \in [Cameras -> [there : BOOLEAN, val : [Fields -> Values]]]
         /\ crec' \in [Records -> Cameras \cup {NoId}]
         /\ CentralGrows(crec, created, crec', created')
         /\ \A c \in Cameras : ccam'[c].there => c \in created'
         /\ Outcome(k, w) = "ok" =>
              /\ w.method = "RECORD" => crec'[k] = w.cam
              /\ w.method \in {"POST", "PATCH"} => w.cam \in created'
<1> DEFINE c == w.cam
           CC == [Cameras -> [there : BOOLEAN, val : [Fields -> Values]]]
<1>0. /\ ccam \in CC /\ crec \in [Records -> Cameras \cup {NoId}] /\ c \in Cameras
      /\ \A d \in Cameras : ccam[d].there => d \in created
  BY DEF TablesTypeOK, KnownIsCreated, Payloads
<1>1. w.method \in {"POST", "PATCH"} => (Outcome(k, w) = "ok" <=> Accepted(k, w))
  BY DEF Outcome
<1>2. w.method = "RECORD" => (Outcome(k, w) = "ok" <=> Accepted(k, w))
  BY DEF Outcome
<1>3. \A f \in DOMAIN w.val : w.val[f] \in Values
  <2>1. PICK G \in SUBSET Fields : w.val \in [G -> Values]
    BY DEF Payloads
  <2> QED
    BY <2>1
<1>4. CASE ~Accepted(k, w) /\ UNCHANGED centralVars
  BY <1>0, <1>1, <1>2, <1>4 DEF centralVars, CentralGrows
<1>5. CASE Accepted(k, w) /\ w.method = "RECORD" /\ crec' = RecordStored(k, c)
           /\ UNCHANGED <<ccam, created, applied>>
  <2>1. crec[k] \in {NoId, c} /\ k \in Records
    BY <1>5 DEF Accepted, Conflict, Upserts
  <2> QED
    BY <1>0, <1>5, <2>1 DEF RecordStored, CentralGrows
<1>6. CASE Accepted(k, w) /\ w.method = "POST" /\ ccam' = Created(c, w.val)
           /\ created' = created \cup {c} /\ UNCHANGED crec
  <2> DEFINE r == [there |-> TRUE, val |-> [f \in Fields |-> IF f \in PostFields THEN w.val[f] ELSE 0]]
  <2>1. CASE ccam[c].there
    BY <1>0, <1>6, <2>1 DEF Created, CentralGrows
  <2>2. CASE ~ccam[c].there
    <3>1. PostFields = DOMAIN w.val /\ 0 \in Values
      BY <1>6 DEF Payloads, Values
    <3>2. r \in [there : BOOLEAN, val : [Fields -> Values]]
      BY <1>3, <3>1
    <3>3. ccam' = [ccam EXCEPT ![c] = r]
      BY <1>6, <2>2 DEF Created
    <3> HIDE DEF r
    <3>4. ccam' \in CC /\ \A d \in Cameras : d # c => ccam'[d] = ccam[d]
      BY <1>0, <3>2, <3>3
    <3> QED
      BY <1>0, <1>6, <3>4 DEF CentralGrows
  <2> QED
    BY <2>1, <2>2
<1>7. CASE Accepted(k, w) /\ w.method = "PATCH" /\ ccam' = Updated(c, w.val, F)
           /\ UNCHANGED <<created, crec>>
  <2> DEFINE v == [f \in Fields |-> IF f \in F \cap DOMAIN w.val THEN w.val[f] ELSE ccam[c].val[f]]
             r == [ccam[c] EXCEPT !.val = v]
  <2>1. v \in [Fields -> Values]
    BY <1>0, <1>3
  <2>2. ccam' = [ccam EXCEPT ![c] = r]
    BY <1>7 DEF Updated
  <2>3. r \in [there : BOOLEAN, val : [Fields -> Values]] /\ r.there = ccam[c].there
    BY <1>0, <2>1
  <2>4. c \in created
    BY <1>0, <1>7 DEF Accepted, NotFound
  <2> HIDE DEF r
  <2> QED
    BY <1>0, <1>7, <2>2, <2>3, <2>4 DEF CentralGrows
<1>8. CASE Accepted(k, w) /\ w.method = "DELETE" /\ ccam' = Deleted(c)
           /\ UNCHANGED <<created, crec>>
  <2>1. ccam' = [ccam EXCEPT ![c] = [ccam[c] EXCEPT !.there = FALSE]]
    BY <1>8 DEF Deleted
  <2>2. /\ [ccam[c] EXCEPT !.there = FALSE] \in [there : BOOLEAN, val : [Fields -> Values]]
        /\ ~[ccam[c] EXCEPT !.there = FALSE].there
    BY <1>0
  <2> QED
    BY <1>0, <1>8, <2>1, <2>2 DEF CentralGrows
<1> QED
  BY <1>4, <1>5, <1>6, <1>7, <1>8 DEF Serve

\* What a step has to keep when it changes only central tables.
CentralKept ==
  /\ ccam' \in [Cameras -> [there : BOOLEAN, val : [Fields -> Values]]]
  /\ crec' \in [Records -> Cameras \cup {NoId}]
  /\ CentralGrows(crec, created, crec', created')
  /\ \A c \in Cameras : ccam'[c].there => c \in created'

LEMMA CentralStep ==
  ASSUME IInv, UNCHANGED <<queueVars, localVars>>, CentralKept,
         NEW g \in Flushers, NEW f \in FlushType, flush' = [flush EXCEPT ![g] = f],
         f.items = flush[g].items, f.tok = flush[g].tok,
         f.pc \in {"send", "analytics", "settle"}, flush[g].pc \in {"send", "analytics", "settle"},
         AnswerOK(f, crec', created')
  PROVE  IInv'
<1>0. /\ TablesTypeOK /\ KnownIsCreated /\ SyncedRecordIsStored /\ nextId \in Nat /\ nextTok \in Nat
      /\ TableOK(q, nextId, nextTok, cam, rec, created)
      /\ BatchOK(flush[g], q, nextId, nextTok, rec, created)
  BY DEF IInv, QueueKnows, TableOK, IsTable, BatchesKnow
<1>1. q' = q /\ nextId' = nextId /\ nextTok' = nextTok /\ cam' = cam /\ rec' = rec
  BY DEF queueVars, localVars
<1>2. created \subseteq created' /\ \A r \in Records : crec[r] # NoId => crec'[r] = crec[r]
  BY DEF CentralKept, CentralGrows
<1>3. TablesTypeOK'
  BY <1>0, <1>1 DEF TablesTypeOK, CentralKept
<1>4. KnownIsCreated'
  BY <1>0, <1>1, <1>2 DEF KnownIsCreated, CentralKept
<1>5. SyncedRecordIsStored'
  <2> SUFFICES ASSUME NEW r \in Records, rec[r].synced PROVE crec'[r] = rec[r].cam
    BY <1>1 DEF SyncedRecordIsStored
  <2>1. crec[r] = rec[r].cam
    BY <1>0 DEF SyncedRecordIsStored
  <2>2. rec[r].cam # NoId
    BY DEF IInv, RecordsOwned
  <2> QED
    BY <1>2, <2>1, <2>2
<1>6. RecordsOwned'
  BY <1>1 DEF IInv, RecordsOwned
<1>7. Grows(cam, rec, created, cam', rec', created')
  BY <1>1, <1>2 DEF Grows
<1>8. QueueKnows'
  BY <1>0, <1>1, <1>7, GrowKeepsTable DEF QueueKnows
<1>9. OldLeasesKept(q, q', nextTok)
  BY <1>1 DEF OldLeasesKept
<1>10. BatchOK(flush[g], q', nextId', nextTok', rec', created')
  BY <1>0, <1>1, <1>7, <1>9, GrowKeepsBatch
<1>11. BatchOK(f, q', nextId', nextTok', rec', created') /\ DOMAIN flush[g].items # {}
  <2>1. DOMAIN flush[g].items # {} /\ ~(flush[g].pc \in {"idle", "purge"}) /\ ~(f.pc \in {"idle", "purge"})
    BY <1>0 DEF BatchOK
  <2> QED
    BY <1>10, <2>1, SameBatch
<1>12. nextId <= nextId' /\ nextTok <= nextTok' /\ CentralGrows(crec, created, crec', created')
  BY <1>0, <1>1 DEF CentralKept
<1> QED
  BY <1>3, <1>4, <1>5, <1>6, <1>7, <1>8, <1>9, <1>11, <1>12, FlushStep

\* The flush's record after a request.
LEMMA AnswerType ==
  ASSUME NEW f \in FlushType, NEW p \in {"analytics", "settle"},
         NEW o \in {"ok", "rejected", "unavailable"}
  PROVE  LET e == [f EXCEPT !.pc = p, !.outcome = o] IN
         e \in FlushType /\ e.items = f.items /\ e.tok = f.tok /\ e.pc = p /\ e.outcome = o
BY DEF FlushType

LEMMA CentralServed ==
  ASSUME IInv, NEW g \in Flushers, flush[g].pc \in {"send", "analytics"}, NEW F,
         Serve(Item(g).id, Item(g).key, Item(g).work, F)
  PROVE  /\ CentralKept
         /\ Outcome(Item(g).key, Item(g).work) = "ok" =>
              /\ Item(g).work.method = "RECORD" => crec'[Item(g).key] = Item(g).work.cam
              /\ Item(g).work.method \in {"POST", "PATCH"} => Item(g).work.cam \in created'
<1>1. Item(g) \in ItemType /\ (Item(g).work.method = "RECORD" => Item(g).key \in Records)
  BY ItemFacts
<1>2. TablesTypeOK /\ KnownIsCreated /\ Item(g).work \in Payloads
  BY <1>1 DEF IInv, ItemType
<1> QED
  BY <1>1, <1>2, ServeFacts DEF CentralKept

LEMMA SendStep ==
  ASSUME IInv, NEW g \in Flushers, Send(g)
  PROVE  IInv'
<1> DEFINE it == Item(g)
<1>0. flush[g].pc = "send" /\ Serve(it.id, it.key, it.work, BodyFields)
      /\ UNCHANGED <<queueVars, localVars>>
  BY DEF Send
<1>1. flush[g] \in FlushType
  BY DEF IInv, FlushTypeOK
<1>2. PICK o \in {Outcome(it.key, it.work), "unavailable"} :
        flush' = [flush EXCEPT ![g].pc = AfterSend(it.work, o), ![g].outcome = o]
  BY DEF Send
<1>p. PICK p : p = AfterSend(it.work, o)
  OBVIOUS
<1> DEFINE f == [flush[g] EXCEPT !.pc = p, !.outcome = o]
<1>3. o \in {"ok", "rejected", "unavailable"} /\ p \in {"analytics", "settle"}
  BY <1>p DEF AfterSend, Outcome
<1>4. CentralKept
  BY <1>0, CentralServed
<1>5. o = "ok" => /\ it.work.method = "RECORD" => crec'[it.key] = it.work.cam
                  /\ it.work.method \in {"POST", "PATCH"} => it.work.cam \in created'
  BY <1>0, CentralServed
<1>6. p = "analytics" => it.work.method = "PATCH"
  BY <1>p DEF AfterSend
<1>7. flush' = [flush EXCEPT ![g] = f]
  BY <1>p, <1>2
<1>8. f \in FlushType /\ f.items = flush[g].items /\ f.tok = flush[g].tok /\ f.pc = p /\ f.outcome = o
  BY <1>1, <1>3 DEF FlushType
<1>9. f.items[First(f.items)] = it
  BY <1>8 DEF Item
<1> HIDE DEF f, it
<1>10. AnswerOK(f, crec', created')
  BY <1>5, <1>6, <1>8, <1>9 DEF AnswerOK
<1> QED
  BY <1>0, <1>3, <1>4, <1>7, <1>8, <1>10, CentralStep

LEMMA SendAnalyticsStep ==
  ASSUME IInv, NEW g \in Flushers, SendAnalytics(g)
  PROVE  IInv'
<1> DEFINE it == Item(g)
<1>0. flush[g].pc = "analytics" /\ Serve(it.id, it.key, it.work, ConfigFields)
      /\ UNCHANGED <<queueVars, localVars>>
  BY DEF SendAnalytics
<1>1. flush[g] \in FlushType
  BY DEF IInv, FlushTypeOK
<1>2. PICK o \in {Outcome(it.key, it.work), "unavailable"} :
        flush' = [flush EXCEPT ![g].pc = "settle", ![g].outcome = o]
  BY DEF SendAnalytics
<1> DEFINE f == [flush[g] EXCEPT !.pc = "settle", !.outcome = o]
<1>3. o \in {"ok", "rejected", "unavailable"}
  BY DEF Outcome
<1>4. CentralKept
  BY <1>0, CentralServed
<1>5. o = "ok" => /\ it.work.method = "RECORD" => crec'[it.key] = it.work.cam
                  /\ it.work.method \in {"POST", "PATCH"} => it.work.cam \in created'
  BY <1>0, CentralServed
<1>6. flush' = [flush EXCEPT ![g] = f]
  BY <1>2
<1>7. f \in FlushType /\ f.items = flush[g].items /\ f.tok = flush[g].tok /\ f.pc = "settle"
      /\ f.outcome = o
  BY <1>1, <1>3, AnswerType
<1>8. f.items[First(f.items)] = it
  BY <1>7 DEF Item
<1> HIDE DEF f, it
<1>9. AnswerOK(f, crec', created')
  BY <1>5, <1>7, <1>8 DEF AnswerOK
<1> QED
  BY <1>0, <1>4, <1>6, <1>7, <1>9, CentralStep

LEMMA RequestRetriedStep ==
  ASSUME IInv, NEW g \in Flushers, RequestRetried(g)
  PROVE  IInv'
<1>0. flush[g].pc \in {"send", "analytics"} /\ UNCHANGED <<queueVars, localVars, flush>>
  BY DEF RequestRetried
<1>1. \E F : Serve(Item(g).id, Item(g).key, Item(g).work, F)
  BY DEF RequestRetried
<1>2. CentralKept
  BY <1>0, <1>1, CentralServed
<1>3. /\ flush[g] \in FlushType /\ AnswerOK(flush[g], crec, created)
      /\ BatchOK(flush[g], q, nextId, nextTok, rec, created)
  BY DEF IInv, FlushTypeOK, OkMeansDone, BatchesKnow
<1>4. AnswerOK(flush[g], crec', created')
  BY <1>2, <1>3, GrowKeepsAnswer DEF CentralKept
<1>5. flush' = [flush EXCEPT ![g] = flush[g]]
  BY <1>0 DEF IInv, FlushTypeOK
<1> QED
  BY <1>0, <1>2, <1>3, <1>4, <1>5, CentralStep

LEMMA SendFailsStep ==
  ASSUME IInv, NEW g \in Flushers, SendFails(g)
  PROVE  IInv'
<1>0. flush[g].pc \in {"send", "analytics"} /\ UNCHANGED <<queueVars, localVars, centralVars>>
  BY DEF SendFails
<1>1. flush[g] \in FlushType
  BY DEF IInv, FlushTypeOK
<1>2. PICK o \in {"unavailable", "rejected"} :
        flush' = [flush EXCEPT ![g].pc = "settle", ![g].outcome = o]
  BY DEF SendFails
<1> DEFINE f == [flush[g] EXCEPT !.pc = "settle", !.outcome = o]
<1>3. CentralKept
  BY <1>0 DEF IInv, TablesTypeOK, KnownIsCreated, CentralKept, CentralGrows, centralVars
<1>4. flush' = [flush EXCEPT ![g] = f]
  BY <1>2
<1>5. f \in FlushType /\ f.items = flush[g].items /\ f.tok = flush[g].tok /\ f.pc = "settle"
      /\ f.outcome = o
  <2>1. o \in {"ok", "rejected", "unavailable"} /\ "settle" \in {"analytics", "settle"}
    OBVIOUS
  <2> QED
    BY <1>1, <2>1, AnswerType
<1> HIDE DEF f
<1>6. AnswerOK(f, crec', created')
  BY <1>5 DEF AnswerOK
<1> QED
  BY <1>0, <1>3, <1>4, <1>5, <1>6, CentralStep

-----------------------------------------------------------------------------
(* Settling an item and going on to the next.                              *)

LEMMA FirstPcFacts ==
  ASSUME NEW b
  PROVE  /\ FirstPc(b) \in {"purge", "analytics", "send"} /\ (FirstPc(b) = "purge" <=> DOMAIN b = {})
         /\ FirstPc(b) = "analytics" => b[First(b)].work.method = "PATCH"
BY DEF FirstPc

\* A flush that is about to send the first item of b.
AtFirst(b, u) == [pc |-> FirstPc(b), tok |-> u, items |-> b, outcome |-> "ok"]

LEMMA AtFirstFacts ==
  ASSUME NEW b \in Batches, NEW u \in Nat
  PROVE  LET f == AtFirst(b, u) IN
         /\ f \in FlushType /\ f.items = b /\ f.tok = u
         /\ f.pc \in {"idle", "purge"} <=> DOMAIN b = {}
         /\ \A cre, cr : AnswerOK(f, cre, cr)
<1>1. /\ FirstPc(b) \in {"purge", "analytics", "send"} /\ (FirstPc(b) = "purge" <=> DOMAIN b = {})
      /\ FirstPc(b) = "analytics" => b[First(b)].work.method = "PATCH"
  BY FirstPcFacts
<1>2. AtFirst(b, u) \in FlushType
  BY <1>1 DEF AtFirst, FlushType
<1>3. /\ AtFirst(b, u).items = b /\ AtFirst(b, u).tok = u /\ AtFirst(b, u).pc = FirstPc(b)
  BY DEF AtFirst
<1>4. AtFirst(b, u).pc \in {"idle", "purge"} <=> DOMAIN b = {}
  BY <1>1, <1>3
<1>5. ASSUME NEW cre, NEW cr PROVE AnswerOK(AtFirst(b, u), cre, cr)
  BY <1>1, <1>3 DEF AnswerOK
<1> QED
  BY <1>2, <1>3, <1>4, <1>5

LEMMA RestFacts ==
  ASSUME NEW b \in Batches
  PROVE  /\ Rest(b) \in Batches /\ DOMAIN Rest(b) = DOMAIN b \ {First(b)}
         /\ \A i \in DOMAIN Rest(b) : Rest(b)[i] = b[i]
<1>1. /\ DOMAIN Rest(b) = DOMAIN b \ {First(b)} /\ Rest(b) = [i \in DOMAIN Rest(b) |-> Rest(b)[i]]
      /\ \A i \in DOMAIN Rest(b) : Rest(b)[i] = b[i]
  BY DEF Rest
<1>2. DOMAIN b \subseteq Nat /\ \A i \in DOMAIN b : b[i] \in ItemType
  BY BatchType
<1>3. Rest(b) \in Batches
  BY <1>1, <1>2, BatchType
<1> QED
  BY <1>1, <1>3

LEMMA SettleStep ==
  ASSUME IInv, NEW g \in Flushers, flush[g].pc = "settle", NextItem(g),
         UNCHANGED <<nextId, nextTok, centralVars>>,
         TablesTypeOK', KnownIsCreated', RecordsOwned', SyncedRecordIsStored',
         Grows(cam, rec, created, cam', rec', created),
         TableOK(q', nextId, nextTok, cam', rec', created), LeasesKept(q, q')
  PROVE  IInv'
<1> DEFINE b == Rest(flush[g].items)
           f == AtFirst(b, flush[g].tok)
<1>0. /\ nextId \in Nat /\ nextTok \in Nat /\ flush[g] \in FlushType
      /\ BatchOK(flush[g], q, nextId, nextTok, rec, created)
  BY DEF IInv, QueueKnows, TableOK, IsTable, FlushTypeOK, BatchesKnow
<1>1. crec' = crec /\ created' = created /\ nextId' = nextId /\ nextTok' = nextTok
  BY DEF centralVars
<1>2. flush' = [flush EXCEPT ![g] = f]
  BY DEF NextItem, AtFirst
<1>3. flush[g].items \in Batches /\ flush[g].tok \in Nat
  BY <1>0 DEF FlushType
<1>4. /\ b \in Batches /\ DOMAIN b \subseteq DOMAIN flush[g].items
      /\ \A i \in DOMAIN b : b[i] = flush[g].items[i]
  BY <1>3, RestFacts
<1>5. /\ f \in FlushType /\ f.items = b /\ f.tok = flush[g].tok
      /\ f.pc \in {"idle", "purge"} <=> DOMAIN b = {}
      /\ AnswerOK(f, crec', created')
  BY <1>3, <1>4, AtFirstFacts
<1> HIDE DEF b, f
<1>6. OldLeasesKept(q, q', nextTok)
  BY LeasesKeptOld
<1>7. BatchOK(flush[g], q', nextId', nextTok', rec', created')
  BY <1>0, <1>1, <1>6, GrowKeepsBatch
<1>8. BatchOK(f, q', nextId', nextTok', rec', created')
  BY <1>4, <1>5, <1>7 DEF BatchOK
<1>9. DOMAIN flush[g].items # {}
  BY <1>0 DEF BatchOK
<1>10. CentralGrows(crec, created, crec', created') /\ QueueKnows' /\ nextId <= nextId'
       /\ nextTok <= nextTok'
  BY <1>0, <1>1 DEF CentralGrows, QueueKnows
<1> QED
  BY <1>1, <1>2, <1>5, <1>6, <1>8, <1>9, <1>10, FlushStep

LEMMA SettleFailedStep ==
  ASSUME IInv, NEW g \in Flushers, SettleFailed(g)
  PROVE  IInv'
<1> DEFINE i == Item(g).id
<1>0. /\ flush[g].pc = "settle" /\ NextItem(g) /\ UNCHANGED <<nextId, nextTok, localVars, centralVars>>
      /\ q' = IF Owned(q, i, flush[g].tok, expired)
              THEN Fail(q, i, flush[g].outcome = "rejected", MaxAttempts) ELSE q
  BY DEF SettleFailed
<1>1. TableOK(q, nextId, nextTok, cam, rec, created) /\ IsTable(q, nextId, nextTok)
  BY DEF IInv, QueueKnows, TableOK
<1>2. TableOK(q', nextId, nextTok, cam, rec, created) /\ LeasesKept(q, q')
  <2>1. CASE Owned(q, i, flush[g].tok, expired)
    <3> DEFINE s == Failed(q[i], flush[g].outcome = "rejected", MaxAttempts)
    <3>1. i \in DOMAIN q /\ q[i].state = "inflight" /\ q[i] \in Row
      BY <1>1, <2>1 DEF Owned, IsTable
    <3>2. Moved(q[i], s) /\ s.state # "succeeded"
      BY <3>1, FailedMoved
    <3>3. q' = [q EXCEPT ![i] = s]
      BY <1>0, <2>1 DEF Fail
    <3> HIDE DEF s, i
    <3>4. MovesTo(q, q')
      BY <1>1, <3>1, <3>2, <3>3, ReplaceMoves
    <3>5. \A j \in DOMAIN q : q'[j].state = "succeeded" => q[j].state = "succeeded"
      BY <1>1, <3>1, <3>2, <3>3 DEF IsTable
    <3> QED
      BY <1>1, <3>4, <3>5, MoveKeepsTable
  <2>2. CASE ~Owned(q, i, flush[g].tok, expired)
    BY <1>0, <1>1, <2>2 DEF LeasesKept
  <2> QED
    BY <2>1, <2>2
<1>3. cam' = cam /\ rec' = rec /\ ccam' = ccam /\ crec' = crec /\ created' = created
  BY <1>0 DEF localVars, centralVars
<1>4. TablesTypeOK' /\ KnownIsCreated' /\ RecordsOwned' /\ SyncedRecordIsStored'
  BY <1>3 DEF IInv, TablesTypeOK, KnownIsCreated, RecordsOwned, SyncedRecordIsStored
<1>5. Grows(cam, rec, created, cam', rec', created)
  BY <1>3, GrowsRefl
<1> QED
  BY <1>0, <1>2, <1>3, <1>4, <1>5, SettleStep

LEMMA SettleOkStep ==
  ASSUME IInv, NEW g \in Flushers, SettleOk(g)
  PROVE  IInv'
<1> DEFINE it == Item(g)
           i == it.id
           c == it.work.cam
           owned == Owned(q, i, flush[g].tok, expired)
<1>0. /\ flush[g].pc = "settle" /\ flush[g].outcome = "ok" /\ NextItem(g)
      /\ UNCHANGED <<nextId, nextTok, centralVars>>
  BY DEF SettleOk
<1>1. /\ q' = IF owned THEN Complete(q, i) ELSE q
      /\ cam' = IF owned /\ it.work.method \in {"POST", "PATCH"} /\ c \in Here
                THEN [cam EXCEPT ![c].known = TRUE, ![c].sync = "synced"] ELSE cam
      /\ rec' = IF owned /\ it.work.method = "RECORD" /\ rec[it.key].stage = "here"
                THEN [rec EXCEPT ![it.key].synced = TRUE] ELSE rec
  BY DEF SettleOk
<1>2. /\ TableOK(q, nextId, nextTok, cam, rec, created) /\ IsTable(q, nextId, nextTok)
      /\ TablesTypeOK /\ KnownIsCreated /\ RecordsOwned /\ SyncedRecordIsStored
      /\ BatchOK(flush[g], q, nextId, nextTok, rec, created) /\ AnswerOK(flush[g], crec, created)
  BY DEF IInv, QueueKnows, TableOK, BatchesKnow, OkMeansDone
<1>3. /\ i \in DOMAIN flush[g].items /\ it = flush[g].items[i] /\ i = First(flush[g].items)
      /\ c \in Cameras
      /\ it.work.method \in {"POST", "PATCH", "DELETE", "RECORD"}
      /\ IF it.work.method = "RECORD" THEN it.key \in Records /\ c = rec[it.key].cam
         ELSE it.key = c
  BY <1>0, ItemFacts
<1>4. /\ it.work.method = "RECORD" => crec[it.key] = c
      /\ it.work.method \in {"POST", "PATCH"} => c \in created
  BY <1>0, <1>2, <1>3 DEF AnswerOK
<1>5. owned => /\ i \in DOMAIN q /\ q[i].state = "inflight" /\ q[i] \in Row
               /\ q[i].work = it.work /\ q[i].key = it.key
  BY <1>2, <1>3 DEF Owned, BatchOK, IsTable
<1>6. ccam' = ccam /\ crec' = crec /\ created' = created
  BY <1>0 DEF centralVars
<1>7. /\ cam' \in [Cameras -> CamRow]
      /\ \A d \in Cameras : cam'[d].stage = cam[d].stage /\ (cam'[d].known => cam[d].known \/ d \in created)
  <2>1. CASE owned /\ it.work.method \in {"POST", "PATCH"} /\ c \in Here
    <3> DEFINE s == [cam[c] EXCEPT !.known = TRUE, !.sync = "synced"]
    <3>1. cam \in [Cameras -> CamRow] /\ cam[c] \in CamRow
      BY <1>2, <1>3 DEF TablesTypeOK
    <3>2. s \in CamRow /\ s.stage = cam[c].stage
      BY <3>1 DEF CamRow
    <3>3. cam' = [cam EXCEPT ![c] = s]
      BY <1>1, <2>1
    <3> HIDE DEF s, c
    <3> QED
      BY <1>3, <1>4, <2>1, <3>1, <3>2, <3>3
  <2>2. CASE ~(owned /\ it.work.method \in {"POST", "PATCH"} /\ c \in Here)
    BY <1>1, <1>2, <2>2 DEF TablesTypeOK
  <2> QED
    BY <2>1, <2>2
<1>8. /\ rec' \in [Records -> RecRow]
      /\ \A r \in Records : /\ rec'[r].stage = rec[r].stage /\ rec'[r].cam = rec[r].cam
                            /\ rec'[r].synced => \/ rec[r].synced
                                                 \/ rec[r].stage = "here" /\ crec[r] = rec[r].cam
  <2>1. CASE owned /\ it.work.method = "RECORD" /\ rec[it.key].stage = "here"
    <3> DEFINE k == it.key
               s == [rec[k] EXCEPT !.synced = TRUE]
    <3>1. k \in Records /\ crec[k] = rec[k].cam /\ rec[k].stage = "here"
      BY <1>3, <1>4, <2>1
    <3>2. rec \in [Records -> RecRow] /\ rec[k] \in RecRow
      BY <1>2, <3>1 DEF TablesTypeOK
    <3>3. s \in RecRow /\ s.stage = rec[k].stage /\ s.cam = rec[k].cam
      BY <3>2 DEF RecRow
    <3>4. rec' = [rec EXCEPT ![k] = s]
      BY <1>1, <2>1
    <3> HIDE DEF s, k
    <3> QED
      BY <3>1, <3>2, <3>3, <3>4
  <2>2. CASE ~(owned /\ it.work.method = "RECORD" /\ rec[it.key].stage = "here")
    BY <1>1, <1>2, <2>2 DEF TablesTypeOK
  <2> QED
    BY <2>1, <2>2
<1>9. TablesTypeOK' /\ KnownIsCreated'
  BY <1>2, <1>6, <1>7, <1>8 DEF TablesTypeOK, KnownIsCreated
<1>10. RecordsOwned' /\ SyncedRecordIsStored'
  BY <1>2, <1>6, <1>8 DEF RecordsOwned, SyncedRecordIsStored
<1>11. Grows(cam, rec, created, cam', rec', created)
  BY <1>7, <1>8 DEF Grows
<1>12. TableOK(q', nextId, nextTok, cam, rec, created) /\ LeasesKept(q, q')
  <2>1. CASE owned
    <3> DEFINE s == Completed(q[i])
    <3>1. Moved(q[i], s) /\ i \in DOMAIN q
      BY <1>5, <2>1, CompletedMoved
    <3>2. q' = [q EXCEPT ![i] = s]
      BY <1>1, <2>1 DEF Complete
    <3>3. q[i].key \in Cameras => q[i].work.method = "DELETE" \/ q[i].key \in created
      <4> SUFFICES ASSUME q[i].key \in Cameras, q[i].work.method # "DELETE"
                   PROVE  q[i].key \in created
        OBVIOUS
      <4>1. it.key \in Cameras /\ it.key \notin Records
        BY <1>5, <2>1, SyncAssumption
      <4>2. it.work.method \in {"POST", "PATCH"} /\ it.key = c
        BY <1>3, <1>5, <2>1, <4>1
      <4> QED
        BY <1>4, <1>5, <2>1, <4>2
    <3> HIDE DEF s, i
    <3>4. MovesTo(q, q')
      BY <1>2, <3>1, <3>2, ReplaceMoves
    <3>5. \A j \in DOMAIN q : q'[j].state = "succeeded" /\ q[j].key \in Cameras =>
             q[j].state = "succeeded" \/ q[j].work.method = "DELETE" \/ q[j].key \in created
      BY <1>2, <3>1, <3>2, <3>3 DEF IsTable
    <3> QED
      BY <1>2, <3>4, <3>5, MoveKeepsTable
  <2>2. CASE ~owned
    BY <1>1, <1>2, <2>2 DEF LeasesKept
  <2> QED
    BY <2>1, <2>2
<1>13. TableOK(q', nextId, nextTok, cam', rec', created)
  BY <1>11, <1>12, GrowKeepsTable
<1> QED
  BY <1>0, <1>9, <1>10, <1>11, <1>12, <1>13, SettleStep

-----------------------------------------------------------------------------
(* The end and the beginning of a flush.                                   *)

LEMMA IdleFacts ==
  /\ Idle \in FlushType /\ DOMAIN Idle.items = {}
  /\ \A t, n, u, re, cr : BatchOK(Idle, t, n, u, re, cr)
  /\ \A cre, cr : AnswerOK(Idle, cre, cr)
<1>1. DOMAIN NoItems = {} /\ NoItems \in Batches
  BY BatchType DEF NoItems
<1>2. Idle \in FlushType
  BY <1>1 DEF Idle, FlushType, NoToken
<1>3. Idle.pc = "idle" /\ Idle.items = NoItems
  BY DEF Idle
<1> QED
  BY <1>1, <1>2, <1>3 DEF BatchOK, AnswerOK

\* A flush ends, in order or not.
LEMMA EndStep ==
  ASSUME IInv, NEW g \in Flushers, flush' = [flush EXCEPT ![g] = Idle],
         UNCHANGED <<nextId, nextTok, localVars, centralVars>>,
         TableOK(q', nextId, nextTok, cam, rec, created), LeasesKept(q, q')
  PROVE  IInv'
<1>0. nextId \in Nat /\ nextTok \in Nat
  BY DEF IInv, QueueKnows, TableOK, IsTable
<1>1. /\ cam' = cam /\ rec' = rec /\ ccam' = ccam /\ crec' = crec /\ created' = created
      /\ nextId' = nextId /\ nextTok' = nextTok
  BY DEF localVars, centralVars
<1>2. TablesTypeOK' /\ KnownIsCreated' /\ RecordsOwned' /\ SyncedRecordIsStored' /\ QueueKnows'
  BY <1>1 DEF IInv, TablesTypeOK, KnownIsCreated, RecordsOwned, SyncedRecordIsStored, QueueKnows
<1>3. Grows(cam, rec, created, cam', rec', created') /\ CentralGrows(crec, created, crec', created')
  BY <1>1 DEF Grows, CentralGrows
<1>4. OldLeasesKept(q, q', nextTok)
  BY LeasesKeptOld
<1>5. nextId <= nextId' /\ nextTok <= nextTok'
  BY <1>0, <1>1
<1> QED
  BY <1>2, <1>3, <1>4, <1>5, IdleFacts, FlushStep

LEMMA FlushPurgeStep == ASSUME IInv, NEW g \in Flushers, FlushPurge(g) PROVE IInv'
<1>1. TableOK(q', nextId, nextTok, cam, rec, created) /\ LeasesKept(q, q')
  BY PurgeKeepsTable DEF IInv, QueueKnows, FlushPurge
<1> QED
  BY <1>1, EndStep DEF FlushPurge

LEMMA CrashStep == ASSUME IInv, NEW g \in Flushers, Crash(g) PROVE IInv'
<1>1. TableOK(q', nextId, nextTok, cam, rec, created) /\ LeasesKept(q, q')
  BY DEF IInv, QueueKnows, Crash, LeasesKept, queueVars
<1> QED
  BY <1>1, EndStep DEF Crash, queueVars

LEMMA ClaimStep ==
  ASSUME IInv, NEW g \in Flushers, Flush(g)
  PROVE  IInv'
<1> DEFINE r == ReclaimExpired(q, expired)
           ids == ClaimIds(r, Cameras \cup Records, BatchLimit)
           its == [i \in ids |-> [id |-> i, key |-> r[i].key, work |-> r[i].work]]
           f == AtFirst(its, nextTok + 1)
<1>0. /\ q' = Lease(r, ids, nextTok + 1) /\ nextTok' = IF ids = {} THEN nextTok ELSE nextTok + 1
      /\ flush' = [flush EXCEPT ![g] = f] /\ UNCHANGED <<nextId, localVars, centralVars>>
  BY DEF Flush, AtFirst
<1>1. /\ TableOK(q, nextId, nextTok, cam, rec, created) /\ IsTable(q, nextId, nextTok)
      /\ nextId \in Nat /\ nextTok \in Nat
  BY DEF IInv, QueueKnows, TableOK, IsTable
<1>2. TableOK(r, nextId, nextTok, cam, rec, created) /\ LeasesKept(q, r)
  <2>1. /\ MovesTo(q, r)
        /\ \A i \in DOMAIN q : r[i].state = "succeeded" => q[i].state = "succeeded"
    BY <1>1, ReclaimMoves
  <2> QED
    BY <1>1, <2>1, MoveKeepsTable
<1>3. \A i \in ids : i \in DOMAIN r /\ Claimable(r, i)
  BY DEF ClaimIds, FirstRows
<1>4. DOMAIN its = ids /\ its = [i \in DOMAIN its |-> its[i]]
      /\ \A i \in ids : its[i] = [id |-> i, key |-> r[i].key, work |-> r[i].work]
  OBVIOUS
<1> HIDE DEF r, ids, its
<1>5. /\ TableOK(q', nextId, nextTok', cam, rec, created) /\ DOMAIN q' = DOMAIN r
      /\ \A i \in DOMAIN r : IF i \in ids THEN /\ q'[i].work = r[i].work /\ q'[i].key = r[i].key
                                               /\ q'[i].token = nextTok + 1
                                          ELSE q'[i] = r[i]
      /\ \A i \in ids : r[i].key \in Records => r[i].work.cam \in created
  BY <1>0, <1>2, <1>3, LeaseKeepsTable
<1>6. OldLeasesKept(q, q', nextTok)
  <2>1. ~(nextTok + 1 <= nextTok)
    BY <1>1
  <2> QED
    BY <1>2, <1>5, <2>1 DEF OldLeasesKept, LeasesKept
<1>7. its \in Batches
  <2>1. ASSUME NEW i \in ids PROVE i \in Nat /\ its[i] \in ItemType
    BY <1>2, <1>3, <1>4 DEF TableOK, IsTable, Row, ItemType
  <2> QED
    BY <1>4, <2>1, BatchType
<1>8. /\ f \in FlushType /\ f.items = its /\ f.tok = nextTok + 1
      /\ f.pc \in {"idle", "purge"} <=> DOMAIN its = {}
      /\ AnswerOK(f, crec', created')
  BY <1>1, <1>7, AtFirstFacts
<1> HIDE DEF f
<1>9. cam' = cam /\ rec' = rec /\ ccam' = ccam /\ crec' = crec /\ created' = created /\ nextId' = nextId
  BY <1>0 DEF localVars, centralVars
<1>10. BatchOK(f, q', nextId', nextTok', rec', created')
  <2>0. /\ f.items = its /\ DOMAIN its = ids /\ f.tok = nextTok + 1
        /\ f.pc \in {"idle", "purge"} <=> ids = {}
        /\ rec' = rec /\ created' = created /\ nextId' = nextId
    BY <1>4, <1>8, <1>9
  <2> SUFFICES ASSUME NEW i \in ids
               PROVE  /\ its[i].id = i /\ i \in 1..nextId /\ nextTok + 1 \in 1..nextTok'
                      /\ its[i].key \in Cameras =>
                           its[i].work.method # "RECORD" /\ its[i].work.cam = its[i].key
                      /\ its[i].key \in Records =>
                           /\ its[i].work.method = "RECORD" /\ its[i].work.cam = rec[its[i].key].cam
                           /\ rec[its[i].key].stage # "none" /\ its[i].work.cam \in created
                      /\ q'[i].work = its[i].work /\ q'[i].key = its[i].key
    BY <2>0 DEF BatchOK
  <2>1. its[i].id = i /\ its[i].key = r[i].key /\ its[i].work = r[i].work /\ i \in DOMAIN r
    BY <1>3, <1>4
  <2>2. i \in 1..nextId /\ nextTok + 1 \in 1..nextTok'
    BY <1>0, <1>1, <1>2, <2>1 DEF TableOK, IsTable
  <2>3. /\ r[i].key \in Cameras => r[i].work.method # "RECORD" /\ r[i].work.cam = r[i].key
        /\ r[i].key \in Records =>
             /\ r[i].work.method = "RECORD" /\ r[i].work.cam = rec[r[i].key].cam
             /\ rec[r[i].key].stage # "none"
    BY <1>2, <2>1 DEF TableOK, RowsKnow
  <2>4. q'[i].work = r[i].work /\ q'[i].key = r[i].key
    BY <1>5, <2>1
  <2> QED
    BY <1>5, <2>1, <2>2, <2>3, <2>4
<1>11. TablesTypeOK' /\ KnownIsCreated' /\ RecordsOwned' /\ SyncedRecordIsStored'
  BY <1>9 DEF IInv, TablesTypeOK, KnownIsCreated, RecordsOwned, SyncedRecordIsStored
<1>12. QueueKnows'
  BY <1>5, <1>9 DEF QueueKnows
<1>13. Grows(cam, rec, created, cam', rec', created') /\ CentralGrows(crec, created, crec', created')
  BY <1>9 DEF Grows, CentralGrows
<1>14. nextId <= nextId' /\ nextTok <= nextTok'
  BY <1>0, <1>1, <1>9
<1> QED
  BY <1>0, <1>6, <1>8, <1>10, <1>11, <1>12, <1>13, <1>14, FlushStep

-----------------------------------------------------------------------------
(* The invariant holds, and what follows from it.                          *)

LEMMA InitIInv == Init => IInv
<1> SUFFICES ASSUME Init PROVE IInv
  OBVIOUS
<1>1. PICK K \in SUBSET Cameras : Cardinality(K) <= MaxCameras /\ InitWith(K)
  BY DEF Init
<1>2. Cardinality(K) \in Nat
  BY FS_Subset, FS_CardinalityType, SyncAssumption
<1>3. [f \in Fields |-> 0] \in [Fields -> Values]
  BY DEF Values
<1>4. TablesTypeOK
  BY <1>1, <1>3 DEF InitWith, TablesTypeOK, CamRow, RecRow
<1>5. \A g \in Flushers : flush[g] = Idle
  BY <1>1 DEF InitWith
<1>6. FlushTypeOK
  BY <1>1, IdleFacts DEF InitWith, FlushTypeOK
<1>7. DOMAIN q = {} /\ q = [i \in {} |-> i] /\ nextId \in Nat /\ nextTok = 0
  BY <1>1, <1>2 DEF InitWith
<1>8. QueueKnows
  BY <1>7 DEF QueueKnows, TableOK, IsTable, RowsKnow, SucceededIsCreated, RecordsWait
<1>9. BatchesKnow /\ BatchesDiffer /\ OkMeansDone
  BY <1>5, IdleFacts DEF BatchesKnow, BatchesDiffer, OkMeansDone
<1>10. KnownIsCreated /\ RecordsOwned /\ SyncedRecordIsStored
  BY <1>1 DEF InitWith, KnownIsCreated, RecordsOwned, SyncedRecordIsStored
<1> QED
  BY <1>4, <1>6, <1>8, <1>9, <1>10 DEF IInv

LEMMA NextIInv == IInv /\ [Next]_vars => IInv'
<1> SUFFICES ASSUME IInv, [Next]_vars PROVE IInv'
  OBVIOUS
<1>1. CASE Users
  BY <1>1, CreateCameraStep, DeleteCameraStep, UpdateCameraStep, AddRecordStep, OperatorStep
     DEF Users
<1>2. CASE Flushes
  BY <1>2, ClaimStep, SendStep, SendAnalyticsStep, RequestRetriedStep, SendFailsStep, SettleOkStep,
     SettleFailedStep, FlushPurgeStep, CrashStep DEF Flushes
<1>3. CASE Time
  <2>1. ASSUME NEW u, LeaseExpires(u) PROVE IInv'
    BY <2>1, StutterStep DEF LeaseExpires
  <2> QED
    BY <1>3, <2>1, OperatorStep DEF Time
<1>4. CASE UNCHANGED vars
  BY <1>4, StutterStep DEF vars, queueVars
<1> QED
  BY <1>1, <1>2, <1>3, <1>4 DEF Next

\* The invariant holds in every reachable state.
THEOREM Invariance == Spec => []IInv
BY InitIInv, NextIInv, PTL DEF Spec

\* The local tables, the central tables, the queued work and the flushes are well formed.
THEOREM TypeCorrect == Spec => []TypeOK
<1>1. ASSUME IInv PROVE TypeOK
  <2>1. \A i \in DOMAIN q : q[i].work \in Payloads
    BY <1>1 DEF IInv, QueueKnows, TableOK, IsTable, Row
  <2>2. ASSUME NEW g \in Flushers
        PROVE  /\ flush[g].pc \in {"idle", "send", "analytics", "settle", "purge"}
               /\ flush[g].outcome \in {"ok", "rejected", "unavailable"}
               /\ \A i \in DOMAIN flush[g].items : flush[g].items[i].work \in Payloads
    <3>1. flush[g] \in FlushType
      BY <1>1 DEF IInv, FlushTypeOK
    <3>2. \A i \in DOMAIN flush[g].items : flush[g].items[i] \in ItemType
      BY <3>1, BatchType DEF FlushType
    <3> QED
      BY <3>1, <3>2 DEF FlushType, ItemType
  <2> QED
    BY <1>1, <2>1, <2>2 DEF IInv, TypeOK, TablesTypeOK, CamRow, RecRow
<1> QED
  BY <1>1, Invariance, PTL

\* A record is in a flush's batch only if its camera has existed centrally,
\* whatever was retried, dead-lettered, discarded, purged or lost before.
THEOREM RecordsFollow == Spec => []RecordsFollowCamera
<1>1. ASSUME IInv PROVE RecordsFollowCamera
  <2> SUFFICES ASSUME NEW g \in Flushers, NEW i \in DOMAIN flush[g].items,
                      flush[g].items[i].work.method = "RECORD"
               PROVE  flush[g].items[i].work.cam \in created
    BY DEF RecordsFollowCamera
  <2>1. flush[g] \in FlushType /\ BatchOK(flush[g], q, nextId, nextTok, rec, created)
    BY <1>1 DEF IInv, FlushTypeOK, BatchesKnow
  <2>2. flush[g].items[i] \in ItemType
    BY <2>1, BatchType DEF FlushType
  <2> QED
    BY <2>1, <2>2 DEF BatchOK, ItemType, Keys
<1> QED
  BY <1>1, Invariance, PTL

\* A record marked synced is stored centrally under its own camera.
THEOREM SyncedIsStored == Spec => []SyncedRecordIsStored
<1>1. IInv => SyncedRecordIsStored
  BY DEF IInv
<1> QED
  BY <1>1, Invariance, PTL

\* A flush that still owns a row is sending the row's present work.
THEOREM SettlesSent == Spec => []SettlesWhatItSent
<1>1. ASSUME IInv PROVE SettlesWhatItSent
  <2> SUFFICES ASSUME NEW g \in Flushers, NEW i \in DOMAIN flush[g].items,
                      Owned(q, flush[g].items[i].id, flush[g].tok, expired)
               PROVE  q[flush[g].items[i].id].work = flush[g].items[i].work
    BY DEF SettlesWhatItSent
  <2>1. BatchOK(flush[g], q, nextId, nextTok, rec, created)
    BY <1>1 DEF IInv, BatchesKnow
  <2>2. flush[g].items[i].id = i
    BY <2>1 DEF BatchOK
  <2> QED
    BY <2>1, <2>2 DEF BatchOK, Owned
<1> QED
  BY <1>1, Invariance, PTL

-----------------------------------------------------------------------------
(* Refinement of SyncQueue.  The transactions of the queue mean the same   *)
(* here and there.                                                         *)

LEMMA SameTerms ==
  /\ SQ!NoId = NoId /\ SQ!NoToken = NoToken /\ SQ!Waiting = Waiting /\ SQ!Finished = Finished
  /\ SQ!States = States
BY DEF NoId, SQ!NoId, NoToken, SQ!NoToken, Waiting, SQ!Waiting, Finished, SQ!Finished,
     States, SQ!States

LEMMA SameLookups ==
  ASSUME NEW t, NEW k
  PROVE  SQ!Latest(t, k) = Latest(t, k) /\ SQ!Lowest(t, k) = Lowest(t, k)
         /\ (SQ!Coalesces(t, k) <=> Coalesces(t, k))
<1>2. SQ!Latest(t, k) = Latest(t, k)
  BY Zenon DEF SQ!Latest, Latest, SQ!RowsOf, RowsOf, SQ!NoId, NoId
<1>3. SQ!Lowest(t, k) = Lowest(t, k)
  BY Zenon DEF SQ!Lowest, Lowest, SQ!RowsOf, RowsOf, SQ!NoId, NoId
<1>4. SQ!Coalesces(t, k) <=> Coalesces(t, k)
  BY <1>2, SameTerms, Zenon DEF SQ!Coalesces, Coalesces
<1> QED
  BY <1>2, <1>3, <1>4

LEMMA SameEnqueue ==
  ASSUME NEW t, NEW k, NEW w, NEW d, NEW n
  PROVE  SQ!Enqueue(t, k, w, d, n) = Enqueue(t, k, w, d, n)
<1>1. \A r : SQ!Rewritten(r, w, d) = Rewritten(r, w, d)
  BY SameTerms, Zenon DEF SQ!Rewritten, Rewritten
<1>2. \A p : SQ!NewRow(k, w, p, d) = NewRow(k, w, p, d)
  BY SameTerms, Zenon DEF SQ!NewRow, NewRow
<1>3. \A r : SQ!Insert(t, n, r) = Insert(t, n, r)
  BY Zenon DEF SQ!Insert, Insert
<1> QED
  BY <1>1, <1>2, <1>3, SameLookups, Zenon DEF SQ!Enqueue, Enqueue

LEMMA SameCancel ==
  ASSUME NEW t
  PROVE  /\ \A C : SQ!Cancel(t, C) = Cancel(t, C)
         /\ \A k : SQ!CancelLatest(t, k) = CancelLatest(t, k)
         /\ \A i : SQ!DiscardDeadLetter(t, i) = DiscardDeadLetter(t, i)
         /\ \A i : SQ!RetryDeadLetter(t, i) = RetryDeadLetter(t, i)
<1>1. \A r : SQ!Cancelled(r) = Cancelled(r) /\ SQ!Requeued(r) = Requeued(r)
  BY SameTerms, Zenon DEF SQ!Cancelled, Cancelled, SQ!Requeued, Requeued
<1>2. \A C : SQ!Cancel(t, C) = Cancel(t, C)
  BY <1>1, Zenon DEF SQ!Cancel, Cancel
<1>3. \A k : SQ!CancelLatest(t, k) = CancelLatest(t, k)
  BY <1>2, SameLookups, SameTerms, Zenon DEF SQ!CancelLatest, CancelLatest
<1>4. \A i : SQ!DiscardDeadLetter(t, i) = DiscardDeadLetter(t, i)
  BY <1>2, Zenon DEF SQ!DiscardDeadLetter, DiscardDeadLetter
<1>5. \A i : SQ!RetryDeadLetter(t, i) = RetryDeadLetter(t, i)
  BY <1>1, Zenon DEF SQ!RetryDeadLetter, RetryDeadLetter
<1> QED
  BY <1>2, <1>3, <1>4, <1>5

LEMMA SameClaim ==
  ASSUME NEW t
  PROVE  /\ \A X : SQ!ReclaimExpired(t, X) = ReclaimExpired(t, X)
         /\ \A K, n : SQ!ClaimIds(t, K, n) = ClaimIds(t, K, n)
         /\ \A C, u : SQ!Lease(t, C, u) = Lease(t, C, u)
<1>1. \A r : SQ!Reclaimed(r) = Reclaimed(r)
  BY SameTerms, Zenon DEF SQ!Reclaimed, Reclaimed
<1>2. \A X : SQ!ReclaimExpired(t, X) = ReclaimExpired(t, X)
  BY <1>1, Zenon DEF SQ!ReclaimExpired, ReclaimExpired
<1>3. \A i : SQ!Claimable(t, i) <=> Claimable(t, i)
  BY SameTerms, Zenon DEF SQ!Claimable, Claimable
<1>4. \A S, n : SQ!FirstRows(S, n) = FirstRows(S, n)
  BY Zenon DEF SQ!FirstRows, FirstRows, SQ!Cardinality, Cardinality
<1>5. \A K, n : SQ!ClaimIds(t, K, n) = ClaimIds(t, K, n)
  BY <1>3, <1>4, Zenon DEF SQ!ClaimIds, ClaimIds
<1>6. \A r, u : SQ!Leased(r, u) = Leased(r, u)
  BY Zenon DEF SQ!Leased, Leased
<1>7. \A C, u : SQ!Lease(t, C, u) = Lease(t, C, u)
  BY <1>6, Zenon DEF SQ!Lease, Lease
<1> QED
  BY <1>2, <1>5, <1>7

LEMMA SameSettle ==
  ASSUME NEW t, NEW i
  PROVE  /\ \A u, X : SQ!Owned(t, i, u, X) <=> Owned(t, i, u, X)
         /\ SQ!Complete(t, i) = Complete(t, i)
         /\ \A p, m : SQ!Fail(t, i, p, m) = Fail(t, i, p, m)
<1>1. \A u, X : SQ!Owned(t, i, u, X) <=> Owned(t, i, u, X)
  BY Zenon DEF SQ!Owned, Owned
<1>2. SQ!Complete(t, i) = Complete(t, i)
  BY SameTerms, Zenon DEF SQ!Complete, Complete, SQ!Completed, Completed
<1>3. \A p, m : SQ!Fail(t, i, p, m) = Fail(t, i, p, m)
  BY SameTerms, Zenon DEF SQ!Fail, Fail, SQ!Failed, Failed
<1> QED
  BY <1>1, <1>2, <1>3

LEMMA SamePurge ==
  ASSUME NEW t
  PROVE  SQ!PurgeRetained(t) = PurgeRetained(t)
<1>1. SQ!Purgeable(t) = Purgeable(t)
  BY SameTerms, Zenon DEF SQ!Purgeable, Purgeable
<1>2. \A i, S : SQ!RefersTo(t, i, S) <=> RefersTo(t, i, S)
  BY Zenon DEF SQ!RefersTo, RefersTo
<1>3. \A d : SQ!Descendants(t, d) = Descendants(t, d)
  BY <1>2, Zenon DEF SQ!Descendants, Descendants
<1>4. SQ!PurgeCancels(t) = PurgeCancels(t)
  BY <1>1, <1>3, Zenon DEF SQ!PurgeCancels, PurgeCancels
<1>5. \A r, P : SQ!Detached(r, P) = Detached(r, P)
  BY SameTerms, Zenon DEF SQ!Detached, Detached
<1> QED
  BY <1>1, <1>4, <1>5, SameCancel, Zenon DEF SQ!PurgeRetained, PurgeRetained

-----------------------------------------------------------------------------
(* What the flushes hold, and the keys that are closed.                    *)

HeldBy(f) == (DOMAIN f.items) \X {f.tok}
HeldByOthers(g) == UNION {HeldBy(flush[h]) : h \in Flushers \ {g}}

LEMMA HeldSplit == ASSUME NEW g \in Flushers PROVE Held = HeldByOthers(g) \cup HeldBy(flush[g])
<1>1. ASSUME NEW x PROVE x \in Held <=> \E h \in Flushers : x \in HeldBy(flush[h])
  BY DEF Held, HeldBy
<1>2. ASSUME NEW x PROVE x \in HeldByOthers(g) <=> \E h \in Flushers \ {g} : x \in HeldBy(flush[h])
  BY DEF HeldByOthers
<1> QED
  BY <1>1, <1>2

LEMMA HeldAfter ==
  ASSUME FlushTypeOK, NEW g \in Flushers, NEW f, flush' = [flush EXCEPT ![g] = f]
  PROVE  Held' = HeldByOthers(g) \cup HeldBy(f)
<1>1. ASSUME NEW x PROVE x \in Held' <=> \E h \in Flushers : x \in HeldBy(flush'[h])
  BY DEF Held, HeldBy
<1>2. ASSUME NEW x PROVE x \in HeldByOthers(g) <=> \E h \in Flushers \ {g} : x \in HeldBy(flush[h])
  BY DEF HeldByOthers
<1>3. flush'[g] = f /\ \A h \in Flushers \ {g} : flush'[h] = flush[h]
  BY DEF FlushTypeOK
<1> QED
  BY <1>1, <1>2, <1>3

LEMMA HeldKept ==
  ASSUME FlushTypeOK, NEW g \in Flushers, NEW f, flush' = [flush EXCEPT ![g] = f],
         (f.items = flush[g].items /\ f.tok = flush[g].tok)
           \/ (DOMAIN f.items = {} /\ DOMAIN flush[g].items = {})
  PROVE  Held' = Held
<1>1. HeldBy(f) = HeldBy(flush[g])
  BY DEF HeldBy
<1> QED
  BY <1>1, HeldSplit, HeldAfter

\* No other flush holds anything under the token of flush g.
LEMMA OthersDiffer ==
  ASSUME BatchesDiffer, NEW g \in Flushers, DOMAIN flush[g].items # {}
  PROVE  \A x \in HeldByOthers(g) : x[2] # flush[g].tok
<1> SUFFICES ASSUME NEW x \in HeldByOthers(g) PROVE x[2] # flush[g].tok
  OBVIOUS
<1>1. PICK h \in Flushers \ {g} : x \in HeldBy(flush[h])
  BY DEF HeldByOthers
<1>2. PICK i \in DOMAIN flush[h].items : x = <<i, flush[h].tok>>
  BY <1>1 DEF HeldBy
<1> QED
  BY <1>2 DEF BatchesDiffer

LEMMA HeldUnchanged == flush' = flush => Held' = Held
BY DEF Held

LEMMA ClosedKept ==
  ASSUME \A c \in Cameras : cam'[c].stage = "gone" <=> cam[c].stage = "gone",
         \A r \in Records : rec'[r].stage = "none" <=> rec[r].stage = "none"
  PROVE  Closed' = Closed
BY DEF Closed

LEMMA CameraOpen == ASSUME NEW c \in Cameras, cam[c].stage # "gone" PROVE c \notin Closed
BY SyncAssumption DEF Closed

-----------------------------------------------------------------------------
(* Every step is one of SyncQueue's, or changes nothing it speaks of.      *)

LEMMA MutateMaps ==
  ASSUME NEW c \in Cameras, NEW w \in Payloads, w.method # "RECORD", c \notin Closed,
         Enqueues(c, w, NoId), Held' = Held, Closed' = Closed
  PROVE  SQ!Next
<1>1. SQ!MutateCamera(c, w)
  BY SameTerms, SameLookups, SameEnqueue, Zenon DEF SQ!MutateCamera, SQ!TakesId, Enqueues
<1>2. SQ!Enqueuing
  BY <1>1, Zenon DEF SQ!Enqueuing
<1> QED
  BY <1>2 DEF SQ!Next

LEMMA CreateCameraMaps == ASSUME IInv, NEW c \in Cameras, CreateCamera(c) PROVE SQ!Next
<1> DEFINE w == Payload("POST", c, [f \in PostFields |-> cam[c].val[f]])
<1>1. w \in Payloads /\ w.method = "POST"
  BY CreateWork DEF IInv
<1>2. Enqueues(c, w, NoId) /\ rec' = rec /\ flush' = flush /\ cam[c].stage = "none"
      /\ cam' = [cam EXCEPT ![c].stage = "here"]
  BY DEF CreateCamera
<1>3. cam \in [Cameras -> CamRow]
  BY DEF IInv, TablesTypeOK
<1>4. \A d \in Cameras : cam'[d].stage = "gone" <=> cam[d].stage = "gone"
  BY <1>2, <1>3 DEF CamRow
<1>5. Closed' = Closed /\ Held' = Held /\ c \notin Closed
  BY <1>2, <1>4, ClosedKept, HeldUnchanged, CameraOpen
<1> HIDE DEF w
<1> QED
  BY <1>1, <1>2, <1>5, MutateMaps

LEMMA UpdateCameraMaps ==
  ASSUME IInv, NEW c \in Cameras, NEW F \in Edits, UpdateCamera(c, F)
  PROVE  SQ!Next
<1> DEFINE v == [f \in Fields |-> IF f \in F THEN 1 - cam[c].val[f] ELSE cam[c].val[f]]
           w == IF StillUnsent(c) THEN Payload("POST", c, [f \in PostFields |-> v[f]])
                ELSE Payload("PATCH", c, [f \in F |-> v[f]])
<1>1. /\ v \in [Fields -> Values] /\ w \in Payloads /\ w.method \in {"POST", "PATCH"}
      /\ Enqueues(c, w, NoId) /\ cam' = [cam EXCEPT ![c].val = v, ![c].sync = "pending"]
  <2>1. v \in [Fields -> Values] /\ w \in Payloads /\ w.method \in {"POST", "PATCH"}
    BY UpdateWork DEF IInv
  <2>2. Enqueues(c, w, NoId) /\ cam' = [cam EXCEPT ![c].val = v, ![c].sync = "pending"]
    BY DEF UpdateCamera
  <2> QED
    BY <2>1, <2>2
<1> HIDE DEF v, w
<1>2. rec' = rec /\ flush' = flush /\ cam[c].stage = "here"
  BY DEF UpdateCamera, Here
<1>3. cam \in [Cameras -> CamRow]
  BY DEF IInv, TablesTypeOK
<1>4. \A d \in Cameras : cam'[d].stage = cam[d].stage
  BY <1>1, <1>3 DEF CamRow
<1>5. Closed' = Closed /\ Held' = Held /\ c \notin Closed
  BY <1>2, <1>4, ClosedKept, HeldUnchanged, CameraOpen
<1> QED
  BY <1>1, <1>5, MutateMaps

LEMMA DeleteCameraMaps == ASSUME IInv, NEW c \in Cameras, DeleteCamera(c) PROVE SQ!Next
<1> DEFINE w == Payload("DELETE", c, NoFields)
           drop == ~cam[c].known /\ Latest(q, c) # NoId /\ q[Latest(q, c)].state \in Waiting
<1>1. w \in Payloads /\ w.method = "DELETE"
  BY NoFieldsType, PayloadType DEF Payload
<1>2. /\ flush' = flush /\ cam[c].stage = "here" /\ cam' = [cam EXCEPT ![c].stage = "gone"]
      /\ rec' = [r \in Records |-> IF rec[r].cam = c THEN [rec[r] EXCEPT !.stage = "gone"]
                                   ELSE rec[r]]
      /\ IF drop THEN q' = CancelLatest(q, c) /\ UNCHANGED <<nextId, nextTok, expired>>
         ELSE Enqueues(c, w, NoId)
  BY DEF DeleteCamera, Here
<1>3. cam \in [Cameras -> CamRow] /\ rec \in [Records -> RecRow] /\ RecordsOwned
  BY DEF IInv, TablesTypeOK
<1>4. \A d \in Cameras : cam'[d].stage = "gone" <=> cam[d].stage = "gone" \/ d = c
  BY <1>2, <1>3 DEF CamRow
<1>5. \A r \in Records : rec'[r].stage = "none" <=> rec[r].stage = "none"
  <2>1. \A r \in Records : rec[r].cam = c => rec[r].stage # "none"
    BY <1>3, SyncAssumption DEF RecordsOwned
  <2> QED
    BY <1>2, <1>3, <2>1 DEF RecRow
<1>6. Closed' = Closed \cup {c} /\ c \notin Closed /\ Held' = Held
  BY <1>2, <1>4, <1>5, HeldUnchanged, CameraOpen DEF Closed
<1> HIDE DEF w, drop
<1>7. CASE drop
  <2>1. SQ!DropCamera(c)
    BY <1>2, <1>6, <1>7, SameTerms, SameLookups, SameCancel, Zenon DEF SQ!DropCamera, drop
  <2>2. SQ!Enqueuing
    BY <2>1, Zenon DEF SQ!Enqueuing
  <2> QED
    BY <2>2 DEF SQ!Next
<1>8. CASE ~drop
  <2>1. SQ!DeleteCamera(c, w)
    BY <1>2, <1>6, <1>8, SameTerms, SameLookups, SameEnqueue, Zenon
       DEF SQ!DeleteCamera, SQ!TakesId, Enqueues
  <2>2. w \in {x \in Payloads : x.method # "RECORD"}
    BY <1>1
  <2>3. SQ!Enqueuing
    BY <2>1, <2>2, Zenon DEF SQ!Enqueuing
  <2> QED
    BY <2>3 DEF SQ!Next
<1> QED
  BY <1>7, <1>8

LEMMA AddRecordMaps ==
  ASSUME IInv, NEW r \in Records, NEW c \in Cameras, AddRecord(r, c)
  PROVE  SQ!Next
<1> DEFINE w == Payload("RECORD", c, NoFields)
<1>1. w \in Payloads /\ w.method = "RECORD"
  BY NoFieldsType, PayloadType DEF Payload
<1>2. /\ flush' = flush /\ cam' = cam /\ cam[c].stage = "here" /\ rec[r].stage = "none"
      /\ rec' = [rec EXCEPT ![r] = [stage |-> "here", cam |-> c, synced |-> FALSE]]
      /\ Enqueues(r, w, CameraDependency(c))
  BY DEF AddRecord, Here
<1>3. rec \in [Records -> RecRow]
  BY DEF IInv, TablesTypeOK
<1>4. \A o \in Records : rec'[o].stage # "none" <=> rec[o].stage # "none" \/ o = r
  BY <1>2, <1>3
<1>5. Closed' = Closed \cup {r} /\ Held' = Held
  BY <1>2, <1>4, HeldUnchanged DEF Closed
<1>6. r \notin Closed /\ c \notin Closed
  BY <1>2, SyncAssumption DEF Closed
<1>7. CameraDependency(c) \in {NoId, Lowest(q, c)}
  BY DEF CameraDependency
<1> HIDE DEF w
<1>8. SQ!AddRecord(r, w, c)
  BY <1>2, <1>5, <1>6, <1>7, SameTerms, SameLookups, SameEnqueue, Zenon
     DEF SQ!AddRecord, SQ!TakesId, Enqueues
<1>9. w \in {x \in Payloads : x.method = "RECORD"}
  BY <1>1
<1>10. SQ!Enqueuing
  BY <1>8, <1>9, Zenon DEF SQ!Enqueuing
<1> QED
  BY <1>10 DEF SQ!Next

LEMMA ClaimMaps == ASSUME IInv, NEW g \in Flushers, Flush(g) PROVE SQ!Next
<1> DEFINE r == ReclaimExpired(q, expired)
           ids == ClaimIds(r, Cameras \cup Records, BatchLimit)
           its == [i \in ids |-> [id |-> i, key |-> r[i].key, work |-> r[i].work]]
           f == AtFirst(its, nextTok + 1)
<1>0. /\ flush[g].pc = "idle" /\ nextTok < MaxClaims /\ q' = Lease(r, ids, nextTok + 1)
      /\ nextTok' = IF ids = {} THEN nextTok ELSE nextTok + 1
      /\ flush' = [flush EXCEPT ![g] = f]
      /\ UNCHANGED <<nextId, expired, cam, rec>>
  BY DEF Flush, AtFirst, localVars
<1>1. f.items = its /\ f.tok = nextTok + 1 /\ DOMAIN its = ids
  BY DEF AtFirst
<1>2. ids = ClaimIds(r, SQ!Keys, BatchLimit)
  <2>1. \A i \in DOMAIN r : r[i].key \in Cameras \cup Records
    <3>1. IsTable(q, nextId, nextTok)
      BY DEF IInv, QueueKnows, TableOK
    <3>2. MovesTo(q, r)
      BY <3>1, ReclaimMoves
    <3> QED
      BY <3>2 DEF MovesTo, Moved, Row, Keys
  <2> HIDE DEF r
  <2>2. {i \in DOMAIN r : r[i].key \in Cameras \cup Records /\ Claimable(r, i)}
          = {i \in DOMAIN r : r[i].key \in SQ!Keys /\ Claimable(r, i)}
    BY <2>1 DEF SQ!Keys
  <2> QED
    BY <2>2, Zenon DEF ClaimIds
<1> HIDE DEF r, ids, its, f
<1>3. Held' = Held \cup (ids \X {nextTok + 1})
  <2>1. FlushTypeOK /\ DOMAIN flush[g].items = {}
    BY <1>0 DEF IInv, BatchesKnow, BatchOK
  <2>2. HeldBy(flush[g]) = {} /\ HeldBy(f) = ids \X {nextTok + 1}
    BY <1>1, <2>1 DEF HeldBy
  <2> QED
    BY <1>0, <2>1, <2>2, HeldSplit, HeldAfter
<1>4. Closed' = Closed
  BY <1>0, ClosedKept
<1>5. SQ!ReclaimExpired(q, expired) = r /\ SQ!ClaimIds(r, SQ!Keys, BatchLimit) = ids
  BY <1>2, SameClaim DEF r
<1>6. SQ!Claim(SQ!Keys, BatchLimit)
  BY <1>0, <1>3, <1>4, <1>5, SameClaim, Zenon DEF SQ!Claim
<1>7. SQ!Flushing
  BY <1>6, Zenon DEF SQ!Flushing
<1> QED
  BY <1>7 DEF SQ!Next

\* A flush that settles the item it is at no longer holds it.
LEMMA HeldSettled ==
  ASSUME IInv, NEW g \in Flushers, flush[g].pc = "settle", NextItem(g)
  PROVE  /\ <<Item(g).id, flush[g].tok>> \in Held
         /\ Held' = Held \ {<<Item(g).id, flush[g].tok>>}
<1> DEFINE b == flush[g].items
           u == flush[g].tok
           i == Item(g).id
           f == AtFirst(Rest(b), u)
<1>0. FlushTypeOK /\ BatchesDiffer
  BY DEF IInv
<1>1. i \in DOMAIN b /\ i = First(b) /\ flush[g] \in FlushType
  BY ItemFacts
<1>2. DOMAIN Rest(b) = DOMAIN b \ {i}
  BY <1>1, RestFacts DEF FlushType
<1>3. f.items = Rest(b) /\ f.tok = u /\ flush' = [flush EXCEPT ![g] = f]
  BY DEF AtFirst, NextItem
<1>4. \A x \in HeldByOthers(g) : x[2] # u
  BY <1>0, <1>1, OthersDiffer
<1>5. Held = HeldByOthers(g) \cup HeldBy(flush[g]) /\ Held' = HeldByOthers(g) \cup HeldBy(f)
  BY <1>0, <1>3, HeldSplit, HeldAfter
<1>6. HeldBy(flush[g]) = (DOMAIN b) \X {u} /\ HeldBy(f) = (DOMAIN b \ {i}) \X {u}
  BY <1>2, <1>3 DEF HeldBy
<1> HIDE DEF b, u, i, f
<1>7. <<i, u>> \in HeldBy(flush[g]) /\ HeldBy(f) = HeldBy(flush[g]) \ {<<i, u>>}
  BY <1>1, <1>6
<1>8. <<i, u>> \notin HeldByOthers(g)
  BY <1>4
<1>9. <<i, u>> \in Held /\ Held' = Held \ {<<i, u>>}
  BY <1>5, <1>7, <1>8
<1> QED
  BY <1>9 DEF i, u

LEMMA SettleOkMaps == ASSUME IInv, NEW g \in Flushers, SettleOk(g) PROVE SQ!Next
<1> DEFINE i == Item(g).id
           u == flush[g].tok
<1>1. /\ flush[g].pc = "settle" /\ NextItem(g) /\ UNCHANGED <<nextId, nextTok, expired>>
      /\ q' = IF Owned(q, i, u, expired) THEN Complete(q, i) ELSE q
  BY DEF SettleOk
<1>2. <<i, u>> \in Held /\ Held' = Held \ {<<i, u>>}
  BY <1>1, HeldSettled
<1>3. Closed' = Closed
  <2>1. cam \in [Cameras -> CamRow] /\ rec \in [Records -> RecRow]
    BY DEF IInv, TablesTypeOK
  <2>2. \A c \in Cameras : cam'[c].stage = cam[c].stage
    BY <2>1 DEF SettleOk, CamRow
  <2>3. \A r \in Records : rec'[r].stage = rec[r].stage
    BY <2>1 DEF SettleOk, RecRow
  <2> QED
    BY <2>2, <2>3, ClosedKept
<1> HIDE DEF i, u
<1>4. SQ!Succeed(i, u)
  BY <1>1, <1>2, <1>3, SameSettle, Zenon DEF SQ!Succeed
<1>5. SQ!Succeed(<<i, u>>[1], <<i, u>>[2])
  BY <1>4
<1>6. SQ!Flushing
  BY <1>2, <1>5, Zenon DEF SQ!Flushing
<1> QED
  BY <1>6 DEF SQ!Next

LEMMA SettleFailedMaps == ASSUME IInv, NEW g \in Flushers, SettleFailed(g) PROVE SQ!Next
<1> DEFINE i == Item(g).id
           u == flush[g].tok
           p == flush[g].outcome = "rejected"
<1>1. /\ flush[g].pc = "settle" /\ NextItem(g) /\ UNCHANGED <<nextId, nextTok, expired, cam, rec>>
      /\ q' = IF Owned(q, i, u, expired) THEN Fail(q, i, p, MaxAttempts) ELSE q
  BY DEF SettleFailed, localVars
<1>2. <<i, u>> \in Held /\ Held' = Held \ {<<i, u>>}
  BY <1>1, HeldSettled
<1>3. Closed' = Closed
  BY <1>1, ClosedKept
<1>4. p \in BOOLEAN
  OBVIOUS
<1> HIDE DEF i, u, p
<1>5. SQ!GiveUp(i, u, p)
  BY <1>1, <1>2, <1>3, SameSettle, Zenon DEF SQ!GiveUp
<1>6. SQ!GiveUp(<<i, u>>[1], <<i, u>>[2], p)
  BY <1>5
<1>7. SQ!Flushing
  BY <1>2, <1>4, <1>6, Zenon DEF SQ!Flushing
<1> QED
  BY <1>7 DEF SQ!Next

LEMMA FlushPurgeMaps == ASSUME IInv, NEW g \in Flushers, FlushPurge(g) PROVE SQ!Next
<1>1. /\ flush[g].pc = "purge" /\ q' = PurgeRetained(q) /\ flush' = [flush EXCEPT ![g] = Idle]
      /\ UNCHANGED <<nextId, nextTok, expired, cam, rec>>
  BY DEF FlushPurge, localVars
<1>2. Closed' = Closed
  BY <1>1, ClosedKept
<1>3. FlushTypeOK /\ DOMAIN flush[g].items = {}
  BY <1>1 DEF IInv, BatchesKnow, BatchOK
<1>4. Held' = Held
  BY <1>1, <1>3, IdleFacts, HeldKept
<1>5. SQ!Purge
  BY <1>1, <1>2, <1>4, SamePurge, Zenon DEF SQ!Purge
<1> QED
  BY <1>5, Zenon DEF SQ!Next, SQ!Flushing

LEMMA CrashMaps == ASSUME IInv, NEW g \in Flushers, Crash(g) PROVE [SQ!Next]_SQ!vars
<1>1. /\ flush' = [flush EXCEPT ![g] = Idle] /\ UNCHANGED <<q, nextId, nextTok, expired, cam, rec>>
  BY DEF Crash, localVars, queueVars
<1>2. Closed' = Closed /\ FlushTypeOK /\ BatchesDiffer
  BY <1>1, ClosedKept DEF IInv
<1>3. CASE DOMAIN flush[g].items = {}
  <2>1. Held' = Held
    BY <1>1, <1>2, <1>3, IdleFacts, HeldKept
  <2> QED
    BY <1>1, <1>2, <2>1 DEF SQ!vars
<1>4. CASE DOMAIN flush[g].items # {}
  <2> DEFINE u == flush[g].tok
  <2>1. PICK i \in DOMAIN flush[g].items : TRUE
    BY <1>4
  <2>2. Held = HeldByOthers(g) \cup HeldBy(flush[g]) /\ Held' = HeldByOthers(g)
    <3>1. HeldBy(Idle) = {}
      BY IdleFacts DEF HeldBy
    <3> QED
      BY <1>1, <1>2, <3>1, HeldSplit, HeldAfter
  <2>3. \A x \in HeldByOthers(g) : x[2] # u
    BY <1>2, <1>4, OthersDiffer
  <2>4. <<i, u>> \in HeldBy(flush[g]) /\ \A x \in HeldBy(flush[g]) : x[2] = u
    BY <2>1 DEF HeldBy
  <2> HIDE DEF u
  <2>5. <<i, u>> \in Held /\ Held' = {x \in Held : x[2] # u}
    BY <2>2, <2>3, <2>4
  <2>6. SQ!Abandon(u)
    BY <1>1, <1>2, <2>4, <2>5 DEF SQ!Abandon
  <2>7. SQ!Abandon(<<i, u>>[2])
    BY <2>6
  <2>8. SQ!Flushing
    BY <2>5, <2>7, Zenon DEF SQ!Flushing
  <2> QED
    BY <2>8 DEF SQ!Next
<1> QED
  BY <1>3, <1>4

\* A request changes nothing the queue speaks of.
LEMMA RequestMaps ==
  ASSUME IInv, NEW g \in Flushers, Send(g) \/ SendAnalytics(g) \/ RequestRetried(g) \/ SendFails(g)
  PROVE  UNCHANGED SQ!vars
<1>1. UNCHANGED <<q, nextId, nextTok, expired, cam, rec>>
  BY DEF Send, SendAnalytics, RequestRetried, SendFails, queueVars, localVars
<1>2. Closed' = Closed
  BY <1>1, ClosedKept
<1>3. FlushTypeOK /\ flush[g] \in FlushType
  BY DEF IInv, FlushTypeOK
<1>4. Held' = Held
  <2>1. CASE RequestRetried(g)
    BY <2>1, HeldUnchanged DEF RequestRetried
  <2>2. CASE Send(g) \/ SendAnalytics(g) \/ SendFails(g)
    <3>1. PICK p, o : flush' = [flush EXCEPT ![g].pc = p, ![g].outcome = o]
      BY <2>2 DEF Send, SendAnalytics, SendFails
    <3> DEFINE f == [flush[g] EXCEPT !.pc = p, !.outcome = o]
    <3>2. flush' = [flush EXCEPT ![g] = f]
      BY <3>1
    <3>3. f.items = flush[g].items /\ f.tok = flush[g].tok
      BY <1>3 DEF FlushType
    <3> HIDE DEF f
    <3> QED
      BY <1>3, <3>2, <3>3, HeldKept
  <2> QED
    BY <2>1, <2>2
<1> QED
  BY <1>1, <1>2, <1>4 DEF SQ!vars

LEMMA OperatorMaps ==
  ASSUME NEW i \in DOMAIN q,
         RetryDead(i) \/ DiscardDead(i) \/ BackoffElapses(i) \/ RetentionElapses(i)
  PROVE  SQ!Next
<1>1. UNCHANGED <<nextId, nextTok, expired, cam, rec, flush>>
  BY DEF RetryDead, DiscardDead, BackoffElapses, RetentionElapses, localVars
<1>2. Closed' = Closed /\ Held' = Held
  BY <1>1, ClosedKept, HeldUnchanged
<1>3. SQ!Retry(i) \/ SQ!Discard(i) \/ SQ!BackoffElapses(i) \/ SQ!RetentionElapses(i)
  <2>1. CASE RetryDead(i)
    BY <1>1, <1>2, <2>1, SameCancel, Zenon DEF RetryDead, SQ!Retry
  <2>2. CASE DiscardDead(i)
    BY <1>1, <1>2, <2>2, SameCancel, Zenon DEF DiscardDead, SQ!Discard
  <2>3. CASE BackoffElapses(i)
    BY <1>1, <1>2, <2>3, Zenon DEF BackoffElapses, SQ!BackoffElapses
  <2>4. CASE RetentionElapses(i)
    BY <1>1, <1>2, <2>4, SameTerms, Zenon DEF RetentionElapses, SQ!RetentionElapses
  <2> QED
    BY <2>1, <2>2, <2>3, <2>4
<1> QED
  BY <1>3, Zenon DEF SQ!Next, SQ!Other

LEMMA LeaseExpiresMaps ==
  ASSUME NEW u \in 1..nextTok \ expired, LeaseExpires(u)
  PROVE  SQ!Next
<1>1. UNCHANGED <<q, nextId, nextTok, cam, rec, flush>>
  BY DEF LeaseExpires, localVars
<1>2. Closed' = Closed /\ Held' = Held
  BY <1>1, ClosedKept, HeldUnchanged
<1>3. SQ!LeaseExpires(u)
  BY <1>1, <1>2, Zenon DEF LeaseExpires, SQ!LeaseExpires
<1> QED
  BY <1>3, Zenon DEF SQ!Next, SQ!Other

LEMMA InitMaps == Init => SQ!Init
<1> SUFFICES ASSUME Init PROVE SQ!Init
  OBVIOUS
<1>1. PICK K \in SUBSET Cameras : Cardinality(K) <= MaxCameras /\ InitWith(K)
  BY DEF Init
<1>2. Cardinality(K) \in Nat
  BY FS_Subset, FS_CardinalityType, SyncAssumption
<1>3. q = [i \in {} |-> i] /\ nextId \in 0..MaxRows /\ nextTok = 0 /\ expired = {}
  BY <1>1, <1>2, SyncAssumption DEF InitWith
<1>4. Held = {}
  <2>1. \A g \in Flushers : DOMAIN flush[g].items = {}
    BY <1>1, IdleFacts DEF InitWith
  <2> QED
    BY <2>1 DEF Held
<1>5. Closed = {}
  BY <1>1 DEF InitWith, Closed
<1> QED
  BY <1>3, <1>4, <1>5 DEF SQ!Init

LEMMA NextMaps == IInv /\ [Next]_vars => [SQ!Next]_SQ!vars
<1> SUFFICES ASSUME IInv, [Next]_vars PROVE [SQ!Next]_SQ!vars
  OBVIOUS
<1>1. CASE Users
  BY <1>1, CreateCameraMaps, DeleteCameraMaps, UpdateCameraMaps, AddRecordMaps, OperatorMaps
     DEF Users
<1>2. CASE Flushes
  BY <1>2, ClaimMaps, RequestMaps, SettleOkMaps, SettleFailedMaps, FlushPurgeMaps, CrashMaps
     DEF Flushes
<1>3. CASE Time
  BY <1>3, OperatorMaps, LeaseExpiresMaps DEF Time
<1>4. CASE UNCHANGED vars
  <2>1. UNCHANGED <<q, nextId, nextTok, expired, cam, rec, flush>>
    BY <1>4 DEF vars, queueVars, localVars
  <2>2. Closed' = Closed /\ Held' = Held
    BY <2>1, ClosedKept, HeldUnchanged
  <2> QED
    BY <2>1, <2>2 DEF SQ!vars
<1> QED
  BY <1>1, <1>2, <1>3, <1>4 DEF Next

\* The edge synchronisation implements the durable queue: whatever the
\* repositories, the flushes, the operators, the clock and the network do, the
\* queue sees only what SyncQueue allows.
THEOREM Implements == Spec => ImplementsSyncQueue
<1>1. IInv /\ [Next]_vars => [SQ!Next]_SQ!vars
  BY NextMaps
<1> QED
  BY <1>1, InitMaps, Invariance, PTL DEF Spec, ImplementsSyncQueue, SQ!Spec

-----------------------------------------------------------------------------
(* What SyncQueueProofs proves of the queue holds of it here.              *)

QP == INSTANCE SyncQueueProofs WITH
        CameraKeys <- Cameras, RecordKeys <- Records,
        CameraWork <- {w \in Payloads : w.method # "RECORD"},
        RecordWork <- {w \in Payloads : w.method = "RECORD"},
        RevokeWork <- {}, Limits <- {BatchLimit}, held <- Held, closed <- Closed

\* The assumptions of SyncQueue are met.
LEMMA QueueAssumptions == QP!KeysAssumption /\ QP!BoundsAssumption
BY SyncAssumption DEF QP!KeysAssumption, QP!BoundsAssumption

\* The two instances of SyncQueue are the same specification.
LEMMA SameNext == SQ!Next <=> QP!Next
<1> USE DEF SQ!NoId, QP!NoId, SQ!NoToken, QP!NoToken, SQ!Waiting, QP!Waiting, SQ!Finished,
            QP!Finished, SQ!RowsOf, QP!RowsOf, SQ!Latest, QP!Latest, SQ!Lowest, QP!Lowest,
            SQ!Insert, QP!Insert, SQ!NewRow, QP!NewRow, SQ!Leased, QP!Leased, SQ!Cancelled,
            QP!Cancelled, SQ!Coalesces, QP!Coalesces, SQ!EnqueuedId, QP!EnqueuedId,
            SQ!Rewritten, QP!Rewritten, SQ!Enqueue, QP!Enqueue, SQ!EnqueueLeased,
            QP!EnqueueLeased, SQ!Cancel, QP!Cancel, SQ!CancelLatest, QP!CancelLatest,
            SQ!CancelKey, QP!CancelKey, SQ!Reclaimed, QP!Reclaimed, SQ!ReclaimExpired,
            QP!ReclaimExpired, SQ!Claimable, QP!Claimable, SQ!FirstRows, QP!FirstRows,
            SQ!ClaimIds, QP!ClaimIds, SQ!Lease, QP!Lease, SQ!Owned, QP!Owned, SQ!Completed,
            QP!Completed, SQ!Failed, QP!Failed, SQ!Complete, QP!Complete, SQ!Fail, QP!Fail,
            SQ!Requeued, QP!Requeued, SQ!RetryDeadLetter, QP!RetryDeadLetter,
            SQ!DiscardDeadLetter, QP!DiscardDeadLetter, SQ!RefersTo, QP!RefersTo,
            SQ!Descendants, QP!Descendants, SQ!Purgeable, QP!Purgeable, SQ!PurgeCancels,
            QP!PurgeCancels, SQ!Detached, QP!Detached, SQ!PurgeRetained, QP!PurgeRetained,
            SQ!Cardinality, QP!Cardinality, SQ!Keys, QP!Keys, SQ!TakesId, QP!TakesId
<1>1. ASSUME NEW k, NEW w PROVE SQ!MutateCamera(k, w) <=> QP!MutateCamera(k, w)
  BY Zenon DEF SQ!MutateCamera, QP!MutateCamera
<1>2. ASSUME NEW k PROVE SQ!DropCamera(k) <=> QP!DropCamera(k)
  BY Zenon DEF SQ!DropCamera, QP!DropCamera
<1>3. ASSUME NEW k, NEW w PROVE SQ!DeleteCamera(k, w) <=> QP!DeleteCamera(k, w)
  BY Zenon DEF SQ!DeleteCamera, QP!DeleteCamera
<1>4. ASSUME NEW k, NEW w, NEW c PROVE SQ!AddRecord(k, w, c) <=> QP!AddRecord(k, w, c)
  BY Zenon DEF SQ!AddRecord, QP!AddRecord
<1>5. ASSUME NEW w PROVE SQ!BeginRevocation(w) <=> QP!BeginRevocation(w)
  BY Zenon DEF SQ!BeginRevocation, QP!BeginRevocation
<1>6. SQ!SaveSession <=> QP!SaveSession
  BY Zenon DEF SQ!SaveSession, QP!SaveSession
<1>7. ASSUME NEW K, NEW n PROVE SQ!Claim(K, n) <=> QP!Claim(K, n)
  BY Zenon DEF SQ!Claim, QP!Claim
<1>8. ASSUME NEW i, NEW u PROVE SQ!Succeed(i, u) <=> QP!Succeed(i, u)
  BY Zenon DEF SQ!Succeed, QP!Succeed
<1>9. ASSUME NEW i, NEW u, NEW p PROVE SQ!GiveUp(i, u, p) <=> QP!GiveUp(i, u, p)
  BY Zenon DEF SQ!GiveUp, QP!GiveUp
<1>10. ASSUME NEW u PROVE SQ!Abandon(u) <=> QP!Abandon(u)
  BY Zenon DEF SQ!Abandon, QP!Abandon
<1>11. SQ!Purge <=> QP!Purge
  BY Zenon DEF SQ!Purge, QP!Purge
<1>12. ASSUME NEW i PROVE SQ!Retry(i) <=> QP!Retry(i)
  BY Zenon DEF SQ!Retry, QP!Retry
<1>13. ASSUME NEW i PROVE SQ!Discard(i) <=> QP!Discard(i)
  BY Zenon DEF SQ!Discard, QP!Discard
<1>14. ASSUME NEW u PROVE SQ!LeaseExpires(u) <=> QP!LeaseExpires(u)
  BY Zenon DEF SQ!LeaseExpires, QP!LeaseExpires
<1>15. ASSUME NEW i PROVE SQ!BackoffElapses(i) <=> QP!BackoffElapses(i)
  BY Zenon DEF SQ!BackoffElapses, QP!BackoffElapses
<1>16. ASSUME NEW i PROVE SQ!RetentionElapses(i) <=> QP!RetentionElapses(i)
  BY Zenon DEF SQ!RetentionElapses, QP!RetentionElapses
<1> QED
  BY <1>1, <1>2, <1>3, <1>4, <1>5, <1>6, <1>7, <1>8, <1>9, <1>10, <1>11, <1>12, <1>13, <1>14,
     <1>15, <1>16, Zenon
     DEF SQ!Next, QP!Next, SQ!Enqueuing, QP!Enqueuing, SQ!Flushing, QP!Flushing, SQ!Other, QP!Other

LEMMA SameSpec == SQ!Spec => QP!Spec
<1>1. SQ!Init => QP!Init
  BY DEF SQ!Init, QP!Init
<1>2. [SQ!Next]_SQ!vars => [QP!Next]_QP!vars
  BY SameNext DEF SQ!vars, QP!vars
<1> QED
  BY <1>1, <1>2, PTL DEF SQ!Spec, QP!Spec

\* The queue as its callers drive it: leases are exclusive, versions are sent in
\* order, references resolve, and no camera is wedged.
THEOREM QueueStaysSound ==
  Spec => [](QP!LiveLeaseOwnsRow /\ QP!ExclusiveLease /\ QP!VersionsInOrder /\ QP!ReferencesResolve
             /\ QP!CameraNeverWedged)
BY Implements, SameSpec, QueueAssumptions, QP!LeaseSafety, QP!MutualExclusion, QP!VersionsStayInOrder,
   QP!ReferencesAlwaysResolve, QP!CamerasAreNotWedged, PTL DEF ImplementsSyncQueue

-----------------------------------------------------------------------------
(* The order in which mutations reach the central camera.                  *)

\* Rows before i with key k are finished.
PastDone(t, k, i) == \A j \in DOMAIN t : t[j].key = k /\ j < i => t[j].state \in Finished

\* What was applied to a camera, and what a flush is about to send, has no
\* unfinished row before it.
AppliedPast ==
  applied \in [Cameras -> Nat]
  /\ \A c \in Cameras : applied[c] <= nextId /\ PastDone(q, c, applied[c])
SentPast ==
  \A g \in Flushers : \A i \in DOMAIN flush[g].items : PastDone(q, flush[g].items[i].key, i)

\* Rows keep their keys, finished rows stay finished, and new rows come last.
FinishedStays(t, t2, n) ==
  \A j \in DOMAIN t2 :
     IF j \in DOMAIN t THEN t2[j].key = t[j].key /\ (t[j].state \in Finished => t2[j].state \in Finished)
     ELSE n < j

LEMMA PastStaysDone ==
  ASSUME NEW t, NEW t2, NEW n \in Nat, FinishedStays(t, t2, n), DOMAIN t2 \subseteq Nat,
         NEW k, NEW i \in Nat, i <= n, PastDone(t, k, i)
  PROVE  PastDone(t2, k, i)
BY DEF PastDone, FinishedStays

LEMMA RowsStayFinished ==
  ASSUME NEW r \in Row
  PROVE  /\ Cancelled(r).key = r.key /\ Cancelled(r).state \in Finished
         /\ \A p, m : Failed(r, p, m).key = r.key
         /\ Completed(r).key = r.key /\ Reclaimed(r).key = r.key /\ Requeued(r).key = r.key
         /\ \A u : Leased(r, u).key = r.key
         /\ \A w, d : Rewritten(r, w, d).key = r.key /\ Rewritten(r, w, d).state = r.state
         /\ \A S : Detached(r, S).key = r.key /\ Detached(r, S).state = r.state
BY DEF Row, Cancelled, Failed, Completed, Reclaimed, Requeued, Leased, Rewritten, Detached, Finished

\* One row that is not finished is replaced.
LEMMA ReplaceStays ==
  ASSUME NEW t, NEW n, t \in [DOMAIN t -> Row], NEW i \in DOMAIN t, NEW s, s.key = t[i].key,
         t[i].state \in Finished => s.state \in Finished
  PROVE  FinishedStays(t, [t EXCEPT ![i] = s], n)
BY DEF FinishedStays

LEMMA CancelStays ==
  ASSUME NEW t, NEW n, t \in [DOMAIN t -> Row], NEW C
  PROVE  FinishedStays(t, Cancel(t, C), n)
<1>1. ASSUME NEW j \in DOMAIN t
      PROVE  /\ Cancel(t, C)[j].key = t[j].key
             /\ t[j].state \in Finished => Cancel(t, C)[j].state \in Finished
  BY RowsStayFinished DEF Cancel
<1>2. DOMAIN Cancel(t, C) = DOMAIN t
  BY DEF Cancel
<1> QED
  BY <1>1, <1>2 DEF FinishedStays

LEMMA EnqueueStays ==
  ASSUME NEW t, NEW n, NEW u, IsTable(t, n, u), NEW k, NEW w, NEW d
  PROVE  FinishedStays(t, Enqueue(t, k, w, d, n + 1), n)
<1>0. n \in Nat /\ t \in [DOMAIN t -> Row] /\ n < n + 1
  BY DEF IsTable
<1>1. CASE Coalesces(t, k)
  <2> DEFINE l == Latest(t, k)
  <2>1. l \in DOMAIN t /\ t[l] \in Row
    BY <1>0, <1>1, LatestIsRow DEF Coalesces
  <2>2. Rewritten(t[l], w, d).key = t[l].key /\ Rewritten(t[l], w, d).state = t[l].state
    BY <2>1, RowsStayFinished
  <2>3. Enqueue(t, k, w, d, n + 1) = [t EXCEPT ![l] = Rewritten(t[l], w, d)]
    BY <1>1 DEF Enqueue
  <2> HIDE DEF l
  <2> QED
    BY <1>0, <2>1, <2>2, <2>3, ReplaceStays
<1>2. CASE ~Coalesces(t, k)
  <2>1. /\ DOMAIN Enqueue(t, k, w, d, n + 1) = DOMAIN t \cup {n + 1}
        /\ \A j \in DOMAIN t : j # n + 1 => Enqueue(t, k, w, d, n + 1)[j] = t[j]
    BY <1>2 DEF Enqueue, Insert
  <2>2. n + 1 \notin DOMAIN t
    BY <1>0 DEF IsTable
  <2> QED
    BY <1>0, <2>1, <2>2 DEF FinishedStays
<1> QED
  BY <1>1, <1>2

LEMMA LeaseStays ==
  ASSUME NEW t, NEW n, NEW u, IsTable(t, n, u), NEW X, NEW C, NEW v,
         \A i \in C : Claimable(ReclaimExpired(t, X), i)
  PROVE  FinishedStays(t, Lease(ReclaimExpired(t, X), C, v), n)
<1> DEFINE r == ReclaimExpired(t, X)
<1>1. DOMAIN r = DOMAIN t /\ DOMAIN Lease(r, C, v) = DOMAIN t
  BY DEF ReclaimExpired, Lease
<1>2. ASSUME NEW j \in DOMAIN t
      PROVE  r[j] \in Row /\ r[j].key = t[j].key /\ (t[j].state \in Finished => r[j] = t[j])
  <2>1. t[j] \in Row /\ MovesTo(t, r)
    BY ReclaimMoves DEF IsTable
  <2>2. r[j] \in Row /\ r[j].key = t[j].key
    BY <2>1 DEF MovesTo, Moved
  <2> QED
    BY <2>2 DEF ReclaimExpired, Finished
<1>3. \A j \in C : r[j].state \notin Finished
  BY DEF Claimable, Waiting, Finished
<1> HIDE DEF r
<1>4. ASSUME NEW j \in DOMAIN t
      PROVE  /\ Lease(r, C, v)[j].key = t[j].key
             /\ t[j].state \in Finished => Lease(r, C, v)[j].state \in Finished
  <2>1. Lease(r, C, v)[j] = IF j \in C THEN Leased(r[j], v) ELSE r[j]
    BY <1>1 DEF Lease
  <2> QED
    BY <1>2, <1>3, <2>1, RowsStayFinished
<1> QED
  BY <1>1, <1>4 DEF FinishedStays, r

LEMMA PurgeStays ==
  ASSUME NEW t, NEW n, NEW u, IsTable(t, n, u)
  PROVE  FinishedStays(t, PurgeRetained(t), n)
<1> DEFINE t1 == Cancel(t, PurgeCancels(t))
<1>1. t \in [DOMAIN t -> Row] /\ \A i \in PurgeCancels(t) : t[i].state # "inflight"
  BY DEF IsTable, PurgeCancels
<1>2. DOMAIN t1 = DOMAIN t /\ FinishedStays(t, t1, n) /\ MovesTo(t, t1)
  BY <1>1, CancelStays, CancelMoves DEF Cancel
<1>3. \A j \in DOMAIN t : t1[j] \in Row
  BY <1>2 DEF MovesTo, Moved
<1>4. PurgeRetained(t) = [j \in DOMAIN t \ Purgeable(t) |-> Detached(t1[j], Purgeable(t))]
  BY DEF PurgeRetained
<1> HIDE DEF t1
<1>5. ASSUME NEW j \in DOMAIN PurgeRetained(t)
      PROVE  j \in DOMAIN t /\ PurgeRetained(t)[j].key = t1[j].key
             /\ PurgeRetained(t)[j].state = t1[j].state
  BY <1>3, <1>4, RowsStayFinished
<1> QED
  BY <1>2, <1>5 DEF FinishedStays

\* Every step of the system keeps finished rows finished.
LEMMA QueueMoves ==
  ASSUME IInv, [Next]_vars
  PROVE  FinishedStays(q, q', nextId) /\ nextId <= nextId'
<1>0. IsTable(q, nextId, nextTok) /\ q \in [DOMAIN q -> Row] /\ nextId \in Nat
  BY DEF IInv, QueueKnows, TableOK, IsTable
<1>1. ASSUME UNCHANGED <<q, nextId>> PROVE FinishedStays(q, q', nextId) /\ nextId <= nextId'
  BY <1>0, <1>1 DEF FinishedStays
<1>2. ASSUME NEW k, NEW w, NEW d, Enqueues(k, w, d)
      PROVE  FinishedStays(q, q', nextId) /\ nextId <= nextId'
  <2>1. q' = Enqueue(q, k, w, d, nextId + 1) /\ nextId' \in {nextId, nextId + 1}
    BY <1>2 DEF Enqueues
  <2>2. FinishedStays(q, q', nextId)
    BY <1>0, <2>1, EnqueueStays
  <2> QED
    BY <1>0, <2>1, <2>2
<1>3. ASSUME NEW C, q' = Cancel(q, C), nextId' = nextId
      PROVE  FinishedStays(q, q', nextId) /\ nextId <= nextId'
  BY <1>0, <1>3, CancelStays
<1>4. ASSUME NEW i \in DOMAIN q, NEW s, q' = [q EXCEPT ![i] = s], s.key = q[i].key,
             q[i].state \in Finished => s.state \in Finished, nextId' = nextId
      PROVE  FinishedStays(q, q', nextId) /\ nextId <= nextId'
  <2>1. FinishedStays(q, [q EXCEPT ![i] = s], nextId)
    BY <1>0, <1>4, ReplaceStays, Zenon
  <2> QED
    BY <1>0, <1>4, <2>1
<1>5. CASE Users
  <2>1. ASSUME NEW c \in Cameras, CreateCamera(c) \/ DeleteCamera(c)
        PROVE  FinishedStays(q, q', nextId) /\ nextId <= nextId'
    BY <1>2, <1>3, <2>1 DEF CreateCamera, DeleteCamera, CancelLatest
  <2>2. ASSUME NEW c \in Cameras, NEW F \in Edits, UpdateCamera(c, F)
        PROVE  FinishedStays(q, q', nextId) /\ nextId <= nextId'
    BY <1>2, <2>2 DEF UpdateCamera
  <2>3. ASSUME NEW r \in Records, NEW c \in Cameras, AddRecord(r, c)
        PROVE  FinishedStays(q, q', nextId) /\ nextId <= nextId'
    BY <1>2, <2>3 DEF AddRecord
  <2>4. ASSUME NEW i \in DOMAIN q, RetryDead(i)
        PROVE  FinishedStays(q, q', nextId) /\ nextId <= nextId'
    <3>1. q' = [q EXCEPT ![i] = Requeued(q[i])] /\ q[i].state \notin Finished /\ nextId' = nextId
      BY <2>4 DEF RetryDead, RetryDeadLetter, Finished
    <3>2. Requeued(q[i]).key = q[i].key
      BY <1>0, RowsStayFinished
    <3> QED
      BY <1>4, <3>1, <3>2
  <2>5. ASSUME NEW i \in DOMAIN q, DiscardDead(i)
        PROVE  FinishedStays(q, q', nextId) /\ nextId <= nextId'
    BY <1>3, <2>5 DEF DiscardDead, DiscardDeadLetter
  <2> QED
    BY <1>5, <2>1, <2>2, <2>3, <2>4, <2>5 DEF Users
<1>6. CASE Flushes
  <2>1. ASSUME NEW g \in Flushers,
               Send(g) \/ SendAnalytics(g) \/ RequestRetried(g) \/ SendFails(g) \/ Crash(g)
        PROVE  FinishedStays(q, q', nextId) /\ nextId <= nextId'
    BY <1>1, <2>1 DEF Send, SendAnalytics, RequestRetried, SendFails, Crash, queueVars
  <2>2. ASSUME NEW g \in Flushers, Flush(g)
        PROVE  FinishedStays(q, q', nextId) /\ nextId <= nextId'
    <3> DEFINE r == ReclaimExpired(q, expired)
               ids == ClaimIds(r, Cameras \cup Records, BatchLimit)
    <3>1. q' = Lease(r, ids, nextTok + 1) /\ nextId' = nextId
      BY <2>2 DEF Flush
    <3>2. \A i \in ids : Claimable(r, i)
      BY DEF ClaimIds, FirstRows
    <3> HIDE DEF ids
    <3> QED
      BY <1>0, <3>1, <3>2, LeaseStays
  <2>3. ASSUME NEW g \in Flushers, SettleOk(g) \/ SettleFailed(g)
        PROVE  FinishedStays(q, q', nextId) /\ nextId <= nextId'
    <3> DEFINE i == Item(g).id
               p == flush[g].outcome = "rejected"
    <3>1. /\ nextId' = nextId
          /\ \/ UNCHANGED q
             \/ Owned(q, i, flush[g].tok, expired) /\ q' = Complete(q, i)
             \/ Owned(q, i, flush[g].tok, expired) /\ q' = Fail(q, i, p, MaxAttempts)
      BY <2>3 DEF SettleOk, SettleFailed
    <3> HIDE DEF i, p
    <3>2. CASE UNCHANGED q
      BY <1>1, <3>1, <3>2
    <3>3. ASSUME Owned(q, i, flush[g].tok, expired)
          PROVE  /\ i \in DOMAIN q /\ q[i].state \notin Finished /\ Completed(q[i]).key = q[i].key
                 /\ Failed(q[i], p, MaxAttempts).key = q[i].key
      <4>1. i \in DOMAIN q /\ q[i].state = "inflight" /\ q[i] \in Row
        BY <1>0, <3>3 DEF Owned
      <4> QED
        BY <4>1, RowsStayFinished DEF Finished
    <3>4. CASE Owned(q, i, flush[g].tok, expired) /\ q' = Complete(q, i)
      BY <1>4, <3>1, <3>3, <3>4 DEF Complete
    <3>5. CASE Owned(q, i, flush[g].tok, expired) /\ q' = Fail(q, i, p, MaxAttempts)
      BY <1>4, <3>1, <3>3, <3>5 DEF Fail
    <3> QED
      BY <3>1, <3>2, <3>4, <3>5
  <2>4. ASSUME NEW g \in Flushers, FlushPurge(g)
        PROVE  FinishedStays(q, q', nextId) /\ nextId <= nextId'
    BY <1>0, <2>4, PurgeStays DEF FlushPurge
  <2> QED
    BY <1>6, <2>1, <2>2, <2>3, <2>4 DEF Flushes
<1>7. CASE Time
  <2>1. ASSUME NEW i \in DOMAIN q, BackoffElapses(i)
        PROVE  FinishedStays(q, q', nextId) /\ nextId <= nextId'
    <3> DEFINE s == [q[i] EXCEPT !.due = TRUE]
    <3>1. q' = [q EXCEPT ![i] = s] /\ nextId' = nextId
      BY <2>1 DEF BackoffElapses
    <3>2. s.key = q[i].key /\ s.state = q[i].state
      BY <1>0 DEF Row
    <3> HIDE DEF s
    <3> QED
      BY <1>4, <3>1, <3>2
  <2>2. ASSUME NEW i \in DOMAIN q, RetentionElapses(i)
        PROVE  FinishedStays(q, q', nextId) /\ nextId <= nextId'
    <3> DEFINE s == [q[i] EXCEPT !.old = TRUE]
    <3>1. q' = [q EXCEPT ![i] = s] /\ nextId' = nextId
      BY <2>2 DEF RetentionElapses
    <3>2. s.key = q[i].key /\ s.state = q[i].state
      BY <1>0 DEF Row
    <3> HIDE DEF s
    <3> QED
      BY <1>4, <3>1, <3>2
  <2>3. ASSUME NEW u, LeaseExpires(u)
        PROVE  FinishedStays(q, q', nextId) /\ nextId <= nextId'
    BY <1>1, <2>3 DEF LeaseExpires
  <2> QED
    BY <1>7, <2>1, <2>2, <2>3 DEF Time
<1>8. CASE UNCHANGED vars
  BY <1>1, <1>8 DEF vars, queueVars
<1> QED
  BY <1>5, <1>6, <1>7, <1>8 DEF Next

\* The items of a flush are those it had, or rows it has just leased.
Carried(g, i) == i \in DOMAIN flush[g].items /\ flush'[g].items[i] = flush[g].items[i]
JustLeased(g, i) ==
  i \in DOMAIN q' /\ q'[i].state = "inflight" /\ q'[i].key = flush'[g].items[i].key

LEMMA OneFlushMoves ==
  ASSUME FlushTypeOK, NEW g \in Flushers, NEW f, flush' = [flush EXCEPT ![g] = f],
         \A i \in DOMAIN f.items :
            (i \in DOMAIN flush[g].items /\ f.items[i] = flush[g].items[i])
              \/ (i \in DOMAIN q' /\ q'[i].state = "inflight" /\ q'[i].key = f.items[i].key)
  PROVE  \A h \in Flushers : \A i \in DOMAIN flush'[h].items : Carried(h, i) \/ JustLeased(h, i)
<1>1. flush'[g] = f /\ \A h \in Flushers \ {g} : flush'[h] = flush[h]
  BY DEF FlushTypeOK
<1> QED
  BY <1>1 DEF Carried, JustLeased

LEMMA ItemsStay ==
  ASSUME IInv, [Next]_vars
  PROVE  \A h \in Flushers : \A i \in DOMAIN flush'[h].items : Carried(h, i) \/ JustLeased(h, i)
<1>0. FlushTypeOK
  BY DEF IInv
<1>1. CASE UNCHANGED flush
  BY <1>1 DEF Carried
<1>2. ASSUME NEW g \in Flushers, Flush(g)
      PROVE  \A h \in Flushers : \A i \in DOMAIN flush'[h].items : Carried(h, i) \/ JustLeased(h, i)
  <2> DEFINE r == ReclaimExpired(q, expired)
             ids == ClaimIds(r, Cameras \cup Records, BatchLimit)
             its == [i \in ids |-> [id |-> i, key |-> r[i].key, work |-> r[i].work]]
             f == AtFirst(its, nextTok + 1)
  <2>1. q' = Lease(r, ids, nextTok + 1) /\ flush' = [flush EXCEPT ![g] = f]
    BY <1>2 DEF Flush, AtFirst
  <2>2. f.items = its /\ DOMAIN its = ids /\ \A i \in ids : its[i].key = r[i].key
    BY DEF AtFirst
  <2>3. \A i \in ids : i \in DOMAIN r
    BY DEF ClaimIds, FirstRows
  <2>4. \A i \in DOMAIN r : r[i] \in Row
    <3>1. IsTable(q, nextId, nextTok) /\ DOMAIN r = DOMAIN q
      BY DEF IInv, QueueKnows, TableOK, ReclaimExpired
    <3>2. MovesTo(q, r)
      BY <3>1, ReclaimMoves
    <3> QED
      BY <3>1, <3>2 DEF MovesTo, Moved
  <2>5. nextTok + 1 \in Nat
    BY DEF IInv, QueueKnows, TableOK, IsTable
  <2> HIDE DEF r, ids, its, f
  <2>6. ASSUME NEW i \in ids
        PROVE  i \in DOMAIN q' /\ q'[i].state = "inflight" /\ q'[i].key = its[i].key
    <3>1. i \in DOMAIN q' /\ q'[i] = Leased(r[i], nextTok + 1) /\ r[i] \in Row
      BY <2>1, <2>3, <2>4 DEF Lease
    <3>2. Leased(r[i], nextTok + 1).state = "inflight" /\ Leased(r[i], nextTok + 1).key = r[i].key
      BY <2>5, <3>1, LeasedFacts
    <3> QED
      BY <2>2, <3>1, <3>2
  <2> QED
    BY <1>0, <2>1, <2>2, <2>6, OneFlushMoves
<1>3. ASSUME NEW g \in Flushers, Send(g) \/ SendAnalytics(g) \/ SendFails(g)
      PROVE  \A h \in Flushers : \A i \in DOMAIN flush'[h].items : Carried(h, i) \/ JustLeased(h, i)
  <2>1. PICK p, o : flush' = [flush EXCEPT ![g].pc = p, ![g].outcome = o]
    BY <1>3 DEF Send, SendAnalytics, SendFails
  <2> DEFINE f == [flush[g] EXCEPT !.pc = p, !.outcome = o]
  <2>2. flush' = [flush EXCEPT ![g] = f]
    BY <2>1
  <2>3. f.items = flush[g].items
    BY <1>0 DEF FlushTypeOK, FlushType
  <2> HIDE DEF f
  <2> QED
    BY <1>0, <2>2, <2>3, OneFlushMoves
<1>4. ASSUME NEW g \in Flushers, NextItem(g)
      PROVE  \A h \in Flushers : \A i \in DOMAIN flush'[h].items : Carried(h, i) \/ JustLeased(h, i)
  <2> DEFINE b == flush[g].items
             f == AtFirst(Rest(b), flush[g].tok)
  <2>1. flush' = [flush EXCEPT ![g] = f] /\ f.items = Rest(b)
    BY <1>4 DEF NextItem, AtFirst
  <2>2. b \in Batches
    BY <1>0 DEF FlushTypeOK, FlushType
  <2>3. \A i \in DOMAIN Rest(b) : i \in DOMAIN b /\ Rest(b)[i] = b[i]
    BY <2>2, RestFacts
  <2> HIDE DEF f
  <2> QED
    BY <1>0, <2>1, <2>3, OneFlushMoves
<1>5. ASSUME NEW g \in Flushers, flush' = [flush EXCEPT ![g] = Idle]
      PROVE  \A h \in Flushers : \A i \in DOMAIN flush'[h].items : Carried(h, i) \/ JustLeased(h, i)
  BY <1>0, <1>5, IdleFacts, OneFlushMoves
<1>6. CASE Users
  BY <1>1, <1>6 DEF Users, CreateCamera, DeleteCamera, UpdateCamera, AddRecord, RetryDead, DiscardDead
<1>7. CASE Flushes
  BY <1>1, <1>2, <1>3, <1>4, <1>5, <1>7 DEF Flushes, RequestRetried, SettleOk, SettleFailed, FlushPurge,
     Crash
<1>8. CASE Time
  BY <1>1, <1>8 DEF Time, BackoffElapses, RetentionElapses, LeaseExpires
<1>9. CASE UNCHANGED vars
  BY <1>1, <1>9 DEF vars
<1> QED
  BY <1>6, <1>7, <1>8, <1>9 DEF Next

\* Only a request applies something, and what it applies is the item it is about.
AppliesItem(g) ==
  /\ flush[g].pc \in {"send", "analytics"} /\ Item(g).work.method # "RECORD"
  /\ applied' = [applied EXCEPT ![Item(g).work.cam] = Item(g).id] /\ UNCHANGED queueVars

LEMMA RequestApplies ==
  ASSUME NEW g \in Flushers, Send(g) \/ SendAnalytics(g) \/ RequestRetried(g)
  PROVE  applied' = applied \/ AppliesItem(g)
<1>1. ASSUME NEW F, Serve(Item(g).id, Item(g).key, Item(g).work, F)
      PROVE  \/ applied' = applied
             \/ /\ Item(g).work.method # "RECORD"
                /\ applied' = [applied EXCEPT ![Item(g).work.cam] = Item(g).id]
  BY <1>1 DEF Serve, centralVars
<1>2. CASE Send(g)
  BY <1>1, <1>2 DEF Send, AppliesItem
<1>3. CASE SendAnalytics(g)
  BY <1>1, <1>3 DEF SendAnalytics, AppliesItem
<1>4. CASE RequestRetried(g)
  BY <1>1, <1>4 DEF RequestRetried, AppliesItem
<1> QED
  BY <1>2, <1>3, <1>4

LEMMA OnlyRequestsApply ==
  ASSUME [Next]_vars
  PROVE  applied' = applied \/ \E g \in Flushers : AppliesItem(g)
<1>1. CASE Users
  BY <1>1 DEF Users, CreateCamera, DeleteCamera, UpdateCamera, AddRecord, RetryDead, DiscardDead,
     centralVars
<1>2. CASE Flushes
  BY <1>2, RequestApplies DEF Flushes, Flush, SendFails, SettleOk, SettleFailed, FlushPurge, Crash,
     centralVars
<1>3. CASE Time
  BY <1>3 DEF Time, BackoffElapses, RetentionElapses, LeaseExpires, centralVars
<1>4. CASE UNCHANGED vars
  BY <1>4 DEF vars, centralVars
<1> QED
  BY <1>1, <1>2, <1>3, <1>4 DEF Next

LEMMA OrderStep ==
  ASSUME IInv, IInv', AppliedPast, SentPast, [Next]_vars, QP!VersionsInOrder'
  PROVE  AppliedPast' /\ SentPast'
<1>0. /\ nextId \in Nat /\ nextId' \in Nat /\ nextId <= nextId' /\ FinishedStays(q, q', nextId)
      /\ DOMAIN q' \subseteq Nat
  BY QueueMoves DEF IInv, QueueKnows, TableOK, IsTable
<1>1. ASSUME NEW k, NEW i \in Nat, i <= nextId, PastDone(q, k, i)
      PROVE  PastDone(q', k, i)
  BY <1>0, <1>1, PastStaysDone
<1>2. SentPast'
  <2> SUFFICES ASSUME NEW g \in Flushers, NEW i \in DOMAIN flush'[g].items
               PROVE  PastDone(q', flush'[g].items[i].key, i)
    BY DEF SentPast
  <2>1. CASE Carried(g, i)
    <3>1. i \in 1..nextId
      BY <2>1 DEF Carried, IInv, BatchesKnow, BatchOK
    <3> QED
      BY <1>0, <1>1, <2>1, <3>1 DEF Carried, SentPast
  <2>2. CASE JustLeased(g, i)
    <3>1. q'[i].attempted /\ q'[i].key \in Keys
      BY <2>2 DEF JustLeased, IInv, QueueKnows, TableOK, IsTable, RowsKnow, Row
    <3>2. q'[i].key # RevokeKey
      BY <3>1, SyncAssumption DEF Keys
    <3>3. \A j \in DOMAIN q' : q'[j].key = q'[i].key /\ j < i => q'[j].state \in Finished
      BY <2>2, <3>1, <3>2 DEF JustLeased, QP!VersionsInOrder, QP!RowsOf, QP!Finished, Finished
    <3> QED
      BY <2>2, <3>3 DEF JustLeased, PastDone
  <2> QED
    BY <2>1, <2>2, ItemsStay
<1>3. AppliedPast'
  <2>1. CASE applied' = applied
    <3>1. ASSUME NEW c \in Cameras PROVE applied[c] <= nextId' /\ PastDone(q', c, applied[c])
      <4>1. applied[c] \in Nat /\ applied[c] <= nextId /\ PastDone(q, c, applied[c])
        BY DEF AppliedPast
      <4> QED
        BY <1>0, <1>1, <4>1
    <3> QED
      BY <2>1, <3>1 DEF AppliedPast
  <2>2. ASSUME NEW g \in Flushers, AppliesItem(g) PROVE AppliedPast'
    <3> DEFINE i == Item(g).id
               c == Item(g).work.cam
    <3>1. applied' = [applied EXCEPT ![c] = i] /\ q' = q /\ nextId' = nextId
      BY <2>2 DEF AppliesItem, queueVars
    <3>2. i \in DOMAIN flush[g].items /\ flush[g].items[i] = Item(g) /\ Item(g).key = c /\ c \in Cameras
      BY <2>2, ItemFacts DEF AppliesItem
    <3>3. i \in 1..nextId
      <4>1. BatchOK(flush[g], q, nextId, nextTok, rec, created)
        BY DEF IInv, BatchesKnow
      <4> QED
        BY <3>2, <4>1 DEF BatchOK
    <3>4. PastDone(q, c, i)
      BY <3>2 DEF SentPast
    <3> HIDE DEF i, c
    <3> QED
      BY <1>0, <3>1, <3>2, <3>3, <3>4 DEF AppliedPast
  <2> QED
    BY <2>1, <2>2, OnlyRequestsApply
<1> QED
  BY <1>2, <1>3

LEMMA InitOrder == Init => AppliedPast /\ SentPast
<1> SUFFICES ASSUME Init PROVE AppliedPast /\ SentPast
  OBVIOUS
<1>1. PICK K \in SUBSET Cameras : Cardinality(K) <= MaxCameras /\ InitWith(K)
  BY DEF Init
<1>2. Cardinality(K) \in Nat
  BY FS_Subset, FS_CardinalityType, SyncAssumption
<1>3. AppliedPast
  BY <1>1, <1>2 DEF InitWith, AppliedPast, PastDone, NoId
<1>4. SentPast
  BY <1>1, IdleFacts DEF InitWith, SentPast
<1> QED
  BY <1>3, <1>4

LEMMA OrderInvariance == Spec => [](IInv /\ AppliedPast /\ SentPast)
<1>1. Spec => []QP!VersionsInOrder
  BY QueueStaysSound, PTL
<1>2. Init => AppliedPast /\ SentPast
  BY InitOrder
<1>3. IInv /\ IInv' /\ AppliedPast /\ SentPast /\ [Next]_vars /\ QP!VersionsInOrder'
        => (AppliedPast /\ SentPast)'
  BY OrderStep
<1> QED
  BY <1>1, <1>2, <1>3, Invariance, PTL DEF Spec

\* The central camera sees mutations in the order they were made: a flush that
\* still owns its row never applies it after a later one of the same camera.
THEOREM MutationsInOrder == Spec => AppliedInOrder
<1>1. ASSUME IInv, AppliedPast, SentPast, [Next]_vars, NEW g \in Flushers,
             Send(g) \/ SendAnalytics(g) \/ RequestRetried(g),
             Owned(q, Item(g).id, flush[g].tok, expired), NEW c \in Cameras
      PROVE  applied[c] <= applied'[c]
  <2>0. applied \in [Cameras -> Nat] /\ applied[c] \in Nat
    BY <1>1 DEF AppliedPast
  <2>1. CASE applied' = applied
    BY <2>0, <2>1
  <2>2. CASE AppliesItem(g)
    <3> DEFINE i == Item(g).id
               k == Item(g).work.cam
    <3>1. applied' = [applied EXCEPT ![k] = i]
      BY <2>2 DEF AppliesItem
    <3>2. i \in DOMAIN flush[g].items /\ flush[g].items[i] = Item(g) /\ Item(g).key = k /\ k \in Cameras
      BY <1>1, <2>2, ItemFacts DEF AppliesItem
    <3>3. i \in DOMAIN q /\ q[i].state = "inflight" /\ q[i].key = k /\ i \in Nat
      BY <1>1, <3>2 DEF IInv, BatchesKnow, BatchOK, Owned
    <3>4. ~(i < applied[k]) /\ applied[k] \in Nat
      BY <1>1, <2>0, <3>2, <3>3 DEF AppliedPast, PastDone, Finished
    <3> HIDE DEF i, k
    <3> QED
      BY <2>0, <3>1, <3>2, <3>3, <3>4
  <2> QED
    BY <1>1, <2>1, <2>2, RequestApplies
<1>2. IInv /\ AppliedPast /\ SentPast /\ [Next]_vars =>
        [\A g \in Flushers :
            /\ Send(g) \/ SendAnalytics(g) \/ RequestRetried(g)
            /\ Owned(q, Item(g).id, flush[g].tok, expired)
            => \A c \in Cameras : applied[c] <= applied'[c]]_vars
  BY <1>1
<1> QED
  BY <1>2, OrderInvariance, PTL DEF Spec, AppliedInOrder
=============================================================================
