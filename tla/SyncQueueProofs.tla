--------------------------- MODULE SyncQueueProofs ---------------------------
(***************************************************************************)
(* Machine-checked proofs about SyncQueue, for any sets of keys and of     *)
(* work, any attempt limit and any bounds.                                 *)
(***************************************************************************)
EXTENDS SyncQueue, WellFoundedInduction, TLAPS

\* A table whose ids are among the first n issued ones.
IsTable(t, n) == DOMAIN t \subseteq 1..n /\ t \in [DOMAIN t -> Row]

-----------------------------------------------------------------------------
(* Facts about the table operators.                                        *)

\* A nonempty set of numbers up to n has a largest member.
LEMMA LargestExists ==
  ASSUME NEW n \in Nat, NEW S \in SUBSET (1..n), S # {}
  PROVE  \E i \in S : \A j \in S : j <= i
<1> DEFINE U == {m \in Nat : \A j \in S : j <= m}
<1>1. U \subseteq Nat /\ n \in U
  OBVIOUS
<1>2. PICK m \in U : \A k \in U : ~(<<k, m>> \in OpToRel(<, Nat))
  BY <1>1, WFMin, NatLessThanWellFounded
<1>3. \A k \in U : ~(k < m)
  BY <1>1, <1>2 DEF OpToRel
<1>4. m # 0
  <2>1. PICK j \in S : TRUE
    OBVIOUS
  <2>2. j <= m /\ j \in 1..n
    BY <1>2
  <2> QED
    BY <2>2
<1>5. m \in S
  <2>1. SUFFICES ASSUME m \notin S PROVE FALSE
    OBVIOUS
  <2>2. m - 1 \in U
    BY <2>1, <1>4
  <2> QED
    BY <2>2, <1>3
<1> QED
  BY <1>5

\* The latest row of a key is one of its rows, if it has any.
LEMMA LatestIsRow ==
  ASSUME NEW n \in Nat, NEW t, IsTable(t, n), NEW k
  PROVE  /\ Latest(t, k) \in RowsOf(t, k) \cup {NoId}
         /\ Latest(t, k) # NoId => \A j \in RowsOf(t, k) : j <= Latest(t, k)
         /\ Latest(t, k) = NoId => RowsOf(t, k) = {}
<1>1. RowsOf(t, k) \in SUBSET (1..n)
  BY DEF RowsOf, IsTable
<1>2. CASE RowsOf(t, k) = {}
  BY <1>2 DEF Latest
<1>3. CASE RowsOf(t, k) # {}
  <2>1. \E i \in RowsOf(t, k) : \A j \in RowsOf(t, k) : j <= i
    BY <1>1, <1>3, LargestExists
  <2>2. /\ Latest(t, k) \in RowsOf(t, k)
        /\ \A j \in RowsOf(t, k) : j <= Latest(t, k)
    BY <1>3, <2>1 DEF Latest
  <2> QED
    BY <2>2, <1>1 DEF NoId
<1> QED
  BY <1>2, <1>3

\* The lowest row of a key is one of its rows, if it has any.
LEMMA LowestIsRow ==
  ASSUME NEW n \in Nat, NEW t, IsTable(t, n), NEW k
  PROVE  Lowest(t, k) \in RowsOf(t, k) \cup {NoId}
<1>1. RowsOf(t, k) \subseteq Nat
  BY DEF RowsOf, IsTable
<1>2. CASE RowsOf(t, k) = {}
  BY <1>2 DEF Lowest
<1>3. CASE RowsOf(t, k) # {}
  <2>1. PICK i \in RowsOf(t, k) : \A j \in RowsOf(t, k) : ~(<<j, i>> \in OpToRel(<, Nat))
    BY <1>1, <1>3, WFMin, NatLessThanWellFounded
  <2>2. \A j \in RowsOf(t, k) : ~(j < i)
    BY <1>1, <2>1 DEF OpToRel
  <2>3. \A j \in RowsOf(t, k) : i <= j
    BY <1>1, <2>2
  <2> QED
    BY <1>3, <2>3 DEF Lowest
<1> QED
  BY <1>2, <1>3

(* What each update of a row writes.                                       *)

LEMMA RewrittenFacts ==
  ASSUME NEW r \in Row, NEW w \in Work, NEW d \in Nat
  PROVE  Rewritten(r, w, d) \in Row /\ Rewritten(r, w, d).state = r.state
BY DEF Rewritten, Row

LEMMA LeasedFacts ==
  ASSUME NEW r \in Row, NEW u \in Nat
  PROVE  /\ Leased(r, u) \in Row
         /\ Leased(r, u).state = "inflight" /\ Leased(r, u).token = u
<1>1. r.attempts + 1 \in Nat
  BY DEF Row
<1> QED
  BY <1>1 DEF Leased, Row, States

LEMMA CancelledFacts == \A r \in Row : Cancelled(r) \in Row
BY DEF Cancelled, Row, States, NoToken

LEMMA ReclaimedFacts == \A r \in Row : Reclaimed(r) \in Row
BY DEF Reclaimed, Row, States, NoToken

LEMMA CompletedFacts == \A r \in Row : Completed(r) \in Row
BY DEF Completed, Row, States, NoToken

LEMMA FailedFacts == \A r \in Row, p \in BOOLEAN : Failed(r, p, MaxAttempts) \in Row
BY DEF Failed, Row, States, NoToken

LEMMA RequeuedFacts == \A r \in Row : Requeued(r) \in Row
BY DEF Requeued, Row, States

LEMMA DetachedFacts ==
  ASSUME NEW r \in Row, NEW gone
  PROVE  LET s == Detached(r, gone)
         IN  s \in Row /\ s.state = r.state /\ s.token = r.token
BY DEF Detached, Row, NoId

-----------------------------------------------------------------------------
(* What each transaction does to the table.                                *)

\* Leased rows stay as they are: still leased, to the same caller.
KeepsLeases(t, s) ==
  \A i \in DOMAIN t : t[i].state = "inflight" =>
     i \in DOMAIN s /\ s[i].state = "inflight" /\ s[i].token = t[i].token

\* _enqueue returns a well-formed table, leaves leased rows alone, and the
\* work is in a pending row afterwards.
LEMMA EnqueueFacts ==
  ASSUME NEW n \in Nat, NEW t, IsTable(t, n),
         NEW k \in Keys, NEW w \in Work, NEW d \in Nat
  PROVE  LET e == Enqueue(t, k, w, d, n + 1)
             i == EnqueuedId(t, k, n + 1)
         IN  /\ IsTable(e, IF Coalesces(t, k) THEN n ELSE n + 1)
             /\ KeepsLeases(t, e)
             /\ i \in DOMAIN e /\ e[i].state = "pending"
             /\ i \in DOMAIN t => t[i].state = "pending"
<1> DEFINE e == Enqueue(t, k, w, d, n + 1)
           i == EnqueuedId(t, k, n + 1)
           l == Latest(t, k)
<1>1. CASE Coalesces(t, k)
  <2>1. l \in DOMAIN t /\ t[l].state = "pending" /\ i = l
    BY <1>1, LatestIsRow DEF Coalesces, RowsOf, EnqueuedId
  <2>2. t[l] \in Row
    BY <2>1 DEF IsTable
  <2> DEFINE r == Rewritten(t[l], w, d)
  <2>3. r \in Row /\ r.state = "pending"
    BY <2>1, <2>2, RewrittenFacts
  <2>4. e = [t EXCEPT ![l] = r]
    BY <1>1 DEF Enqueue
  <2> HIDE DEF r, e, i, l
  <2>5. IsTable(e, n)
    BY <2>1, <2>3, <2>4 DEF IsTable
  <2>6. KeepsLeases(t, e)
    BY <2>1, <2>4 DEF KeepsLeases, IsTable
  <2> QED
    BY <1>1, <2>1, <2>3, <2>4, <2>5, <2>6 DEF IsTable, e, i
<1>2. CASE ~Coalesces(t, k)
  <2>1. i = n + 1 /\ i \notin DOMAIN t
    BY <1>2 DEF EnqueuedId, IsTable
  <2> DEFINE r == NewRow(k, w, l, d)
  <2>2. l \in Nat
    BY LatestIsRow DEF RowsOf, IsTable, NoId
  <2>3. r \in Row /\ r.state = "pending"
    BY <2>2 DEF NewRow, Row, States, NoToken
  <2>4. e = [j \in DOMAIN t \cup {n + 1} |-> IF j = n + 1 THEN r ELSE t[j]]
    BY <1>2 DEF Enqueue, Insert
  <2> HIDE DEF r, e, i, l
  <2>5. DOMAIN e = DOMAIN t \cup {n + 1}
    BY <2>4
  <2>6. IsTable(e, n + 1)
    BY <2>3, <2>4, <2>5 DEF IsTable
  <2>7. KeepsLeases(t, e)
    BY <2>1, <2>4 DEF KeepsLeases
  <2> QED
    BY <1>2, <2>1, <2>3, <2>4, <2>5, <2>6, <2>7 DEF e, i
<1> QED
  BY <1>1, <1>2

\* Cancelling rows that are not leased.
LEMMA CancelFacts ==
  ASSUME NEW n \in Nat, NEW t, IsTable(t, n), NEW C,
         \A i \in C : i \in DOMAIN t => t[i].state # "inflight"
  PROVE  IsTable(Cancel(t, C), n) /\ KeepsLeases(t, Cancel(t, C))
<1>1. \A i \in DOMAIN t : t[i] \in Row
  BY DEF IsTable
<1>2. DOMAIN Cancel(t, C) = DOMAIN t
  BY DEF Cancel
<1>3. \A i \in DOMAIN t : Cancel(t, C)[i] \in Row
  BY <1>1, CancelledFacts DEF Cancel
<1>4. IsTable(Cancel(t, C), n)
  BY <1>2, <1>3 DEF IsTable, Cancel
<1>5. KeepsLeases(t, Cancel(t, C))
  BY DEF KeepsLeases, Cancel
<1> QED
  BY <1>4, <1>5

\* purge_retained keeps the table well formed and every leased row leased.
LEMMA PurgeFacts ==
  ASSUME NEW n \in Nat, NEW t, IsTable(t, n)
  PROVE  IsTable(PurgeRetained(t), n) /\ KeepsLeases(t, PurgeRetained(t))
<1> DEFINE c == Cancel(t, PurgeCancels(t))
           gone == Purgeable(t)
<1>1. IsTable(c, n) /\ KeepsLeases(t, c) /\ DOMAIN c = DOMAIN t
  <2>1. \A i \in PurgeCancels(t) : i \in DOMAIN t => t[i].state # "inflight"
    BY DEF PurgeCancels
  <2>2. DOMAIN c = DOMAIN t
    BY DEF Cancel
  <2> QED
    BY <2>1, <2>2, CancelFacts
<1> DEFINE p == PurgeRetained(t)
<1>2. p = [i \in DOMAIN t \ gone |-> Detached(c[i], gone)]
  BY DEF PurgeRetained
<1>3. \A i \in gone : t[i].state # "inflight"
  BY DEF Purgeable, Finished
<1> HIDE DEF c, gone, p
<1>4. \A i \in DOMAIN c : c[i] \in Row
  BY <1>1 DEF IsTable
<1>5. \A i \in DOMAIN p : p[i] \in Row /\ p[i].state = c[i].state /\ p[i].token = c[i].token
  BY <1>1, <1>2, <1>4, DetachedFacts
<1>6. DOMAIN p = DOMAIN t \ gone
  BY <1>2
<1>7. IsTable(p, n)
  BY <1>1, <1>2, <1>5, <1>6 DEF IsTable
<1>8. KeepsLeases(t, p)
  BY <1>1, <1>3, <1>5, <1>6 DEF KeepsLeases
<1> QED
  BY <1>7, <1>8 DEF p

\* Reclaiming touches only rows whose lease has run out.
LEMMA ReclaimFacts ==
  ASSUME NEW n \in Nat, NEW t, IsTable(t, n), NEW X
  PROVE  LET r == ReclaimExpired(t, X)
         IN  /\ IsTable(r, n) /\ DOMAIN r = DOMAIN t
             /\ \A i \in DOMAIN t : t[i].token \notin X => r[i] = t[i]
<1> DEFINE r == ReclaimExpired(t, X)
<1>1. DOMAIN r = DOMAIN t
  BY DEF ReclaimExpired
<1>2. \A i \in DOMAIN t : t[i] \in Row
  BY DEF IsTable
<1>3. \A i \in DOMAIN t : r[i] \in Row
  BY <1>2, ReclaimedFacts DEF ReclaimExpired
<1>4. IsTable(r, n)
  BY <1>1, <1>3 DEF IsTable, ReclaimExpired
<1>5. \A i \in DOMAIN t : t[i].token \notin X => r[i] = t[i]
  BY DEF ReclaimExpired
<1> QED
  BY <1>1, <1>4, <1>5

\* A claim takes waiting rows only.
LEMMA ClaimIdsWaiting ==
  ASSUME NEW t, NEW K, NEW m
  PROVE  \A i \in ClaimIds(t, K, m) : i \in DOMAIN t /\ t[i].state \in Waiting
BY DEF ClaimIds, FirstRows, Claimable

LEMMA LeaseFacts ==
  ASSUME NEW n \in Nat, NEW t, IsTable(t, n), NEW C, NEW u \in Nat
  PROVE  LET s == Lease(t, C, u)
         IN  /\ IsTable(s, n) /\ DOMAIN s = DOMAIN t
             /\ \A i \in DOMAIN t : i \notin C => s[i] = t[i]
             /\ \A i \in DOMAIN t : i \in C => s[i].state = "inflight" /\ s[i].token = u
<1> DEFINE s == Lease(t, C, u)
<1>1. DOMAIN s = DOMAIN t
  BY DEF Lease
<1>2. \A i \in DOMAIN t : t[i] \in Row
  BY DEF IsTable
<1>3. \A i \in DOMAIN t : s[i] \in Row
  BY <1>2, LeasedFacts DEF Lease
<1>4. IsTable(s, n)
  BY <1>1, <1>3 DEF IsTable, Lease
<1>5. \A i \in DOMAIN t : i \notin C => s[i] = t[i]
  BY DEF Lease
<1>6. \A i \in DOMAIN t : i \in C => s[i].state = "inflight" /\ s[i].token = u
  BY <1>2, LeasedFacts DEF Lease
<1> QED
  BY <1>1, <1>4, <1>5, <1>6

\* Replacing one row by a well-formed one.
LEMMA ReplaceRow ==
  ASSUME NEW n \in Nat, NEW t, IsTable(t, n), NEW i \in DOMAIN t, NEW r \in Row
  PROVE  LET s == [t EXCEPT ![i] = r]
         IN  /\ IsTable(s, n) /\ DOMAIN s = DOMAIN t /\ s[i] = r
             /\ \A j \in DOMAIN t : j # i => s[j] = t[j]
BY DEF IsTable

-----------------------------------------------------------------------------
(* Type correctness and lease safety.                                      *)

IInv == TypeOK /\ LiveLeaseOwnsRow

LEMMA InitIInv == Init => IInv
BY BoundsAssumption DEF Init, IInv, TypeOK, LiveLeaseOwnsRow

LEMMA TableType == TypeOK => IsTable(q, nextId)
BY DEF TypeOK, IsTable

\* A transaction that keeps the leased rows and issues no claim preserves IInv.
LEMMA KeepingLeases ==
  ASSUME IInv, nextId' \in Nat, nextId <= nextId', IsTable(q', nextId'),
         KeepsLeases(q, q'), closed' \subseteq Keys,
         UNCHANGED <<nextTok, expired, held>>
  PROVE  IInv'
<1>1. TypeOK'
  BY DEF IInv, TypeOK, IsTable
<1>2. LiveLeaseOwnsRow'
  BY DEF IInv, LiveLeaseOwnsRow, KeepsLeases
<1> QED
  BY <1>1, <1>2 DEF IInv

\* An enqueue with whatever dependency, and the keys it closes.
LEMMA EnqueueStep ==
  ASSUME IInv, NEW k \in Keys, NEW w \in Work, NEW d \in Nat,
         q' = Enqueue(q, k, w, d, nextId + 1), TakesId(k),
         closed' \in {closed, closed \cup {k}}, UNCHANGED <<nextTok, expired, held>>
  PROVE  IInv'
<1>1. nextId \in Nat /\ IsTable(q, nextId) /\ closed' \subseteq Keys
  BY TableType DEF IInv, TypeOK
<1>2. IsTable(q', nextId') /\ KeepsLeases(q, q')
  BY <1>1, EnqueueFacts DEF TakesId
<1>3. nextId' \in Nat /\ nextId <= nextId'
  BY <1>1 DEF TakesId
<1> QED
  BY <1>1, <1>2, <1>3, KeepingLeases

\* A cancellation of rows that are not leased.
LEMMA CancelStep ==
  ASSUME IInv, NEW C, \A i \in C : i \in DOMAIN q => q[i].state # "inflight",
         q' = Cancel(q, C), closed' \subseteq Keys,
         UNCHANGED <<nextId, nextTok, expired, held>>
  PROVE  IInv'
<1>1. nextId \in Nat /\ IsTable(q, nextId)
  BY TableType DEF IInv, TypeOK
<1>2. IsTable(q', nextId') /\ KeepsLeases(q, q')
  BY <1>1, CancelFacts
<1> QED
  BY <1>1, <1>2, KeepingLeases

\* A transaction that rewrites one row that is not leased.
LEMMA UnleasedRowStep ==
  ASSUME IInv, NEW i \in DOMAIN q, q[i].state # "inflight", NEW r \in Row,
         q' = [q EXCEPT ![i] = r], UNCHANGED <<nextId, nextTok, expired, held, closed>>
  PROVE  IInv'
<1>1. nextId \in Nat /\ IsTable(q, nextId) /\ closed' \subseteq Keys
  BY TableType DEF IInv, TypeOK
<1>2. IsTable(q', nextId') /\ KeepsLeases(q, q')
  BY <1>1, ReplaceRow DEF KeepsLeases
<1> QED
  BY <1>1, <1>2, KeepingLeases

\* A caller that settles row i under token u: only its own claim is touched.
LEMMA SettleStep ==
  ASSUME IInv, NEW i, NEW u, NEW r, Owned(q, i, u, expired) => r \in Row,
         <<i, u>> \in held, held' = held \ {<<i, u>>},
         q' = IF Owned(q, i, u, expired) THEN [q EXCEPT ![i] = r] ELSE q,
         UNCHANGED <<nextId, nextTok, expired, closed>>
  PROVE  IInv'
<1>1. nextId \in Nat /\ IsTable(q, nextId)
  BY TableType DEF IInv, TypeOK
<1>2. CASE Owned(q, i, u, expired)
  <2>1. i \in DOMAIN q /\ q[i].token = u /\ r \in Row /\ q' = [q EXCEPT ![i] = r]
    BY <1>2 DEF Owned
  <2>2. /\ IsTable(q', nextId) /\ DOMAIN q' = DOMAIN q
        /\ \A j \in DOMAIN q : j # i => q'[j] = q[j]
    BY <1>1, <2>1 DEF IsTable
  <2>3. TypeOK'
    BY <2>2 DEF IInv, TypeOK, IsTable
  <2>4. ASSUME NEW h \in held', h[2] \notin expired'
        PROVE  h[1] \in DOMAIN q' /\ q'[h[1]].state = "inflight" /\ q'[h[1]].token = h[2]
    <3>1. h[1] \in DOMAIN q /\ q[h[1]].state = "inflight" /\ q[h[1]].token = h[2]
      BY <2>4 DEF IInv, LiveLeaseOwnsRow
    <3>2. h = <<h[1], h[2]>> /\ h # <<i, u>>
      BY <2>4 DEF IInv, TypeOK
    <3>3. h[1] # i
      BY <3>1, <3>2, <2>1
    <3> QED
      BY <3>1, <3>3, <2>2
  <2> QED
    BY <2>3, <2>4 DEF IInv, LiveLeaseOwnsRow
<1>3. CASE ~Owned(q, i, u, expired)
  BY <1>3 DEF IInv, TypeOK, LiveLeaseOwnsRow
<1> QED
  BY <1>2, <1>3

\* A new claim: its rows were waiting, so no live lease covers them, and its
\* token is fresh.
LEMMA ClaimStep ==
  ASSUME IInv, NEW K, NEW n, Claim(K, n)
  PROVE  IInv'
<1> DEFINE r   == ReclaimExpired(q, expired)
           ids == ClaimIds(r, K, n)
           u   == nextTok + 1
<1>1. nextId \in Nat /\ IsTable(q, nextId) /\ nextTok \in Nat /\ u \in Nat
  BY TableType DEF IInv, TypeOK
<1>2. /\ q' = Lease(r, ids, u) /\ held' = held \cup (ids \X {u})
      /\ nextTok' = IF ids = {} THEN nextTok ELSE u
      /\ UNCHANGED <<nextId, expired, closed>>
  BY DEF Claim
<1>3. /\ IsTable(r, nextId) /\ DOMAIN r = DOMAIN q
      /\ \A i \in DOMAIN q : q[i].token \notin expired => r[i] = q[i]
  BY <1>1, ReclaimFacts
<1>4. \A i \in ids : i \in DOMAIN r /\ r[i].state \in Waiting
  BY ClaimIdsWaiting
<1> HIDE DEF r, ids, u
<1>5. /\ IsTable(q', nextId) /\ DOMAIN q' = DOMAIN r
      /\ \A i \in DOMAIN r : i \notin ids => q'[i] = r[i]
      /\ \A i \in DOMAIN r : i \in ids => q'[i].state = "inflight" /\ q'[i].token = u
  BY <1>1, <1>2, <1>3, LeaseFacts
<1>6. ids \subseteq 1..nextId
  BY <1>3, <1>4 DEF IsTable
<1>7. held' \subseteq (1..nextId') \X (1..nextTok')
  BY <1>1, <1>2, <1>6 DEF IInv, TypeOK, u
<1>8. TypeOK'
  BY <1>1, <1>2, <1>5, <1>7 DEF IInv, TypeOK, IsTable, u
<1>9. ASSUME NEW h \in held', h[2] \notin expired'
      PROVE  h[1] \in DOMAIN q' /\ q'[h[1]].state = "inflight" /\ q'[h[1]].token = h[2]
  <2>1. CASE h \in held
    <3>1. h[1] \in DOMAIN q /\ q[h[1]].state = "inflight" /\ q[h[1]].token = h[2]
      BY <1>2, <1>9, <2>1 DEF IInv, LiveLeaseOwnsRow
    <3>2. r[h[1]] = q[h[1]]
      BY <1>2, <1>3, <1>9, <3>1
    <3>3. h[1] \notin ids
      BY <1>4, <3>1, <3>2 DEF Waiting
    <3> QED
      BY <1>3, <1>5, <3>1, <3>2, <3>3
  <2>2. CASE h \in ids \X {u}
    BY <1>4, <1>5, <2>2
  <2> QED
    BY <1>2, <2>1, <2>2
<1> QED
  BY <1>8, <1>9 DEF IInv, LiveLeaseOwnsRow

\* begin_revocation: the row it leases was pending or is new.
LEMMA BeginRevocationStep ==
  ASSUME IInv, NEW w \in RevokeWork, BeginRevocation(w)
  PROVE  IInv'
<1> DEFINE k == RevokeKey
           u == nextTok + 1
           e == Enqueue(q, k, w, NoId, nextId + 1)
           i == EnqueuedId(q, k, nextId + 1)
<1>1. /\ nextId \in Nat /\ IsTable(q, nextId) /\ nextTok \in Nat /\ u \in Nat
      /\ k \in Keys /\ w \in Work /\ NoId \in Nat
  BY TableType DEF IInv, TypeOK, Keys, Work, NoId
<1>2. /\ q' = [e EXCEPT ![i] = Leased(e[i], u)]
      /\ held' = held \cup {<<i, u>>} /\ nextTok' = u
      /\ nextId' = IF Coalesces(q, k) THEN nextId ELSE nextId + 1
      /\ UNCHANGED <<expired, closed>>
  BY DEF BeginRevocation, EnqueueLeased, TakesId
<1>3. /\ IsTable(e, nextId')
      /\ KeepsLeases(q, e)
      /\ i \in DOMAIN e /\ e[i].state = "pending"
      /\ i \in DOMAIN q => q[i].state = "pending"
  BY <1>1, <1>2, EnqueueFacts
<1> HIDE DEF e, i, u, k
<1>4. nextId' \in Nat /\ nextId <= nextId'
  BY <1>1, <1>2
<1>5. /\ Leased(e[i], u) \in Row
      /\ Leased(e[i], u).state = "inflight" /\ Leased(e[i], u).token = u
  BY <1>1, <1>3, LeasedFacts DEF IsTable
<1>6. /\ IsTable(q', nextId') /\ DOMAIN q' = DOMAIN e /\ q'[i] = Leased(e[i], u)
      /\ \A j \in DOMAIN e : j # i => q'[j] = e[j]
  BY <1>2, <1>3, <1>5 DEF IsTable
<1>7. i \in 1..nextId'
  BY <1>3 DEF IsTable
<1>8. held' \subseteq (1..nextId') \X (1..nextTok')
  BY <1>1, <1>2, <1>4, <1>7 DEF IInv, TypeOK, u
<1>9. TypeOK'
  BY <1>1, <1>2, <1>4, <1>6, <1>8 DEF IInv, TypeOK, IsTable, u
<1>10. ASSUME NEW h \in held', h[2] \notin expired'
       PROVE  h[1] \in DOMAIN q' /\ q'[h[1]].state = "inflight" /\ q'[h[1]].token = h[2]
  <2>1. CASE h \in held
    <3>1. h[1] \in DOMAIN q /\ q[h[1]].state = "inflight" /\ q[h[1]].token = h[2]
      BY <1>2, <1>10, <2>1 DEF IInv, LiveLeaseOwnsRow
    <3>2. h[1] \in DOMAIN e /\ e[h[1]].state = "inflight" /\ e[h[1]].token = h[2]
      BY <1>3, <3>1 DEF KeepsLeases
    <3>3. h[1] # i
      BY <1>3, <3>1
    <3> QED
      BY <1>6, <3>2, <3>3
  <2>2. CASE h = <<i, u>>
    BY <1>3, <1>5, <1>6, <2>2
  <2> QED
    BY <1>2, <2>1, <2>2
<1> QED
  BY <1>9, <1>10 DEF IInv, LiveLeaseOwnsRow

\* Every step of the queue preserves IInv: one case for each action.
LEMMA NextIInv == IInv /\ [Next]_vars => IInv'
<1> SUFFICES ASSUME IInv, [Next]_vars PROVE IInv'
  OBVIOUS
<1> USE DEF Next, Enqueuing, Flushing, Other
<1>1. nextId \in Nat /\ IsTable(q, nextId) /\ closed \subseteq Keys
  BY TableType DEF IInv, TypeOK
<1>2. \A i \in DOMAIN q : q[i] \in Row
  BY <1>1 DEF IsTable
<1>3. ASSUME NEW k \in CameraKeys, NEW w \in CameraWork,
             MutateCamera(k, w) \/ DeleteCamera(k, w)
      PROVE  IInv'
  BY <1>3, EnqueueStep DEF MutateCamera, DeleteCamera, Keys, Work, NoId
<1>4. ASSUME NEW k \in CameraKeys, DropCamera(k)
      PROVE  IInv'
  <2> DEFINE C == {i \in DOMAIN q : /\ i = Latest(q, k) \/ q[i].dep = Latest(q, k)
                                    /\ q[i].state \in Waiting}
  <2>1. q' = Cancel(q, C) /\ \A i \in C : q[i].state # "inflight"
    BY <1>4 DEF DropCamera, CancelLatest, Waiting
  <2>2. closed' \subseteq Keys /\ UNCHANGED <<nextId, nextTok, expired, held>>
    BY <1>1, <1>4 DEF DropCamera, Keys
  <2> QED
    BY <2>1, <2>2, CancelStep
<1>5. ASSUME NEW k \in RecordKeys, NEW w \in RecordWork, NEW c \in CameraKeys,
             AddRecord(k, w, c)
      PROVE  IInv'
  <2>1. PICK d \in {NoId, Lowest(q, c)} : q' = Enqueue(q, k, w, d, nextId + 1)
    BY <1>5 DEF AddRecord
  <2>2. d \in Nat
    BY <1>1, <2>1, LowestIsRow DEF RowsOf, IsTable, NoId
  <2> QED
    BY <1>5, <2>1, <2>2, EnqueueStep DEF AddRecord, Keys, Work
<1>6. ASSUME NEW w \in RevokeWork, BeginRevocation(w)
      PROVE  IInv'
  BY <1>6, BeginRevocationStep
<1>7. CASE SaveSession
  <2> DEFINE C == {i \in RowsOf(q, RevokeKey) : q[i].state \in Waiting \cup {"dead_letter"}}
  <2>1. q' = Cancel(q, C) /\ \A i \in C : q[i].state # "inflight"
    BY <1>7 DEF SaveSession, CancelKey, Waiting
  <2> QED
    BY <1>1, <1>7, <2>1, CancelStep DEF SaveSession
<1>8. ASSUME NEW K, NEW n, Claim(K, n)
      PROVE  IInv'
  BY <1>8, ClaimStep
<1>9. ASSUME NEW h \in held, Succeed(h[1], h[2])
      PROVE  IInv'
  <2>1. Owned(q, h[1], h[2], expired) => Completed(q[h[1]]) \in Row
    BY <1>2, CompletedFacts DEF Owned
  <2> QED
    BY <1>9, <2>1, SettleStep DEF Succeed, Complete
<1>10. ASSUME NEW h \in held, NEW p \in BOOLEAN, GiveUp(h[1], h[2], p)
       PROVE  IInv'
  <2>1. Owned(q, h[1], h[2], expired) => Failed(q[h[1]], p, MaxAttempts) \in Row
    BY <1>2, FailedFacts DEF Owned
  <2> QED
    BY <1>10, <2>1, SettleStep DEF GiveUp, Fail
<1>11. ASSUME NEW u, Abandon(u)
       PROVE  IInv'
  BY <1>11 DEF Abandon, IInv, TypeOK, LiveLeaseOwnsRow
<1>12. CASE Purge
  <2>1. /\ IsTable(q', nextId') /\ KeepsLeases(q, q') /\ nextId' \in Nat
        /\ nextId <= nextId' /\ closed' \subseteq Keys
        /\ UNCHANGED <<nextTok, expired, held>>
    BY <1>1, <1>12, PurgeFacts DEF Purge
  <2> QED
    BY <2>1, KeepingLeases
<1>13. ASSUME NEW i \in DOMAIN q, Retry(i)
       PROVE  IInv'
  BY <1>2, <1>13, UnleasedRowStep, RequeuedFacts DEF Retry, RetryDeadLetter
<1>14. ASSUME NEW i \in DOMAIN q, Discard(i)
       PROVE  IInv'
  BY <1>1, <1>14, CancelStep DEF Discard, DiscardDeadLetter
<1>15. ASSUME NEW i \in DOMAIN q, BackoffElapses(i)
       PROVE  IInv'
  <2>1. [q[i] EXCEPT !.due = TRUE] \in Row
    BY <1>2 DEF Row
  <2>2. q' = [q EXCEPT ![i] = [q[i] EXCEPT !.due = TRUE]]
    BY <1>15 DEF BackoffElapses
  <2> QED
    BY <1>15, <2>1, <2>2, UnleasedRowStep DEF BackoffElapses
<1>16. ASSUME NEW i \in DOMAIN q, RetentionElapses(i)
       PROVE  IInv'
  <2>1. [q[i] EXCEPT !.old = TRUE] \in Row
    BY <1>2 DEF Row
  <2>2. q' = [q EXCEPT ![i] = [q[i] EXCEPT !.old = TRUE]]
    BY <1>16 DEF RetentionElapses
  <2>3. q[i].state # "inflight"
    BY <1>16 DEF RetentionElapses, Finished
  <2> QED
    BY <1>16, <2>1, <2>2, <2>3, UnleasedRowStep DEF RetentionElapses
<1>17. ASSUME NEW u \in 1..nextTok, LeaseExpires(u)
       PROVE  IInv'
  BY <1>17 DEF LeaseExpires, IInv, TypeOK, LiveLeaseOwnsRow
<1>18. CASE UNCHANGED vars
  BY <1>18 DEF vars, IInv, TypeOK, LiveLeaseOwnsRow
<1> QED
  BY <1>3, <1>4, <1>5, <1>6, <1>7, <1>8, <1>9, <1>10, <1>11, <1>12, <1>13, <1>14, <1>15,
     <1>16, <1>17, <1>18

\* Every reachable table is well formed.
THEOREM TypeCorrect == Spec => []TypeOK
<1>1. IInv => TypeOK
  BY DEF IInv
<1> QED
  BY InitIInv, NextIInv, <1>1, PTL DEF Spec

\* A caller whose lease has not run out owns its row in the table: no other
\* claim, cancellation, purge or late answer has taken the row from it.
THEOREM LeaseSafety == Spec => []LiveLeaseOwnsRow
<1>1. IInv => LiveLeaseOwnsRow
  BY DEF IInv
<1> QED
  BY InitIInv, NextIInv, <1>1, PTL DEF Spec

\* No row is under two unexpired leases, however late callers answer.
THEOREM MutualExclusion == Spec => []ExclusiveLease
<1>1. IInv => ExclusiveLease
  <2> SUFFICES ASSUME IInv, NEW g \in held, NEW h \in held, g[1] = h[1],
                      g[2] \notin expired, h[2] \notin expired
               PROVE  g = h
    BY DEF ExclusiveLease
  <2>1. g[2] = h[2]
    BY DEF IInv, LiveLeaseOwnsRow
  <2>2. g = <<g[1], g[2]>> /\ h = <<h[1], h[2]>>
    BY DEF IInv, TypeOK
  <2> QED
    BY <2>1, <2>2
<1> QED
  BY InitIInv, NextIInv, <1>1, PTL DEF Spec

-----------------------------------------------------------------------------
(* The order of versions and the references between rows.                  *)

\* References point to earlier rows: a predecessor is a version of the same
\* key, and only records have a dependency.
RefersBack(t) ==
  \A i \in DOMAIN t :
     /\ t[i].pred # NoId => t[i].pred \in RowsOf(t, t[i].key) /\ t[i].pred < i
     /\ t[i].dep # NoId => t[i].dep \in DOMAIN t
     /\ t[i].key \in CameraKeys => t[i].dep = NoId

\* A row's predecessor is the version just before it; a row without one, new
\* or detached by a purge, has only finished versions before it.
FollowsLatest(t) ==
  \A i \in DOMAIN t : t[i].key \in CameraKeys =>
     \A m \in RowsOf(t, t[i].key) : m < i =>
        IF t[i].pred = NoId THEN t[m].state \in Finished ELSE m <= t[i].pred

\* Only a claim gives a row one of these states, and a claim marks it attempted.
TriedFirst(t) ==
  \A i \in DOMAIN t : t[i].state \in {"inflight", "succeeded", "dead_letter"} => t[i].attempted

\* The versions before an attempted row are finished.
TriedInOrder(t) ==
  \A i \in DOMAIN t : t[i].attempted /\ t[i].key \in CameraKeys =>
     \A m \in RowsOf(t, t[i].key) : m < i => t[m].state \in Finished

\* So are those before a finished one, except when the camera was dropped and
\* the finished row is its last.
FinishedInOrder(t, K) ==
  \A i \in DOMAIN t : t[i].state \in Finished /\ t[i].key \in CameraKeys =>
     \/ t[i].key \in K /\ i = Latest(t, t[i].key)
     \/ \A m \in RowsOf(t, t[i].key) : m < i => t[m].state \in Finished

\* A record is enqueued once.
RecordOnce(t, K) ==
  \A i \in DOMAIN t : t[i].key \in RecordKeys =>
     t[i].key \in K /\ \A m \in RowsOf(t, t[i].key) : m = i

Ordered(t, K) ==
  /\ RefersBack(t) /\ FollowsLatest(t) /\ TriedFirst(t) /\ TriedInOrder(t)
  /\ FinishedInOrder(t, K) /\ RecordOnce(t, K)

OrderInv == Ordered(q, closed)

\* The latest row of a key depends on the rows of the key only.
LEMMA LatestOfRows ==
  ASSUME NEW t, NEW s, NEW k, RowsOf(s, k) = RowsOf(t, k)
  PROVE  Latest(s, k) = Latest(t, k)
BY DEF Latest

LEMMA InitOrder == Init => OrderInv
BY DEF Init, OrderInv, Ordered, RefersBack, FollowsLatest, TriedFirst, TriedInOrder,
       FinishedInOrder, RecordOnce

\* What a transaction may do to the rows it finds: it keeps their keys and
\* references, never takes back a finished row, marks what it leases, attempts a
\* camera's row only after the finished ones, and finishes one that was never
\* attempted only as the last of a dropped camera.
Advances(t, s, L) ==
  /\ DOMAIN s = DOMAIN t
  /\ \A i \in DOMAIN t : s[i].key = t[i].key /\ s[i].pred = t[i].pred /\ s[i].dep = t[i].dep
  /\ \A i \in DOMAIN t : t[i].state \in Finished => s[i].state \in Finished
  /\ TriedFirst(s)
  /\ \A i \in DOMAIN t : s[i].attempted /\ ~t[i].attempted /\ t[i].key \in CameraKeys =>
       \A m \in RowsOf(t, t[i].key) : m < i => t[m].state \in Finished
  /\ \A i \in DOMAIN t : s[i].state \in Finished /\ t[i].state \notin Finished
                         /\ t[i].key \in CameraKeys =>
       t[i].attempted \/ (t[i].key \in L /\ i = Latest(t, t[i].key))

\* Such a transaction preserves the order.
LEMMA AdvancesOrder ==
  ASSUME NEW t, NEW s, NEW K, NEW L, K \subseteq L, Ordered(t, K), Advances(t, s, L)
  PROVE  Ordered(s, L)
<1> DEFINE D == DOMAIN t
<1>1. DOMAIN s = D /\ TriedFirst(s)
  BY DEF Advances
<1>2. \A i \in D : s[i].key = t[i].key /\ s[i].pred = t[i].pred /\ s[i].dep = t[i].dep
  BY DEF Advances
<1>3. \A i \in D : t[i].state \in Finished => s[i].state \in Finished
  BY DEF Advances
<1>4. \A k : RowsOf(s, k) = RowsOf(t, k)
  BY <1>1, <1>2 DEF RowsOf
<1>5. \A k : Latest(s, k) = Latest(t, k)
  BY <1>4, LatestOfRows
<1>6. \A k : RowsOf(t, k) \subseteq D
  BY DEF RowsOf
<1>7. RefersBack(s)
  BY <1>1, <1>2, <1>4 DEF Ordered, RefersBack
<1>8. FollowsLatest(s)
  BY <1>1, <1>2, <1>3, <1>4, <1>6 DEF Ordered, FollowsLatest
<1>9. TriedInOrder(s)
  <2> SUFFICES ASSUME NEW i \in D, s[i].attempted, t[i].key \in CameraKeys,
                      NEW m \in RowsOf(t, t[i].key), m < i
               PROVE  s[m].state \in Finished
    BY <1>1, <1>2, <1>4 DEF TriedInOrder
  <2>1. t[m].state \in Finished
    BY DEF Ordered, TriedInOrder, Advances
  <2> QED
    BY <2>1, <1>3, <1>6
<1>10. FinishedInOrder(s, L)
  <2> SUFFICES ASSUME NEW i \in D, s[i].state \in Finished, t[i].key \in CameraKeys,
                      ~(t[i].key \in L /\ i = Latest(t, t[i].key)),
                      NEW m \in RowsOf(t, t[i].key), m < i
               PROVE  s[m].state \in Finished
    BY <1>1, <1>2, <1>4, <1>5 DEF FinishedInOrder
  <2>1. CASE t[i].state \in Finished
    BY <2>1, <1>3, <1>6 DEF Ordered, FinishedInOrder
  <2>2. CASE t[i].state \notin Finished
    <3>1. t[i].attempted
      BY <2>2 DEF Advances
    <3> QED
      BY <3>1, <1>3, <1>6 DEF Ordered, TriedInOrder
  <2> QED
    BY <2>1, <2>2
<1>11. RecordOnce(s, L)
  BY <1>1, <1>2, <1>4 DEF Ordered, RecordOnce
<1> QED
  BY <1>1, <1>7, <1>8, <1>9, <1>10, <1>11 DEF Ordered

\* Inserting a version after the latest one, or a record.
LEMMA InsertOrder ==
  ASSUME NEW n \in Nat, NEW t, IsTable(t, n), NEW K, NEW L, K \subseteq L, Ordered(t, K),
         NEW k \in Keys, NEW w, NEW d \in DOMAIN t \cup {NoId},
         k \in CameraKeys => k \notin K /\ d = NoId,
         k \in RecordKeys => k \notin K /\ k \in L
  PROVE  Ordered(Insert(t, n + 1, NewRow(k, w, Latest(t, k), d)), L)
<1> DEFINE l == Latest(t, k)
           r == NewRow(k, w, l, d)
           s == Insert(t, n + 1, r)
<1>1. /\ l \in RowsOf(t, k) \cup {NoId}
      /\ l # NoId => \A j \in RowsOf(t, k) : j <= l
      /\ l = NoId => RowsOf(t, k) = {}
  BY LatestIsRow
<1>2. DOMAIN t \subseteq 1..n /\ n + 1 \notin DOMAIN t
  BY DEF IsTable
<1>3. DOMAIN s = DOMAIN t \cup {n + 1} /\ s[n + 1] = r /\ \A i \in DOMAIN t : s[i] = t[i]
  BY <1>2 DEF Insert
<1>4. r.key = k /\ r.pred = l /\ r.dep = d /\ r.state = "pending" /\ r.attempted = FALSE
  BY DEF NewRow
<1> HIDE DEF l, r, s
<1>5. /\ \A c : c # k => RowsOf(s, c) = RowsOf(t, c)
      /\ RowsOf(s, k) = RowsOf(t, k) \cup {n + 1}
  BY <1>2, <1>3, <1>4 DEF RowsOf
<1>6. \A c : c # k => Latest(s, c) = Latest(t, c)
  BY <1>5, LatestOfRows
<1>7. \A c : RowsOf(t, c) \subseteq DOMAIN t
  BY DEF RowsOf
<1>8. \A c : \A i \in DOMAIN t : {m \in RowsOf(s, c) : m < i} = {m \in RowsOf(t, c) : m < i}
  <2> SUFFICES ASSUME NEW c, NEW i \in DOMAIN t, NEW m \in RowsOf(s, c), m < i
               PROVE  m \in RowsOf(t, c)
    BY <1>5
  <2>1. m # n + 1
    BY <1>2
  <2> QED
    BY <2>1, <1>5
<1>9. RefersBack(s)
  <2>1. ASSUME NEW i \in DOMAIN t
        PROVE  /\ t[i].pred # NoId => t[i].pred \in RowsOf(s, t[i].key) /\ t[i].pred < i
               /\ t[i].dep # NoId => t[i].dep \in DOMAIN s
               /\ t[i].key \in CameraKeys => t[i].dep = NoId
    BY <1>3, <1>5 DEF Ordered, RefersBack
  <2>2. /\ l # NoId => l \in RowsOf(s, k) /\ l < n + 1
        /\ d # NoId => d \in DOMAIN s
        /\ k \in CameraKeys => d = NoId
    BY <1>1, <1>2, <1>3, <1>5, <1>7
  <2> QED
    BY <2>1, <2>2, <1>3, <1>4 DEF RefersBack
<1>10. FollowsLatest(s)
  <2>1. ASSUME NEW i \in DOMAIN t, t[i].key \in CameraKeys,
               NEW m \in RowsOf(s, t[i].key), m < i
        PROVE  IF t[i].pred = NoId THEN s[m].state \in Finished ELSE m <= t[i].pred
    <3>1. m \in RowsOf(t, t[i].key)
      BY <1>8, <2>1
    <3> QED
      BY <2>1, <3>1, <1>3, <1>7 DEF Ordered, FollowsLatest
  <2>2. ASSUME NEW m \in RowsOf(s, k), m < n + 1
        PROVE  IF l = NoId THEN s[m].state \in Finished ELSE m <= l
    <3>1. m \in RowsOf(t, k)
      BY <1>5, <2>2
    <3> QED
      BY <3>1, <1>1
  <2> QED
    BY <2>1, <2>2, <1>3, <1>4 DEF FollowsLatest
<1>11. TriedFirst(s)
  BY <1>3, <1>4 DEF Ordered, TriedFirst
<1>12. TriedInOrder(s)
  <2> SUFFICES ASSUME NEW i \in DOMAIN t, t[i].attempted, t[i].key \in CameraKeys,
                      NEW m \in RowsOf(s, t[i].key), m < i
               PROVE  s[m].state \in Finished
    BY <1>3, <1>4 DEF TriedInOrder
  <2>1. m \in RowsOf(t, t[i].key)
    BY <1>8
  <2> QED
    BY <2>1, <1>3, <1>7 DEF Ordered, TriedInOrder
<1>13. FinishedInOrder(s, L)
  <2> SUFFICES ASSUME NEW i \in DOMAIN t, t[i].state \in Finished, t[i].key \in CameraKeys,
                      ~(t[i].key \in L /\ i = Latest(s, t[i].key)),
                      NEW m \in RowsOf(s, t[i].key), m < i
               PROVE  s[m].state \in Finished
    BY <1>3, <1>4 DEF FinishedInOrder, Finished
  <2>1. m \in RowsOf(t, t[i].key)
    BY <1>8
  <2>2. ~(t[i].key \in K /\ i = Latest(t, t[i].key))
    BY <1>6
  <2> QED
    BY <2>1, <2>2, <1>3, <1>7 DEF Ordered, FinishedInOrder
<1>14. RecordOnce(s, L)
  <2>1. ASSUME NEW i \in DOMAIN t, t[i].key \in RecordKeys
        PROVE  t[i].key \in L /\ \A m \in RowsOf(s, t[i].key) : m = i
    <3>1. t[i].key \in K /\ \A m \in RowsOf(t, t[i].key) : m = i
      BY <2>1 DEF Ordered, RecordOnce
    <3>2. t[i].key # k
      BY <2>1, <3>1
    <3> QED
      BY <3>1, <3>2, <1>5
  <2>2. ASSUME k \in RecordKeys
        PROVE  k \in L /\ \A m \in RowsOf(s, k) : m = n + 1
    <3>1. RowsOf(t, k) = {}
      BY <2>2 DEF Ordered, RecordOnce, RowsOf
    <3> QED
      BY <2>2, <3>1, <1>5
  <2> QED
    BY <2>1, <2>2, <1>3, <1>4 DEF RecordOnce
<1> QED
  BY <1>9, <1>10, <1>11, <1>12, <1>13, <1>14 DEF Ordered, s, r, l

\* The camera rows below a row d by references are later versions of d's key:
\* predecessors have the same key and only records have dependencies.
LEMMA DescendantsAreLater ==
  ASSUME NEW n \in Nat, NEW t, IsTable(t, n), RefersBack(t),
         NEW d \in DOMAIN t, NEW x \in Descendants(t, d), t[x].key \in CameraKeys
  PROVE  t[x].key = t[d].key /\ d < x
<1> DEFINE S == {i \in DOMAIN t : t[i].key \in CameraKeys => t[i].key = t[d].key /\ d < i}
<1>1. DOMAIN t \subseteq Nat /\ NoId \notin DOMAIN t
  BY DEF IsTable, NoId
<1>2. ASSUME NEW i \in DOMAIN t, RefersTo(t, i, S \cup {d})
      PROVE  i \in S
  <2> SUFFICES ASSUME t[i].key \in CameraKeys PROVE t[i].key = t[d].key /\ d < i
    OBVIOUS
  <2>1. t[i].dep = NoId
    BY DEF RefersBack
  <2>2. t[i].pred \in S \cup {d} /\ t[i].pred # NoId
    BY <1>1, <1>2, <2>1 DEF RefersTo
  <2>3. t[i].pred \in DOMAIN t /\ t[t[i].pred].key = t[i].key /\ t[i].pred < i
    BY <2>2 DEF RefersBack, RowsOf
  <2>4. t[i].pred = d \/ (t[t[i].pred].key = t[d].key /\ d < t[i].pred)
    BY <2>2, <2>3
  <2> QED
    BY <1>1, <2>3, <2>4
<1>3. S \in SUBSET DOMAIN t
  OBVIOUS
<1> HIDE DEF S
<1>4. x \in S
  BY <1>2, <1>3 DEF Descendants
<1> QED
  BY <1>4 DEF S

\* And every later version of an unfinished row's key is below it: the chain of
\* predecessors between them is whole.
LEMMA LaterAreDescendants ==
  ASSUME NEW n \in Nat, NEW t, IsTable(t, n), RefersBack(t), FollowsLatest(t),
         NEW d \in DOMAIN t, t[d].state \notin Finished, t[d].key \in CameraKeys,
         NEW x \in RowsOf(t, t[d].key), d < x
  PROVE  x \in Descendants(t, d)
<1>1. DOMAIN t \subseteq Nat /\ NoId \notin DOMAIN t
  BY DEF IsTable, NoId
<1>2. SUFFICES ASSUME NEW S \in SUBSET DOMAIN t,
                      \A i \in DOMAIN t : RefersTo(t, i, S \cup {d}) => i \in S,
                      x \notin S
               PROVE  FALSE
  BY DEF Descendants, RowsOf
<1> DEFINE U == {m \in RowsOf(t, t[d].key) : d < m /\ m \notin S}
<1>3. x \in U /\ U \subseteq Nat
  BY <1>1, <1>2 DEF RowsOf
<1>4. PICK m \in U : \A j \in U : ~(<<j, m>> \in OpToRel(<, Nat))
  BY <1>3, WFMin, NatLessThanWellFounded
<1>5. \A j \in U : ~(j < m)
  BY <1>3, <1>4 DEF OpToRel
<1>6. m \in DOMAIN t /\ t[m].key = t[d].key /\ d < m /\ d \in RowsOf(t, t[m].key)
  BY DEF RowsOf
<1>7. t[m].pred # NoId /\ d <= t[m].pred
  BY <1>6 DEF FollowsLatest
<1>8. t[m].pred \in RowsOf(t, t[d].key) /\ t[m].pred < m
  BY <1>6, <1>7 DEF RefersBack
<1>9. t[m].pred = d \/ t[m].pred \in S
  BY <1>1, <1>5, <1>6, <1>7, <1>8 DEF RowsOf
<1>10. m \in S
  BY <1>2, <1>6, <1>9 DEF RefersTo
<1> QED
  BY <1>10, <1>4

\* What purge_retained does to the rows it keeps.
LEMMA PurgedRow ==
  ASSUME NEW n \in Nat, NEW t, IsTable(t, n), NEW i \in DOMAIN t \ Purgeable(t)
  PROVE  LET p == PurgeRetained(t)
         IN  /\ p[i].key = t[i].key /\ p[i].attempted = t[i].attempted
             /\ p[i].work = t[i].work
             /\ p[i].state = IF i \in PurgeCancels(t) THEN "cancelled" ELSE t[i].state
             /\ p[i].pred = IF t[i].pred \in Purgeable(t) THEN NoId ELSE t[i].pred
             /\ p[i].dep = IF t[i].dep \in Purgeable(t) THEN NoId ELSE t[i].dep
<1> DEFINE c == Cancel(t, PurgeCancels(t))[i]
<1>1. PurgeRetained(t)[i] = Detached(c, Purgeable(t))
  BY DEF PurgeRetained
<1>2. t[i] \in Row
  BY DEF IsTable
<1>3. /\ c \in Row
      /\ c.key = t[i].key /\ c.attempted = t[i].attempted /\ c.work = t[i].work
      /\ c.pred = t[i].pred /\ c.dep = t[i].dep
      /\ c.state = IF i \in PurgeCancels(t) THEN "cancelled" ELSE t[i].state
  BY <1>2 DEF Cancel, Cancelled, Row, States, NoToken
<1> HIDE DEF c
<1> QED
  BY <1>1, <1>3 DEF Detached, Row

\* purge_retained preserves the order: what it detaches is left with finished
\* versions before it, and what it cancels is the rest of a camera's chain.
LEMMA PurgeOrder ==
  ASSUME NEW n \in Nat, NEW t, IsTable(t, n), NEW K, Ordered(t, K)
  PROVE  Ordered(PurgeRetained(t), K)
<1> DEFINE p == PurgeRetained(t)
           gone == Purgeable(t)
           C == PurgeCancels(t)
<1>1. DOMAIN p = DOMAIN t \ gone /\ IsTable(p, n)
  BY PurgeFacts DEF PurgeRetained
<1>2. \A i \in DOMAIN t : i \notin gone =>
        /\ p[i].key = t[i].key /\ p[i].attempted = t[i].attempted
        /\ p[i].state = IF i \in C THEN "cancelled" ELSE t[i].state
        /\ p[i].pred = IF t[i].pred \in gone THEN NoId ELSE t[i].pred
        /\ p[i].dep = IF t[i].dep \in gone THEN NoId ELSE t[i].dep
  BY PurgedRow
<1>3. /\ DOMAIN t \subseteq Nat /\ NoId \notin DOMAIN t
      /\ \A i \in gone : i \in DOMAIN t /\ t[i].state \in Finished \cup {"dead_letter"}
  BY DEF IsTable, NoId, Purgeable
<1>4. \A i \in C : t[i].key \in CameraKeys =>
        \E d \in gone : t[d].state = "dead_letter" /\ i \in Descendants(t, d)
  BY <1>3 DEF PurgeCancels, Ordered, RefersBack
<1>5. \A i \in DOMAIN t : t[i].state # "inflight" =>
        \A d \in gone : t[d].state = "dead_letter" /\ i \in Descendants(t, d) => i \in C
  BY DEF PurgeCancels
<1> HIDE DEF p, gone, C
<1>6. \A k : RowsOf(p, k) = RowsOf(t, k) \ gone
  BY <1>1, <1>2 DEF RowsOf
<1>7. \A k : RowsOf(t, k) \subseteq DOMAIN t
  BY DEF RowsOf
<1>8. \A i \in DOMAIN p : t[i].state \in Finished => p[i].state \in Finished
  BY <1>1, <1>2 DEF Finished
<1>9. RefersBack(p)
  BY <1>1, <1>2, <1>6 DEF Ordered, RefersBack
<1>10. ASSUME NEW g \in gone, t[g].key \in CameraKeys, NEW i \in RowsOf(t, t[g].key), g < i,
              NEW m \in RowsOf(t, t[g].key), m < g
       PROVE  t[m].state \in Finished
  <2>1. g \in DOMAIN t /\ g \in RowsOf(t, t[g].key)
    BY <1>3 DEF RowsOf
  <2>2. CASE t[g].state \in Finished
    <3>1. i <= Latest(t, t[g].key) /\ Latest(t, t[g].key) \in Nat
      BY <1>3, <1>7, LatestIsRow DEF NoId
    <3>2. g # Latest(t, t[g].key)
      BY <3>1, <1>3, <1>7, <1>10
    <3> QED
      BY <2>1, <2>2, <3>2, <1>10 DEF Ordered, FinishedInOrder
  <2>3. CASE t[g].state = "dead_letter"
    BY <2>1, <2>3, <1>10 DEF Ordered, TriedFirst, TriedInOrder
  <2> QED
    BY <2>2, <2>3, <1>3
<1>11. FollowsLatest(p)
  <2> SUFFICES ASSUME NEW i \in DOMAIN p, t[i].key \in CameraKeys,
                      NEW m \in RowsOf(p, t[i].key), m < i
               PROVE  IF p[i].pred = NoId THEN p[m].state \in Finished ELSE m <= p[i].pred
    BY <1>1, <1>2 DEF FollowsLatest
  <2>1. m \in RowsOf(t, t[i].key) /\ m \notin gone /\ i \in DOMAIN t /\ m \in DOMAIN p
    BY <1>1, <1>6, <1>7
  <2>2. CASE t[i].pred \in gone
    <3>1. /\ t[i].pred \in RowsOf(t, t[i].key) /\ t[i].pred < i
          /\ m <= t[i].pred /\ t[t[i].pred].key = t[i].key
      BY <1>3, <2>1, <2>2 DEF Ordered, RefersBack, FollowsLatest, RowsOf
    <3>2. m < t[i].pred /\ i \in RowsOf(t, t[i].key)
      BY <1>3, <1>7, <2>1, <2>2, <3>1 DEF RowsOf
    <3>3. t[m].state \in Finished
      BY <1>10, <2>1, <2>2, <3>1, <3>2
    <3> QED
      BY <3>3, <1>1, <1>2, <1>8, <2>1, <2>2
  <2>3. CASE t[i].pred \notin gone
    <3>1. p[i].pred = t[i].pred
      BY <1>1, <1>2, <2>3
    <3> QED
      BY <3>1, <2>1, <1>8 DEF Ordered, FollowsLatest
  <2> QED
    BY <2>2, <2>3
<1>12. TriedFirst(p)
  BY <1>1, <1>2 DEF Ordered, TriedFirst
<1>13. TriedInOrder(p)
  <2> SUFFICES ASSUME NEW i \in DOMAIN p, t[i].attempted, t[i].key \in CameraKeys,
                      NEW m \in RowsOf(p, t[i].key), m < i
               PROVE  p[m].state \in Finished
    BY <1>1, <1>2 DEF TriedInOrder
  <2>1. m \in RowsOf(t, t[i].key) /\ i \in DOMAIN t /\ m \in DOMAIN p
    BY <1>1, <1>6, <1>7
  <2> QED
    BY <2>1, <1>8 DEF Ordered, TriedInOrder
<1>14. ASSUME NEW i \in DOMAIN p, i \in C, t[i].key \in CameraKeys,
              NEW m \in RowsOf(p, t[i].key), m < i
       PROVE  p[m].state \in Finished
  <2>1. PICK d \in gone : t[d].state = "dead_letter" /\ i \in Descendants(t, d)
    BY <1>4, <1>14
  <2>2. d \in DOMAIN t /\ t[i].key = t[d].key /\ d < i /\ d \in RowsOf(t, t[i].key)
    BY <1>3, <1>14, <2>1, DescendantsAreLater DEF Ordered, RowsOf
  <2>3. m \in RowsOf(t, t[i].key) /\ m # d /\ m \in DOMAIN p /\ m \in DOMAIN t
    BY <1>1, <1>6, <1>7, <1>14
  <2>4. CASE m < d
    <3>1. t[m].state \in Finished
      BY <2>1, <2>2, <2>3, <2>4, <1>14 DEF Ordered, TriedFirst, TriedInOrder
    <3> QED
      BY <3>1, <2>3, <1>8
  <2>5. CASE d < m
    <3>1. m \in Descendants(t, d)
      BY <1>14, <2>1, <2>2, <2>3, <2>5, LaterAreDescendants DEF Ordered, Finished
    <3>2. t[m].state # "inflight"
      <4> SUFFICES ASSUME t[m].state = "inflight" PROVE FALSE
        OBVIOUS
      <4>1. t[m].attempted /\ t[m].key = t[d].key /\ d \in RowsOf(t, t[m].key)
        BY <2>2, <2>3 DEF Ordered, TriedFirst, RowsOf
      <4>2. t[d].state \in Finished
        BY <4>1, <2>2, <2>3, <2>5, <1>14 DEF Ordered, TriedInOrder
      <4> QED
        BY <4>2, <2>1 DEF Finished
    <3>3. m \in C
      BY <3>1, <3>2, <2>1, <2>3, <1>5
    <3> QED
      BY <3>3, <2>3, <1>1, <1>2 DEF Finished
  <2> QED
    BY <1>3, <2>2, <2>3, <2>4, <2>5
<1>15. FinishedInOrder(p, K)
  <2> SUFFICES ASSUME NEW i \in DOMAIN p, p[i].state \in Finished, t[i].key \in CameraKeys,
                      ~(t[i].key \in K /\ i = Latest(p, t[i].key)), i \notin C,
                      NEW m \in RowsOf(p, t[i].key), m < i
               PROVE  p[m].state \in Finished
    BY <1>1, <1>2, <1>14 DEF FinishedInOrder
  <2>1. t[i].state \in Finished /\ i \in DOMAIN t
    BY <1>1, <1>2
  <2>2. m \in RowsOf(t, t[i].key) /\ m \in DOMAIN p
    BY <1>1, <1>6, <1>7
  <2>3. ~(t[i].key \in K /\ i = Latest(t, t[i].key))
    <3> SUFFICES ASSUME i = Latest(t, t[i].key) PROVE i = Latest(p, t[i].key)
      OBVIOUS
    <3>1. i \in RowsOf(p, t[i].key)
      BY <1>1, <1>6, <2>1 DEF RowsOf
    <3>2. /\ Latest(p, t[i].key) \in RowsOf(p, t[i].key) /\ i <= Latest(p, t[i].key)
      BY <1>1, <3>1, LatestIsRow
    <3>3. Latest(p, t[i].key) <= i
      BY <1>3, <1>6, <2>1, <3>2, LatestIsRow
    <3> QED
      BY <1>3, <1>6, <1>7, <2>1, <3>2, <3>3
  <2> QED
    BY <2>1, <2>2, <2>3, <1>8 DEF Ordered, FinishedInOrder
<1>16. RecordOnce(p, K)
  BY <1>1, <1>2, <1>6 DEF Ordered, RecordOnce
<1> QED
  BY <1>9, <1>11, <1>12, <1>13, <1>15, <1>16 DEF Ordered, p

-----------------------------------------------------------------------------
(* Every step keeps the order, and the work of what was ever leased.       *)

\* Work that was ever leased is still there, marked as such, if its row is.
KeepsWork(t, s) ==
  \A i \in DOMAIN t \cap DOMAIN s :
     t[i].attempted => s[i].work = t[i].work /\ s[i].attempted

\* A transaction that rewrites the state of one row.
LEMMA RowOrder ==
  ASSUME NEW t, NEW K, Ordered(t, K), NEW i \in DOMAIN t, NEW r,
         r.key = t[i].key /\ r.pred = t[i].pred /\ r.dep = t[i].dep,
         t[i].state \in Finished => r.state \in Finished,
         r.state \in {"inflight", "succeeded", "dead_letter"} => r.attempted,
         r.attempted /\ t[i].key \in CameraKeys => t[i].attempted,
         r.state \in Finished /\ t[i].state \notin Finished => t[i].attempted
  PROVE  Ordered([t EXCEPT ![i] = r], K)
<1> DEFINE s == [t EXCEPT ![i] = r]
<1>1. DOMAIN s = DOMAIN t /\ s[i] = r /\ \A j \in DOMAIN t : j # i => s[j] = t[j]
  OBVIOUS
<1> HIDE DEF s
<1>2. TriedFirst(s)
  BY <1>1 DEF Ordered, TriedFirst
<1>3. Advances(t, s, K)
  BY <1>1, <1>2 DEF Advances
<1> QED
  BY <1>3, AdvancesOrder DEF s

\* A cancellation: of attempted rows, of rows that are no camera's, and of the
\* last row of a dropped camera.
LEMMA CancelOrder ==
  ASSUME NEW n \in Nat, NEW t, IsTable(t, n), NEW K, NEW L, K \subseteq L, Ordered(t, K),
         NEW C,
         \A i \in DOMAIN t : i \in C /\ t[i].key \in CameraKeys =>
            t[i].attempted \/ (t[i].key \in L /\ i = Latest(t, t[i].key))
  PROVE  Ordered(Cancel(t, C), L) /\ KeepsWork(t, Cancel(t, C))
<1> DEFINE s == Cancel(t, C)
<1>1. \A i \in DOMAIN t : t[i] \in Row
  BY DEF IsTable
<1>2. DOMAIN s = DOMAIN t /\ \A i \in DOMAIN t : s[i] = IF i \in C THEN Cancelled(t[i]) ELSE t[i]
  BY DEF Cancel
<1>3. ASSUME NEW x \in Row
      PROVE  /\ Cancelled(x).key = x.key /\ Cancelled(x).pred = x.pred
             /\ Cancelled(x).dep = x.dep /\ Cancelled(x).work = x.work
             /\ Cancelled(x).attempted = x.attempted /\ Cancelled(x).state = "cancelled"
  BY DEF Cancelled, Row
<1> HIDE DEF s
<1>4. \A i \in DOMAIN t :
        /\ s[i].key = t[i].key /\ s[i].pred = t[i].pred /\ s[i].dep = t[i].dep
        /\ s[i].work = t[i].work /\ s[i].attempted = t[i].attempted
        /\ s[i].state = IF i \in C THEN "cancelled" ELSE t[i].state
  BY <1>1, <1>2, <1>3
<1>5. TriedFirst(s)
  BY <1>2, <1>4 DEF Ordered, TriedFirst
<1>6. Advances(t, s, L)
  BY <1>2, <1>4, <1>5 DEF Advances, Finished
<1>7. KeepsWork(t, s)
  BY <1>4 DEF KeepsWork
<1> QED
  BY <1>6, <1>7, AdvancesOrder DEF s

\* An _enqueue call.
LEMMA EnqueueOrder ==
  ASSUME NEW n \in Nat, NEW t, IsTable(t, n), NEW K, NEW L, K \subseteq L, Ordered(t, K),
         NEW k \in Keys, NEW w \in Work, NEW d \in DOMAIN t \cup {NoId},
         k \in CameraKeys => k \notin K,
         k \in RecordKeys => k \notin K /\ k \in L,
         k \notin RecordKeys => d = NoId
  PROVE  LET e == Enqueue(t, k, w, d, n + 1)
         IN  Ordered(e, L) /\ KeepsWork(t, e)
<1> DEFINE l == Latest(t, k)
           e == Enqueue(t, k, w, d, n + 1)
<1>1. CASE Coalesces(t, k)
  <2> DEFINE r == Rewritten(t[l], w, d)
  <2>1. l \in RowsOf(t, k) /\ t[l].state = "pending" /\ ~t[l].attempted
    BY <1>1, LatestIsRow DEF Coalesces
  <2>2. l \in DOMAIN t /\ t[l].key = k /\ t[l] \in Row
    BY <2>1 DEF RowsOf, IsTable
  <2>3. d = NoId
    BY <2>2 DEF Ordered, RecordOnce
  <2>4. /\ r.key = t[l].key /\ r.pred = t[l].pred /\ r.dep = t[l].dep
        /\ r.state = t[l].state /\ r.attempted = t[l].attempted
    BY <2>2, <2>3 DEF Rewritten, Row
  <2>5. e = [t EXCEPT ![l] = r]
    BY <1>1 DEF Enqueue
  <2> HIDE DEF e, r, l
  <2>6. DOMAIN e = DOMAIN t /\ e[l] = r /\ \A j \in DOMAIN t : j # l => e[j] = t[j]
    BY <2>2, <2>5
  <2>7. TriedFirst(e)
    BY <2>4, <2>6 DEF Ordered, TriedFirst
  <2>8. Advances(t, e, L)
    BY <2>4, <2>6, <2>7 DEF Advances
  <2>9. KeepsWork(t, e)
    BY <2>1, <2>6 DEF KeepsWork
  <2> QED
    BY <2>8, <2>9, AdvancesOrder DEF e
<1>2. CASE ~Coalesces(t, k)
  <2>1. e = Insert(t, n + 1, NewRow(k, w, l, d))
    BY <1>2 DEF Enqueue
  <2>2. k \in CameraKeys => d = NoId
    BY KeysAssumption
  <2>3. Ordered(Insert(t, n + 1, NewRow(k, w, l, d)), L)
    BY <2>2, InsertOrder
  <2>4. n + 1 \notin DOMAIN t
    BY DEF IsTable
  <2>5. KeepsWork(t, e)
    BY <2>1, <2>4 DEF KeepsWork, Insert
  <2> QED
    BY <2>1, <2>3, <2>5
<1> QED
  BY <1>1, <1>2

\* A claim: the lease of a row is given when the versions before it are finished.
LEMMA ClaimOrder ==
  ASSUME NEW n \in Nat, NEW t, IsTable(t, n), NEW K, Ordered(t, K), NEW X, NEW J, NEW m,
         NEW u \in Nat
  PROVE  LET r == ReclaimExpired(t, X)
             s == Lease(r, ClaimIds(r, J, m), u)
         IN  Ordered(s, K) /\ KeepsWork(t, s)
<1> DEFINE r == ReclaimExpired(t, X)
           C == ClaimIds(r, J, m)
           s == Lease(r, C, u)
<1>1. \A i \in DOMAIN t : t[i] \in Row
  BY DEF IsTable
<1>2. IsTable(r, n) /\ DOMAIN r = DOMAIN t
  BY ReclaimFacts
<1>3. \A i \in DOMAIN t :
        r[i] = IF t[i].state = "inflight" /\ t[i].token \in X THEN Reclaimed(t[i]) ELSE t[i]
  BY DEF ReclaimExpired
<1>4. \A i \in C : i \in DOMAIN r /\ Claimable(r, i)
  BY DEF ClaimIds, FirstRows
<1>5. DOMAIN s = DOMAIN r /\ \A i \in DOMAIN r : s[i] = IF i \in C THEN Leased(r[i], u) ELSE r[i]
  BY DEF Lease
<1>6. \A i \in DOMAIN r : r[i] \in Row
  BY <1>2 DEF IsTable
<1> HIDE DEF r, C, s
<1>7. \A i \in DOMAIN t :
        /\ r[i].key = t[i].key /\ r[i].pred = t[i].pred /\ r[i].dep = t[i].dep
        /\ r[i].work = t[i].work /\ r[i].attempted = t[i].attempted
        /\ r[i].state = t[i].state \/ (t[i].state = "inflight" /\ r[i].state = "retry_wait")
  BY <1>1, <1>3 DEF Reclaimed, Row
<1>8. Ordered(r, K)
  <2>1. TriedFirst(r)
    BY <1>2, <1>7 DEF Ordered, TriedFirst
  <2>2. Advances(t, r, K)
    BY <1>2, <1>7, <2>1 DEF Advances, Finished
  <2> QED
    BY <2>2, AdvancesOrder
<1>9. \A i \in DOMAIN r :
        /\ s[i].key = r[i].key /\ s[i].pred = r[i].pred /\ s[i].dep = r[i].dep
        /\ s[i].work = r[i].work
        /\ i \in C => s[i].attempted /\ s[i].state = "inflight"
        /\ i \notin C => s[i] = r[i]
  BY ZenonT(60), <1>5, <1>6 DEF Leased, Row
<1>10. ASSUME NEW i \in C, r[i].key \in CameraKeys, NEW j \in RowsOf(r, r[i].key), j < i
       PROVE  r[j].state \in Finished
  <2>1. i \in DOMAIN r /\ j \in DOMAIN r /\ DOMAIN r \subseteq Nat
    BY <1>2, <1>4 DEF RowsOf, IsTable
  <2> DEFINE p == r[i].pred
  <2>2. CASE p = NoId
    BY <2>1, <2>2, <1>8, <1>10 DEF Ordered, FollowsLatest
  <2>3. CASE p # NoId
    <3>1. p \in RowsOf(r, r[i].key) /\ p < i /\ j <= p /\ p \in DOMAIN r /\ r[p].key = r[i].key
      BY <2>1, <2>3, <1>8, <1>10 DEF Ordered, RefersBack, FollowsLatest, RowsOf
    <3>2. r[p].state \in Finished
      BY <2>1, <2>3, <1>4 DEF Claimable
    <3>3. i \in RowsOf(r, r[i].key)
      BY <2>1 DEF RowsOf
    <3>4. i <= Latest(r, r[i].key) /\ Latest(r, r[i].key) \in Nat
      BY <1>2, <2>1, <3>3, LatestIsRow DEF RowsOf, NoId
    <3>5. p # Latest(r, r[i].key)
      BY <2>1, <3>1, <3>4
    <3>6. j < p \/ j = p
      BY <2>1, <3>1
    <3> QED
      BY <1>8, <1>10, <3>1, <3>2, <3>5, <3>6 DEF Ordered, FinishedInOrder
  <2> QED
    BY <2>2, <2>3
<1>11. Ordered(s, K)
  <2>1. TriedFirst(s)
    BY <1>5, <1>8, <1>9 DEF Ordered, TriedFirst
  <2>2. \A i \in DOMAIN r : r[i].state \in Finished => i \notin C
    BY <1>4 DEF Claimable, Waiting, Finished
  <2>3. \A i \in DOMAIN r : r[i].state \in Finished => s[i].state \in Finished
    BY <2>2, <1>9
  <2>4. \A i \in DOMAIN r : s[i].state \in Finished => r[i].state \in Finished
    BY <1>9 DEF Finished
  <2>5. \A i \in DOMAIN r : s[i].attempted /\ ~r[i].attempted => i \in C
    BY <1>9
  <2>6. Advances(r, s, K)
    BY <1>5, <1>9, <1>10, <2>1, <2>3, <2>4, <2>5 DEF Advances
  <2> QED
    BY <2>6, <1>8, AdvancesOrder
<1>12. KeepsWork(t, s)
  BY <1>2, <1>5, <1>7, <1>9 DEF KeepsWork
<1> QED
  BY <1>11, <1>12 DEF r, C, s

\* What one step of the queue does to the order and to work that was leased.
StepKeeps == OrderInv' /\ KeepsWork(q, q')

\* A settled lease: its row was attempted and changes in state only.
LEMMA SettleOrder ==
  ASSUME TypeOK, OrderInv, NEW i, NEW u, NEW r,
         Owned(q, i, u, expired) =>
           /\ r.key = q[i].key /\ r.pred = q[i].pred /\ r.dep = q[i].dep
           /\ r.work = q[i].work /\ r.attempted = q[i].attempted,
         q' = IF Owned(q, i, u, expired) THEN [q EXCEPT ![i] = r] ELSE q,
         UNCHANGED closed
  PROVE  StepKeeps
<1>1. CASE Owned(q, i, u, expired)
  <2>1. i \in DOMAIN q /\ q[i].state = "inflight" /\ q[i].attempted
    BY <1>1 DEF Owned, OrderInv, Ordered, TriedFirst
  <2>2. /\ r.key = q[i].key /\ r.pred = q[i].pred /\ r.dep = q[i].dep
        /\ r.work = q[i].work /\ r.attempted = q[i].attempted /\ q' = [q EXCEPT ![i] = r]
    BY <1>1
  <2>3. q[i].state \notin Finished /\ Ordered(q, closed)
    BY <2>1 DEF OrderInv, Finished
  <2>4. Ordered([q EXCEPT ![i] = r], closed)
    BY <2>1, <2>2, <2>3, RowOrder
  <2>5. KeepsWork(q, q')
    BY <2>1, <2>2 DEF KeepsWork
  <2> QED
    BY <2>2, <2>4, <2>5 DEF StepKeeps, OrderInv
<1>2. CASE ~Owned(q, i, u, expired)
  BY <1>2 DEF StepKeeps, OrderInv, KeepsWork
<1> QED
  BY <1>1, <1>2

\* A row that is rewritten in its state alone, and not into a finished one.
LEMMA UnfinishedRowOrder ==
  ASSUME OrderInv, NEW i \in DOMAIN q, NEW r,
         r.key = q[i].key /\ r.pred = q[i].pred /\ r.dep = q[i].dep,
         r.work = q[i].work /\ r.attempted = q[i].attempted,
         r.state = q[i].state \/ (q[i].state = "dead_letter" /\ r.state = "pending"),
         q' = [q EXCEPT ![i] = r], UNCHANGED closed
  PROVE  StepKeeps
<1>1. r.state \in {"inflight", "succeeded", "dead_letter"} => r.attempted
  BY DEF OrderInv, Ordered, TriedFirst
<1>2. r.state \in Finished => q[i].state \in Finished
  BY DEF Finished
<1>3. q[i].state \in Finished => r.state \in Finished
  BY DEF Finished
<1>4. Ordered(q', closed)
  BY <1>1, <1>2, <1>3, RowOrder DEF OrderInv
<1>5. KeepsWork(q, q')
  BY DEF KeepsWork
<1> QED
  BY <1>4, <1>5 DEF StepKeeps, OrderInv

\* begin_revocation: session:revoke has no camera's order to keep, and the row
\* it leases is pending, so never attempted or put back by an operator.
LEMMA BeginRevocationOrder ==
  ASSUME TypeOK, OrderInv, NEW w \in RevokeWork, BeginRevocation(w)
  PROVE  StepKeeps
<1> DEFINE k == RevokeKey
           e == Enqueue(q, k, w, NoId, nextId + 1)
           i == EnqueuedId(q, k, nextId + 1)
           r == Leased(e[i], nextTok + 1)
<1>1. /\ nextId \in Nat /\ IsTable(q, nextId) /\ nextTok + 1 \in Nat
      /\ k \in Keys /\ w \in Work /\ k \notin CameraKeys /\ k \notin RecordKeys
  BY TableType, KeysAssumption DEF TypeOK, Keys, Work
<1>2. q' = [e EXCEPT ![i] = r] /\ closed' = closed
  BY DEF BeginRevocation, EnqueueLeased
<1>3. Ordered(e, closed) /\ KeepsWork(q, e)
  BY <1>1, EnqueueOrder DEF OrderInv
<1>4. /\ IsTable(e, IF Coalesces(q, k) THEN nextId ELSE nextId + 1)
      /\ i \in DOMAIN e /\ e[i].state = "pending"
  BY <1>1, EnqueueFacts DEF NoId
<1>5. e[i].key = k
  <2>1. CASE Coalesces(q, k)
    <3>1. Latest(q, k) \in RowsOf(q, k) /\ i = Latest(q, k)
      BY <1>1, <2>1, LatestIsRow DEF Coalesces, EnqueuedId
    <3>2. i \in DOMAIN q /\ q[i].key = k /\ q[i] \in Row
      BY <1>1, <3>1 DEF RowsOf, IsTable
    <3>3. e[i] = Rewritten(q[i], w, NoId)
      BY <2>1, <3>1, <3>2 DEF Enqueue
    <3> QED
      BY <3>2, <3>3 DEF Rewritten, Row
  <2>2. CASE ~Coalesces(q, k)
    <3>1. i = nextId + 1
      BY <2>2 DEF EnqueuedId
    <3>2. e = Insert(q, nextId + 1, NewRow(k, w, Latest(q, k), NoId))
      BY <2>2 DEF Enqueue
    <3> QED
      BY <3>1, <3>2 DEF Insert, NewRow
  <2> QED
    BY <2>1, <2>2
<1>6. e[i] \in Row
  BY <1>4 DEF IsTable
<1> HIDE DEF e, i, k
<1>7. /\ r.key = e[i].key /\ r.pred = e[i].pred /\ r.dep = e[i].dep /\ r.work = e[i].work
      /\ r.state = "inflight" /\ r.attempted
  BY <1>6 DEF Leased, Row
<1> HIDE DEF r
<1>8. Ordered(q', closed)
  BY <1>1, <1>2, <1>3, <1>4, <1>5, <1>7, RowOrder DEF Finished
<1>9. \A j \in DOMAIN e : q'[j].work = e[j].work /\ (e[j].attempted => q'[j].attempted)
  BY <1>2, <1>4, <1>7
<1>10. DOMAIN q' = DOMAIN e
  BY <1>2
<1>11. KeepsWork(q, q')
  BY <1>3, <1>9, <1>10 DEF KeepsWork
<1> QED
  BY <1>2, <1>8, <1>11 DEF StepKeeps, OrderInv

\* Every step keeps the order and what was leased: one case for each action.
LEMMA NextKeeps == TypeOK /\ OrderInv /\ [Next]_vars => StepKeeps
<1> SUFFICES ASSUME TypeOK, OrderInv, [Next]_vars PROVE StepKeeps
  OBVIOUS
<1> USE DEF Next, Enqueuing, Flushing, Other
<1>1. nextId \in Nat /\ nextTok \in Nat /\ IsTable(q, nextId) /\ Ordered(q, closed)
  BY TableType DEF TypeOK, OrderInv
<1>2. \A i \in DOMAIN q : q[i] \in Row
  BY <1>1 DEF IsTable
<1>3. ASSUME NEW k \in CameraKeys, NEW w \in CameraWork,
             MutateCamera(k, w) \/ DeleteCamera(k, w)
      PROVE  StepKeeps
  <2>1. /\ q' = Enqueue(q, k, w, NoId, nextId + 1) /\ k \notin closed /\ closed \subseteq closed'
        /\ k \in Keys /\ w \in Work /\ k \notin RecordKeys
    BY <1>3, KeysAssumption DEF MutateCamera, DeleteCamera, Keys, Work
  <2> QED
    BY <1>1, <2>1, EnqueueOrder DEF StepKeeps, OrderInv
<1>4. ASSUME NEW k \in CameraKeys, DropCamera(k)
      PROVE  StepKeeps
  <2> DEFINE l == Latest(q, k)
             C == {i \in DOMAIN q : (i = l \/ q[i].dep = l) /\ q[i].state \in Waiting}
  <2>1. q' = Cancel(q, C) /\ closed' = closed \cup {k} /\ l # NoId
    BY <1>4 DEF DropCamera, CancelLatest
  <2>2. l \in RowsOf(q, k)
    BY <1>1, <2>1, LatestIsRow
  <2>3. ASSUME NEW i \in DOMAIN q, i \in C, q[i].key \in CameraKeys
        PROVE  q[i].key \in closed' /\ i = Latest(q, q[i].key)
    <3>1. q[i].dep = NoId
      BY <1>1, <2>3 DEF Ordered, RefersBack
    <3>2. i = l
      BY <2>1, <2>3, <3>1
    <3>3. q[i].key = k
      BY <2>2, <3>2 DEF RowsOf
    <3> QED
      BY <2>1, <3>2, <3>3
  <2> QED
    BY <1>1, <2>1, <2>3, CancelOrder DEF StepKeeps, OrderInv
<1>5. ASSUME NEW k \in RecordKeys, NEW w \in RecordWork, NEW c \in CameraKeys,
             AddRecord(k, w, c)
      PROVE  StepKeeps
  <2>1. PICK d \in {NoId, Lowest(q, c)} : q' = Enqueue(q, k, w, d, nextId + 1)
    BY <1>5 DEF AddRecord
  <2>2. d \in DOMAIN q \cup {NoId}
    BY <1>1, <2>1, LowestIsRow DEF RowsOf
  <2>3. k \in Keys /\ w \in Work /\ k \notin CameraKeys /\ k \notin closed /\ closed' = closed \cup {k}
    BY <1>5, KeysAssumption DEF AddRecord, Keys, Work
  <2> QED
    BY <1>1, <2>1, <2>2, <2>3, EnqueueOrder DEF StepKeeps, OrderInv
<1>6. ASSUME NEW w \in RevokeWork, BeginRevocation(w)
      PROVE  StepKeeps
  BY <1>6, BeginRevocationOrder
<1>7. CASE SaveSession
  <2> DEFINE C == {i \in RowsOf(q, RevokeKey) : q[i].state \in Waiting \cup {"dead_letter"}}
  <2>1. q' = Cancel(q, C) /\ closed' = closed
    BY <1>7 DEF SaveSession, CancelKey
  <2>2. \A i \in DOMAIN q : i \in C => q[i].key \notin CameraKeys
    BY KeysAssumption DEF RowsOf
  <2> QED
    BY <1>1, <2>1, <2>2, CancelOrder DEF StepKeeps, OrderInv
<1>8. ASSUME NEW K, NEW n, Claim(K, n)
      PROVE  StepKeeps
  <2>1. /\ q' = Lease(ReclaimExpired(q, expired),
                      ClaimIds(ReclaimExpired(q, expired), K, n), nextTok + 1)
        /\ closed' = closed /\ nextTok + 1 \in Nat
    BY <1>1, <1>8 DEF Claim
  <2> QED
    BY <1>1, <2>1, ClaimOrder DEF StepKeeps, OrderInv
<1>9. ASSUME NEW h \in held, Succeed(h[1], h[2])
      PROVE  StepKeeps
  <2> DEFINE x == q[h[1]]
             r == Completed(x)
  <2>1. x \in Row => /\ r.key = x.key /\ r.pred = x.pred /\ r.dep = x.dep
                     /\ r.work = x.work /\ r.attempted = x.attempted
    BY DEF Completed, Row
  <2>2. Owned(q, h[1], h[2], expired) => x \in Row
    BY <1>2 DEF Owned
  <2> HIDE DEF r
  <2>3. q' = IF Owned(q, h[1], h[2], expired) THEN [q EXCEPT ![h[1]] = r] ELSE q
    BY <1>9 DEF Succeed, Complete, r
  <2> QED
    BY <1>9, <2>1, <2>2, <2>3, SettleOrder DEF Succeed
<1>10. ASSUME NEW h \in held, NEW p \in BOOLEAN, GiveUp(h[1], h[2], p)
       PROVE  StepKeeps
  <2> DEFINE x == q[h[1]]
             r == Failed(x, p, MaxAttempts)
  <2>1. x \in Row => /\ r.key = x.key /\ r.pred = x.pred /\ r.dep = x.dep
                     /\ r.work = x.work /\ r.attempted = x.attempted
    BY DEF Failed, Row
  <2>2. Owned(q, h[1], h[2], expired) => x \in Row
    BY <1>2 DEF Owned
  <2> HIDE DEF r
  <2>3. q' = IF Owned(q, h[1], h[2], expired) THEN [q EXCEPT ![h[1]] = r] ELSE q
    BY <1>10 DEF GiveUp, Fail, r
  <2> QED
    BY <1>10, <2>1, <2>2, <2>3, SettleOrder DEF GiveUp
<1>11. ASSUME UNCHANGED <<q, closed>>
       PROVE  StepKeeps
  BY <1>11 DEF StepKeeps, OrderInv, KeepsWork
<1>12. CASE Purge
  <2>1. q' = PurgeRetained(q) /\ closed' = closed /\ DOMAIN q' = DOMAIN q \ Purgeable(q)
    BY <1>12 DEF Purge, PurgeRetained
  <2>2. Ordered(q', closed)
    BY <1>1, <2>1, PurgeOrder
  <2>3. KeepsWork(q, q')
    BY <1>1, <2>1, PurgedRow DEF KeepsWork
  <2> QED
    BY <2>1, <2>2, <2>3 DEF StepKeeps, OrderInv
<1>13. ASSUME NEW i \in DOMAIN q, Retry(i)
       PROVE  StepKeeps
  <2> DEFINE r == Requeued(q[i])
  <2>1. /\ r.key = q[i].key /\ r.pred = q[i].pred /\ r.dep = q[i].dep
        /\ r.work = q[i].work /\ r.attempted = q[i].attempted /\ r.state = "pending"
    BY <1>2 DEF Requeued, Row
  <2>2. q' = [q EXCEPT ![i] = r] /\ closed' = closed /\ q[i].state = "dead_letter"
    BY <1>13 DEF Retry, RetryDeadLetter
  <2> HIDE DEF r
  <2> QED
    BY <2>1, <2>2, UnfinishedRowOrder
<1>14. ASSUME NEW i \in DOMAIN q, Discard(i)
       PROVE  StepKeeps
  <2>1. q' = Cancel(q, {i}) /\ closed' = closed /\ q[i].attempted
    BY <1>1, <1>14 DEF Discard, DiscardDeadLetter, Ordered, TriedFirst
  <2> QED
    BY <1>1, <2>1, CancelOrder DEF StepKeeps, OrderInv
<1>15. ASSUME NEW i \in DOMAIN q, BackoffElapses(i)
       PROVE  StepKeeps
  <2> DEFINE r == [q[i] EXCEPT !.due = TRUE]
  <2>1. /\ r.key = q[i].key /\ r.pred = q[i].pred /\ r.dep = q[i].dep
        /\ r.work = q[i].work /\ r.attempted = q[i].attempted /\ r.state = q[i].state
    BY <1>2 DEF Row
  <2>2. q' = [q EXCEPT ![i] = r] /\ closed' = closed
    BY <1>15 DEF BackoffElapses
  <2> HIDE DEF r
  <2> QED
    BY <2>1, <2>2, UnfinishedRowOrder
<1>16. ASSUME NEW i \in DOMAIN q, RetentionElapses(i)
       PROVE  StepKeeps
  <2> DEFINE r == [q[i] EXCEPT !.old = TRUE]
  <2>1. /\ r.key = q[i].key /\ r.pred = q[i].pred /\ r.dep = q[i].dep
        /\ r.work = q[i].work /\ r.attempted = q[i].attempted /\ r.state = q[i].state
    BY <1>2 DEF Row
  <2>2. q' = [q EXCEPT ![i] = r] /\ closed' = closed
    BY <1>16 DEF RetentionElapses
  <2> HIDE DEF r
  <2> QED
    BY <2>1, <2>2, UnfinishedRowOrder
<1>17. ASSUME NEW u, LeaseExpires(u) \/ Abandon(u)
       PROVE  StepKeeps
  BY <1>11, <1>17 DEF LeaseExpires, Abandon
<1>18. CASE UNCHANGED vars
  BY <1>11, <1>18 DEF vars
<1> QED
  BY <1>3, <1>4, <1>5, <1>6, <1>7, <1>8, <1>9, <1>10, <1>12, <1>13, <1>14, <1>15,
     <1>16, <1>17, <1>18

\* The order holds in every reachable table.
LEMMA OrderInvariance == Spec => [](TypeOK /\ OrderInv)
<1>1. TypeOK /\ OrderInv /\ [Next]_vars => OrderInv'
  BY NextKeeps DEF StepKeeps
<1> QED
  BY TypeCorrect, InitOrder, <1>1, PTL DEF Spec

\* The versions of one camera, and the one of a record, are sent in order: an
\* earlier version that is still stored has succeeded or was cancelled when a
\* later one is leased, although purging cuts the chain of predecessors.
THEOREM VersionsStayInOrder == Spec => []VersionsInOrder
<1>1. TypeOK /\ OrderInv => VersionsInOrder
  <2> SUFFICES ASSUME TypeOK, OrderInv, NEW j \in DOMAIN q, q[j].attempted,
                      q[j].key # RevokeKey, NEW i \in RowsOf(q, q[j].key), i < j
               PROVE  q[i].state \in Finished
    BY DEF VersionsInOrder
  <2>1. q[j].key \in CameraKeys \cup RecordKeys
    BY DEF TypeOK, Row, Keys
  <2>2. CASE q[j].key \in CameraKeys
    BY <2>2 DEF OrderInv, Ordered, TriedInOrder
  <2>3. CASE q[j].key \in RecordKeys
    <3>1. i = j /\ j \in Nat
      BY <2>3 DEF OrderInv, Ordered, RecordOnce, TypeOK
    <3> QED
      BY <3>1
  <2> QED
    BY <2>1, <2>2, <2>3
<1> QED
  BY OrderInvariance, <1>1, PTL

\* No row refers to one that is gone, so no row waits for work nobody can finish.
THEOREM ReferencesAlwaysResolve == Spec => []ReferencesResolve
<1>1. TypeOK /\ OrderInv => ReferencesResolve
  BY DEF OrderInv, Ordered, RefersBack, ReferencesResolve, RowsOf, NoId
<1> QED
  BY OrderInvariance, <1>1, PTL

\* A camera with waiting rows has one that is being sent, that an operator can
\* act on, or that only time keeps from being claimed: its first unfinished row.
THEOREM CamerasAreNotWedged == Spec => []CameraNeverWedged
<1>1. TypeOK /\ OrderInv => CameraNeverWedged
  <2> SUFFICES ASSUME TypeOK, OrderInv, NEW k \in CameraKeys,
                      NEW i \in RowsOf(q, k), q[i].state \in Waiting
               PROVE  \E j \in RowsOf(q, k) :
                         \/ q[j].state \in {"inflight", "dead_letter"}
                         \/ /\ q[j].state \in Waiting
                            /\ \/ q[j].pred = NoId
                               \/ q[j].pred \in DOMAIN q /\ q[q[j].pred].state \in Finished
    BY DEF CameraNeverWedged
  <2> DEFINE U == {j \in RowsOf(q, k) : q[j].state \notin Finished}
  <2>1. U \subseteq Nat /\ i \in U
    BY DEF TypeOK, RowsOf, Waiting, Finished
  <2>2. PICK j \in U : \A m \in U : ~(<<m, j>> \in OpToRel(<, Nat))
    BY <2>1, WFMin, NatLessThanWellFounded
  <2>3. \A m \in U : ~(m < j)
    BY <2>1, <2>2 DEF OpToRel
  <2>4. j \in DOMAIN q /\ j \in RowsOf(q, k) /\ q[j].key = k /\ q[j].state \in States
    BY DEF RowsOf, TypeOK, Row
  <2>5. q[j].state \in Waiting \/ q[j].state \in {"inflight", "dead_letter"}
    BY <2>2, <2>4 DEF States, Waiting, Finished
  <2>6. q[j].pred # NoId => q[j].pred \in RowsOf(q, k) /\ q[j].pred < j
    BY <2>4 DEF OrderInv, Ordered, RefersBack
  <2>7. q[j].pred # NoId => q[j].pred \in DOMAIN q /\ q[q[j].pred].state \in Finished
    BY <2>3, <2>6 DEF RowsOf
  <2> QED
    BY <2>4, <2>5, <2>7
<1> QED
  BY OrderInvariance, <1>1, PTL

\* Work that was leased once is never rewritten: a mutation that arrives while it
\* is sent, or waits for its next attempt, becomes a version of its own.
THEOREM WorkIsImmutable == Spec => WorkImmutable
<1>1. TypeOK /\ OrderInv /\ [Next]_vars =>
        [\A i \in DOMAIN q \cap DOMAIN q' :
           q[i].attempted => q'[i].work = q[i].work /\ q'[i].attempted]_vars
  BY NextKeeps DEF StepKeeps, KeepsWork
<1> QED
  BY OrderInvariance, <1>1, PTL DEF Spec, WorkImmutable
=============================================================================
