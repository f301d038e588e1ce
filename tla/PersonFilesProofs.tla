-------------------------- MODULE PersonFilesProofs --------------------------
(***************************************************************************)
(* Machine-checked proofs about PersonFiles, for any persons, number of    *)
(* concurrent handlers and passes, limit of a pass, and number of faults.  *)
(***************************************************************************)
EXTENDS PersonFiles, SequenceTheorems, WellFoundedInduction, TLAPS

-----------------------------------------------------------------------------
(* The inductive invariant, in parts.                                      *)

Request == [pc : {"idle", "upload", "commit", "compensate", "sweep"},
            op : {"none", "create", "update", "delete"}, p : Persons \union {"none"},
            old : 0..MaxImages, new : 0..MaxImages]
PassState == [pc : {"idle", "row", "mark"}, rows : SUBSET Nat]
OutboxRow == [img : Images, done : BOOLEAN]

\* The tables, the handlers and the passes are typed.
FilesTypeOK ==
  /\ face \in [Persons -> 0..MaxImages] /\ outbox \in Seq(OutboxRow)
  /\ store \subseteq Images /\ drawn \in 0..MaxImages
  /\ req \in [Requests -> Request] /\ pass \in [Processors -> PassState]
  /\ faults \in 0..MaxFaults /\ lost \subseteq Images /\ excused \subseteq Images

\* An image is of one person, and no name is drawn twice.
NamesAreFresh ==
  /\ \A p, q \in Persons : face[p] = face[q] => p = q \/ face[p] = NoRow
  /\ \A p \in Persons : face[p] <= drawn
  /\ \A i \in DOMAIN outbox : outbox[i].img <= drawn
  /\ \A x \in store : x <= drawn
  /\ \A r \in Requests : req[r].old <= drawn /\ req[r].new <= drawn
  /\ \A r, o \in Requests : req[r].new = req[o].new => r = o \/ req[r].new = NoRow

\* An object that has been uploaded and not committed.
Fresh(r) == At(r, "commit") /\ req[r].op # "delete"

\* What a handler works on, by where it is.
HandlersKnow ==
  \A r \in Requests :
    /\ req[r].pc # "idle" => req[r].p \in Persons /\ req[r].op # "none"
    /\ At(r, "upload") => req[r].op # "delete"
    /\ At(r, "compensate") => req[r].op # "delete" /\ req[r].new # NoRow
    /\ Fresh(r) <=> At(r, "commit") /\ req[r].new # NoRow
    /\ req[r].op = "update" => req[r].old # NoRow /\ req[r].old # req[r].new
    /\ req[r].op = "create" /\ req[r].pc \in {"upload", "commit"} =>
         /\ face[req[r].p] = NoRow
         /\ \A o \in Requests : req[o].pc # "idle" /\ req[o].p = req[r].p => o = r

\* An object before its commit is stored and nobody else's; one that update_face read
\* is no other person's; one whose commit is in doubt is a face only if it was carried out.
ObjectsOwned ==
  /\ \A r \in Requests : Fresh(r) =>
       /\ req[r].new \in store
       /\ \A p \in Persons : face[p] # req[r].new
       /\ \A i \in DOMAIN outbox : outbox[i].img # req[r].new
       /\ \A o \in Requests : req[o].op = "update" => req[o].old # req[r].new
  /\ \A r \in Requests : req[r].op = "update" =>
       \A p \in Persons : face[p] = req[r].old => p = req[r].p
  /\ \A r \in Requests : At(r, "compensate") =>
       \A p \in Persons : face[p] = req[r].new => face[p] \in lost

\* An object in the outbox is nobody's face, and it is gone before its row is marked.
OutboxDead ==
  /\ \A i \in DOMAIN outbox, p \in Persons : face[p] = outbox[i].img => face[p] \in lost
  /\ \A i \in DOMAIN outbox : outbox[i].done => outbox[i].img \notin store
  /\ \A x \in Processors :
       /\ pass[x].rows \subseteq DOMAIN outbox
       /\ pass[x].pc = "mark" => pass[x].rows # {} /\ outbox[AtRow(x)].img \notin store

FilesInv == /\ FilesTypeOK /\ NamesAreFresh /\ HandlersKnow /\ ObjectsOwned /\ OutboxDead
            /\ FaceIsStored /\ NothingLeaks

\* A request makes a pass only after its commit.
SweepsOwn == \A r \in Requests : pass[r].pc # "idle" => At(r, "sweep")

IInv == FilesInv /\ SweepsOwn

-----------------------------------------------------------------------------
(* Facts used throughout.                                                  *)

LEMMA Constants == 0 \in 0..MaxImages /\ Images \subseteq 0..MaxImages /\ NoRow \notin Images
BY FilesAssumption DEF Images, NoRow

\* A handler that has returned works on nothing.
LEMMA IdleRequest ==
  /\ Idle \in Request /\ Idle.pc = "idle" /\ Idle.op = "none" /\ Idle.old = NoRow /\ Idle.new = NoRow
  /\ NoPass \in PassState /\ NoPass.pc = "idle" /\ NoPass.rows = {}
BY Constants DEF Idle, Request, NoRow, NoPass, PassState

LEMMA OutboxDomain ==
  ASSUME FilesTypeOK
  PROVE  DOMAIN outbox \subseteq Nat /\ \A i \in DOMAIN outbox : outbox[i] \in OutboxRow
BY LenProperties, ElementOfSeq DEF FilesTypeOK

\* A pass with rows left is at one of them.
LEMMA AtRowIsTodo ==
  ASSUME FilesTypeOK, NEW x \in Processors, pass[x].rows # {}
  PROVE  AtRow(x) \in pass[x].rows
<1> DEFINE T == pass[x].rows
<1>1. T \subseteq Nat /\ T # {}
  BY DEF FilesTypeOK, PassState
<1>2. PICK m \in T : \A k \in T : ~(<<k, m>> \in OpToRel(<, Nat))
  <2> HIDE DEF T
  <2> QED
    BY <1>1, WFMin, NatLessThanWellFounded
<1>3. \A k \in T : ~(k < m)
  BY <1>1, <1>2 DEF OpToRel
<1>4. \A k \in T : m <= k
  BY <1>1, <1>3
<1> QED
  BY <1>4 DEF AtRow, Min

LEMMA MarkedRow ==
  ASSUME FilesInv, NEW x \in Processors, pass[x].rows # {}
  PROVE  AtRow(x) \in DOMAIN outbox
BY AtRowIsTodo DEF FilesInv, OutboxDead

\* enqueue_external_cleanup keeps the rows there are, and adds one for the object when
\* it has none.
LEMMA EnqueuedKeeps ==
  ASSUME FilesTypeOK, NEW img \in Images
  PROVE  LET e == Enqueued(img)
         IN  /\ e \in Seq(OutboxRow) /\ DOMAIN e \subseteq Nat
             /\ \A i \in DOMAIN outbox : i \in DOMAIN e /\ e[i] = outbox[i]
             /\ \A i \in DOMAIN e : i \in DOMAIN outbox \/ (e[i].img = img /\ ~e[i].done)
             /\ \E i \in DOMAIN e : e[i].img = img
<1> DEFINE n == [img |-> img, done |-> FALSE]
           e == Enqueued(img)
<1>1. outbox \in Seq(OutboxRow) /\ n \in OutboxRow /\ n.img = img /\ ~n.done
  BY DEF FilesTypeOK, OutboxRow
<1>2. CASE \E i \in DOMAIN outbox : outbox[i].img = img
  <2>1. e = outbox
    BY <1>2 DEF Enqueued
  <2> QED
    BY <1>1, <1>2, <2>1, OutboxDomain
<1>3. CASE ~\E i \in DOMAIN outbox : outbox[i].img = img
  <2>1. e = Append(outbox, n)
    BY <1>3 DEF Enqueued
  <2> HIDE DEF n, e
  <2>2. /\ e \in Seq(OutboxRow) /\ Len(e) = Len(outbox) + 1 /\ Len(outbox) \in Nat
        /\ \A i \in 1..Len(outbox) : e[i] = outbox[i]
        /\ e[Len(outbox) + 1] = n
    BY <1>1, <2>1, AppendProperties, LenProperties
  <2>3. DOMAIN outbox = 1..Len(outbox) /\ DOMAIN e = 1..(Len(outbox) + 1)
    BY <1>1, <2>2, LenProperties
  <2>4. \A i \in DOMAIN e : i \in DOMAIN outbox \/ i = Len(outbox) + 1
    BY <2>2, <2>3
  <2> QED
    BY <1>1, <2>2, <2>3, <2>4 DEF e
<1> QED
  BY <1>2, <1>3

\* Every image named anywhere is a number the names are drawn from.
LEMMA NamesTyped ==
  ASSUME FilesTypeOK
  PROVE  /\ \A i \in DOMAIN outbox : outbox[i].img \in 0..MaxImages
         /\ \A o \in Requests : req[o].old \in 0..MaxImages /\ req[o].new \in 0..MaxImages
         /\ \A p \in Persons : face[p] \in 0..MaxImages
         /\ \A k \in store : k \in 0..MaxImages
BY OutboxDomain, Constants DEF FilesTypeOK, OutboxRow, Request

LEMMA InitFilesInv == Init => FilesInv
<1> SUFFICES ASSUME Init PROVE FilesInv
  OBVIOUS
<1>1. PICK n \in 0..Cardinality(Persons) :
        \E f \in [Persons -> 0..n] :
          /\ n <= MaxImages
          /\ \A i \in 1..n : \E p \in Persons : f[p] = i
          /\ \A p, q \in Persons : f[p] = f[q] => p = q \/ f[p] = NoRow
          /\ face = f /\ store = 1..n /\ drawn = n
  BY DEF Init
<1>2. /\ n <= MaxImages /\ face \in [Persons -> 0..n] /\ store = 1..n /\ drawn = n
      /\ \A i \in 1..n : \E p \in Persons : face[p] = i
      /\ \A p, q \in Persons : face[p] = face[q] => p = q \/ face[p] = NoRow
  BY <1>1
<1>3. /\ outbox = << >> /\ req = [r \in Requests |-> Idle] /\ pass = [x \in Processors |-> NoPass]
      /\ faults = 0 /\ lost = {} /\ excused = {} /\ DOMAIN outbox = {}
  BY DEF Init
<1>4. n \in Nat
  BY FilesAssumption
<1>5. \A r \in Requests : req[r] = Idle
  BY <1>3
<1>6. FilesTypeOK
  <2>1. face \in [Persons -> 0..MaxImages] /\ store \subseteq Images /\ drawn \in 0..MaxImages
    BY <1>2, <1>4, FilesAssumption DEF Images
  <2>2. req \in [Requests -> Request] /\ pass \in [Processors -> PassState] /\ faults \in 0..MaxFaults
    BY <1>3, IdleRequest, FilesAssumption
  <2> QED
    BY <1>3, <2>1, <2>2, EmptySeq DEF FilesTypeOK
<1>7. NamesAreFresh
  BY <1>2, <1>3, <1>4, <1>5, IdleRequest DEF NamesAreFresh, NoRow
<1>8. HandlersKnow /\ ObjectsOwned /\ OutboxDead
  BY <1>3, <1>5, IdleRequest DEF HandlersKnow, ObjectsOwned, OutboxDead, Fresh, At
<1>9. FaceIsStored /\ NothingLeaks
  BY <1>2, <1>4 DEF FaceIsStored, NothingLeaks, NoRow
<1> QED
  BY <1>6, <1>7, <1>8, <1>9 DEF FilesInv

-----------------------------------------------------------------------------
(* The handlers up to their commit.                                        *)

\* A handler begins: no other works on a person that is being created, and the image
\* update_face reads is that person's.
LEMMA BeginsStep ==
  ASSUME FilesInv, NEW r \in Requests, NEW p \in Persons,
         CreatePerson(r, p) \/ UpdateFace(r, p) \/ DeletePerson(r, p)
  PROVE  FilesInv'
<1>1. PICK x \in Request :
        /\ req' = [req EXCEPT ![r] = x] /\ x.p = p /\ x.new = NoRow
        /\ \/ x.op = "create" /\ x.pc = "upload" /\ x.old = NoRow /\ face[p] = NoRow
              /\ \A o \in Requests : req[o].p # p
           \/ x.op = "update" /\ x.pc = "upload" /\ x.old = face[p] /\ face[p] # NoRow
           \/ x.op = "delete" /\ x.pc = "commit" /\ x.old = NoRow /\ face[p] # NoRow
  <2>0. face[p] \in 0..MaxImages
    BY DEF FilesInv, FilesTypeOK
  <2>1. CASE CreatePerson(r, p)
    <3> DEFINE x == [pc |-> "upload", op |-> "create", p |-> p, old |-> NoRow, new |-> NoRow]
    <3>1. x \in Request
      BY Constants DEF Request, NoRow
    <3> QED
      BY <2>1, <3>1 DEF CreatePerson, Begins
  <2>2. CASE UpdateFace(r, p)
    <3> DEFINE x == [pc |-> "upload", op |-> "update", p |-> p, old |-> face[p], new |-> NoRow]
    <3>1. x \in Request
      BY Constants, <2>0 DEF Request, NoRow
    <3> QED
      BY <2>2, <3>1 DEF UpdateFace, Begins
  <2>3. CASE DeletePerson(r, p)
    <3> DEFINE x == [pc |-> "commit", op |-> "delete", p |-> p, old |-> NoRow, new |-> NoRow]
    <3>1. x \in Request
      BY Constants DEF Request, NoRow
    <3> QED
      BY <2>3, <3>1 DEF DeletePerson, Begins
  <2> QED
    BY <2>1, <2>2, <2>3
<1>2. UNCHANGED <<face, outbox, store, drawn, pass, faults, lost, excused>> /\ req[r].pc = "idle"
  BY DEF CreatePerson, UpdateFace, DeletePerson, Begins, table, history, At
<1>3. req'[r] = x /\ (\A o \in Requests \ {r} : req'[o] = req[o]) /\ req' \in [Requests -> Request]
  BY <1>1 DEF FilesInv, FilesTypeOK
<1>4. FilesTypeOK'
  BY <1>2, <1>3 DEF FilesInv, FilesTypeOK
<1>5. NamesAreFresh'
  <2>1. x.old <= drawn /\ NoRow <= drawn
    BY <1>1 DEF FilesInv, NamesAreFresh, FilesTypeOK, NoRow
  <2> QED
    BY <1>1, <1>2, <1>3, <2>1 DEF FilesInv, NamesAreFresh
<1>6. HandlersKnow'
  BY <1>1, <1>2, <1>3 DEF FilesInv, HandlersKnow, Fresh, At
<1>7. ObjectsOwned'
  BY <1>1, <1>2, <1>3 DEF FilesInv, ObjectsOwned, NamesAreFresh, Fresh, At
<1>8. OutboxDead' /\ FaceIsStored'
  BY <1>2 DEF FilesInv, OutboxDead, FaceIsStored, AtRow
<1>9. NothingLeaks'
  BY <1>2, <1>3 DEF FilesInv, NothingLeaks, Pending
<1> QED
  BY <1>4, <1>5, <1>6, <1>7, <1>8, <1>9 DEF FilesInv

\* The object is stored under a name nobody has.
LEMMA UploadsStep ==
  ASSUME FilesInv, NEW r \in Requests, Uploads(r)
  PROVE  FilesInv'
<1> DEFINE n == drawn + 1
           x == [req[r] EXCEPT !.pc = "commit", !.new = n]
<1>1. /\ req[r].pc = "upload" /\ drawn' = n /\ store' = store \union {n} /\ req' = [req EXCEPT ![r] = x]
      /\ UNCHANGED <<face, outbox, pass, faults, lost, excused>>
  BY DEF Uploads, At, table, history
<1>2. n \in Images /\ n \in 0..MaxImages /\ n # NoRow /\ drawn \in Nat /\ n > drawn
  BY FilesAssumption DEF Uploads, FilesInv, FilesTypeOK, Images, NoRow
<1>3. req[r] \in Request /\ x \in Request
  BY <1>2 DEF FilesInv, FilesTypeOK, Request
<1>4. x.pc = "commit" /\ x.new = n /\ x.op = req[r].op /\ x.p = req[r].p /\ x.old = req[r].old
  BY <1>3 DEF Request
<1> HIDE DEF x
<1>5. req'[r] = x /\ (\A o \in Requests \ {r} : req'[o] = req[o]) /\ req' \in [Requests -> Request]
  BY <1>1, <1>3 DEF FilesInv, FilesTypeOK
<1>6. FilesTypeOK'
  BY <1>1, <1>2, <1>5 DEF FilesInv, FilesTypeOK
<1>7. /\ \A p \in Persons : face[p] # n /\ face[p] \in Nat
      /\ \A i \in DOMAIN outbox : outbox[i].img # n
      /\ \A o \in Requests : req[o].old # n /\ req[o].new # n /\ n \notin store
  BY <1>2, OutboxDomain DEF FilesInv, NamesAreFresh, FilesTypeOK, Request
<1>8. NamesAreFresh'
  <2>1. \A k \in 0..MaxImages : k <= drawn => k <= n
    BY <1>2
  <2>2. n <= n
    BY <1>2
  <2> QED
    BY <1>1, <1>4, <1>5, <1>7, <2>1, <2>2, NamesTyped DEF FilesInv, NamesAreFresh
<1>9. HandlersKnow'
  BY <1>1, <1>2, <1>4, <1>5, <1>7 DEF FilesInv, HandlersKnow, Fresh, At
<1>10. ObjectsOwned'
  BY <1>1, <1>4, <1>5, <1>7 DEF FilesInv, ObjectsOwned, Fresh, At
<1>11. OutboxDead' /\ FaceIsStored'
  BY <1>1, <1>7, MarkedRow DEF FilesInv, OutboxDead, FaceIsStored, AtRow
<1>12. NothingLeaks'
  BY <1>1, <1>4, <1>5 DEF FilesInv, NothingLeaks, Pending
<1> QED
  BY <1>6, <1>8, <1>9, <1>10, <1>11, <1>12 DEF FilesInv

\* A handler returns, or moves to a point where it commits nothing any more, and the
\* tables stay: what the others know is untouched.
LEMMA LeavesStep ==
  ASSUME FilesInv, NEW r \in Requests, NEW x \in Request, req' = [req EXCEPT ![r] = x],
         UNCHANGED <<face, outbox, store, lost>>, drawn' \in 0..MaxImages, drawn' >= drawn,
         pass' \in [Processors -> PassState], faults' \in 0..MaxFaults,
         excused \subseteq excused', excused' \subseteq Images,
         \A y \in Processors : pass'[y] = pass[y] \/ pass'[y] = NoPass,
         \/ x = Idle
         \/ /\ Fresh(r) /\ x.pc = "compensate" /\ x.op = req[r].op /\ x.p = req[r].p
            /\ x.old = req[r].old /\ x.new = req[r].new,
         x = Idle /\ req[r].pc \in {"commit", "compensate"} /\ req[r].new \in store =>
           \/ req[r].new \in excused'
           \/ \E i \in Pending : outbox[i].img = req[r].new
           \/ \E p \in Persons : face[p] = req[r].new
  PROVE  FilesInv'
<1>1. req'[r] = x /\ (\A o \in Requests \ {r} : req'[o] = req[o]) /\ req' \in [Requests -> Request]
  BY DEF FilesInv, FilesTypeOK
<1>2. FilesTypeOK'
  BY <1>1 DEF FilesInv, FilesTypeOK
<1>3. \A k \in 0..MaxImages : k <= drawn => k <= drawn'
  BY FilesAssumption DEF FilesInv, FilesTypeOK
<1>4. NamesAreFresh'
  <2>1. x.old <= drawn /\ x.new <= drawn /\ x.new \in {NoRow, req[r].new}
    BY IdleRequest DEF FilesInv, NamesAreFresh, FilesTypeOK, NoRow
  <2> QED
    BY <1>1, <1>3, <2>1, NamesTyped DEF FilesInv, NamesAreFresh, Request
<1>5. HandlersKnow'
  BY <1>1, IdleRequest DEF FilesInv, HandlersKnow, Fresh, At
<1>6. ObjectsOwned'
  BY <1>1, IdleRequest DEF FilesInv, ObjectsOwned, Fresh, At
<1>7. OutboxDead'
  BY IdleRequest DEF FilesInv, OutboxDead, AtRow
<1>8. FaceIsStored'
  BY DEF FilesInv, FaceIsStored
<1>9. NothingLeaks'
  BY <1>1 DEF FilesInv, NothingLeaks, Pending, Fresh, At
<1> QED
  BY <1>2, <1>4, <1>5, <1>6, <1>7, <1>8, <1>9 DEF FilesInv

\* The commit fails: only an uploaded object needs compensation.
LEMMA CommitFailsStep ==
  ASSUME FilesInv, NEW r \in Requests, CommitFails(r)
  PROVE  FilesInv'
<1>1. /\ UNCHANGED <<face, outbox, store, lost, drawn, pass, excused>> /\ req[r].pc = "commit"
      /\ faults' \in 0..MaxFaults
  BY FilesAssumption DEF CommitFails, Fault, table, history, At, FilesInv, FilesTypeOK
<1>2. /\ drawn' \in 0..MaxImages /\ drawn' >= drawn /\ pass' \in [Processors -> PassState]
      /\ excused' \subseteq Images
  BY <1>1, FilesAssumption DEF FilesInv, FilesTypeOK
<1>3. CASE req[r].op = "delete"
  <2>1. req' = [req EXCEPT ![r] = Idle]
    BY <1>3 DEF CommitFails, Returns
  <2>2. req[r].new = NoRow /\ NoRow \notin store
    BY <1>1, <1>3, Constants DEF FilesInv, HandlersKnow, Fresh, At, FilesTypeOK
  <2> QED
    BY <1>1, <1>2, <2>1, <2>2, IdleRequest, LeavesStep
<1>4. CASE req[r].op # "delete"
  <2> DEFINE x == [req[r] EXCEPT !.pc = "compensate"]
  <2>1. req' = [req EXCEPT ![r] = x]
    BY <1>4 DEF CommitFails, Goto
  <2>2. /\ x \in Request /\ x.pc = "compensate" /\ x.op = req[r].op /\ x.p = req[r].p
        /\ x.old = req[r].old /\ x.new = req[r].new
    BY DEF FilesInv, FilesTypeOK, Request
  <2>3. Fresh(r) /\ x # Idle
    BY <1>1, <1>4, <2>2, IdleRequest DEF Fresh, At
  <2> HIDE DEF x
  <2> QED
    BY <1>1, <1>2, <2>1, <2>2, <2>3, LeavesStep
<1> QED
  BY <1>3, <1>4

LEMMA CompensationFailsStep ==
  ASSUME FilesInv, NEW r \in Requests, CompensationFails(r)
  PROVE  FilesInv'
<1>1. /\ UNCHANGED <<face, outbox, store, lost, drawn, pass>> /\ req[r].pc = "compensate"
      /\ faults' \in 0..MaxFaults /\ req' = [req EXCEPT ![r] = Idle]
      /\ excused' = excused \union {req[r].new}
  BY FilesAssumption DEF CompensationFails, Fault, Returns, table, At, FilesInv, FilesTypeOK
<1>2. /\ drawn' \in 0..MaxImages /\ drawn' >= drawn /\ pass' \in [Processors -> PassState]
  BY <1>1, FilesAssumption DEF FilesInv, FilesTypeOK
<1>3. req[r].new \in Images
  BY <1>1, FilesAssumption DEF FilesInv, HandlersKnow, At, FilesTypeOK, Request, Images, NoRow
<1>4. excused' \subseteq Images
  BY <1>1, <1>3 DEF FilesInv, FilesTypeOK
<1> QED
  BY <1>1, <1>2, <1>4, IdleRequest, LeavesStep

\* The upload fails; an object that was stored all the same has no remover.
LEMMA UploadFailsStep ==
  ASSUME FilesInv, NEW r \in Requests, UploadFails(r)
  PROVE  FilesInv'
<1> DEFINE n == drawn + 1
<1>1. /\ UNCHANGED <<face, outbox, lost, pass>> /\ req[r].pc = "upload" /\ drawn' = n
      /\ faults' \in 0..MaxFaults /\ req' = [req EXCEPT ![r] = Idle]
      /\ \/ UNCHANGED <<store, excused>>
         \/ store' = store \union {n} /\ excused' = excused \union {n}
  BY FilesAssumption DEF UploadFails, Fault, Returns, table, At, FilesInv, FilesTypeOK
<1>2. /\ n \in Images /\ n \in 0..MaxImages /\ n >= drawn /\ n > drawn /\ drawn \in Nat
      /\ pass' \in [Processors -> PassState]
  BY <1>1, FilesAssumption DEF UploadFails, FilesInv, FilesTypeOK, Images
<1>3. CASE UNCHANGED <<store, excused>>
  <2>1. excused' \subseteq Images
    BY <1>3 DEF FilesInv, FilesTypeOK
  <2> QED
    BY <1>1, <1>2, <1>3, <2>1, IdleRequest, LeavesStep
<1>4. CASE store' = store \union {n} /\ excused' = excused \union {n}
  <2>1. req'[r] = Idle /\ (\A o \in Requests \ {r} : req'[o] = req[o]) /\ req' \in [Requests -> Request]
    BY <1>1, IdleRequest DEF FilesInv, FilesTypeOK
  <2>2. FilesTypeOK'
    BY <1>1, <1>2, <1>4, <2>1 DEF FilesInv, FilesTypeOK
  <2>3. \A k \in 0..MaxImages : k <= drawn => k <= n
    BY <1>2
  <2>4. NamesAreFresh'
    <3>1. n <= n /\ NoRow <= n
      BY <1>2 DEF NoRow
    <3> QED
      BY <1>1, <1>4, <2>1, <2>3, <3>1, NamesTyped, IdleRequest DEF FilesInv, NamesAreFresh
  <2>5. HandlersKnow'
    BY <1>1, <2>1, IdleRequest DEF FilesInv, HandlersKnow, Fresh, At
  <2>6. ObjectsOwned'
    BY <1>1, <1>4, <2>1, IdleRequest DEF FilesInv, ObjectsOwned, Fresh, At
  <2>7. \A i \in DOMAIN outbox : outbox[i].img # n
    BY <1>2, OutboxDomain DEF FilesInv, NamesAreFresh, FilesTypeOK, OutboxRow
  <2>8. OutboxDead' /\ FaceIsStored'
    BY <1>1, <1>4, <2>7, MarkedRow DEF FilesInv, OutboxDead, FaceIsStored, AtRow
  <2>9. NothingLeaks'
    BY <1>1, <1>4, <2>1 DEF FilesInv, NothingLeaks, Pending
  <2> QED
    BY <2>2, <2>4, <2>5, <2>6, <2>8, <2>9 DEF FilesInv
<1> QED
  BY <1>1, <1>3, <1>4

-----------------------------------------------------------------------------
(* The transactions.                                                       *)

\* What the statements of a handler change: its person's row, and the outbox row of the
\* image they replace.
LEMMA AppliedFacts ==
  ASSUME FilesInv, NEW r \in Requests, At(r, "commit"), Applied(req[r]),
         req[r].op = "delete" => face[req[r].p] # NoRow
  PROVE  /\ req[r].p \in Persons /\ face' \in [Persons -> 0..MaxImages]
         /\ outbox' \in Seq(OutboxRow) /\ DOMAIN outbox' \subseteq Nat
         /\ \A p \in Persons \ {req[r].p} : face'[p] = face[p]
         /\ face'[req[r].p] = IF \/ req[r].op = "delete"
                                 \/ req[r].op = "update" /\ face[req[r].p] = NoRow
                              THEN NoRow ELSE req[r].new
         /\ \A i \in DOMAIN outbox : i \in DOMAIN outbox' /\ outbox'[i] = outbox[i]
         /\ \A i \in DOMAIN outbox' :
              \/ i \in DOMAIN outbox
              \/ /\ ~outbox'[i].done
                 /\ \/ req[r].op = "update" /\ outbox'[i].img = req[r].old
                    \/ req[r].op = "delete" /\ outbox'[i].img = face[req[r].p]
         /\ req[r].op = "update" => \E i \in DOMAIN outbox' : outbox'[i].img = req[r].old
         /\ req[r].op = "delete" => \E i \in DOMAIN outbox' : outbox'[i].img = face[req[r].p]
<1> DEFINE q == req[r]
<1>1. q.p \in Persons /\ q.op \in {"create", "update", "delete"} /\ q.new \in 0..MaxImages
  BY DEF FilesInv, HandlersKnow, FilesTypeOK, Request, At
<1>2. FilesTypeOK /\ face[q.p] \in 0..MaxImages /\ 0 \in 0..MaxImages
  BY <1>1, Constants DEF FilesInv, FilesTypeOK
<1>3. face \in [Persons -> 0..MaxImages] /\ outbox \in Seq(OutboxRow) /\ DOMAIN outbox \subseteq Nat
  BY <1>2, OutboxDomain DEF FilesTypeOK
<1> HIDE DEF q
<1>4. CASE q.op = "create"
  BY <1>1, <1>3, <1>4 DEF Applied, PersonCreated, q
<1>5. CASE q.op = "update"
  <2>1. q.old \in Images
    BY <1>5, FilesAssumption DEF FilesInv, HandlersKnow, FilesTypeOK, Request, Images, NoRow, q
  <2>2. /\ face' = [face EXCEPT ![q.p] = IF face[q.p] = NoRow THEN NoRow ELSE q.new]
        /\ outbox' = Enqueued(q.old)
    BY <1>5 DEF Applied, FaceUpdated, q
  <2>3. /\ face' \in [Persons -> 0..MaxImages] /\ \A p \in Persons \ {q.p} : face'[p] = face[p]
        /\ face'[q.p] = IF face[q.p] = NoRow THEN NoRow ELSE q.new
    BY <1>1, <1>2, <1>3, <2>2 DEF NoRow
  <2> QED
    BY <1>1, <1>2, <1>5, <2>1, <2>2, <2>3, EnqueuedKeeps DEF q
<1>6. CASE q.op = "delete"
  <2>1. face[q.p] \in Images
    BY <1>2, <1>6, FilesAssumption DEF Images, NoRow, q
  <2>2. face' = [face EXCEPT ![q.p] = NoRow] /\ outbox' = Enqueued(face[q.p])
    BY <1>6 DEF Applied, PersonDeleted, q
  <2>3. /\ face' \in [Persons -> 0..MaxImages] /\ \A p \in Persons \ {q.p} : face'[p] = face[p]
        /\ face'[q.p] = NoRow
    BY <1>1, <1>2, <1>3, <2>2 DEF NoRow
  <2> QED
    BY <1>1, <1>2, <1>6, <2>1, <2>2, <2>3, EnqueuedKeeps DEF q
<1> QED
  BY <1>1, <1>4, <1>5, <1>6

\* A transaction that is carried out, whether the handler is told or not.
LEMMA AppliedStep ==
  ASSUME FilesInv, NEW r \in Requests, At(r, "commit"), Applied(req[r]),
         req[r].op = "delete" => face[req[r].p] # NoRow,
         NEW x \in Request, req' = [req EXCEPT ![r] = x],
         UNCHANGED <<store, drawn, pass>>, faults' \in 0..MaxFaults,
         lost \subseteq lost', lost' \subseteq Images, excused' = excused \union Stale(req[r]),
         \/ x = Idle
         \/ /\ x.pc \in {"sweep", "compensate"} /\ x.op = req[r].op /\ x.p = req[r].p
            /\ x.old = req[r].old /\ x.new = req[r].new,
         x.pc = "compensate" => req[r].op # "delete" /\ req[r].new \in lost'
  PROVE  FilesInv'
<1> DEFINE q == req[r]
<1>1. /\ q.p \in Persons /\ q.op \in {"create", "update", "delete"} /\ q.new \in 0..MaxImages
      /\ q.pc = "commit"
  BY DEF FilesInv, HandlersKnow, FilesTypeOK, Request, At
<1>2. req'[r] = x /\ (\A o \in Requests \ {r} : req'[o] = req[o]) /\ req' \in [Requests -> Request]
  BY DEF FilesInv, FilesTypeOK
<1>3. /\ q.op # "delete" <=> q.new # NoRow
      /\ q.op # "delete" =>
           /\ q.new \in store /\ q.new \in Images
           /\ \A p \in Persons : face[p] # q.new
           /\ \A i \in DOMAIN outbox : outbox[i].img # q.new
           /\ \A o \in Requests : req[o].op = "update" => req[o].old # q.new
      /\ q.op = "update" => q.old # NoRow /\ q.old # q.new
      /\ q.op = "update" => \A p \in Persons : face[p] = q.old => p = q.p
      /\ q.op = "create" => face[q.p] = NoRow
  BY <1>1 DEF FilesInv, HandlersKnow, ObjectsOwned, Fresh, At, FilesTypeOK
<1>4. \A p \in Persons : face[p] \in 0..MaxImages /\ face[p] <= drawn
  BY DEF FilesInv, NamesAreFresh, FilesTypeOK
<1>5. \A p, p2 \in Persons : face[p] = face[p2] => p = p2 \/ face[p] = NoRow
  BY DEF FilesInv, NamesAreFresh
<1>6. FilesTypeOK'
  <2>1. Stale(q) \subseteq Images
    BY <1>1, <1>3, <1>4, FilesAssumption DEF Stale, Images, NoRow
  <2> QED
    BY <1>2, <2>1, AppliedFacts DEF FilesInv, FilesTypeOK
<1>7. NamesAreFresh'
  <2>1. \A p, p2 \in Persons : face'[p] = face'[p2] => p = p2 \/ face'[p] = NoRow
    BY <1>1, <1>3, <1>5, AppliedFacts
  <2>2. q.new <= drawn /\ NoRow <= drawn /\ q.old <= drawn
    BY DEF FilesInv, NamesAreFresh, FilesTypeOK, NoRow
  <2>3. \A p \in Persons : face'[p] <= drawn
    BY <1>1, <1>4, <2>2, AppliedFacts
  <2>4. \A i \in DOMAIN outbox' : outbox'[i].img <= drawn
    BY <1>1, <1>4, <2>2, AppliedFacts DEF FilesInv, NamesAreFresh
  <2>5. x.new \in {NoRow, q.new} /\ x.old <= drawn
    BY <2>2, IdleRequest
  <2> QED
    BY <1>2, <2>1, <2>2, <2>3, <2>4, <2>5 DEF FilesInv, NamesAreFresh
<1>8. HandlersKnow'
  <2>1. \A o \in Requests \ {r} : req[o].op = "create" /\ req[o].pc \in {"upload", "commit"} =>
          req[o].p # q.p
    BY <1>1 DEF FilesInv, HandlersKnow
  <2> QED
    BY <1>1, <1>2, <1>3, <2>1, AppliedFacts, IdleRequest DEF FilesInv, HandlersKnow, Fresh, At
<1>9. ObjectsOwned'
  <2>1. \A o \in Requests \ {r} : req[o].new # NoRow => req[o].new # q.new
    BY DEF FilesInv, NamesAreFresh
  <2>2. \A o \in Requests \ {r} : Fresh(o) =>
          /\ req[o].new \in store /\ req[o].new # NoRow
          /\ \A p \in Persons : face[p] # req[o].new
          /\ \A i \in DOMAIN outbox : outbox[i].img # req[o].new
          /\ \A o2 \in Requests : req[o2].op = "update" => req[o2].old # req[o].new
    BY DEF FilesInv, ObjectsOwned, HandlersKnow
  <2>3. ASSUME NEW o \in Requests, Fresh(o)'
        PROVE  /\ req'[o].new \in store'
               /\ \A p \in Persons : face'[p] # req'[o].new
               /\ \A i \in DOMAIN outbox' : outbox'[i].img # req'[o].new
               /\ \A o2 \in Requests : req'[o2].op = "update" => req'[o2].old # req'[o].new
    <3>1. o # r /\ Fresh(o) /\ req'[o] = req[o]
      BY <1>2, <2>3, IdleRequest DEF Fresh, At
    <3>2. \A p \in Persons : face'[p] # req[o].new
      BY <1>1, <2>1, <2>2, <3>1, AppliedFacts
    <3>3. \A i \in DOMAIN outbox' : outbox'[i].img # req[o].new
      BY <1>1, <2>2, <3>1, AppliedFacts
    <3>4. \A o2 \in Requests : req'[o2].op = "update" => req'[o2].old # req[o].new
      BY <1>2, <2>2, <3>1, IdleRequest
    <3> QED
      BY <2>2, <3>1, <3>2, <3>3, <3>4
  <2>4. ASSUME NEW o \in Requests, req'[o].op = "update", NEW p \in Persons, face'[p] = req'[o].old
        PROVE  p = req'[o].p
    <3>1. req'[o].old = req[o].old /\ req'[o].p = req[o].p /\ req[o].op = "update" /\ req[o].old # NoRow
      BY <1>2, <2>4, IdleRequest DEF FilesInv, HandlersKnow
    <3>2. face[p] = req[o].old
      BY <1>1, <1>3, <2>4, <3>1, AppliedFacts
    <3> QED
      BY <3>1, <3>2 DEF FilesInv, ObjectsOwned
  <2>5. ASSUME NEW o \in Requests, At(o, "compensate")', NEW p \in Persons, face'[p] = req'[o].new
        PROVE  face'[p] \in lost'
    <3>1. CASE o = r
      BY <1>1, <1>2, <2>5, <3>1, IdleRequest DEF At
    <3>2. CASE o # r
      <4>1. req'[o] = req[o] /\ At(o, "compensate") /\ req[o].new # NoRow
        BY <1>2, <2>5, <3>2 DEF At, FilesInv, HandlersKnow
      <4>2. face[p] = req[o].new
        BY <1>1, <2>1, <2>5, <3>2, <4>1, AppliedFacts
      <4> QED
        BY <2>5, <4>1, <4>2 DEF FilesInv, ObjectsOwned
    <3> QED
      BY <3>1, <3>2
  <2> QED
    BY <2>3, <2>4, <2>5 DEF ObjectsOwned
<1>10. OutboxDead'
  <2>1. ASSUME NEW i \in DOMAIN outbox', NEW p \in Persons, face'[p] = outbox'[i].img
        PROVE  face'[p] \in lost'
    <3>1. outbox'[i].img # NoRow
      <4>1. outbox' \in Seq(OutboxRow)
        BY <1>6 DEF FilesTypeOK
      <4>2. outbox'[i] \in OutboxRow
        BY <4>1, ElementOfSeq, LenProperties
      <4> QED
        BY <4>2, Constants DEF OutboxRow
    <3>2. \/ face'[p] = face[p] /\ p # q.p
          \/ p = q.p /\ q.op # "delete" /\ face'[p] = q.new
      BY <1>1, <2>1, <3>1, AppliedFacts
    <3>3. CASE i \in DOMAIN outbox
      BY <1>3, <2>1, <3>2, <3>3, AppliedFacts DEF FilesInv, OutboxDead
    <3>4. CASE i \notin DOMAIN outbox
      BY <1>1, <1>3, <1>5, <2>1, <3>1, <3>2, <3>4, AppliedFacts
    <3> QED
      BY <3>3, <3>4
  <2>2. \A y \in Processors : pass[y].pc = "mark" => AtRow(y) \in DOMAIN outbox
    BY MarkedRow DEF FilesInv, OutboxDead
  <2> QED
    BY <2>1, <2>2, AppliedFacts DEF FilesInv, OutboxDead, AtRow
<1>11. FaceIsStored'
  BY <1>1, <1>3, AppliedFacts DEF FilesInv, FaceIsStored
<1>12. NothingLeaks'
  <2> SUFFICES ASSUME NEW k \in store
               PROVE  \/ \E p \in Persons : face'[p] = k
                      \/ \E i \in DOMAIN outbox' : ~outbox'[i].done /\ outbox'[i].img = k
                      \/ \E o \in Requests : req'[o].new = k /\ req'[o].pc \in {"commit", "compensate"}
                      \/ k \in excused'
    BY DEF NothingLeaks, Pending
  <2>0. k # NoRow
    BY Constants DEF FilesInv, FilesTypeOK
  <2>1. CASE \E p \in Persons \ {q.p} : face[p] = k
    BY <2>1, AppliedFacts
  <2>2. CASE \E i \in Pending : outbox[i].img = k
    BY <2>2, AppliedFacts DEF Pending
  <2>3. CASE \E o \in Requests \ {r} : req[o].new = k /\ req[o].pc \in {"commit", "compensate"}
    BY <1>2, <2>3
  <2>4. CASE k \in excused
    BY <2>4
  <2>5. CASE q.new = k
    <3>1. q.op # "delete"
      BY <1>3, <2>0, <2>5
    <3>2. CASE q.op = "update" /\ face[q.p] = NoRow
      BY <1>3, <2>5, <3>2 DEF Stale
    <3>3. CASE ~(q.op = "update" /\ face[q.p] = NoRow)
      BY <1>1, <2>5, <3>1, <3>3, AppliedFacts
    <3> QED
      BY <3>2, <3>3
  <2>6. CASE face[q.p] = k
    <3>1. \A i \in DOMAIN outbox' : outbox'[i].img = k => ~outbox'[i].done
      BY AppliedFacts DEF FilesInv, OutboxDead
    <3>2. CASE q.op = "create"
      BY <1>3, <2>0, <2>6, <3>2
    <3>3. CASE q.op = "delete"
      BY <2>6, <3>1, <3>3, AppliedFacts
    <3>4. CASE q.op = "update" /\ q.old = k
      BY <3>1, <3>4, AppliedFacts
    <3>5. CASE q.op = "update" /\ q.old # k
      BY <2>0, <2>6, <3>5 DEF Stale
    <3> QED
      BY <1>1, <3>2, <3>3, <3>4, <3>5
  <2> QED
    BY <2>1, <2>2, <2>3, <2>4, <2>5, <2>6 DEF FilesInv, NothingLeaks
<1> QED
  BY <1>6, <1>7, <1>8, <1>9, <1>10, <1>11, <1>12 DEF FilesInv

LEMMA CommitsStep ==
  ASSUME FilesInv, NEW r \in Requests, Commits(r)
  PROVE  FilesInv'
<1> DEFINE q == req[r]
<1>1. q.pc = "commit" /\ UNCHANGED <<store, drawn, pass, faults, lost>> /\ At(r, "commit")
  BY DEF Commits, At
<1>2. /\ faults' \in 0..MaxFaults /\ lost \subseteq lost' /\ lost' \subseteq Images
      /\ drawn' \in 0..MaxImages /\ drawn' >= drawn /\ pass' \in [Processors -> PassState]
  BY <1>1, FilesAssumption DEF FilesInv, FilesTypeOK
<1>3. CASE q.op = "delete" /\ face[q.p] = NoRow
  <2>1. UNCHANGED <<face, outbox, excused>> /\ req' = [req EXCEPT ![r] = Idle]
    BY <1>3 DEF Commits, Returns, table
  <2>2. q.new = NoRow /\ NoRow \notin store /\ excused' \subseteq Images
    BY <1>1, <1>3, <2>1, Constants DEF FilesInv, HandlersKnow, Fresh, At, FilesTypeOK
  <2> QED
    BY <1>1, <1>2, <2>1, <2>2, IdleRequest, LeavesStep
<1>4. CASE ~(q.op = "delete" /\ face[q.p] = NoRow)
  <2>1. Applied(q) /\ excused' = excused \union Stale(q)
    BY <1>4 DEF Commits
  <2>2. CASE q.op = "create"
    <3>1. req' = [req EXCEPT ![r] = Idle]
      BY <2>2, <1>4 DEF Commits, Returns
    <3> QED
      BY <1>1, <1>2, <1>4, <2>1, <3>1, IdleRequest, AppliedStep
  <2>3. CASE q.op # "create"
    <3> DEFINE x == [q EXCEPT !.pc = "sweep"]
    <3>1. req' = [req EXCEPT ![r] = x]
      BY <2>3, <1>4 DEF Commits, Goto
    <3>2. /\ x \in Request /\ x.pc = "sweep" /\ x.op = q.op /\ x.p = q.p
          /\ x.old = q.old /\ x.new = q.new
      BY DEF FilesInv, FilesTypeOK, Request
    <3> HIDE DEF x
    <3> QED
      BY <1>1, <1>2, <1>4, <2>1, <3>1, <3>2, AppliedStep
  <2> QED
    BY <2>2, <2>3
<1> QED
  BY <1>3, <1>4

\* The new image is a face the handler is about to remove: it is recorded as lost.
LEMMA CommitUnansweredStep ==
  ASSUME FilesInv, NEW r \in Requests, CommitUnanswered(r)
  PROVE  FilesInv'
<1> DEFINE q == req[r]
<1>1. /\ q.pc = "commit" /\ UNCHANGED <<store, drawn, pass>> /\ At(r, "commit") /\ faults' \in 0..MaxFaults
      /\ q.op = "delete" => face[q.p] # NoRow
      /\ Applied(q) /\ excused' = excused \union Stale(q)
  BY FilesAssumption DEF CommitUnanswered, At, Fault, FilesInv, FilesTypeOK
<1>2. CASE q.op = "delete"
  <2>1. req' = [req EXCEPT ![r] = Idle] /\ lost' = lost /\ lost' \subseteq Images
    BY <1>2 DEF CommitUnanswered, Returns, FilesInv, FilesTypeOK
  <2> QED
    BY <1>1, <2>1, IdleRequest, AppliedStep
<1>3. CASE q.op # "delete"
  <2> DEFINE x == [q EXCEPT !.pc = "compensate"]
  <2>1. req' = [req EXCEPT ![r] = x] /\ lost' = lost \union {q.new}
    BY <1>3 DEF CommitUnanswered, Goto
  <2>2. /\ x \in Request /\ x.pc = "compensate" /\ x.op = q.op /\ x.p = q.p
        /\ x.old = q.old /\ x.new = q.new
    BY DEF FilesInv, FilesTypeOK, Request
  <2>3. q.new \in Images /\ lost' \subseteq Images
    BY <1>1, <1>3, <2>1 DEF FilesInv, ObjectsOwned, Fresh, FilesTypeOK
  <2> HIDE DEF x
  <2> QED
    BY <1>1, <1>3, <2>1, <2>2, <2>3, AppliedStep
<1> QED
  BY <1>2, <1>3

\* The except branch: the object goes to the outbox, which makes no face of it.
LEMMA CompensatesStep ==
  ASSUME FilesInv, NEW r \in Requests, Compensates(r)
  PROVE  FilesInv'
<1> DEFINE q == req[r]
<1>1. /\ q.pc = "compensate" /\ outbox' = Enqueued(q.new) /\ req' = [req EXCEPT ![r] = Idle]
      /\ UNCHANGED <<face, store, drawn, pass, faults, lost, excused>>
  BY DEF Compensates, At, Returns, history
<1>2. q.new \in Images
  BY <1>1, FilesAssumption DEF FilesInv, HandlersKnow, At, FilesTypeOK, Request, Images, NoRow
<1>3. /\ outbox' \in Seq(OutboxRow) /\ DOMAIN outbox' \subseteq Nat
      /\ \A i \in DOMAIN outbox : i \in DOMAIN outbox' /\ outbox'[i] = outbox[i]
      /\ \A i \in DOMAIN outbox' : i \in DOMAIN outbox \/ (outbox'[i].img = q.new /\ ~outbox'[i].done)
      /\ \E i \in DOMAIN outbox' : outbox'[i].img = q.new
  BY <1>1, <1>2, EnqueuedKeeps DEF FilesInv
<1>4. req'[r] = Idle /\ (\A o \in Requests \ {r} : req'[o] = req[o]) /\ req' \in [Requests -> Request]
  BY <1>1, IdleRequest DEF FilesInv, FilesTypeOK
<1>5. FilesTypeOK'
  BY <1>1, <1>3, <1>4 DEF FilesInv, FilesTypeOK
<1>6. q.new <= drawn /\ NoRow <= drawn /\ \A o \in Requests \ {r} : req[o].new # q.new
  BY <1>2, Constants DEF FilesInv, NamesAreFresh, FilesTypeOK, NoRow
<1>7. NamesAreFresh'
  BY <1>1, <1>3, <1>4, <1>6, IdleRequest DEF FilesInv, NamesAreFresh
<1>8. HandlersKnow'
  BY <1>1, <1>4, IdleRequest DEF FilesInv, HandlersKnow, Fresh, At
<1>9. ObjectsOwned'
  BY <1>1, <1>3, <1>4, <1>6, IdleRequest DEF FilesInv, ObjectsOwned, Fresh, At
<1>10. OutboxDead'
  <2>1. \A y \in Processors : pass[y].pc = "mark" => AtRow(y) \in DOMAIN outbox
    BY MarkedRow DEF FilesInv, OutboxDead
  <2> QED
    BY <1>1, <1>3, <2>1 DEF FilesInv, ObjectsOwned, OutboxDead, AtRow, At
<1>11. FaceIsStored'
  BY <1>1 DEF FilesInv, FaceIsStored
<1>12. NothingLeaks'
  <2>1. q.new \in store => \E i \in DOMAIN outbox' : outbox'[i].img = q.new /\ ~outbox'[i].done
    BY <1>3 DEF FilesInv, OutboxDead
  <2> QED
    BY <1>1, <1>3, <1>4, <2>1 DEF FilesInv, NothingLeaks, Pending
<1> QED
  BY <1>5, <1>7, <1>8, <1>9, <1>10, <1>11, <1>12 DEF FilesInv

-----------------------------------------------------------------------------
(* The passes over the outbox, and the crash.                              *)

\* A pass touches the store and the mark of its row only.
LEMMA PassStep ==
  ASSUME FilesInv, NEW x \in Processors,
         PassBegins(x) \/ PassDeletes(x) \/ PassFails(x) \/ PassMarks(x)
  PROVE  FilesInv'
<1>0. UNCHANGED <<face, drawn, req, lost, excused>> /\ faults' \in 0..MaxFaults
  BY FilesAssumption DEF PassBegins, PassDeletes, PassFails, PassMarks, Fault, table, history, FilesInv, FilesTypeOK
<1>1. /\ FilesTypeOK /\ pass \in [Processors -> PassState] /\ pass[x] \in PassState
      /\ \A y \in Processors : pass[y].rows \subseteq DOMAIN outbox
      /\ DOMAIN outbox \subseteq Nat /\ \A i \in DOMAIN outbox : outbox[i] \in OutboxRow
  BY OutboxDomain DEF FilesInv, FilesTypeOK, OutboxDead
<1>2. CASE PassBegins(x)
  <2> DEFINE n == [pc |-> "row", rows |-> Oldest]
  <2>1. pass' = [pass EXCEPT ![x] = n] /\ UNCHANGED <<outbox, store>>
    BY <1>2 DEF PassBegins, table
  <2>2. n \in PassState /\ Oldest \subseteq DOMAIN outbox
    BY <1>1 DEF Oldest, Pending, PassState
  <2>3. pass' \in [Processors -> PassState] /\ pass'[x] = n /\ \A y \in Processors \ {x} : pass'[y] = pass[y]
    BY <1>1, <2>1, <2>2
  <2>4. FilesTypeOK' /\ NamesAreFresh' /\ HandlersKnow' /\ ObjectsOwned' /\ FaceIsStored' /\ NothingLeaks'
    BY <1>0, <2>1, <2>3
       DEF FilesInv, FilesTypeOK, NamesAreFresh, HandlersKnow, ObjectsOwned, FaceIsStored, NothingLeaks,
           Pending, Fresh, At
  <2>5. OutboxDead'
    BY <1>0, <2>1, <2>2, <2>3 DEF FilesInv, OutboxDead, AtRow
  <2> QED
    BY <2>4, <2>5 DEF FilesInv
<1>3. ASSUME NEW s, s \subseteq store, \A k \in store \ s : k = outbox[AtRow(x)].img, store' = s,
             pass[x].rows # {}, UNCHANGED outbox
      PROVE  /\ store' \subseteq Images /\ NamesAreFresh' /\ HandlersKnow' /\ ObjectsOwned' /\ FaceIsStored'
             /\ NothingLeaks'
  <2>1. AtRow(x) \in DOMAIN outbox
    BY <1>3, MarkedRow
  <2>2. store' \subseteq Images /\ NamesAreFresh' /\ HandlersKnow'
    BY <1>0, <1>3 DEF FilesInv, FilesTypeOK, NamesAreFresh, HandlersKnow, Fresh, At
  <2>3. ObjectsOwned'
    BY <1>0, <1>3, <2>1 DEF FilesInv, ObjectsOwned, Fresh, At
  <2>4. FaceIsStored'
    BY <1>0, <1>3, <2>1 DEF FilesInv, FaceIsStored, OutboxDead
  <2>5. NothingLeaks'
    BY <1>0, <1>3 DEF FilesInv, NothingLeaks, Pending
  <2> QED
    BY <2>2, <2>3, <2>4, <2>5
<1>4. CASE PassDeletes(x)
  <2> DEFINE n == [pass[x] EXCEPT !.pc = "mark"]
             s == store \ {outbox[AtRow(x)].img}
  <2>1. pass' = [pass EXCEPT ![x] = n] /\ UNCHANGED outbox /\ pass[x].rows # {} /\ store' = s
    BY <1>4 DEF PassDeletes, table
  <2>2. n \in PassState /\ n.pc = "mark" /\ n.rows = pass[x].rows
    BY <1>1 DEF PassState
  <2> HIDE DEF n
  <2>3. pass' \in [Processors -> PassState] /\ pass'[x] = n /\ \A y \in Processors \ {x} : pass'[y] = pass[y]
    BY <1>1, <2>1, <2>2
  <2>4. store' \subseteq Images /\ NamesAreFresh' /\ HandlersKnow' /\ ObjectsOwned' /\ FaceIsStored' /\ NothingLeaks'
    BY <1>3, <2>1
  <2>5. FilesTypeOK'
    BY <1>0, <2>1, <2>3, <2>4 DEF FilesInv, FilesTypeOK
  <2>6. OutboxDead'
    BY <1>0, <2>1, <2>2, <2>3 DEF FilesInv, OutboxDead, AtRow
  <2> QED
    BY <2>4, <2>5, <2>6 DEF FilesInv
<1>5. ASSUME NEW n, n = [pc |-> "row", rows |-> pass[x].rows \ {AtRow(x)}]
      PROVE  n \in PassState /\ n.pc = "row" /\ n.rows \subseteq DOMAIN outbox
  BY <1>1, <1>5 DEF PassState
<1>6. CASE PassFails(x)
  <2> DEFINE n == [pc |-> "row", rows |-> pass[x].rows \ {AtRow(x)}]
  <2>1. /\ pass' = [pass EXCEPT ![x] = n] /\ UNCHANGED outbox /\ pass[x].rows # {}
        /\ store' \in {store, store \ {outbox[AtRow(x)].img}}
    BY <1>6 DEF PassFails, PassGoesOn, table
  <2>2. n \in PassState /\ n.pc = "row" /\ n.rows \subseteq DOMAIN outbox
    BY <1>5
  <2> HIDE DEF n
  <2>3. pass' \in [Processors -> PassState] /\ pass'[x] = n /\ \A y \in Processors \ {x} : pass'[y] = pass[y]
    BY <1>1, <2>1, <2>2
  <2>4. store' \subseteq Images /\ NamesAreFresh' /\ HandlersKnow' /\ ObjectsOwned' /\ FaceIsStored' /\ NothingLeaks'
    BY <1>3, <2>1
  <2>5. FilesTypeOK'
    BY <1>0, <2>1, <2>3, <2>4 DEF FilesInv, FilesTypeOK
  <2>6. OutboxDead'
    BY <1>0, <2>1, <2>2, <2>3 DEF FilesInv, OutboxDead, AtRow
  <2> QED
    BY <2>4, <2>5, <2>6 DEF FilesInv
<1>7. CASE PassMarks(x)
  <2> DEFINE n == [pc |-> "row", rows |-> pass[x].rows \ {AtRow(x)}]
             i == AtRow(x)
             d == [outbox[i] EXCEPT !.done = TRUE]
  <2>1. /\ pass' = [pass EXCEPT ![x] = n] /\ UNCHANGED store /\ outbox' = [outbox EXCEPT ![i] = d]
        /\ pass[x].pc = "mark"
    BY <1>7 DEF PassMarks, PassGoesOn
  <2>2. n \in PassState /\ n.pc = "row" /\ n.rows \subseteq DOMAIN outbox
    BY <1>5
  <2>3. pass[x].rows # {} /\ i \in DOMAIN outbox /\ outbox[i].img \notin store
    BY <2>1, MarkedRow DEF FilesInv, OutboxDead
  <2>4. d \in OutboxRow /\ d.img = outbox[i].img
    BY <1>1, <2>3 DEF OutboxRow
  <2> HIDE DEF n, d, i
  <2>5. pass' \in [Processors -> PassState] /\ pass'[x] = n /\ \A y \in Processors \ {x} : pass'[y] = pass[y]
    BY <1>1, <2>1, <2>2
  <2>6. /\ outbox' \in Seq(OutboxRow) /\ DOMAIN outbox' = DOMAIN outbox
        /\ \A j \in DOMAIN outbox : outbox'[j] = IF j = i THEN d ELSE outbox[j]
    <3>1. outbox \in Seq(OutboxRow) /\ DOMAIN outbox = 1..Len(outbox)
      BY <1>1, LenProperties DEF FilesTypeOK
    <3> QED
      BY <2>1, <2>3, <2>4, <3>1, ExceptSeq
  <2>7. \A j \in DOMAIN outbox : outbox'[j].img = outbox[j].img
    BY <2>4, <2>6
  <2>8. FilesTypeOK'
    BY <1>0, <2>1, <2>5, <2>6 DEF FilesInv, FilesTypeOK
  <2>9. NamesAreFresh' /\ HandlersKnow' /\ ObjectsOwned' /\ FaceIsStored'
    BY <1>0, <2>1, <2>6, <2>7 DEF FilesInv, NamesAreFresh, HandlersKnow, ObjectsOwned, FaceIsStored, Fresh, At
  <2>10. OutboxDead'
    <3>1. \A y \in Processors : pass[y].pc = "mark" => AtRow(y) \in DOMAIN outbox
      BY MarkedRow DEF FilesInv, OutboxDead
    <3> QED
      BY <1>0, <2>1, <2>2, <2>3, <2>4, <2>5, <2>6, <2>7, <3>1 DEF FilesInv, OutboxDead, AtRow
  <2>11. NothingLeaks'
    <3>1. \A j \in Pending : outbox[j].img \in store => j # i
      BY <2>3
    <3> QED
      BY <1>0, <2>1, <2>6, <3>1 DEF FilesInv, NothingLeaks, Pending
  <2> QED
    BY <2>8, <2>9, <2>10, <2>11 DEF FilesInv
<1> QED
  BY <1>2, <1>4, <1>6, <1>7

\* A pass is over: the request that made it returns, the worker waits for its next one.
LEMMA PassOverStep ==
  ASSUME IInv, NEW x \in Processors, PassEnds(x) \/ PassAborts(x)
  PROVE  FilesInv'
<1>1. /\ UNCHANGED <<face, outbox, store, drawn, lost, excused>> /\ faults' \in 0..MaxFaults
      /\ pass[x].pc # "idle" /\ pass' = [pass EXCEPT ![x] = NoPass]
      /\ IF x = Worker THEN UNCHANGED req ELSE Returns(x)
  BY FilesAssumption DEF PassEnds, PassAborts, PassOver, Fault, table, history, IInv, FilesInv, FilesTypeOK
<1>2. /\ drawn' \in 0..MaxImages /\ drawn' >= drawn /\ excused' \subseteq Images
  BY <1>1, FilesAssumption DEF IInv, FilesInv, FilesTypeOK
<1>3. /\ pass' \in [Processors -> PassState]
      /\ \A y \in Processors : pass'[y] = pass[y] \/ pass'[y] = NoPass
  BY <1>1, IdleRequest DEF IInv, FilesInv, FilesTypeOK
<1>4. CASE x = Worker
  <2>1. UNCHANGED req
    BY <1>1, <1>4
  <2>2. FilesTypeOK'
    BY <1>1, <1>3, <2>1 DEF IInv, FilesInv, FilesTypeOK
  <2>3. NamesAreFresh' /\ HandlersKnow' /\ ObjectsOwned' /\ FaceIsStored' /\ NothingLeaks'
    BY <1>1, <2>1
       DEF IInv, FilesInv, NamesAreFresh, HandlersKnow, ObjectsOwned, FaceIsStored, NothingLeaks,
           Pending, Fresh, At
  <2>4. OutboxDead'
    BY <1>1, <1>3, IdleRequest DEF IInv, FilesInv, OutboxDead, AtRow
  <2> QED
    BY <2>2, <2>3, <2>4 DEF FilesInv
<1>5. CASE x # Worker
  <2>1. x \in Requests /\ req' = [req EXCEPT ![x] = Idle] /\ req[x].pc = "sweep"
    BY <1>1, <1>5 DEF Processors, Returns, IInv, SweepsOwn, At
  <2> QED
    BY <1>1, <1>2, <1>3, <2>1, IdleRequest, LeavesStep DEF IInv
<1> QED
  BY <1>4, <1>5

\* The process dies: nothing is left of the handlers, and their objects have no remover.
LEMMA CrashStep ==
  ASSUME IInv, Crash
  PROVE  IInv'
<1> DEFINE dropped == {req[r].new : r \in {r \in Requests : req[r].new # NoRow /\ req[r].pc # "sweep"}}
<1>1. /\ UNCHANGED <<face, outbox, store, drawn, lost>> /\ faults' \in 0..MaxFaults
      /\ req' = [r \in Requests |-> Idle] /\ pass' = [x \in Processors |-> NoPass]
      /\ excused' = excused \union dropped
  BY FilesAssumption DEF Crash, Fault, table, IInv, FilesInv, FilesTypeOK
<1>2. dropped \subseteq Images
  BY FilesAssumption DEF IInv, FilesInv, FilesTypeOK, Request, Images, NoRow
<1>3. \A r \in Requests : req'[r] = Idle
  BY <1>1
<1>4. FilesTypeOK'
  BY <1>1, <1>2, IdleRequest DEF IInv, FilesInv, FilesTypeOK
<1>5. NamesAreFresh'
  <2>1. NoRow <= drawn
    BY DEF IInv, FilesInv, FilesTypeOK, NoRow
  <2> QED
    BY <1>1, <1>3, <2>1, IdleRequest DEF IInv, FilesInv, NamesAreFresh
<1>6. HandlersKnow' /\ ObjectsOwned' /\ FaceIsStored'
  BY <1>1, <1>3, IdleRequest DEF IInv, FilesInv, HandlersKnow, ObjectsOwned, FaceIsStored, Fresh, At
<1>7. OutboxDead'
  BY <1>1, IdleRequest DEF IInv, FilesInv, OutboxDead
<1>8. NothingLeaks'
  <2> HIDE DEF dropped
  <2>1. \A k \in store, r \in Requests : req[r].new = k /\ req[r].pc \in {"commit", "compensate"} => k \in dropped
    BY Constants DEF IInv, FilesInv, FilesTypeOK, dropped
  <2> QED
    BY <1>1, <2>1 DEF IInv, FilesInv, NothingLeaks, Pending
<1>9. SweepsOwn'
  BY <1>1, IdleRequest DEF SweepsOwn, Processors
<1> QED
  BY <1>4, <1>5, <1>6, <1>7, <1>8, <1>9 DEF IInv, FilesInv

\* Who makes a pass does nothing else before it is over.
LEMMA SweepStep ==
  ASSUME IInv, [Next]_vars
  PROVE  SweepsOwn'
<1>1. ASSUME NEW r \in Requests, NEW x, req' = [req EXCEPT ![r] = x], req[r].pc # "sweep", pass' = pass
      PROVE  SweepsOwn'
  BY <1>1 DEF IInv, SweepsOwn, At, FilesInv, FilesTypeOK
<1>2. ASSUME NEW r \in Requests, NEW p \in Persons,
             CreatePerson(r, p) \/ UpdateFace(r, p) \/ DeletePerson(r, p)
      PROVE  SweepsOwn'
  BY <1>1, <1>2 DEF CreatePerson, UpdateFace, DeletePerson, Begins, At
<1>3. ASSUME NEW r \in Requests,
             \/ Uploads(r) \/ UploadFails(r) \/ Commits(r) \/ CommitFails(r) \/ CommitUnanswered(r)
             \/ Compensates(r) \/ CompensationFails(r)
      PROVE  SweepsOwn'
  <2>1. req[r].pc # "sweep" /\ pass' = pass
    BY <1>3 DEF Uploads, UploadFails, Commits, CommitFails, CommitUnanswered, Compensates, CompensationFails, At
  <2>2. \E x : req' = [req EXCEPT ![r] = x]
    BY <1>3 DEF Uploads, UploadFails, Commits, CommitFails, CommitUnanswered, Compensates, CompensationFails,
                Returns, Goto
  <2> QED
    BY <1>1, <2>1, <2>2
<1>4. ASSUME NEW x \in Processors, PassBegins(x)
      PROVE  SweepsOwn'
  BY <1>4, FilesAssumption DEF PassBegins, Turn, IInv, FilesInv, FilesTypeOK, SweepsOwn, At, Processors
<1>5. ASSUME NEW x \in Processors, PassDeletes(x) \/ PassMarks(x) \/ PassFails(x)
      PROVE  SweepsOwn'
  <2>1. /\ req' = req /\ pass[x].pc # "idle"
        /\ \A y \in Processors \ {x} : pass'[y] = pass[y]
    BY <1>5 DEF PassDeletes, PassMarks, PassFails, PassGoesOn, IInv, FilesInv, FilesTypeOK
  <2> QED
    BY <2>1 DEF IInv, SweepsOwn, At, Processors
<1>6. ASSUME NEW x \in Processors, PassEnds(x) \/ PassAborts(x)
      PROVE  SweepsOwn'
  <2>1. pass' = [pass EXCEPT ![x] = NoPass] /\ IF x = Worker THEN UNCHANGED req ELSE Returns(x)
    BY <1>6 DEF PassEnds, PassAborts, PassOver
  <2>2. \A y \in Processors : pass'[y].pc # "idle" => y # x /\ pass'[y] = pass[y]
    BY <2>1, IdleRequest DEF IInv, FilesInv, FilesTypeOK
  <2> QED
    BY <2>1, <2>2 DEF IInv, FilesInv, FilesTypeOK, SweepsOwn, At, Processors, Returns
<1>7. CASE Crash
  BY <1>7, CrashStep DEF IInv
<1>8. CASE UNCHANGED vars
  BY <1>8 DEF vars, IInv, SweepsOwn, At
<1> QED
  BY <1>2, <1>3, <1>4, <1>5, <1>6, <1>7, <1>8 DEF Next, Pass

LEMMA InitIInv == Init => IInv
BY InitFilesInv, IdleRequest DEF Init, IInv, SweepsOwn, Processors

LEMMA NextIInv == IInv /\ [Next]_vars => IInv'
<1> SUFFICES ASSUME IInv, [Next]_vars PROVE FilesInv'
  BY SweepStep DEF IInv
<1>1. CASE UNCHANGED vars
  BY <1>1 DEF vars, table, history, IInv, FilesInv, FilesTypeOK, NamesAreFresh, HandlersKnow, ObjectsOwned,
              OutboxDead, FaceIsStored, NothingLeaks, Pending, Fresh, At, AtRow
<1>2. FilesInv
  BY DEF IInv
<1> QED
  BY <1>1, <1>2, BeginsStep, UploadsStep, UploadFailsStep, CommitsStep, CommitFailsStep, CommitUnansweredStep,
     CompensatesStep, CompensationFailsStep, PassStep, PassOverStep, CrashStep DEF Next, Pass, IInv

LEMMA Invariance == Spec => []IInv
BY InitIInv, NextIInv, PTL DEF Spec

-----------------------------------------------------------------------------
(* The results.                                                            *)

\* The rows of persons and of the outbox, the store, the handlers and the passes stay typed.
THEOREM TypeCorrect == Spec => [](TypeOK /\ FilesTypeOK)
<1>1. IInv => TypeOK /\ FilesTypeOK
  BY NamesTyped DEF IInv, FilesInv, FilesTypeOK, TypeOK, OutboxRow
<1> QED
  BY <1>1, Invariance, PTL

\* Only an object no row references is removed, whatever handlers, passes, failures and
\* crashes interleave; the exception is a commit that was carried out and not answered.
THEOREM FacesAreStored == Spec => []FaceIsStored
<1>1. IInv => FaceIsStored
  BY DEF IInv, FilesInv
<1> QED
  BY <1>1, Invariance, PTL

\* Every stored object is referenced, waits in the outbox or has a handler that will deal
\* with it, but for the four cases the handlers do not cover.
THEOREM ImagesDoNotLeak == Spec => []NothingLeaks
<1>1. IInv => NothingLeaks
  BY DEF IInv, FilesInv
<1> QED
  BY <1>1, Invariance, PTL

\* The cleanup marks a row of the outbox only when its object is gone from the store, with
\* any number of passes over the same rows.
THEOREM MarkedMeansRemoved ==
  Spec => [](\A i \in DOMAIN outbox : outbox[i].done => outbox[i].img \notin store)
<1>1. IInv => \A i \in DOMAIN outbox : outbox[i].done => outbox[i].img \notin store
  BY DEF IInv, FilesInv, OutboxDead
<1> QED
  BY <1>1, Invariance, PTL
=============================================================================
