------------------------- MODULE CentralAdminProofs -------------------------
(***************************************************************************)
(* Machine-checked proofs about CentralAdmin, for any accounts, licences   *)
(* and number of concurrent handlers.                                      *)
(***************************************************************************)
EXTENDS CentralAdmin, TLAPS

-----------------------------------------------------------------------------
(* The inductive invariant, in parts.                                      *)

Roles == {"super_admin", "admin", "staff", "none"}
Request ==
  [pc : {"idle", "begin", "serialize", "lock", "check", "commit"},
   op : Serialized \union {"none", "grant_permission", "revoke_permission", "create_license"},
   actor : Users \union {Nobody}, role : Roles, target : Users \union {Nobody},
   lic : Licenses \union {Nobody}, to : Roles, start : Times, seen : Roles,
   window : [from : Times, until : Times, active : BOOLEAN]]

\* The tables, the locks and the requests are typed.
AdminTypeOK == TypeOK /\ req \in [Requests -> Request]

\* The request's transaction has begun.
Begun(r) == req[r].pc \in {"serialize", "lock", "check", "commit"}

\* Only an account that was never made has no role; a licence belongs to, and a
\* transaction is about, one that was.
TargetsExist ==
  /\ \A u \in Users : user[u].role = "none" => user[u] = Absent
  /\ \A l \in Licenses : lic[l].owner # Nobody => user[lic[l].owner].role # "none"
  /\ \A r \in Requests : Begun(r) =>
       /\ req[r].target \in Users /\ user[req[r].target].role # "none"
       /\ req[r].op = "update_role" => req[r].to \in {"admin", "staff"}

\* The licence of a transaction: one its target owns, one nobody else is issuing, or none.
LicencesOwned ==
  \A r \in Requests :
    /\ req[r].lic # Nobody => Begun(r)
    /\ Begun(r) /\ req[r].op \in {"update_license", "expire_license"} =>
         req[r].lic \in Licenses /\ lic[req[r].lic].owner = req[r].target
    /\ Begun(r) /\ req[r].op = "create_license" =>
         /\ req[r].lic \in Licenses /\ lic[req[r].lic].owner = Nobody
         /\ \A o \in Requests \ {r} : req[o].lic # req[r].lic
    /\ Begun(r) /\ req[r].op \notin {"update_license", "expire_license", "create_license"} =>
         req[r].lic = Nobody

\* Who holds which lock, and what it read under it.
LocksHeld ==
  \A r \in Requests :
    /\ req[r].pc \in {"lock", "check", "commit"} /\ req[r].op \in Serialized => advisory = r
    /\ req[r].pc \in {"check", "commit"} =>
         rowLock[req[r].target] = r /\ req[r].seen = user[req[r].target].role

\* What a transaction checked is still so when it commits.
CheckHolds == \A r \in Requests : At(r, "commit") => Allowed(req[r])

IInv == AdminTypeOK /\ TargetsExist /\ LicencesOwned /\ LocksHeld /\ CheckHolds

-----------------------------------------------------------------------------
(* The steps, by what they leave alone.                                    *)

LEMMA InitIInv == Init => IInv
<1> SUFFICES ASSUME Init PROVE IInv
  OBVIOUS
<1>1. user \in [Users -> [role : Roles, active : BOOLEAN, deleted : BOOLEAN]]
  BY AdminAssumption DEF Init, Active, Absent, Roles
<1>0. PICK some \in SUBSET Admins :
        \E held \in Injection(Supers \union some, Licenses),
           until \in [Supers \union some -> 1..(MaxClock + 1)] :
          lic = [l \in Licenses |->
                   IF l \in Range(held)
                   THEN LET u == CHOOSE u \in DOMAIN held : held[u] = l
                        IN  [owner |-> u, from |-> 0, until |-> until[u], active |-> TRUE]
                   ELSE Unused]
  BY DEF Init
<1>2. PICK held \in Injection(Supers \union some, Licenses),
           until \in [Supers \union some -> 1..(MaxClock + 1)] :
        lic = [l \in Licenses |->
                 IF l \in Range(held)
                 THEN LET u == CHOOSE u \in DOMAIN held : held[u] = l
                      IN  [owner |-> u, from |-> 0, until |-> until[u], active |-> TRUE]
                 ELSE Unused]
  BY <1>0
<1>3. held \in [Supers \union some -> Licenses]
  BY DEF Injection
<1>4. \A l \in Range(held) : (CHOOSE u \in DOMAIN held : held[u] = l) \in Supers \union some
  BY <1>3 DEF Range
<1>5. lic \in [Licenses -> [owner : Users \union {Nobody}, from : Times, until : Times, active : BOOLEAN]]
  <2>1. Unused \in [owner : Users \union {Nobody}, from : Times, until : Times, active : BOOLEAN]
    BY AdminAssumption DEF Unused, Times
  <2>2. \A u \in Supers \union some : until[u] \in Times /\ 0 \in Times
    BY AdminAssumption DEF Times
  <2> QED
    BY <1>2, <1>4, <2>1, <2>2, AdminAssumption
<1>6. \A l \in Licenses : lic[l].owner # Nobody => lic[l].owner \in Supers \union Admins
  BY <1>2, <1>4 DEF Unused
<1>7. \A u \in Supers \union Admins : user[u].role # "none"
  BY AdminAssumption DEF Init, Active
<1>8. \A u \in Users : user[u].role = "none" => user[u] = Absent
  BY AdminAssumption DEF Init, Active
<1>9. req \in [Requests -> Request]
  BY AdminAssumption DEF Init, Request, Idle, Serialized, Roles, Times, NoWindow
<1>10. TypeOK
  <2>1. perms = {} /\ clock = 0 /\ advisory = Nobody /\ rowLock = [u \in Users |-> Nobody]
    BY DEF Init
  <2>2. clock \in 0..MaxClock /\ rowLock \in [Users -> Requests \union {Nobody}]
    BY <2>1, AdminAssumption
  <2> QED
    BY <1>1, <1>5, <2>1, <2>2 DEF TypeOK, Roles
<1>11. \A r \in Requests : req[r].pc = "idle" /\ req[r].lic = Nobody
  BY DEF Init, Idle
<1> QED
  BY <1>6, <1>7, <1>8, <1>9, <1>10, <1>11
     DEF IInv, AdminTypeOK, TargetsExist, LicencesOwned, LocksHeld, CheckHolds, Begun, At

\* The handlers other than create_user begin a transaction about an account that exists.
LEMMA HandlerBegins ==
  ASSUME IInv, NEW r \in Requests, Handlers(r)
  PROVE  \/ CreatesUser(r)
         \/ \E op \in Serialized \union {"grant_permission", "revoke_permission", "create_license"},
               t \in Users, l \in Licenses \union {Nobody}, to \in {"admin", "staff", "none"} :
              /\ Begins(r, op, t, l, to) /\ user[t].role # "none"
              /\ op = "update_role" => to \in {"admin", "staff"}
              /\ op \in {"update_license", "expire_license"} => l \in Licenses /\ lic[l].owner = t
              /\ op = "create_license" =>
                   l \in Licenses /\ lic[l].owner = Nobody /\ \A o \in Requests : req[o].lic # l
              /\ op \notin {"update_license", "expire_license", "create_license"} => l = Nobody
<1>1. \A t \in Known : t \in Users /\ user[t].role # "none"
  BY DEF IInv, TargetsExist, Known
<1>2. \A l \in Issued : l \in Licenses /\ lic[l].owner \in Users /\ user[lic[l].owner].role # "none"
  BY DEF IInv, AdminTypeOK, TypeOK, TargetsExist, Issued
<1>3. CASE UpdateUser(r)
  BY <1>1, <1>3 DEF UpdateUser, Serialized
<1>4. CASE DeleteUser(r) \/ ToggleActive(r) \/ GrantPermission(r) \/ RevokePermission(r)
  BY <1>1, <1>4 DEF DeleteUser, ToggleActive, GrantPermission, RevokePermission, Serialized
<1>5. CASE UpdateLicense(r) \/ ExpireLicense(r)
  BY <1>2, <1>5 DEF UpdateLicense, ExpireLicense, Serialized
<1>6. CASE CreateLicense(r)
  BY <1>1, <1>6 DEF CreateLicense, Issued, Serialized
<1> QED
  BY <1>3, <1>4, <1>5, <1>6 DEF Handlers

\* What a commit changes: the target's account, and the transaction's own licence.
LEMMA CommitChanges ==
  ASSUME IInv, NEW r \in Requests, Commits(r)
  PROVE  /\ req[r].target \in Users /\ rowLock[req[r].target] = r
         /\ user' \in [Users -> [role : Roles, active : BOOLEAN, deleted : BOOLEAN]]
         /\ lic' \in [Licenses -> [owner : Users \union {Nobody}, from : Times, until : Times, active : BOOLEAN]]
         /\ \A u \in Users \ {req[r].target} : user'[u] = user[u]
         /\ user'[req[r].target].role # "none"
         /\ \A l \in Licenses : l # req[r].lic => lic'[l] = lic[l]
         /\ \A l \in Licenses : l = req[r].lic => lic'[l].owner = req[r].target
         /\ req[r].op \notin Serialized => user' = user
         /\ req[r].op \notin Serialized =>
              \A l \in Licenses : l = req[r].lic => lic[l].owner = Nobody
<1> DEFINE q == req[r]
<1>1. q \in Request /\ q.pc = "commit" /\ Mutates(q)
  BY DEF IInv, AdminTypeOK, Commits, At
<1>2. q.target \in Users /\ user[q.target].role # "none" /\ rowLock[q.target] = r
  BY <1>1 DEF IInv, TargetsExist, LocksHeld, Begun
<1>3. q.op = "update_role" => q.to \in {"admin", "staff"}
  BY <1>1 DEF IInv, TargetsExist, Begun
<1>4. /\ q.op \in {"update_license", "expire_license"} => q.lic \in Licenses /\ lic[q.lic].owner = q.target
      /\ q.op = "create_license" => q.lic \in Licenses /\ lic[q.lic].owner = Nobody
      /\ q.op \notin {"update_license", "expire_license", "create_license"} => q.lic = Nobody
  BY <1>1 DEF IInv, LicencesOwned, Begun
<1>5. /\ user \in [Users -> [role : Roles, active : BOOLEAN, deleted : BOOLEAN]]
      /\ lic \in [Licenses -> [owner : Users \union {Nobody}, from : Times, until : Times, active : BOOLEAN]]
  BY DEF IInv, AdminTypeOK, TypeOK, Roles
<1> HIDE DEF q
<1>6. CASE UpdatesRole(q) \/ DeletesUser(q) \/ TogglesActive(q)
  <2>1. user[q.target] \in [role : Roles, active : BOOLEAN, deleted : BOOLEAN]
    BY <1>2, <1>5
  <2>2. q.op \in Serialized /\ q.lic = Nobody /\ lic' = lic
    BY <1>4, <1>6 DEF UpdatesRole, DeletesUser, TogglesActive, Serialized
  <2>3. PICK a \in [role : Roles, active : BOOLEAN, deleted : BOOLEAN] :
          a.role # "none" /\ user' = [user EXCEPT ![q.target] = a]
    <3>1. CASE UpdatesRole(q)
      <4>1. [user[q.target] EXCEPT !.role = q.to] \in [role : Roles, active : BOOLEAN, deleted : BOOLEAN]
        BY <1>3, <2>1, <3>1 DEF UpdatesRole, Roles
      <4>2. [user[q.target] EXCEPT !.role = q.to].role # "none"
        BY <1>3, <2>1, <3>1 DEF UpdatesRole
      <4> QED
        BY <4>1, <4>2, <3>1 DEF UpdatesRole
    <3>2. CASE DeletesUser(q)
      <4> DEFINE a == [[user[q.target] EXCEPT !.deleted = TRUE] EXCEPT !.active = FALSE]
      <4>1. a \in [role : Roles, active : BOOLEAN, deleted : BOOLEAN]
        BY <2>1
      <4>2. a.role # "none"
        BY <1>2, <2>1
      <4>3. user' = [user EXCEPT ![q.target] = a]
        BY <1>2, <1>5, <3>2 DEF DeletesUser
      <4> QED
        BY <4>1, <4>2, <4>3
    <3>3. CASE TogglesActive(q)
      <4> DEFINE a == [user[q.target] EXCEPT !.active = ~user[q.target].active]
      <4>1. a \in [role : Roles, active : BOOLEAN, deleted : BOOLEAN]
        BY <2>1
      <4>2. a.role # "none"
        BY <1>2, <2>1
      <4>3. user' = [user EXCEPT ![q.target] = a]
        BY <1>2, <1>5, <3>3 DEF TogglesActive
      <4> QED
        BY <4>1, <4>2, <4>3
    <3> QED
      BY <1>6, <3>1, <3>2, <3>3
  <2> QED
    BY <1>2, <1>5, <2>2, <2>3, AdminAssumption DEF q
<1>7. CASE GrantsPermission(q) \/ RevokesPermission(q)
  BY <1>2, <1>4, <1>5, <1>7, AdminAssumption DEF GrantsPermission, RevokesPermission, Serialized, q
<1>8. CASE CreatesLicense(q) \/ UpdatesLicense(q)
  BY <1>1, <1>2, <1>4, <1>5, <1>8
     DEF CreatesLicense, UpdatesLicense, Licensed, Serialized, Request, q
<1>9. CASE ExpiresLicense(q)
  BY <1>1, <1>2, <1>4, <1>5, <1>9 DEF ExpiresLicense, Serialized, Request, q
<1> QED
  BY <1>1, <1>6, <1>7, <1>8, <1>9 DEF Mutates

-----------------------------------------------------------------------------
(* What a transaction checked stays so while it holds its locks.           *)

\* The check of a transaction survives a step that leaves the target's account and
\* licences alone and, if it excludes other reducing transactions, takes away no other
\* operational super-admin.
LEMMA AllowedStays ==
  ASSUME IInv, NEW o \in Requests, At(o, "commit"), req'[o] = req[o],
         user'[req[o].target] = user[req[o].target],
         \A l \in Licenses : lic[l].owner = req[o].target \/ lic'[l].owner = req[o].target
                            => lic'[l] = lic[l],
         req[o].op \in Serialized =>
           Operational(user, lic, req[o].start) \ {req[o].target}
             \subseteq Operational(user', lic', req[o].start)
  PROVE  Allowed(req[o])'
<1> DEFINE q == req[o]
<1>1. q' = q
  OBVIOUS
<1>2. Allowed(q) /\ q.target \in Users
  BY DEF IInv, CheckHolds, TargetsExist, Begun, At
<1>3. Found(q)'
  BY <1>2 DEF Allowed, Found
<1>4. q.target \in Operational(user', lic', q.start) => q.target \in Operational(user, lic, q.start)
  BY <1>2 DEF Operational
<1>5. Protected(q)' => Protected(q) /\ q.op \in Serialized
  BY DEF Protected, RemainsActive, Serialized
<1>6. LastSuperAdmin(q, q.lic)' /\ q.op \in Serialized => LastSuperAdmin(q, q.lic)
  <2> SUFFICES ASSUME LastSuperAdmin(q, q.lic)', q.op \in Serialized PROVE LastSuperAdmin(q, q.lic)
    OBVIOUS
  <2>1. /\ q.seen = "super_admin"
        /\ q.target \in Operational(user', lic', q.start)
        /\ ~\E l \in Licenses \ {q.lic} : q.lic # Nobody /\ lic'[l].owner = q.target /\ Valid(lic'[l], q.start)
        /\ Operational(user', lic', q.start) \ {q.target} = {}
    BY DEF LastSuperAdmin
  <2> QED
    BY <1>4, <2>1 DEF LastSuperAdmin
<1> QED
  BY <1>2, <1>3, <1>5, <1>6 DEF Allowed

\* In particular a step that changes neither accounts nor licences.
LEMMA QuietStep ==
  ASSUME IInv, UNCHANGED <<user, lic>>, NEW o \in Requests, At(o, "commit"), req'[o] = req[o]
  PROVE  Allowed(req[o])'
BY AllowedStays DEF Operational

-----------------------------------------------------------------------------
(* Every step preserves the invariant.                                     *)

\* A request that has ended, or has not begun, works on nothing.
LEMMA IdleRequest == Idle \in Request /\ Idle.pc = "idle" /\ Idle.lic = Nobody
BY AdminAssumption DEF Request, Idle, Serialized, Roles, Times, NoWindow

\* The first steps of a request, before it holds a lock.
LEMMA AuthenticatesStep ==
  ASSUME IInv, NEW r \in Requests, NEW u \in Users, Authenticates(r, u)
  PROVE  IInv'
<1> DEFINE x == [Idle EXCEPT !.pc = "begin", !.actor = u, !.role = user[u].role]
<1>1. x \in Request /\ x.pc = "begin" /\ x.lic = Nobody
  <2>1. user[u].role \in Roles
    BY DEF IInv, AdminTypeOK, TypeOK, Roles
  <2>2. x \in Request
    BY <2>1, IdleRequest DEF Request
  <2> QED
    BY <2>2, IdleRequest DEF Request
<1>2. req' = [req EXCEPT ![r] = x] /\ UNCHANGED <<user, perms, lic, clock, advisory, rowLock>>
  BY DEF Authenticates
<1> HIDE DEF x
<1>3. AdminTypeOK'
  BY <1>1, <1>2 DEF IInv, AdminTypeOK, TypeOK
<1>4. req'[r] = x /\ \A o \in Requests \ {r} : req'[o] = req[o]
  BY <1>2 DEF IInv, AdminTypeOK
<1>5. TargetsExist' /\ LicencesOwned' /\ LocksHeld'
  BY <1>1, <1>2, <1>4, AdminAssumption DEF IInv, TargetsExist, LicencesOwned, LocksHeld, Begun
<1>6. CheckHolds'
  BY <1>1, <1>2, <1>4, QuietStep DEF CheckHolds, At
<1> QED
  BY <1>3, <1>5, <1>6 DEF IInv

LEMMA BeginsStep ==
  ASSUME IInv, NEW r \in Requests,
         NEW op \in Serialized \union {"grant_permission", "revoke_permission", "create_license"},
         NEW t \in Users, NEW l \in Licenses \union {Nobody}, NEW to \in {"admin", "staff", "none"},
         Begins(r, op, t, l, to), user[t].role # "none",
         op = "update_role" => to \in {"admin", "staff"},
         op \in {"update_license", "expire_license"} => l \in Licenses /\ lic[l].owner = t,
         op = "create_license" =>
           l \in Licenses /\ lic[l].owner = Nobody /\ \A o \in Requests : req[o].lic # l,
         op \notin {"update_license", "expire_license", "create_license"} => l = Nobody
  PROVE  IInv'
<1> DEFINE c == IF op \in Serialized THEN "serialize" ELSE "lock"
           x == [req[r] EXCEPT !.pc = c, !.op = op, !.actor = Nobody,
                               !.target = t, !.lic = l, !.to = to, !.start = clock]
<1>1. /\ x \in Request /\ x.pc = c
      /\ x.lic = l /\ x.op = op /\ x.target = t /\ x.to = to
  <2>1. req[r] \in Request /\ clock \in Times /\ to \in Roles
    BY AdminAssumption DEF IInv, AdminTypeOK, TypeOK, Roles, Times
  <2>2. op \in Serialized \union {"none", "grant_permission", "revoke_permission", "create_license"}
    OBVIOUS
  <2>3. c \in {"idle", "begin", "serialize", "lock", "check", "commit"}
    OBVIOUS
  <2> HIDE DEF c
  <2> QED
    BY ZenonT(60), <2>1, <2>2, <2>3 DEF Request
<1>2. req' = [req EXCEPT ![r] = x] /\ UNCHANGED <<user, perms, lic, clock, advisory, rowLock>>
  BY DEF Begins
<1> HIDE DEF x
<1>3. AdminTypeOK'
  BY <1>1, <1>2 DEF IInv, AdminTypeOK, TypeOK
<1>4. req'[r] = x /\ \A o \in Requests \ {r} : req'[o] = req[o]
  BY <1>2 DEF IInv, AdminTypeOK
<1>5. TargetsExist' /\ LocksHeld'
  BY <1>1, <1>2, <1>4 DEF IInv, TargetsExist, LocksHeld, Begun
<1>6. LicencesOwned'
  BY <1>1, <1>2, <1>4, AdminAssumption DEF IInv, LicencesOwned, Begun
<1>7. CheckHolds'
  BY <1>1, <1>2, <1>4, QuietStep DEF CheckHolds, At
<1> QED
  BY <1>3, <1>5, <1>6, <1>7 DEF IInv

\* create_user makes an account no transaction is about, and no super-admin.
LEMMA CreatesUserStep ==
  ASSUME IInv, NEW r \in Requests, CreatesUser(r)
  PROVE  IInv'
<1>1. PICK u \in Users : user[u] = Absent /\ user' = [user EXCEPT ![u] = Active("staff")]
  BY DEF CreatesUser
<1>2. Idle \in Request /\ Idle.pc = "idle" /\ Idle.lic = Nobody
  BY IdleRequest
<1>3. req' = [req EXCEPT ![r] = Idle] /\ UNCHANGED <<perms, lic, clock, advisory, rowLock>>
  BY DEF CreatesUser
<1>4. req'[r] = Idle /\ \A o \in Requests \ {r} : req'[o] = req[o]
  BY <1>3 DEF IInv, AdminTypeOK
<1>5. /\ \A v \in Users \ {u} : user'[v] = user[v]
      /\ user'[u].role = "staff" /\ user[u].role = "none" /\ user' \in [Users -> [role : Roles, active : BOOLEAN, deleted : BOOLEAN]]
  BY <1>1 DEF IInv, AdminTypeOK, TypeOK, Active, Absent, Roles
<1>6. AdminTypeOK'
  BY <1>2, <1>3, <1>5 DEF IInv, AdminTypeOK, TypeOK, Roles
<1>7. TargetsExist' /\ LicencesOwned' /\ LocksHeld'
  <2>1. \A o \in Requests : Begun(o) => req[o].target \in Users \ {u}
    BY <1>5 DEF IInv, TargetsExist
  <2>2. \A l \in Licenses : lic[l].owner # Nobody => lic[l].owner \in Users \ {u}
    BY <1>5 DEF IInv, TargetsExist, AdminTypeOK, TypeOK
  <2>3. TargetsExist'
    BY <1>2, <1>3, <1>4, <1>5, <2>1, <2>2 DEF IInv, TargetsExist, Begun
  <2>4. LicencesOwned'
    BY <1>2, <1>3, <1>4, AdminAssumption DEF IInv, LicencesOwned, Begun
  <2>5. LocksHeld'
    BY <1>2, <1>3, <1>4, <1>5, <2>1 DEF IInv, LocksHeld, Begun
  <2> QED
    BY <2>3, <2>4, <2>5
<1>8. CheckHolds'
  <2> SUFFICES ASSUME NEW o \in Requests, At(o, "commit")' PROVE Allowed(req[o])'
    BY DEF CheckHolds
  <2>1. req'[o] = req[o] /\ At(o, "commit")
    BY <1>2, <1>4 DEF At
  <2>2. req[o].target \in Users \ {u}
    BY <1>5, <2>1 DEF IInv, TargetsExist, Begun, At
  <2>3. \A n : Operational(user, lic, n) \subseteq Operational(user', lic', n)
    BY <1>3, <1>5 DEF Operational
  <2> QED
    BY <1>3, <1>5, <2>1, <2>2, <2>3, AllowedStays
<1> QED
  BY <1>6, <1>7, <1>8 DEF IInv

\* The two locks.
LEMMA LockStep ==
  ASSUME IInv, NEW r \in Requests, Serializes(r) \/ Locks(r)
  PROVE  IInv'
<1>1. req[r] \in Request
  BY DEF IInv, AdminTypeOK
<1>2. CASE Serializes(r)
  <2> DEFINE x == [req[r] EXCEPT !.pc = "lock"]
  <2>1. /\ x \in Request /\ x.pc = "lock" /\ x.op = req[r].op /\ x.lic = req[r].lic
        /\ x.target = req[r].target /\ x.to = req[r].to
    BY <1>1 DEF Request
  <2>2. /\ req' = [req EXCEPT ![r] = x] /\ advisory = Nobody /\ advisory' = r
        /\ UNCHANGED <<user, perms, lic, clock, rowLock>> /\ req[r].pc = "serialize"
    BY <1>2 DEF Serializes, Goto, At
  <2> HIDE DEF x
  <2>3. AdminTypeOK'
    BY <2>1, <2>2 DEF IInv, AdminTypeOK, TypeOK
  <2>4. req'[r] = x /\ \A o \in Requests \ {r} : req'[o] = req[o]
    BY <2>2 DEF IInv, AdminTypeOK
  <2>5. TargetsExist' /\ LicencesOwned' /\ LocksHeld'
    BY <2>1, <2>2, <2>4, AdminAssumption DEF IInv, TargetsExist, LicencesOwned, LocksHeld, Begun
  <2>6. CheckHolds'
    BY <2>1, <2>2, <2>4, QuietStep DEF CheckHolds, At
  <2> QED
    BY <2>3, <2>5, <2>6 DEF IInv
<1>3. CASE Locks(r)
  <2> DEFINE t == req[r].target
             x == [req[r] EXCEPT !.pc = "check", !.seen = user[t].role]
  <2>0. t \in Users /\ user[t].role \in Roles
    BY <1>3 DEF Locks, At, IInv, TargetsExist, Begun, AdminTypeOK, TypeOK, Roles
  <2>1. /\ x \in Request /\ x.pc = "check" /\ x.op = req[r].op /\ x.lic = req[r].lic
        /\ x.target = t /\ x.to = req[r].to /\ x.seen = user[t].role
    BY <1>1, <2>0 DEF Request
  <2>2. /\ req' = [req EXCEPT ![r] = x] /\ rowLock[t] = Nobody /\ rowLock' = [rowLock EXCEPT ![t] = r]
        /\ UNCHANGED <<user, perms, lic, clock, advisory>> /\ req[r].pc = "lock"
    BY <1>3 DEF Locks, At
  <2> HIDE DEF x
  <2>3. AdminTypeOK'
    BY <2>1, <2>2 DEF IInv, AdminTypeOK, TypeOK
  <2>4. req'[r] = x /\ \A o \in Requests \ {r} : req'[o] = req[o]
    BY <2>2 DEF IInv, AdminTypeOK
  <2>5. rowLock'[t] = r /\ \A u \in Users \ {t} : rowLock'[u] = rowLock[u]
    BY <2>0, <2>2 DEF IInv, AdminTypeOK, TypeOK
  <2>6. TargetsExist' /\ LicencesOwned'
    BY <2>1, <2>2, <2>4, AdminAssumption DEF IInv, TargetsExist, LicencesOwned, Begun
  <2>7. LocksHeld'
    <3> SUFFICES ASSUME NEW o \in Requests
                 PROVE  /\ req'[o].pc \in {"lock", "check", "commit"} /\ req'[o].op \in Serialized => advisory' = o
                        /\ req'[o].pc \in {"check", "commit"} =>
                             rowLock'[req'[o].target] = o /\ req'[o].seen = user'[req'[o].target].role
      BY DEF LocksHeld
    <3>1. CASE o = r
      BY <3>1, <2>1, <2>2, <2>4, <2>5 DEF IInv, LocksHeld
    <3>2. CASE o # r
      BY <3>2, <2>2, <2>4, <2>5, AdminAssumption DEF IInv, LocksHeld, TargetsExist, Begun
    <3> QED
      BY <3>1, <3>2
  <2>8. CheckHolds'
    BY <2>1, <2>2, <2>4, QuietStep DEF CheckHolds, At
  <2> QED
    BY <2>3, <2>6, <2>7, <2>8 DEF IInv
<1> QED
  BY <1>2, <1>3

\* A transaction that ends drops its own locks and no other.
LEMMA EndsFacts ==
  ASSUME IInv, NEW r \in Requests, Ends(r)
  PROVE  /\ req' \in [Requests -> Request] /\ clock' = clock
         /\ req'[r] = Idle /\ \A o \in Requests \ {r} : req'[o] = req[o]
         /\ advisory' \in Requests \union {Nobody} /\ rowLock' \in [Users -> Requests \union {Nobody}]
         /\ \A o \in Requests \ {r} : advisory = o => advisory' = o
         /\ \A o \in Requests \ {r}, u \in Users : rowLock[u] = o => rowLock'[u] = o
<1>1. req' = [req EXCEPT ![r] = Idle]
  BY DEF Ends
<1>2. /\ req' \in [Requests -> Request]
      /\ req'[r] = Idle /\ \A o \in Requests \ {r} : req'[o] = req[o]
  BY <1>1, IdleRequest DEF IInv, AdminTypeOK
<1> QED
  BY <1>2, IdleRequest DEF IInv, AdminTypeOK, TypeOK, Ends

\* The check, which ends the transaction or lets it commit.
LEMMA ChecksStep ==
  ASSUME IInv, NEW r \in Requests, Checks(r)
  PROVE  IInv'
<1>1. PICK w \in Asked(req[r]) :
        LET q == [req[r] EXCEPT !.window = w]
        IN  IF Allowed(q) THEN /\ req' = [req EXCEPT ![r] = [q EXCEPT !.pc = "commit"]]
                               /\ UNCHANGED <<advisory, rowLock, clock, made>>
            ELSE Ends(r)
  BY DEF Checks
<1>2. req[r] \in Request /\ req[r].pc = "check" /\ UNCHANGED <<user, perms, lic>>
  BY DEF Checks, At, IInv, AdminTypeOK
<1>3. w \in [from : Times, until : Times, active : BOOLEAN]
  <2>1. NoWindow \in [from : Times, until : Times, active : BOOLEAN]
    BY AdminAssumption DEF NoWindow, Times
  <2> QED
    BY <2>1 DEF Asked, Windows
<1> DEFINE q == [req[r] EXCEPT !.window = w]
           x == [q EXCEPT !.pc = "commit"]
<1>4. CASE Allowed(q)
  <2>1. q \in Request
    BY <1>2, <1>3 DEF Request
  <2>2. x \in Request /\ x.pc = "commit"
    BY <2>1 DEF Request
  <2>3. /\ x.op = req[r].op /\ x.lic = req[r].lic /\ x.target = req[r].target
        /\ x.to = req[r].to /\ x.seen = req[r].seen
        /\ x.role = q.role /\ x.start = q.start /\ x.window = q.window
    BY <1>2 DEF Request
  <2>4. q.op = req[r].op /\ q.lic = req[r].lic /\ q.target = req[r].target /\ q.to = req[r].to /\ q.seen = req[r].seen
    BY <1>2 DEF Request
  <2>5. req' = [req EXCEPT ![r] = x] /\ UNCHANGED <<advisory, rowLock, clock>>
    BY <1>1, <1>4
  <2> HIDE DEF q, x
  <2>6. Allowed(x)
    BY <1>4, <2>3, <2>4 DEF Allowed, Found, CanManage, Protected, RemainsActive, LastSuperAdmin
  <2>7. AdminTypeOK'
    BY <1>2, <2>2, <2>5 DEF IInv, AdminTypeOK, TypeOK
  <2>8. req'[r] = x /\ \A o \in Requests \ {r} : req'[o] = req[o]
    BY <2>5 DEF IInv, AdminTypeOK
  <2>9. TargetsExist' /\ LicencesOwned' /\ LocksHeld'
    BY <1>2, <2>2, <2>3, <2>5, <2>8 DEF IInv, TargetsExist, LicencesOwned, LocksHeld, Begun
  <2>10. Allowed(req[r])'
    <3>1. Allowed(x) = Allowed(req[r])'
      BY <1>2, <2>8 DEF Allowed, Found, CanManage, Protected, RemainsActive, LastSuperAdmin
    <3> QED
      BY <2>6, <3>1
  <2>11. CheckHolds'
    BY <1>2, <2>8, <2>10, QuietStep DEF CheckHolds, At
  <2> QED
    BY <2>7, <2>9, <2>11 DEF IInv
<1>5. CASE ~Allowed(q)
  <2>1. Ends(r)
    BY <1>1, <1>5
  <2>2. AdminTypeOK'
    BY <1>2, <2>1, EndsFacts DEF IInv, AdminTypeOK, TypeOK
  <2>3. TargetsExist' /\ LicencesOwned' /\ LocksHeld'
    BY <1>2, <2>1, EndsFacts, IdleRequest, AdminAssumption
       DEF IInv, TargetsExist, LicencesOwned, LocksHeld, Begun
  <2>4. CheckHolds'
    BY <1>2, <2>1, EndsFacts, IdleRequest, QuietStep DEF CheckHolds, At
  <2> QED
    BY <2>2, <2>3, <2>4 DEF IInv
<1> QED
  BY <1>4, <1>5

\* A commit: what the others hold locked, own or checked is not what it changes.
LEMMA CommitsStep ==
  ASSUME IInv, NEW r \in Requests, Commits(r)
  PROVE  IInv'
<1>1. Ends(r) /\ req[r].pc = "commit" /\ Mutates(req[r])
  BY DEF Commits, At
<1>2. perms' \subseteq Users
  BY <1>1, CommitChanges
     DEF Mutates, UpdatesRole, DeletesUser, TogglesActive, GrantsPermission, RevokesPermission,
         CreatesLicense, UpdatesLicense, ExpiresLicense, IInv, AdminTypeOK, TypeOK
<1>3. AdminTypeOK'
  <2>1. clock' \in 0..MaxClock
    BY <1>1, EndsFacts DEF IInv, AdminTypeOK, TypeOK
  <2> QED
    BY <1>1, <1>2, <2>1, EndsFacts, CommitChanges DEF AdminTypeOK, TypeOK, Roles
<1>4. \A o \in Requests \ {r} : req[o].pc \in {"check", "commit"} =>
        req[o].target \in Users /\ req[o].target # req[r].target /\ rowLock[req[o].target] = o
  BY CommitChanges DEF IInv, LocksHeld, TargetsExist, Begun
<1>5. TargetsExist'
  <2>1. \A u \in Users : user[u].role # "none" => user'[u].role # "none"
    BY CommitChanges
  <2>2. \A u \in Users : user'[u].role = "none" => user'[u] = Absent
    BY CommitChanges DEF IInv, TargetsExist
  <2>3. \A l \in Licenses : lic'[l].owner # Nobody => user'[lic'[l].owner].role # "none"
    BY <2>1, CommitChanges DEF IInv, TargetsExist, AdminTypeOK, TypeOK
  <2> QED
    BY <1>1, <2>1, <2>2, <2>3, EndsFacts, IdleRequest DEF IInv, TargetsExist, Begun
<1>6. LicencesOwned'
  <2> SUFFICES ASSUME NEW o \in Requests \ {r}, Begun(o)
               PROVE  /\ req[o].op \in {"update_license", "expire_license"} =>
                           req[o].lic \in Licenses /\ lic'[req[o].lic].owner = req[o].target
                      /\ req[o].op = "create_license" =>
                           req[o].lic \in Licenses /\ lic'[req[o].lic].owner = Nobody
    BY <1>1, EndsFacts, IdleRequest, AdminAssumption DEF IInv, LicencesOwned, Begun
  <2>1. /\ req[o].op \in {"update_license", "expire_license"} =>
             req[o].lic \in Licenses /\ lic[req[o].lic].owner = req[o].target
        /\ req[o].op = "create_license" =>
             req[o].lic \in Licenses /\ lic[req[o].lic].owner = Nobody /\ req[r].lic # req[o].lic
    BY DEF IInv, LicencesOwned
  <2>2. req[o].target \in Users
    BY DEF IInv, TargetsExist
  <2>3. \A l \in Licenses : l = req[r].lic => lic[l].owner \in {Nobody, req[r].target}
    BY <1>1, AdminAssumption DEF IInv, LicencesOwned, Begun
  <2> QED
    BY <2>1, <2>2, <2>3, CommitChanges, AdminAssumption
<1>7. LocksHeld'
  BY <1>1, <1>4, EndsFacts, CommitChanges, IdleRequest DEF IInv, LocksHeld
<1>8. CheckHolds'
  <2> SUFFICES ASSUME NEW o \in Requests, At(o, "commit")' PROVE Allowed(req[o])'
    BY DEF CheckHolds
  <2>1. o # r /\ req'[o] = req[o] /\ req[o].pc = "commit"
    BY <1>1, EndsFacts, IdleRequest DEF At
  <2>2. req[o].target \in Users /\ user'[req[o].target] = user[req[o].target]
    BY <1>4, <2>1, CommitChanges
  <2>3. \A l \in Licenses : l = req[r].lic => lic[l].owner \in {Nobody, req[r].target}
    BY <1>1, AdminAssumption DEF IInv, LicencesOwned, Begun
  <2>4. \A l \in Licenses : lic[l].owner = req[o].target \/ lic'[l].owner = req[o].target
                            => lic'[l] = lic[l]
    BY <1>4, <2>1, <2>2, <2>3, CommitChanges, AdminAssumption
  <2>5. ASSUME req[o].op \in Serialized
        PROVE  Operational(user, lic, req[o].start) \subseteq Operational(user', lic', req[o].start)
    <3>1. req[r].op \notin Serialized
      BY <1>1, <2>1, <2>5 DEF IInv, LocksHeld
    <3>2. user' = user /\ \A l \in Licenses : lic'[l] = lic[l] \/ lic[l].owner = Nobody
      BY <3>1, CommitChanges
    <3> QED
      BY <3>2, AdminAssumption DEF Operational
  <2> QED
    BY <2>1, <2>2, <2>4, <2>5, AllowedStays DEF At
<1> QED
  BY <1>3, <1>5, <1>6, <1>7, <1>8 DEF IInv

LEMMA NextIInv == IInv /\ [Next]_vars => IInv'
<1> SUFFICES ASSUME IInv, [Next]_vars PROVE IInv'
  OBVIOUS
<1>1. CASE \E r \in Requests, u \in Users : Authenticates(r, u)
  BY <1>1, AuthenticatesStep
<1>2. CASE \E r \in Requests : Handlers(r)
  BY <1>2, HandlerBegins, BeginsStep, CreatesUserStep
<1>3. CASE \E r \in Requests : Serializes(r) \/ Locks(r)
  BY <1>3, LockStep
<1>4. CASE \E r \in Requests : Checks(r)
  BY <1>4, ChecksStep
<1>5. CASE \E r \in Requests : Commits(r)
  BY <1>5, CommitsStep
<1>6. CASE Tick \/ UNCHANGED vars
  <2>1. UNCHANGED <<user, perms, lic, advisory, rowLock, req>> /\ clock' \in 0..MaxClock
    BY <1>6, AdminAssumption DEF Tick, vars, IInv, AdminTypeOK, TypeOK
  <2>2. AdminTypeOK' /\ TargetsExist' /\ LicencesOwned' /\ LocksHeld'
    BY <2>1 DEF IInv, AdminTypeOK, TypeOK, TargetsExist, LicencesOwned, LocksHeld, Begun
  <2>3. CheckHolds'
    BY <2>1, QuietStep DEF CheckHolds, At
  <2> QED
    BY <2>2, <2>3 DEF IInv
<1> QED
  BY <1>1, <1>2, <1>3, <1>4, <1>5, <1>6 DEF Next

LEMMA Invariance == Spec => []IInv
BY InitIInv, NextIInv, PTL DEF Spec

-----------------------------------------------------------------------------
(* The results.                                                            *)

\* The tables, locks and requests of the administration stay typed.
THEOREM TypeCorrect == Spec => []AdminTypeOK
<1>1. IInv => AdminTypeOK
  BY DEF IInv
<1> QED
  BY <1>1, Invariance, PTL

\* What a handler checked under its locks still holds when it commits: the account it is
\* about, its licences, its own authority and the other operational super-admins.
THEOREM ChecksAreCurrent == Spec => []CheckHolds
<1>1. IInv => CheckHolds
  BY DEF IInv
<1> QED
  BY <1>1, Invariance, PTL

\* Only a commit takes a request from "commit" to "idle".
LEMMA CommittingCommits ==
  ASSUME IInv, [Next]_vars, NEW r \in Requests, Committing(r)
  PROVE  Commits(r)
<1>1. req[r].pc = "commit" /\ req'[r].pc = "idle" /\ req \in [Requests -> Request]
  BY DEF Committing, At, IInv, AdminTypeOK
<1>2. ASSUME NEW o \in Requests, NEW x, req' = [req EXCEPT ![o] = x], req[o].pc # "commit"
      PROVE  FALSE
  BY <1>1, <1>2
<1>3. ASSUME NEW o \in Requests, Handlers(o) PROVE FALSE
  <2>1. \E x : req' = [req EXCEPT ![o] = x]
    BY <1>3, HandlerBegins DEF Begins, CreatesUser
  <2>2. req[o].pc = "begin"
    BY <1>3, HandlerBegins DEF Begins, CreatesUser, At
  <2> QED
    BY <1>2, <2>1, <2>2
<1>4. ASSUME NEW o \in Requests, Serializes(o) \/ Locks(o) \/ Checks(o) PROVE FALSE
  <2>1. req[o].pc # "commit"
    BY <1>4 DEF Serializes, Locks, Checks, At
  <2>2. \E x : req' = [req EXCEPT ![o] = x]
    BY <1>4 DEF Serializes, Locks, Checks, Goto, Ends
  <2> QED
    BY <1>2, <2>1, <2>2
<1>5. ASSUME NEW o \in Requests, NEW u \in Users, Authenticates(o, u) PROVE FALSE
  BY <1>2, <1>5 DEF Authenticates, At
<1>6. ASSUME NEW o \in Requests, Commits(o), o # r PROVE FALSE
  BY <1>1, <1>6, EndsFacts DEF Commits
<1> QED
  BY <1>1, <1>3, <1>4, <1>5, <1>6 DEF Next, Tick, vars

\* protect_last_super_admin: no transaction takes away the last operational super-admin,
\* as its own clock judges, for any number of concurrent handlers.
THEOREM LastAdminIsKept == Spec => LastAdminStays
<1> DEFINE Kept(r) == Operational(user, lic, req[r].start) # {} => Operational(user', lic', req[r].start) # {}
<1>1. ASSUME IInv, [Next]_vars, NEW r \in Requests, Committing(r)
      PROVE  Kept(r)
  <2> SUFFICES ASSUME NEW a \in Operational(user, lic, req[r].start)
               PROVE  \E b \in Users : b \in Operational(user', lic', req[r].start)
    BY DEF Operational
  <2> DEFINE q == req[r]
             t == q.target
             n == q.start
  <2>1. Commits(r) /\ q.pc = "commit" /\ Mutates(q)
    BY <1>1, CommittingCommits DEF Commits, At
  <2>2. /\ Allowed(q) /\ t \in Users /\ q.seen = user[t].role
        /\ q.op \in {"update_license", "expire_license"} => q.lic \in Licenses /\ lic[q.lic].owner = t
        /\ q.op = "create_license" => q.lic \in Licenses /\ lic[q.lic].owner = Nobody
        /\ q.op \notin {"update_license", "expire_license", "create_license"} => q.lic = Nobody
    BY <1>1, <2>1 DEF IInv, CheckHolds, At, LocksHeld, LicencesOwned, TargetsExist, Begun
  <2>3. \A u \in Users \ {t} : user'[u] = user[u]
    BY <1>1, <2>1, CommitChanges
  <2>4. \A l \in Licenses : l # q.lic => lic'[l] = lic[l]
    BY <1>1, <2>1, CommitChanges
  <2>5. \A l \in Licenses : l = q.lic => lic[l].owner \in {Nobody, t}
    BY <2>2, AdminAssumption
  <2>6. \A u \in Operational(user, lic, n) \ {t} : u \in Operational(user', lic', n)
    BY <2>3, <2>4, <2>5, AdminAssumption DEF Operational
  <2>7. CASE a # t
    BY <2>6, <2>7 DEF Operational
  <2>8. CASE a = t
    <3>1. /\ user[t].role = "super_admin" /\ user[t].active /\ ~user[t].deleted
          /\ \E l \in Licenses : lic[l].owner = t /\ Valid(lic[l], n)
      BY <2>8 DEF Operational
    <3>2. CASE Protected(q)
      <4>1. \/ \E l \in Licenses \ {q.lic} : q.lic # Nobody /\ lic[l].owner = t /\ Valid(lic[l], n)
            \/ \E u \in Operational(user, lic, n) : u # t
        BY <2>2, <2>8, <3>1, <3>2 DEF Allowed, LastSuperAdmin
      <4>2. CASE \E u \in Operational(user, lic, n) : u # t
        BY <2>6, <4>2 DEF Operational
      <4>3. CASE \E l \in Licenses \ {q.lic} : q.lic # Nobody /\ lic[l].owner = t /\ Valid(lic[l], n)
        <5>1. user' = user
          BY <2>1, <2>2, <4>3
             DEF Mutates, UpdatesRole, DeletesUser, TogglesActive, GrantsPermission, RevokesPermission,
                 CreatesLicense, UpdatesLicense, ExpiresLicense
        <5> QED
          BY <2>2, <2>4, <3>1, <4>3, <5>1 DEF Operational
      <4> QED
        BY <4>1, <4>2, <4>3
    <3>3. CASE ~Protected(q)
      <4>1. \/ UpdatesLicense(q) /\ RemainsActive(q)
            \/ GrantsPermission(q) \/ RevokesPermission(q) \/ CreatesLicense(q)
        BY <2>1, <2>2, <3>1, <3>3
           DEF Mutates, UpdatesRole, DeletesUser, TogglesActive, ExpiresLicense, UpdatesLicense, Protected
      <4>2. CASE GrantsPermission(q) \/ RevokesPermission(q)
        BY <2>8, <4>2 DEF GrantsPermission, RevokesPermission, Operational
      <4>3. CASE CreatesLicense(q)
        BY <2>2, <2>4, <3>1, <4>3, AdminAssumption DEF CreatesLicense, Operational
      <4>4. CASE UpdatesLicense(q) /\ RemainsActive(q)
        <5>1. q.lic \in Licenses /\ user' = user
          BY <2>2, <4>4 DEF UpdatesLicense
        <5>2. lic'[q.lic].owner = t /\ Valid(lic'[q.lic], n)
          <6>1. lic'[q.lic] = [owner |-> t, from |-> q.window.from, until |-> q.window.until,
                               active |-> q.window.active]
            BY <1>1, <4>4, <5>1 DEF UpdatesLicense, Licensed, IInv, AdminTypeOK, TypeOK
          <6> QED
            BY <4>4, <6>1 DEF RemainsActive, Valid
        <5> QED
          BY <2>2, <3>1, <5>1, <5>2 DEF Operational
      <4> QED
        BY <4>1, <4>2, <4>3, <4>4
    <3> QED
      BY <3>2, <3>3
  <2> QED
    BY <2>7, <2>8
<1>2. IInv /\ [Next]_vars => [\A r \in Requests : Committing(r) => Kept(r)]_vars
  BY <1>1
<1> QED
  BY <1>2, Invariance, PTL DEF Spec, LastAdminStays

\* assert_can_manage_target under the row lock: an admin's transaction commits to a staff
\* account only, and leaves it one, whatever other handlers do meanwhile.
THEOREM AdminsAreKeptBelow == Spec => AdminsStayBelow
<1> DEFINE Below(r) == user[req[r].target].role = "staff" /\ user'[req[r].target].role = "staff"
<1>1. ASSUME IInv, [Next]_vars, NEW r \in Requests, Committing(r), req[r].role = "admin"
      PROVE  Below(r)
  <2> DEFINE q == req[r]
             t == q.target
  <2>1. q.pc = "commit" /\ Mutates(q)
    BY <1>1, CommittingCommits DEF Commits, At
  <2>2. Allowed(q) /\ t \in Users /\ q.seen = user[t].role
    BY <1>1, <2>1 DEF IInv, CheckHolds, At, LocksHeld, TargetsExist, Begun
  <2>3. user[t].role = "staff" /\ ~(q.op = "update_role" /\ q.to = "admin")
    BY <1>1, <2>2 DEF Allowed, CanManage
  <2>4. user \in [Users -> [role : Roles, active : BOOLEAN, deleted : BOOLEAN]]
    BY <1>1 DEF IInv, AdminTypeOK, TypeOK, Roles
  <2>5. user[t] \in [role : Roles, active : BOOLEAN, deleted : BOOLEAN]
    BY <2>2, <2>4
  <2>6. CASE UpdatesRole(q)
    <3>1. q.to = "staff"
      BY <1>1, <2>1, <2>3, <2>6 DEF UpdatesRole, IInv, TargetsExist, Begun
    <3>2. user'[t] = [user[t] EXCEPT !.role = "staff"]
      BY <2>2, <2>4, <2>6, <3>1 DEF UpdatesRole
    <3> QED
      BY <2>3, <2>5, <3>2
  <2>7. CASE DeletesUser(q)
    <3>1. user'[t] = [user[t] EXCEPT !.deleted = TRUE, !.active = FALSE]
      BY <2>2, <2>4, <2>7 DEF DeletesUser
    <3> QED
      BY <2>3, <2>5, <3>1
  <2>8. CASE TogglesActive(q)
    <3>1. user'[t] = [user[t] EXCEPT !.active = ~user[t].active]
      BY <2>2, <2>4, <2>8 DEF TogglesActive
    <3> QED
      BY <2>3, <2>5, <3>1
  <2>9. CASE user' = user
    BY <2>3, <2>9
  <2> QED
    BY <2>1, <2>6, <2>7, <2>8, <2>9
       DEF Mutates, GrantsPermission, RevokesPermission, CreatesLicense, UpdatesLicense, ExpiresLicense
<1>2. IInv /\ [Next]_vars =>
        [\A r \in Requests : Committing(r) /\ req[r].role = "admin" => Below(r)]_vars
  BY <1>1
<1> QED
  BY <1>2, Invariance, PTL DEF Spec, AdminsStayBelow
=============================================================================
