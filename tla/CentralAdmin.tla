---------------------------- MODULE CentralAdmin ----------------------------
(***************************************************************************)
(* Administration of the central accounts: the handlers of                 *)
(* app/routers/users.py and app/routers/licenses.py that change users,     *)
(* permissions and licences, and the rules of services/rbac_service.py     *)
(* they enforce.                                                           *)
(*                                                                         *)
(* A handler authenticates its actor, opens a transaction (whose NOW() is  *)
(* the time it began), takes the advisory lock when it can reduce the set  *)
(* of operational super-admins, locks its target's row, checks, and        *)
(* commits.  The statements read what is committed (READ COMMITTED).  The  *)
(* consequences for sessions are in module CentralSession.  The role       *)
(* "staff" stands for staff and va_user, which these rules do not tell     *)
(* apart.                                                                  *)
(***************************************************************************)
EXTENDS Naturals, FiniteSets, Functions

CONSTANTS Users, Licenses,  \* ids of auth.users and rbac.licenses
          Supers, Admins,   \* accounts that are super-admins and admins at first
          Requests,         \* handlers that can be under way at once
          Nobody,           \* no transaction holds a lock
          MaxClock,         \* bound: the last time modelled
          MaxRequests       \* bound: requests made

ASSUME AdminAssumption ==
  /\ Supers \subseteq Users /\ Admins \subseteq Users \ Supers
  /\ Nobody \notin Users \union Licenses \union Requests
  /\ MaxClock \in Nat /\ MaxRequests \in Nat

VARIABLES user,      \* auth.users
          perms,     \* users with a permission in rbac.permissions
          lic,       \* rbac.licenses
          clock,     \* the database clock
          advisory,  \* the request that holds SUPER_ADMIN_INVARIANT_LOCK_KEY
          rowLock,   \* the request that holds a user's row
          req,       \* the requests
          made

vars == <<user, perms, lic, clock, advisory, rowLock, req, made>>

Times == 0..(MaxClock + 1)
Windows == {w \in [from : Times, until : Times, active : BOOLEAN] : w.from < w.until}
Unused == [owner |-> Nobody, from |-> 0, until |-> 0, active |-> FALSE]
NoWindow == [from |-> 0, until |-> 0, active |-> FALSE]
Absent == [role |-> "none", active |-> FALSE, deleted |-> FALSE]
Idle == [pc |-> "idle", op |-> "none", actor |-> Nobody, role |-> "none", target |-> Nobody,
         lic |-> Nobody, to |-> "none", start |-> 0, seen |-> "none", window |-> NoWindow]

\* Handlers that begin with serialize_super_admin_mutation.
Serialized == {"update_role", "delete_user", "toggle_active", "update_license", "expire_license"}

Valid(l, n) == l.active /\ l.from <= n /\ n < l.until
\* The operational super-admins of protect_last_super_admin, at the time n.
Operational(us, ls, n) ==
  {u \in Users : /\ us[u].role = "super_admin" /\ us[u].active /\ ~us[u].deleted
                 /\ \E l \in Licenses : ls[l].owner = u /\ Valid(ls[l], n)}

Active(role) == [role |-> role, active |-> TRUE, deleted |-> FALSE]

\* Super-admins, and some admins, have a licence of any length; the other accounts
\* are staff, or yet to be made.
Init ==
  /\ \E staff \in SUBSET Users :
       user = [u \in Users |-> IF u \in Supers THEN Active("super_admin")
                               ELSE IF u \in Admins THEN Active("admin")
                               ELSE IF u \in staff THEN Active("staff") ELSE Absent]
  /\ perms = {}
  /\ \E some \in SUBSET Admins :
       \E held \in Injection(Supers \union some, Licenses), until \in [Supers \union some -> 1..(MaxClock + 1)] :
         lic = [l \in Licenses |->
                  IF l \in Range(held)
                  THEN LET u == CHOOSE u \in DOMAIN held : held[u] = l
                       IN  [owner |-> u, from |-> 0, until |-> until[u], active |-> TRUE]
                  ELSE Unused]
  /\ clock = 0 /\ advisory = Nobody /\ rowLock = [u \in Users |-> Nobody]
  /\ req = [r \in Requests |-> Idle] /\ made = 0

-----------------------------------------------------------------------------
(* A request: authentication, transaction, locks.                          *)

At(r, pc) == req[r].pc = pc
Goto(r, pc) == req' = [req EXCEPT ![r].pc = pc]

\* verify_dual_token and require_roles: the actor's role is read here, once.
MayAct(u) ==
  /\ user[u].role \in {"admin", "super_admin"} /\ user[u].active /\ ~user[u].deleted
  /\ \E l \in Licenses : lic[l].owner = u /\ Valid(lic[l], clock)

Authenticates(r, u) ==
  /\ At(r, "idle") /\ made < MaxRequests /\ MayAct(u)
  /\ req' = [req EXCEPT ![r] = [Idle EXCEPT !.pc = "begin", !.actor = u, !.role = user[u].role]]
  /\ made' = made + 1
  /\ UNCHANGED <<user, perms, lic, clock, advisory, rowLock>>

\* The transaction begins and NOW() is fixed; op is the handler, with what it is about.
\* Of the actor only the role is used from here on.
Begins(r, op, target, l, to) ==
  /\ At(r, "begin")
  /\ req' = [req EXCEPT ![r] = [@ EXCEPT !.pc = IF op \in Serialized THEN "serialize" ELSE "lock", !.op = op, !.actor = Nobody,
                                         !.target = target, !.lic = l, !.to = to, !.start = clock]]
  /\ UNCHANGED <<user, perms, lic, clock, advisory, rowLock, made>>
\* create_user: one INSERT, no row to lock, and never a role above staff.
CreatesUser(r) ==
  /\ At(r, "begin")
  /\ \E u \in {u \in Users : user[u] = Absent} : user' = [user EXCEPT ![u] = Active("staff")]
  /\ req' = [req EXCEPT ![r] = Idle]
  /\ UNCHANGED <<perms, lic, clock, advisory, rowLock, made>>

\* The other handlers, with their parameters.  Nobody deletes or disables the own
\* account; update_user is modelled for the role it changes.
Known == {u \in Users : user[u] # Absent}
UpdateUser(r) == \E t \in Known, to \in {"admin", "staff"} : Begins(r, "update_role", t, Nobody, to)
DeleteUser(r) == \E t \in Known \ {req[r].actor} : Begins(r, "delete_user", t, Nobody, "none")
ToggleActive(r) == \E t \in Known \ {req[r].actor} : Begins(r, "toggle_active", t, Nobody, "none")
GrantPermission(r) == \E t \in Known : Begins(r, "grant_permission", t, Nobody, "none")
RevokePermission(r) == \E t \in Known : Begins(r, "revoke_permission", t, Nobody, "none")

Issued == {l \in Licenses : lic[l].owner # Nobody}
UpdateLicense(r) == \E l \in Issued : Begins(r, "update_license", lic[l].owner, l, "none")
ExpireLicense(r) == \E l \in Issued : Begins(r, "expire_license", lic[l].owner, l, "none")
CreateLicense(r) ==
  \E t \in Known, l \in Licenses \ (Issued \union {req[o].lic : o \in Requests}) :
    Begins(r, "create_license", t, l, "none")

\* serialize_super_admin_mutation: pg_advisory_xact_lock.
SerializesNothing(r) ==  \* mutant: the transactions do not exclude one another
  /\ At(r, "serialize")
  /\ Goto(r, "lock")
  /\ UNCHANGED <<user, perms, lic, clock, advisory, rowLock, made>>
Serializes(r) ==
  /\ At(r, "serialize") /\ advisory = Nobody
  /\ advisory' = r
  /\ Goto(r, "lock")
  /\ UNCHANGED <<user, perms, lic, clock, rowLock, made>>

\* SELECT role ... FOR UPDATE: waits for the row and reads its committed role.
LocksWithoutRow(r) ==  \* mutant: the role is read without locking the row
  /\ At(r, "lock")
  /\ req' = [req EXCEPT ![r].pc = "check", ![r].seen = user[req[r].target].role]
  /\ UNCHANGED <<user, perms, lic, clock, advisory, rowLock, made>>
Locks(r) ==
  LET t == req[r].target
  IN  /\ At(r, "lock") /\ rowLock[t] = Nobody
      /\ rowLock' = [rowLock EXCEPT ![t] = r]
      /\ req' = [req EXCEPT ![r].pc = "check", ![r].seen = user[t].role]
      /\ UNCHANGED <<user, perms, lic, clock, advisory, made>>

\* The transaction ends and its locks with it.
Ends(r) ==
  /\ req' = [req EXCEPT ![r] = Idle]
  /\ advisory' = IF advisory = r THEN Nobody ELSE advisory
  /\ rowLock' = [u \in Users |-> IF rowLock[u] = r THEN Nobody ELSE rowLock[u]]
  /\ UNCHANGED <<clock, made>>

-----------------------------------------------------------------------------
(* The checks, made with the locks held.                                   *)

\* assert_can_manage_target
CanManage(role, target) == role = "super_admin" \/ (role = "admin" /\ target = "staff")

\* The row exists: a deleted user is found only through a licence.
Found(q) == user[q.target].deleted => q.op \in {"update_license", "expire_license"}

\* What the handler will leave of the licence, at its own time.
RemainsActive(q) == q.op = "update_license" /\ Valid(q.window, q.start)

\* protect_last_super_admin; excluded is the licence the mutation takes away.
LastSuperAdmin(q, excluded) ==
  /\ q.seen = "super_admin"
  /\ q.target \in Operational(user, lic, q.start)
  /\ ~\E l \in Licenses \ {excluded} : excluded # Nobody /\ lic[l].owner = q.target /\ Valid(lic[l], q.start)
  /\ Operational(user, lic, q.start) \ {q.target} = {}

\* Which handlers ask for that protection, and when.
Protected(q) ==
  \/ q.op = "update_role" /\ q.seen = "super_admin"
  \/ q.op = "toggle_active" /\ user[q.target].active
  \/ q.op = "update_license" /\ ~RemainsActive(q)
  \/ q.op \in {"delete_user", "expire_license"}

Allowed(q) ==
  /\ Found(q)
  /\ CanManage(q.role, q.seen)
  /\ q.op = "update_role" /\ q.to = "admin" => q.role = "super_admin"
  /\ Protected(q) => ~LastSuperAdmin(q, q.lic)

\* The validity a licence is asked to get (all its fields: those not in the payload keep theirs).
Asked(q) ==
  IF q.op = "update_license" THEN Windows
  ELSE IF q.op = "create_license" THEN {w \in Windows : w.active}
  ELSE {NoWindow}

Checks(r) ==
  /\ At(r, "check")
  /\ \E w \in Asked(req[r]) :
       LET q == [req[r] EXCEPT !.window = w]
       IN  IF Allowed(q) THEN /\ req' = [req EXCEPT ![r] = [q EXCEPT !.pc = "commit"]]
                              /\ UNCHANGED <<advisory, rowLock, clock, made>>
           ELSE Ends(r)
  /\ UNCHANGED <<user, perms, lic>>

-----------------------------------------------------------------------------
(* The mutations, visible when the transaction commits.                    *)

UpdatesRole(q) ==
  /\ q.op = "update_role"
  /\ user' = [user EXCEPT ![q.target].role = q.to] /\ UNCHANGED <<perms, lic>>
DeletesUser(q) ==
  /\ q.op = "delete_user"
  /\ user' = [user EXCEPT ![q.target].deleted = TRUE, ![q.target].active = FALSE]
  /\ UNCHANGED <<perms, lic>>
TogglesActive(q) ==
  /\ q.op = "toggle_active"
  /\ user' = [user EXCEPT ![q.target].active = ~@] /\ UNCHANGED <<perms, lic>>
GrantsPermission(q) ==
  /\ q.op = "grant_permission"
  /\ perms' = perms \union {q.target} /\ UNCHANGED <<user, lic>>
\* A missing permission is a 404 that changes nothing.
RevokesPermission(q) ==
  /\ q.op = "revoke_permission"
  /\ perms' = perms \ {q.target} /\ UNCHANGED <<user, lic>>

Licensed(q) ==
  lic' = [lic EXCEPT ![q.lic] = [owner |-> q.target, from |-> q.window.from, until |-> q.window.until,
                                 active |-> q.window.active]]
CreatesLicense(q) == q.op = "create_license" /\ Licensed(q) /\ UNCHANGED <<user, perms>>
UpdatesLicense(q) == q.op = "update_license" /\ Licensed(q) /\ UNCHANGED <<user, perms>>
ExpiresLicense(q) ==
  /\ q.op = "expire_license"
  /\ lic' = [lic EXCEPT ![q.lic].until = q.start, ![q.lic].active = FALSE]
  /\ UNCHANGED <<user, perms>>

Mutates(q) ==
  \/ UpdatesRole(q) \/ DeletesUser(q) \/ TogglesActive(q) \/ GrantsPermission(q) \/ RevokesPermission(q)
  \/ CreatesLicense(q) \/ UpdatesLicense(q) \/ ExpiresLicense(q)

Commits(r) == At(r, "commit") /\ Mutates(req[r]) /\ Ends(r)

\* Time passes for the database, also while transactions wait for a lock.
Tick ==
  /\ clock < MaxClock
  /\ clock' = clock + 1
  /\ UNCHANGED <<user, perms, lic, advisory, rowLock, req, made>>

Handlers(r) ==
  \/ CreatesUser(r) \/ UpdateUser(r) \/ DeleteUser(r) \/ ToggleActive(r)
  \/ GrantPermission(r) \/ RevokePermission(r)
  \/ CreateLicense(r) \/ UpdateLicense(r) \/ ExpireLicense(r)

Next ==
  \/ \E r \in Requests, u \in Users : Authenticates(r, u)
  \/ \E r \in Requests : Handlers(r) \/ Serializes(r) \/ Locks(r) \/ Checks(r) \/ Commits(r)
  \/ Tick

Spec == Init /\ [][Next]_vars

-----------------------------------------------------------------------------
TypeOK ==
  /\ user \in [Users -> [role : {"super_admin", "admin", "staff", "none"}, active : BOOLEAN, deleted : BOOLEAN]]
  /\ perms \subseteq Users
  /\ lic \in [Licenses -> [owner : Users \union {Nobody}, from : Times, until : Times, active : BOOLEAN]]
  /\ clock \in 0..MaxClock
  /\ advisory \in Requests \union {Nobody}
  /\ rowLock \in [Users -> Requests \union {Nobody}]

Committing(r) == At(r, "commit") /\ req'[r].pc = "idle"

\* No administrative transaction takes away the last operational super-admin, as its own
\* clock judges (rbac_service.py:78-133), with any two handlers interleaved: roles,
\* deletions, deactivations and licences are counted while the advisory lock keeps every
\* other reducing transaction out.  Transactions that waited for the lock judge by the
\* time they began, so a licence that lapsed meanwhile still counts for them.
LastAdminStays ==
  [][\A r \in Requests : Committing(r) =>
       (Operational(user, lic, req[r].start) # {} => Operational(user', lic', req[r].start) # {})]_vars

\* An admin's transaction never changes the account, permissions or licences of an admin
\* or a super-admin (rbac_service.py:65-69), although the role may be changed by someone
\* else until the target's row is locked (users.py:89, 117, 143, 183; licenses.py:26, 86).
AdminsStayBelow ==
  [][\A r \in Requests : Committing(r) /\ req[r].role = "admin" =>
       user[req[r].target].role = "staff" /\ user'[req[r].target].role = "staff"]_vars
=============================================================================
