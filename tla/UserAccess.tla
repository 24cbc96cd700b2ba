----------------------------- MODULE UserAccess -----------------------------
(***************************************************************************)
(* Users and API keys of a tenant: authentication with provisioning at the *)
(* first login, single sign-on, and what administrators change, in         *)
(* database sessions that run side by side.                                *)
(*                                                                         *)
(* A session authenticates from committed rows, without a lock; the time   *)
(* of the login is flushed with the next statement, which locks the row of *)
(* the actor, and a change locks its target when it is flushed.  Columns   *)
(* nobody has changed are not written.                                     *)
(***************************************************************************)
EXTENDS Naturals, FiniteSets

CONSTANTS
  People,          \* subjects of the tokens and assertions; each has one e-mail
  FirstAdmins,     \* those that begin as administrators
  ApiKeys,         \* identities of API keys
  AssignableRoles, \* roles an administrator assigns, and groups of the provider stand for
  AccessSessions,  \* database sessions
  NoRole,          \* the role of a row that does not exist, and of a session of no user
  MaxChanges       \* bound: changes by administrators in a behaviour

VARIABLES
  role,         \* of a row in users or, for the synthetic user, api_keys
  active,       \* is_active of the row
  rotated,      \* the keys that were replaced by a rotation, with their successors
  expired,      \* keys past their expires_at
  access,       \* the sessions
  changes,      \* changes asked so far
  deactivated,  \* history: rows ever deactivated or revoked
  excused       \* history: an administrator lost the role by an own login or request, or two were at work

accessVars == <<role, active, rotated, expired, access, changes, deactivated, excused>>

Invited(p) == <<"invite", p>>  \* the row of an invitation, external_id invite:<email>

Users == People \cup {Invited(p) : p \in People}

Rows == Users \cup ApiKeys

(* A tenant has an administrator when it is set up; external_ids of        *)
(* invitations and keys are told from subjects by their prefix.            *)
ASSUME AccessAssumption ==
  /\ FirstAdmins \subseteq People /\ FirstAdmins # {}
  /\ People \cap ApiKeys = {}
  /\ \A p \in People : Invited(p) \notin People \cup ApiKeys
  /\ NoRole \notin AssignableRoles \cup {"admin", "viewer", "operator"}
  /\ MaxChanges \in Nat

Exists(r) == role[r] # NoRole

LoggedOut == [pc |-> "idle"]

AccessInit ==
  /\ role = [r \in Rows |-> IF r \in FirstAdmins THEN "admin" ELSE NoRole]
  /\ active = [r \in Rows |-> r \in FirstAdmins]
  /\ rotated = {}
  /\ expired = {}
  /\ access = [s \in AccessSessions |-> LoggedOut]
  /\ changes = 0
  /\ deactivated = {}
  /\ excused = FALSE

(* What a transaction is going to write: the columns of each row, and the  *)
(* rotation it makes.                                                      *)
RowWrites(roles, flags, rotation) == [role |-> roles, active |-> flags, rotated |-> rotation]

NoWrites == RowWrites([r \in {} |-> NoRole], [r \in {} |-> FALSE], {})

(* A new row. *)
Insert(r, as, flag) == RowWrites([x \in {r} |-> as], [x \in {r} |-> flag], {})

(* The column of the rows that were written, over what it was. *)
Overlaid(column, written) ==
  [r \in DOMAIN column |-> IF r \in DOMAIN written THEN written[r] ELSE column[r]]

Touched(w) == DOMAIN w.role \cup DOMAIN w.active

Inserts(w) == DOMAIN w.role \cap DOMAIN w.active

LocksOf(s) ==
  CASE access[s].pc \in {"ready", "asked"} -> {access[s].actor}
    [] access[s].pc = "flushed" -> {access[s].actor} \cup Touched(access[s].writes)
    [] OTHER -> {}

Free(s, rows) == \A o \in AccessSessions \ {s} : LocksOf(o) \cap rows = {}

Become(s, record) == access' = [access EXCEPT ![s] = record]

LogIn(s, r, as, writes) ==
  Become(s, [pc |-> "in", actor |-> r, role |-> as, writes |-> writes])

UnchangedRows == UNCHANGED <<role, active, rotated, expired, deactivated>>

Overlaps(s) == \E o \in AccessSessions \ {s} : access[o] # LoggedOut /\ access[o].role = "admin"

(* get_current_user() for a user that has a row. *)
LogInUser(s, p) ==
  /\ access[s] = LoggedOut
  /\ Exists(p) /\ active[p]
  /\ LogIn(s, p, role[p], NoWrites)
  /\ excused' = (excused \/ (role[p] = "admin" /\ Overlaps(s)))
  /\ UnchangedRows /\ UNCHANGED changes

(* The first login: an invitation has another external_id and is not found. *)
Provision(s, p) ==
  /\ access[s] = LoggedOut
  /\ ~Exists(p)
  /\ LogIn(s, p, "viewer", Insert(p, "viewer", TRUE))
  /\ UnchangedRows /\ UNCHANGED <<changes, excused>>

(* validate_key(): the synthetic user is an operator. *)
LogInKey(s, k) ==
  /\ access[s] = LoggedOut
  /\ Exists(k) /\ active[k] /\ k \notin expired
  /\ LogIn(s, k, role[k], NoWrites)
  /\ UnchangedRows /\ UNCHANGED <<changes, excused>>

(* The row gets another role, and nothing else changes. *)
Assign(r, as) == RowWrites([x \in {r} |-> as], NoWrites.active, {})

(* saml_acs(): the role is the provider's, for a new user and at every     *)
(* login, whether the account is active or not.  The session is nobody's:  *)
(* it can ask for no change.                                               *)
LogInBySaml(s, p) ==
  /\ access[s] = LoggedOut
  /\ \E r \in AssignableRoles :
       LogIn(s, p, NoRole, IF ~Exists(p) THEN Insert(p, r, TRUE)
                           ELSE IF r = role[p] THEN NoWrites ELSE Assign(p, r))
  /\ UnchangedRows /\ UNCHANGED <<changes, excused>>

(* The flush that comes first: the time of the login and the role, or the  *)
(* row of a new user, which waits for another insert of the same subject.  *)
FlushLogin(s) ==
  /\ access[s].pc = "in"
  /\ Free(s, {access[s].actor})
  /\ Become(s, IF \E r \in Inserts(access[s].writes) : Exists(r)
               THEN LoggedOut ELSE [access[s] EXCEPT !.pc = "ready"])
  /\ UnchangedRows /\ UNCHANGED <<changes, excused>>

-----------------------------------------------------------------------------
(* A route for administrators: the role is the one of the login. *)
Ask(s, writes) ==
  /\ access[s].pc = "ready" /\ access[s].role = "admin"
  /\ changes < MaxChanges
  /\ changes' = changes + 1
  /\ Become(s, [access[s] EXCEPT !.pc = "asked", !.writes = writes])
  /\ UnchangedRows /\ UNCHANGED excused

Invite(s, p) ==
  /\ ~Exists(p) /\ ~Exists(Invited(p))
  /\ \E r \in AssignableRoles :
       Ask(s, Insert(Invited(p), r, FALSE))

CreateUser(s, p) ==
  /\ ~Exists(p)
  /\ \E r \in AssignableRoles : Ask(s, Insert(p, r, TRUE))

(* A column that keeps the value the session has read is not written. *)
UpdateRole(s, u) ==
  /\ Exists(u)
  /\ \E r \in AssignableRoles \ {role[u]} : Ask(s, Assign(u, r))

(* The row is switched off, and nothing else changes. *)
SwitchOff(r) == RowWrites(NoWrites.role, [x \in {r} |-> FALSE], {})

(* Mutant of Deactivate: administrators may deactivate themselves. *)
DeactivateAnyone(s, u) ==
  Exists(u) /\ active[u] /\ Ask(s, SwitchOff(u))

Deactivate(s, u) ==
  /\ Exists(u) /\ active[u]
  /\ access[s].pc = "ready" /\ u # access[s].actor
  /\ Ask(s, SwitchOff(u))

CreateKey(s, k) ==
  /\ ~Exists(k)
  /\ Ask(s, Insert(k, "operator", TRUE))

RevokeKey(s, k) ==
  /\ Exists(k)
  /\ Ask(s, SwitchOff(k))

(* rotate_key() also takes a key that was revoked or has expired. *)
RotateKey(s, k) ==
  /\ Exists(k)
  /\ \E new \in ApiKeys :
       /\ ~Exists(new)
       /\ Ask(s, RowWrites([x \in {new} |-> "operator"], [x \in {k, new} |-> x = new], {<<k, new>>}))

(* An insert of what was inserted meanwhile fails: the index of users is   *)
(* unique, and two sessions never make the same key.                       *)
FlushChange(s) ==
  LET w == access[s].writes IN
  /\ access[s].pc = "asked"
  /\ Free(s, Touched(w))
  /\ Become(s, IF \E r \in Inserts(w) : Exists(r) THEN LoggedOut ELSE [access[s] EXCEPT !.pc = "flushed"])
  /\ UnchangedRows /\ UNCHANGED <<changes, excused>>

(* The row of the session's own user stops being an administrator's: by    *)
(* the administrator's request, or by the role the provider gives.         *)
SelfDemotion(s) ==
  \E r \in {access[s].actor} \cap DOMAIN access[s].writes.role :
    role[r] = "admin" /\ access[s].writes.role[r] # "admin"

CommitAccess(s) ==
  LET w == access[s].writes IN
  /\ access[s].pc \in {"ready", "flushed"}
  /\ role' = Overlaid(role, w.role)
  /\ active' = Overlaid(active, w.active)
  /\ rotated' = rotated \cup w.rotated
  /\ deactivated' = deactivated \cup {r \in DOMAIN w.active : ~w.active[r]}
  /\ excused' = (excused \/ SelfDemotion(s))
  /\ Become(s, LoggedOut)
  /\ UNCHANGED <<expired, changes>>

(* An error, a disconnected client, a deadlock the database resolves. *)
RollbackAccess(s) ==
  /\ access[s] # LoggedOut
  /\ Become(s, LoggedOut)
  /\ UnchangedRows /\ UNCHANGED <<changes, excused>>

Expire(k) ==
  /\ Exists(k) /\ k \notin expired
  /\ expired' = expired \cup {k}
  /\ UNCHANGED <<role, active, rotated, access, changes, deactivated, excused>>

AccessNext ==
  \/ \E k \in ApiKeys : Expire(k)
  \/ \E s \in AccessSessions :
       \/ \E p \in People : LogInUser(s, p) \/ Provision(s, p) \/ LogInBySaml(s, p)
       \/ \E p \in People : Invite(s, p) \/ CreateUser(s, p)
       \/ \E u \in Users : UpdateRole(s, u) \/ Deactivate(s, u)
       \/ \E k \in ApiKeys : LogInKey(s, k) \/ CreateKey(s, k) \/ RevokeKey(s, k) \/ RotateKey(s, k)
       \/ FlushLogin(s) \/ FlushChange(s) \/ CommitAccess(s) \/ RollbackAccess(s)

AccessSpec == AccessInit /\ [][AccessNext]_accessVars

-----------------------------------------------------------------------------
(* What was deactivated or revoked stays so, whatever sessions that had    *)
(* read the row before write to it: no route activates anything.           *)
RevocationsLast == \A r \in deactivated : ~active[r]

(* The tenant keeps an administrator that can log in, unless one gave up   *)
(* the role or lost it to the groups of a single sign-on, or two of them   *)
(* were at work at a time.                                                 *)
TenantKeepsAnAdmin == excused \/ \E p \in People : role[p] = "admin" /\ active[p]

(* A key that was rotated is not usable next to its successor. *)
RotationReplaces == \A pair \in rotated : Exists(pair[2]) /\ ~active[pair[1]]

AccessIsGoverned == RevocationsLast /\ TenantKeepsAnAdmin /\ RotationReplaces
=============================================================================
