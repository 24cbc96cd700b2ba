------------------------ MODULE TenantServicesProofs ------------------------
(***************************************************************************)
(* Proofs about what is kept for a tenant: its users and keys, its limits, *)
(* settings and quotas, its metered calls, its documents, training jobs    *)
(* and ratings, its plugins; and about what is delivered to its webhooks   *)
(* and pushed to its people.  Each of them is on its own;                  *)
(* PlatformServicesProofs says what follows for all together.              *)
(***************************************************************************)
EXTENDS ThinkingProofs, UserAccess, RateLimits, TenantUsage, Documents,
        FineTuning, WebhookDelivery, PushChannels, PluginHost

-----------------------------------------------------------------------------
(* User access: the inductive invariant.                                   *)

Roles == AssignableRoles \cup {"admin", "viewer", "operator"}

KnownRows == {r \in Rows : Exists(r)}

(* What a session may be about to write, when the known rows exist: only   *)
(* new rows are switched on, and old ones keep existing.                   *)
GoodWrites(w, known) ==
  /\ w = RowWrites(w.role, w.active, w.rotated)
  /\ DOMAIN w.role \subseteq Rows /\ DOMAIN w.active \subseteq Rows
  /\ \A r \in DOMAIN w.role : w.role[r] \in Roles /\ (r \in ApiKeys => w.role[r] # "admin")
  /\ \A r \in DOMAIN w.active : w.active[r] \in BOOLEAN
  /\ \A r \in DOMAIN w.active : w.active[r] => r \in DOMAIN w.role
  /\ DOMAIN w.role \ DOMAIN w.active \subseteq known
  /\ DOMAIN w.active \ DOMAIN w.role \subseteq known
  /\ w.rotated \subseteq ApiKeys \X ApiKeys
  /\ \A pair \in w.rotated :
       pair[1] \in DOMAIN w.active /\ ~w.active[pair[1]] /\ pair[2] \in DOMAIN w.role

(* The row of a first login, or the role of a single sign-on. *)
OwnRow(w, r) == \E as \in Roles : w = Insert(r, as, TRUE) \/ w = Assign(r, as)

(* A session that has authenticated: with nothing to write, or with the    *)
(* row or the role of its own user, or with a change by an administrator.  *)
FitsAccess(x, known) ==
  /\ x = [pc |-> x.pc, actor |-> x.actor, role |-> x.role, writes |-> x.writes]
  /\ x.pc \in {"in", "ready", "asked", "flushed"}
  /\ x.actor \in Rows /\ x.role \in Roles \cup {NoRole}
  /\ GoodWrites(x.writes, known)
  /\ x.pc \in {"in", "ready"} => x.writes = NoWrites \/ (x.role # "admin" /\ OwnRow(x.writes, x.actor))
  /\ x.pc \in {"asked", "flushed"} => x.role = "admin"
  /\ x.role = "admin" => x.actor \in People \cap known

Held(x) ==
  CASE x.pc \in {"ready", "asked"} -> {x.actor}
    [] x.pc = "flushed" -> {x.actor} \cup Touched(x.writes)
    [] OTHER -> {}

(* A session whose inserts hold their locks inserts what is not there. *)
InsertsNew(x, known) == x.pc \in {"ready", "flushed"} => Inserts(x.writes) \cap known = {}

Administers(x) == x # LoggedOut /\ x.role = "admin"

(* The account of an administrator at work, as the session left it. *)
StillAdmin(x) ==
  role[x.actor] = "admin" /\ active[x.actor] /\ x.actor \notin DOMAIN x.writes.active

ColumnsFit ==
  /\ role \in [Rows -> Roles \cup {NoRole}] /\ active \in [Rows -> BOOLEAN]
  /\ deactivated \subseteq KnownRows /\ excused \in BOOLEAN
  /\ \A k \in ApiKeys : role[k] # "admin"
  /\ \A r \in deactivated : ~active[r]
  /\ \A pair \in rotated : pair[1] \in deactivated /\ pair[2] \in KnownRows

SessionsAreGood ==
  /\ DOMAIN access = AccessSessions
  /\ \A s \in AccessSessions : access[s] = LoggedOut \/ FitsAccess(access[s], KnownRows)
  /\ \A s \in AccessSessions : InsertsNew(access[s], KnownRows)
  /\ \A s, o \in AccessSessions : s # o => Held(access[s]) \cap Held(access[o]) = {}

AdminStays == ~excused =>
  /\ \E p \in People : role[p] = "admin" /\ active[p]
  /\ \A s, o \in AccessSessions : Administers(access[s]) /\ Administers(access[o]) => s = o
  /\ \A s \in AccessSessions : Administers(access[s]) => StillAdmin(access[s])

AccessIInv == ColumnsFit /\ SessionsAreGood /\ AdminStays

-----------------------------------------------------------------------------
(* User access: what sessions want to write.                               *)

(* Users and keys are different rows. *)
LEMMA RowsKinds ==
  ASSUME AccessAssumption
  PROVE  /\ People \subseteq Rows /\ ApiKeys \subseteq Rows /\ Users \subseteq Rows
         /\ \A p \in People : Invited(p) \in Rows /\ Invited(p) \notin People
         /\ \A u \in Users : u \notin ApiKeys
         /\ \A k \in ApiKeys : k \notin People
  BY DEF AccessAssumption, Rows, Users

(* What a session has written still fits when there are more rows. *)
LEMMA KnownGrows ==
  ASSUME NEW x, NEW known, NEW more, known \subseteq more, FitsAccess(x, known)
  PROVE  FitsAccess(x, more)
  BY DEF FitsAccess, GoodWrites

(* A session that has written nothing fits. *)
LEMMA GoodNoWrites ==
  ASSUME NEW known
  PROVE  GoodWrites(NoWrites, known) /\ Inserts(NoWrites) = {} /\ Touched(NoWrites) = {}
  BY DEF GoodWrites, NoWrites, RowWrites, Inserts, Touched

(* A session fits after it has inserted a row. *)
LEMMA GoodInsert ==
  ASSUME NEW known, NEW r \in Rows, NEW as \in Roles, NEW flag \in BOOLEAN,
         r \in ApiKeys => as # "admin"
  PROVE  GoodWrites(Insert(r, as, flag), known)
<1> DEFINE w == Insert(r, as, flag)
<1>1. /\ w.role = [x \in {r} |-> as] /\ w.active = [x \in {r} |-> flag] /\ w.rotated = {}
      /\ w = RowWrites(w.role, w.active, w.rotated)
  BY DEF Insert, RowWrites
<1>2. DOMAIN w.role = {r} /\ DOMAIN w.active = {r} /\ w.role[r] = as
  BY <1>1
<1>3. \A x \in DOMAIN w.active : w.active[x] \in BOOLEAN
  BY <1>1
<1> HIDE DEF w
<1>4. \A x \in DOMAIN w.role : w.role[x] \in Roles /\ (x \in ApiKeys => w.role[x] # "admin")
  BY <1>2
<1>5. /\ DOMAIN w.role \subseteq Rows /\ DOMAIN w.active \subseteq Rows
      /\ \A x \in DOMAIN w.active : w.active[x] => x \in DOMAIN w.role
      /\ DOMAIN w.role \ DOMAIN w.active \subseteq known
      /\ DOMAIN w.active \ DOMAIN w.role \subseteq known
  BY <1>2
<1>6. w.rotated \subseteq ApiKeys \X ApiKeys
      /\ \A pair \in w.rotated :
           pair[1] \in DOMAIN w.active /\ ~w.active[pair[1]] /\ pair[2] \in DOMAIN w.role
  BY <1>1
<1>7. GoodWrites(w, known)
  BY <1>1, <1>3, <1>4, <1>5, <1>6 DEF GoodWrites
<1>8. QED BY <1>7 DEF w

(* A session fits after it has switched a row off. *)
LEMMA GoodSwitchOff ==
  ASSUME NEW known, NEW r \in Rows \cap known
  PROVE  GoodWrites(SwitchOff(r), known) /\ DOMAIN SwitchOff(r).active = {r}
<1> DEFINE w == SwitchOff(r)
<1>1. /\ w.role = [x \in {} |-> NoRole] /\ w.active = [x \in {r} |-> FALSE] /\ w.rotated = {}
      /\ w = RowWrites(w.role, w.active, w.rotated)
  BY DEF SwitchOff, RowWrites, NoWrites
<1>2. DOMAIN w.role = {} /\ DOMAIN w.active = {r}
  BY <1>1
<1>3. w.active[r] = FALSE
  BY <1>1
<1> HIDE DEF w
<1>4. QED BY <1>1, <1>2, <1>3 DEF GoodWrites, w

(* A session fits after it has assigned a role. *)
LEMMA GoodRole ==
  ASSUME NEW known, AccessAssumption, NEW r \in Users \cap known, NEW as \in Roles
  PROVE  /\ GoodWrites(Assign(r, as), known)
         /\ DOMAIN Assign(r, as).active = {}
<1> DEFINE w == Assign(r, as)
<1>1. /\ w.role = [x \in {r} |-> as] /\ w.active = [x \in {} |-> FALSE] /\ w.rotated = {}
      /\ w = RowWrites(w.role, w.active, w.rotated)
  BY DEF Assign, RowWrites, NoWrites
<1>2. DOMAIN w.role = {r} /\ DOMAIN w.active = {} /\ w.role[r] = as
  BY <1>1
<1>3. r \in Rows /\ r \notin ApiKeys
  BY RowsKinds
<1> HIDE DEF w
<1>4. QED BY <1>1, <1>2, <1>3 DEF GoodWrites, w

(* A session that writes the row of its own user writes nothing else. *)
LEMMA OwnRowOnly ==
  ASSUME NEW w, NEW r, OwnRow(w, r)
  PROVE  DOMAIN w.role = {r} /\ DOMAIN w.active \subseteq {r} /\ \A x \in DOMAIN w.active : w.active[x]
<1>1. PICK as \in Roles : w = Insert(r, as, TRUE) \/ w = Assign(r, as)
  BY DEF OwnRow
<1>2. CASE w = Insert(r, as, TRUE)
  BY <1>2 DEF Insert, RowWrites
<1>3. CASE w = Assign(r, as)
  <2>1. w.role = [x \in {r} |-> as] /\ w.active = [x \in {} |-> FALSE]
    BY <1>3 DEF Assign, RowWrites, NoWrites
  <2>2. QED BY <2>1
<1>4. QED BY <1>1, <1>2, <1>3

(* A session fits after it has replaced a key by its successor. *)
LEMMA GoodRotation ==
  ASSUME AccessAssumption, NEW known, NEW k \in ApiKeys \cap known, NEW new \in ApiKeys \ known
  PROVE  LET w == RowWrites([x \in {new} |-> "operator"], [x \in {k, new} |-> x = new], {<<k, new>>}) IN
         GoodWrites(w, known) /\ DOMAIN w.active = {k, new}
<1> DEFINE w == RowWrites([x \in {new} |-> "operator"], [x \in {k, new} |-> x = new], {<<k, new>>})
<1>1. /\ w.role = [x \in {new} |-> "operator"] /\ w.active = [x \in {k, new} |-> x = new]
      /\ w.rotated = {<<k, new>>} /\ w = RowWrites(w.role, w.active, w.rotated)
  BY DEF RowWrites
<1>2. DOMAIN w.role = {new} /\ DOMAIN w.active = {k, new} /\ w.role[new] = "operator" /\ k # new
  BY <1>1
<1>3. w.active[k] = FALSE /\ w.active[new] \in BOOLEAN
  BY <1>1, <1>2
<1>4. <<k, new>>[1] = k /\ <<k, new>>[2] = new /\ <<k, new>> \in ApiKeys \X ApiKeys
  OBVIOUS
<1>5. k \in Rows /\ new \in Rows /\ "operator" \in Roles
  BY RowsKinds DEF Roles
<1> HIDE DEF w
<1>6. GoodWrites(w, known)
  BY <1>1, <1>2, <1>3, <1>4, <1>5 DEF GoodWrites
<1>7. QED BY <1>2, <1>6 DEF w

-----------------------------------------------------------------------------
(* User access: steps that write no row.                                   *)

(* The rows a session locks are those it holds. *)
LEMMA HeldIsLocked ==
  \A s \in AccessSessions : LocksOf(s) = Held(access[s])
  BY DEF LocksOf, Held

(* A step of one session, which keeps what the others have written. *)
LEMMA OneAccess ==
  ASSUME AccessAssumption, AccessIInv, NEW s \in AccessSessions, NEW x,
         access' = [access EXCEPT ![s] = x],
         UNCHANGED <<role, active, rotated, deactivated>>,
         excused' \in BOOLEAN, excused => excused',
         x = LoggedOut \/ FitsAccess(x, KnownRows), InsertsNew(x, KnownRows),
         \A o \in AccessSessions : o # s => Held(x) \cap Held(access[o]) = {},
         ~excused' /\ Administers(x) =>
           /\ \A o \in AccessSessions : o # s => ~Administers(access[o])
           /\ StillAdmin(x)
  PROVE  AccessIInv'
<1>0. KnownRows' = KnownRows
  BY DEF KnownRows, Exists
<1>1. ColumnsFit'
  BY <1>0 DEF AccessIInv, ColumnsFit
<1>2. access'[s] = x /\ (\A o \in AccessSessions : o # s => access'[o] = access[o]) /\ DOMAIN access' = AccessSessions
  BY DEF AccessIInv, SessionsAreGood
<1>3. SessionsAreGood'
  <2>1. \A o \in AccessSessions : access'[o] = LoggedOut \/ FitsAccess(access'[o], KnownRows)
    BY <1>2 DEF AccessIInv, SessionsAreGood
  <2>2. \A o \in AccessSessions : InsertsNew(access'[o], KnownRows)
    BY <1>2 DEF AccessIInv, SessionsAreGood
  <2>3. \A r, o \in AccessSessions : r # o => Held(access'[r]) \cap Held(access'[o]) = {}
    <3>1. \A r, o \in AccessSessions : r # o => Held(access[r]) \cap Held(access[o]) = {}
      BY DEF AccessIInv, SessionsAreGood
    <3>2. QED BY <1>2, <3>1
  <2>4. QED BY <1>0, <1>2, <2>1, <2>2, <2>3 DEF SessionsAreGood
<1>4. ASSUME ~excused'
      PROVE  /\ \E p \in People : role[p] = "admin" /\ active[p]
             /\ \A r, o \in AccessSessions : Administers(access'[r]) /\ Administers(access'[o]) => r = o
             /\ \A o \in AccessSessions : Administers(access'[o]) => StillAdmin(access'[o])
  <2>1. /\ \E p \in People : role[p] = "admin" /\ active[p]
        /\ \A r, o \in AccessSessions : Administers(access[r]) /\ Administers(access[o]) => r = o
        /\ \A o \in AccessSessions : Administers(access[o]) => StillAdmin(access[o])
    BY <1>4 DEF AccessIInv, AdminStays
  <2>2. QED BY <1>2, <1>4, <2>1
<1>5. AdminStays'
  BY <1>4 DEF AdminStays, StillAdmin
<1>6. QED BY <1>1, <1>3, <1>5 DEF AccessIInv

(* The end of a session without a commit. *)
LEMMA LeaveIInv ==
  ASSUME AccessAssumption, AccessIInv, NEW s \in AccessSessions,
         access' = [access EXCEPT ![s] = LoggedOut],
         UNCHANGED <<role, active, rotated, deactivated, excused>>
  PROVE  AccessIInv'
<1>1. LoggedOut.pc = "idle" /\ Held(LoggedOut) = {} /\ InsertsNew(LoggedOut, KnownRows) /\ ~Administers(LoggedOut)
  BY DEF LoggedOut, Held, InsertsNew, Administers
<1>2. excused' \in BOOLEAN /\ (excused => excused')
  BY DEF AccessIInv, ColumnsFit
<1>3. QED BY <1>1, <1>2, OneAccess

(* A login reads the user it belongs to. *)
LEMMA LogInIInv ==
  ASSUME AccessAssumption, AccessIInv, NEW s \in AccessSessions, NEW r \in Rows, NEW as \in Roles \cup {NoRole}, NEW w,
         access[s] = LoggedOut, LogIn(s, r, as, w), GoodWrites(w, KnownRows),
         w = NoWrites \/ (as # "admin" /\ OwnRow(w, r)),
         UNCHANGED <<role, active, rotated, deactivated>>,
         excused' \in BOOLEAN, excused => excused',
         as = "admin" => /\ r \in People \cap KnownRows /\ w = NoWrites
                         /\ role[r] = "admin" /\ active[r]
                         /\ ~excused' => \A o \in AccessSessions : o # s => ~Administers(access[o])
  PROVE  AccessIInv'
<1> DEFINE x == [pc |-> "in", actor |-> r, role |-> as, writes |-> w]
<1>1. access' = [access EXCEPT ![s] = x]
  BY DEF LogIn, Become
<1>2. FitsAccess(x, KnownRows)
  BY DEF FitsAccess
<1>3. Held(x) = {} /\ InsertsNew(x, KnownRows)
  BY DEF Held, InsertsNew
<1>4. x.role = as /\ x.actor = r /\ x.writes = w
  OBVIOUS
<1> HIDE DEF x
<1>5. ASSUME ~excused', Administers(x)
      PROVE  (\A o \in AccessSessions : o # s => ~Administers(access[o])) /\ StillAdmin(x)
  <2>1. as = "admin"
    BY <1>4, <1>5 DEF Administers
  <2>2. DOMAIN w.active = {}
    BY <2>1 DEF NoWrites, RowWrites
  <2>3. QED BY <1>4, <1>5, <2>1, <2>2 DEF StillAdmin
<1>6. QED BY <1>1, <1>2, <1>3, <1>5, OneAccess

(* The login of a user that exists. *)
LEMMA LogInUserIInv ==
  ASSUME AccessAssumption, AccessIInv, NEW s \in AccessSessions, NEW p \in People, LogInUser(s, p)
  PROVE  AccessIInv'
<1>1. /\ access[s] = LoggedOut /\ Exists(p) /\ active[p] /\ LogIn(s, p, role[p], NoWrites)
      /\ excused' = (excused \/ (role[p] = "admin" /\ Overlaps(s)))
      /\ UNCHANGED <<role, active, rotated, deactivated>>
  BY DEF LogInUser, UnchangedRows
<1>2. p \in Rows /\ p \in KnownRows /\ role[p] \in Roles
  BY <1>1, RowsKinds DEF KnownRows, Exists, AccessIInv, ColumnsFit
<1>3. excused' \in BOOLEAN /\ (excused => excused')
  BY <1>1
<1>4. role[p] = "admin" /\ ~excused' => \A o \in AccessSessions : o # s => ~Administers(access[o])
  BY <1>1 DEF Overlaps, Administers
<1>5. GoodWrites(NoWrites, KnownRows)
  BY GoodNoWrites
<1>6. QED BY <1>1, <1>2, <1>3, <1>4, <1>5, LogInIInv

(* The first login provisions its user. *)
LEMMA ProvisionIInv ==
  ASSUME AccessAssumption, AccessIInv, NEW s \in AccessSessions, NEW p \in People, Provision(s, p)
  PROVE  AccessIInv'
<1>1. /\ access[s] = LoggedOut /\ LogIn(s, p, "viewer", Insert(p, "viewer", TRUE))
      /\ UNCHANGED <<role, active, rotated, deactivated, excused>>
  BY DEF Provision, UnchangedRows
<1>2. p \in Rows /\ "viewer" \in Roles /\ TRUE \in BOOLEAN /\ "viewer" # "admin"
  BY RowsKinds DEF Roles
<1>3. excused' \in BOOLEAN /\ (excused => excused')
  BY <1>1 DEF AccessIInv, ColumnsFit
<1>4. GoodWrites(Insert(p, "viewer", TRUE), KnownRows) /\ OwnRow(Insert(p, "viewer", TRUE), p)
  BY <1>2, GoodInsert DEF OwnRow
<1>5. QED BY <1>1, <1>2, <1>3, <1>4, LogInIInv

(* A single sign-on brings its user the role of the groups. *)
LEMMA SamlIInv ==
  ASSUME AccessAssumption, AccessIInv, NEW s \in AccessSessions, NEW p \in People, LogInBySaml(s, p)
  PROVE  AccessIInv'
<1>1. PICK r \in AssignableRoles :
        LogIn(s, p, NoRole, IF ~Exists(p) THEN Insert(p, r, TRUE)
                            ELSE IF r = role[p] THEN NoWrites ELSE Assign(p, r))
  BY DEF LogInBySaml
<1> DEFINE w == IF ~Exists(p) THEN Insert(p, r, TRUE) ELSE IF r = role[p] THEN NoWrites ELSE Assign(p, r)
<1>2. access[s] = LoggedOut /\ UNCHANGED <<role, active, rotated, deactivated, excused>>
  BY DEF LogInBySaml, UnchangedRows
<1>3. p \in Rows /\ p \in Users /\ p \notin ApiKeys /\ r \in Roles /\ TRUE \in BOOLEAN /\ NoRole # "admin"
  BY RowsKinds DEF Roles, AccessAssumption, Users
<1>4. Exists(p) => p \in KnownRows
  BY <1>3 DEF KnownRows
<1>5. excused' \in BOOLEAN /\ (excused => excused')
  BY <1>2 DEF AccessIInv, ColumnsFit
<1>6. GoodWrites(w, KnownRows)
  <2>1. GoodWrites(Insert(p, r, TRUE), KnownRows)
    BY <1>3, GoodInsert
  <2>2. Exists(p) => GoodWrites(Assign(p, r), KnownRows)
    BY <1>3, <1>4, GoodRole
  <2>3. QED BY <2>1, <2>2, GoodNoWrites
<1>7. w = NoWrites \/ OwnRow(w, p)
  BY <1>3 DEF OwnRow
<1> HIDE DEF w
<1>8. LogIn(s, p, NoRole, w)
  BY <1>1 DEF w
<1>9. QED BY <1>2, <1>3, <1>5, <1>6, <1>7, <1>8, LogInIInv

(* A key is never the key of an administrator that could have been made    *)
(* here: keys are inserted as operators and no route changes their role.   *)
LEMMA FlushLoginIInv ==
  ASSUME AccessAssumption, AccessIInv, NEW s \in AccessSessions, FlushLogin(s)
  PROVE  AccessIInv'
<1>1. /\ access[s].pc = "in" /\ Free(s, {access[s].actor})
      /\ access' = [access EXCEPT ![s] =
           IF \E r \in Inserts(access[s].writes) : Exists(r)
           THEN LoggedOut ELSE [access[s] EXCEPT !.pc = "ready"]]
      /\ UNCHANGED <<role, active, rotated, deactivated, excused>>
  BY DEF FlushLogin, Become, UnchangedRows
<1>2. CASE \E r \in Inserts(access[s].writes) : Exists(r)
  BY <1>1, <1>2, LeaveIInv
<1>3. CASE ~\E r \in Inserts(access[s].writes) : Exists(r)
  <2> DEFINE was == access[s]
             x == [pc |-> "ready", actor |-> was.actor, role |-> was.role, writes |-> was.writes]
  <2>1. was # LoggedOut /\ FitsAccess(was, KnownRows)
    BY <1>1 DEF AccessIInv, SessionsAreGood, LoggedOut
  <2>2. [was EXCEPT !.pc = "ready"] = x
    BY <2>1 DEF FitsAccess
  <2>3. access' = [access EXCEPT ![s] = x]
    BY <1>1, <1>3, <2>2
  <2>4. /\ x.pc = "ready" /\ x.actor = was.actor /\ x.role = was.role /\ x.writes = was.writes
        /\ x = [pc |-> x.pc, actor |-> x.actor, role |-> x.role, writes |-> x.writes]
    OBVIOUS
  <2> HIDE DEF x
  <2>5. FitsAccess(x, KnownRows)
    BY <1>1, <2>1, <2>4 DEF FitsAccess
  <2>6. InsertsNew(x, KnownRows)
    BY <1>3, <2>4 DEF InsertsNew, KnownRows
  <2>7. Held(x) = {was.actor}
    BY <2>4 DEF Held
  <2>8. \A o \in AccessSessions : o # s => Held(x) \cap Held(access[o]) = {}
    BY <1>1, <2>7, HeldIsLocked DEF Free
  <2>9. ~excused' /\ Administers(x) =>
          (\A o \in AccessSessions : o # s => ~Administers(access[o])) /\ StillAdmin(x)
    BY <1>1, <2>1, <2>4 DEF AccessIInv, AdminStays, Administers, StillAdmin
  <2>10. excused' \in BOOLEAN /\ (excused => excused')
    BY <1>1 DEF AccessIInv, ColumnsFit
  <2>11. UNCHANGED <<role, active, rotated, deactivated>>
    BY <1>1
  <2>12. QED BY <2>3, <2>5, <2>6, <2>8, <2>9, <2>10, <2>11, OneAccess
<1>4. QED BY <1>2, <1>3

(* An administrator asks for a change that does not switch off the         *)
(* account it works with.                                                  *)
LEMMA AskIInv ==
  ASSUME AccessAssumption, AccessIInv, NEW s \in AccessSessions, NEW w, Ask(s, w),
         GoodWrites(w, KnownRows), access[s].actor \in People => access[s].actor \notin DOMAIN w.active
  PROVE  AccessIInv'
<1> DEFINE was == access[s]
           x == [pc |-> "asked", actor |-> was.actor, role |-> was.role, writes |-> w]
           y == [was EXCEPT !.pc = "asked"]
<1>1. /\ was.pc = "ready" /\ was.role = "admin"
      /\ access' = [access EXCEPT ![s] = [y EXCEPT !.writes = w]]
      /\ UNCHANGED <<role, active, rotated, deactivated, excused>>
  BY DEF Ask, Become, UnchangedRows
<1>2. was # LoggedOut /\ FitsAccess(was, KnownRows)
  BY <1>1 DEF AccessIInv, SessionsAreGood, LoggedOut
<1>3. access' = [access EXCEPT ![s] = x]
  <2>1. y = [pc |-> "asked", actor |-> was.actor, role |-> was.role, writes |-> was.writes]
    BY <1>2 DEF FitsAccess
  <2> HIDE DEF y
  <2>2. [y EXCEPT !.writes = w] = x
    BY <2>1
  <2>3. QED BY <1>1, <2>2
<1>4. /\ x.pc = "asked" /\ x.actor = was.actor /\ x.role = was.role /\ x.writes = w
      /\ x = [pc |-> x.pc, actor |-> x.actor, role |-> x.role, writes |-> x.writes]
  OBVIOUS
<1> HIDE DEF x, y
<1>5. FitsAccess(x, KnownRows)
  BY <1>1, <1>2, <1>4 DEF FitsAccess
<1>6. Held(x) = {was.actor} /\ Held(was) = {was.actor} /\ InsertsNew(x, KnownRows)
  BY <1>1, <1>4 DEF Held, InsertsNew
<1>7. \A o \in AccessSessions : o # s => Held(x) \cap Held(access[o]) = {}
  BY <1>6 DEF AccessIInv, SessionsAreGood
<1>8. was.actor \in People
  BY <1>1, <1>2 DEF FitsAccess
<1>9. ~excused' /\ Administers(x) =>
        (\A o \in AccessSessions : o # s => ~Administers(access[o])) /\ StillAdmin(x)
  BY <1>1, <1>2, <1>4, <1>8 DEF AccessIInv, AdminStays, Administers, StillAdmin
<1>10. excused' \in BOOLEAN /\ (excused => excused') /\ UNCHANGED <<role, active, rotated, deactivated>>
  BY <1>1 DEF AccessIInv, ColumnsFit
<1>11. QED BY <1>3, <1>5, <1>6, <1>7, <1>9, <1>10, OneAccess

(* The changes an administrator can ask for. *)
LEMMA ChangeIInv ==
  ASSUME AccessAssumption, AccessIInv, NEW s \in AccessSessions,
         \/ \E p \in People : Invite(s, p) \/ CreateUser(s, p)
         \/ \E u \in Users : UpdateRole(s, u) \/ Deactivate(s, u)
         \/ \E k \in ApiKeys : CreateKey(s, k) \/ RevokeKey(s, k) \/ RotateKey(s, k)
  PROVE  AccessIInv'
<1>0. AssignableRoles \subseteq Roles /\ "operator" \in Roles
  BY DEF Roles
<1>1. ASSUME NEW p \in People, Invite(s, p) PROVE AccessIInv'
  <2>1. PICK r \in AssignableRoles : Ask(s, Insert(Invited(p), r, FALSE))
    BY <1>1 DEF Invite
  <2>2. /\ Invited(p) \in Rows /\ Invited(p) \notin People /\ r \in Roles /\ FALSE \in BOOLEAN
        /\ Invited(p) \notin ApiKeys
    BY <1>0, RowsKinds DEF AccessAssumption
  <2>3. GoodWrites(Insert(Invited(p), r, FALSE), KnownRows)
    BY <2>2, GoodInsert
  <2>4. DOMAIN Insert(Invited(p), r, FALSE).active = {Invited(p)}
    BY DEF Insert, RowWrites
  <2>5. QED BY <2>1, <2>2, <2>3, <2>4, AskIInv
<1>2. ASSUME NEW u \in Users, UpdateRole(s, u) PROVE AccessIInv'
  <2>1. PICK r \in AssignableRoles : Ask(s, Assign(u, r))
    BY <1>2 DEF UpdateRole
  <2>2. u \in Users \cap KnownRows /\ r \in Roles
    BY <1>0, <1>2, RowsKinds DEF UpdateRole, KnownRows
  <2>3. /\ GoodWrites(Assign(u, r), KnownRows)
        /\ DOMAIN Assign(u, r).active = {}
    BY <2>2, GoodRole
  <2>4. QED BY <2>1, <2>3, AskIInv
<1>3. ASSUME NEW u \in Users, Deactivate(s, u) PROVE AccessIInv'
  <2>1. Ask(s, SwitchOff(u)) /\ u # access[s].actor /\ u \in Rows \cap KnownRows
    BY <1>3, RowsKinds DEF Deactivate, KnownRows
  <2>2. GoodWrites(SwitchOff(u), KnownRows) /\ DOMAIN SwitchOff(u).active = {u}
    BY <2>1, GoodSwitchOff
  <2>3. QED BY <2>1, <2>2, AskIInv
<1>4. ASSUME NEW k \in ApiKeys, CreateKey(s, k) PROVE AccessIInv'
  <2>1. Ask(s, Insert(k, "operator", TRUE)) /\ k \in Rows /\ k \notin People /\ TRUE \in BOOLEAN
    BY <1>4, RowsKinds DEF CreateKey
  <2>2. GoodWrites(Insert(k, "operator", TRUE), KnownRows)
    BY <1>0, <2>1, GoodInsert
  <2>3. DOMAIN Insert(k, "operator", TRUE).active = {k}
    BY DEF Insert, RowWrites
  <2>4. QED BY <2>1, <2>2, <2>3, AskIInv
<1>5. ASSUME NEW k \in ApiKeys, RevokeKey(s, k) PROVE AccessIInv'
  <2>1. Ask(s, SwitchOff(k)) /\ k \in Rows \cap KnownRows /\ k \notin People
    BY <1>5, RowsKinds DEF RevokeKey, KnownRows
  <2>2. GoodWrites(SwitchOff(k), KnownRows) /\ DOMAIN SwitchOff(k).active = {k}
    BY <2>1, GoodSwitchOff
  <2>3. QED BY <2>1, <2>2, AskIInv
<1>6. ASSUME NEW k \in ApiKeys, RotateKey(s, k) PROVE AccessIInv'
  <2>1. PICK new \in ApiKeys : ~Exists(new) /\
          Ask(s, RowWrites([x \in {new} |-> "operator"], [x \in {k, new} |-> x = new], {<<k, new>>}))
    BY <1>6 DEF RotateKey
  <2>2. k \in ApiKeys \cap KnownRows /\ new \in ApiKeys \ KnownRows /\ k \notin People /\ new \notin People
    BY <1>6, <2>1, RowsKinds DEF RotateKey, KnownRows
  <2> DEFINE w == RowWrites([x \in {new} |-> "operator"], [x \in {k, new} |-> x = new], {<<k, new>>})
  <2>3. GoodWrites(w, KnownRows) /\ DOMAIN w.active = {k, new}
    BY <2>2, GoodRotation
  <2>4. Ask(s, w)
    BY <2>1
  <2> HIDE DEF w
  <2>5. QED BY <2>2, <2>3, <2>4, AskIInv
<1>7. ASSUME NEW p \in People, CreateUser(s, p) PROVE AccessIInv'
  <2>1. PICK r \in AssignableRoles : Ask(s, Insert(p, r, TRUE))
    BY <1>7 DEF CreateUser
  <2>2. p \in Rows /\ p \notin ApiKeys /\ r \in Roles /\ TRUE \in BOOLEAN /\ p \notin KnownRows
    BY <1>0, <1>7, RowsKinds DEF CreateUser, KnownRows
  <2>3. GoodWrites(Insert(p, r, TRUE), KnownRows)
    BY <2>2, GoodInsert
  <2>4. DOMAIN Insert(p, r, TRUE).active = {p}
    BY DEF Insert, RowWrites
  <2>5. access[s].actor \in KnownRows
    <3>1. access[s].pc = "ready" /\ access[s].role = "admin"
      BY <2>1 DEF Ask
    <3>2. QED BY <3>1 DEF AccessIInv, SessionsAreGood, LoggedOut, FitsAccess
  <2>6. access[s].actor \notin DOMAIN Insert(p, r, TRUE).active
    BY <2>2, <2>4, <2>5
  <2>7. QED BY <2>1, <2>3, <2>6, AskIInv
<1>8. QED BY <1>1, <1>2, <1>3, <1>4, <1>5, <1>6, <1>7

(* The change is flushed, and its rows are locked. *)
LEMMA FlushChangeIInv ==
  ASSUME AccessAssumption, AccessIInv, NEW s \in AccessSessions, FlushChange(s)
  PROVE  AccessIInv'
<1> DEFINE was == access[s]
           w == was.writes
<1>1. /\ was.pc = "asked" /\ Free(s, Touched(w))
      /\ access' = [access EXCEPT ![s] =
           IF \E r \in Inserts(w) : Exists(r) THEN LoggedOut ELSE [was EXCEPT !.pc = "flushed"]]
      /\ UNCHANGED <<role, active, rotated, deactivated, excused>>
  BY DEF FlushChange, Become, UnchangedRows
<1>2. CASE \E r \in Inserts(w) : Exists(r)
  BY <1>1, <1>2, LeaveIInv
<1>3. CASE ~\E r \in Inserts(w) : Exists(r)
  <2> DEFINE x == [pc |-> "flushed", actor |-> was.actor, role |-> was.role, writes |-> was.writes]
  <2>1. was # LoggedOut /\ FitsAccess(was, KnownRows)
    BY <1>1 DEF AccessIInv, SessionsAreGood, LoggedOut
  <2>2. [was EXCEPT !.pc = "flushed"] = x
    BY <2>1 DEF FitsAccess
  <2>3. access' = [access EXCEPT ![s] = x]
    BY <1>1, <1>3, <2>2
  <2>4. /\ x.pc = "flushed" /\ x.actor = was.actor /\ x.role = was.role /\ x.writes = was.writes
        /\ x = [pc |-> x.pc, actor |-> x.actor, role |-> x.role, writes |-> x.writes]
    OBVIOUS
  <2>5. InsertsNew(x, KnownRows)
    BY <1>3 DEF InsertsNew, KnownRows
  <2> HIDE DEF x
  <2>6. FitsAccess(x, KnownRows)
    BY <1>1, <2>1, <2>4 DEF FitsAccess
  <2>7. Held(x) = {was.actor} \cup Touched(w) /\ Held(was) = {was.actor}
    BY <1>1, <2>4 DEF Held
  <2>8. \A o \in AccessSessions : o # s => Held(x) \cap Held(access[o]) = {}
    <3>1. \A o \in AccessSessions : o # s => Touched(w) \cap Held(access[o]) = {}
      BY <1>1, HeldIsLocked DEF Free
    <3>2. \A o \in AccessSessions : o # s => Held(was) \cap Held(access[o]) = {}
      BY DEF AccessIInv, SessionsAreGood
    <3>3. QED BY <2>7, <3>1, <3>2
  <2>9. ~excused' /\ Administers(x) =>
          (\A o \in AccessSessions : o # s => ~Administers(access[o])) /\ StillAdmin(x)
    BY <1>1, <2>1, <2>4 DEF AccessIInv, AdminStays, Administers, StillAdmin
  <2>10. excused' \in BOOLEAN /\ (excused => excused') /\ UNCHANGED <<role, active, rotated, deactivated>>
    BY <1>1 DEF AccessIInv, ColumnsFit
  <2>11. QED BY <2>3, <2>5, <2>6, <2>8, <2>9, <2>10, OneAccess
<1>4. QED BY <1>2, <1>3

-----------------------------------------------------------------------------
(* User access: commits.                                                   *)

(* What a session that commits writes: what it inserts is not there, and   *)
(* it holds the locks of all its rows.                                     *)
LEMMA CommittedWrites ==
  ASSUME AccessAssumption, AccessIInv, NEW s \in AccessSessions, access[s].pc \in {"ready", "flushed"}
  PROVE  /\ access[s] # LoggedOut /\ FitsAccess(access[s], KnownRows) /\ GoodWrites(access[s].writes, KnownRows)
         /\ Inserts(access[s].writes) \cap KnownRows = {}
         /\ Touched(access[s].writes) \subseteq Held(access[s])
<1> DEFINE was == access[s]
<1>1. was # LoggedOut /\ FitsAccess(was, KnownRows) /\ InsertsNew(was, KnownRows)
  BY DEF AccessIInv, SessionsAreGood, LoggedOut
<1>2. GoodWrites(was.writes, KnownRows) /\ Inserts(was.writes) \cap KnownRows = {}
  BY <1>1 DEF FitsAccess, InsertsNew
<1>3. Touched(was.writes) \subseteq Held(was)
  <2>1. CASE was.pc = "flushed"
    BY <2>1 DEF Held
  <2>2. CASE was.pc = "ready"
    <3>1. Held(was) = {was.actor}
      BY <2>2 DEF Held
    <3>2. CASE was.writes = NoWrites
      BY <3>2, GoodNoWrites
    <3>3. CASE OwnRow(was.writes, was.actor)
      BY <3>1, <3>3, OwnRowOnly DEF Touched
    <3>4. QED BY <1>1, <2>2, <3>2, <3>3 DEF FitsAccess
  <2>3. QED BY <2>1, <2>2
<1>4. QED BY <1>1, <1>2, <1>3

(* What a commit makes of the columns. *)
LEMMA CommittedColumns ==
  ASSUME AccessAssumption, AccessIInv, NEW s \in AccessSessions, CommitAccess(s)
  PROVE  /\ ColumnsFit' /\ KnownRows \subseteq KnownRows'
         /\ KnownRows' \subseteq KnownRows \cup DOMAIN access[s].writes.role
<1> DEFINE w == access[s].writes
<1>1. /\ access[s].pc \in {"ready", "flushed"}
      /\ role' = Overlaid(role, w.role) /\ active' = Overlaid(active, w.active)
      /\ rotated' = rotated \cup w.rotated
      /\ deactivated' = deactivated \cup {r \in DOMAIN w.active : ~w.active[r]}
      /\ excused' = (excused \/ SelfDemotion(s))
  BY DEF CommitAccess
<1>2. GoodWrites(w, KnownRows) /\ Inserts(w) \cap KnownRows = {}
  BY <1>1, CommittedWrites
<1> HIDE DEF w
<1>3. /\ DOMAIN w.role \subseteq Rows /\ DOMAIN w.active \subseteq Rows
      /\ \A r \in DOMAIN w.role : w.role[r] \in Roles /\ (r \in ApiKeys => w.role[r] # "admin")
      /\ \A r \in DOMAIN w.active : w.active[r] \in BOOLEAN
      /\ \A r \in DOMAIN w.active : w.active[r] => r \in DOMAIN w.role
      /\ DOMAIN w.active \ DOMAIN w.role \subseteq KnownRows
      /\ \A pair \in w.rotated :
           pair[1] \in DOMAIN w.active /\ ~w.active[pair[1]] /\ pair[2] \in DOMAIN w.role
  BY <1>2 DEF GoodWrites
<1>4. role \in [Rows -> Roles \cup {NoRole}] /\ active \in [Rows -> BOOLEAN] /\ NoRole \notin Roles
  BY DEF AccessIInv, ColumnsFit, AccessAssumption, Roles
<1>5. /\ role' = [r \in Rows |-> IF r \in DOMAIN w.role THEN w.role[r] ELSE role[r]]
      /\ active' = [r \in Rows |-> IF r \in DOMAIN w.active THEN w.active[r] ELSE active[r]]
  BY <1>1, <1>4 DEF Overlaid
<1>6. role' \in [Rows -> Roles \cup {NoRole}]
  BY <1>3, <1>4, <1>5
<1>7. active' \in [Rows -> BOOLEAN]
  BY <1>3, <1>4, <1>5
<1>8. KnownRows' = KnownRows \cup DOMAIN w.role
  BY <1>3, <1>4, <1>5 DEF KnownRows, Exists
<1>9. deactivated' \subseteq KnownRows'
  BY <1>1, <1>3, <1>8 DEF AccessIInv, ColumnsFit
<1>10. ASSUME NEW r \in deactivated' PROVE ~active'[r]
  <2>1. r \in Rows
    BY <1>9 DEF KnownRows
  <2>2. CASE r \in DOMAIN w.active
    <3>1. CASE w.active[r]
      <4>1. r \in Inserts(w)
        BY <1>3, <2>2, <3>1 DEF Inserts
      <4>2. r \in deactivated
        BY <1>1, <1>10, <3>1
      <4>3. QED BY <1>2, <4>1, <4>2 DEF AccessIInv, ColumnsFit
    <3>2. CASE ~w.active[r]
      BY <1>5, <2>1, <2>2, <3>2
    <3>3. QED BY <3>1, <3>2
  <2>3. CASE r \notin DOMAIN w.active
    <3>1. r \in deactivated
      BY <1>1, <1>10, <2>3
    <3>2. ~active[r]
      BY <3>1 DEF AccessIInv, ColumnsFit
    <3>3. QED BY <1>5, <2>1, <2>3, <3>2
  <2>4. QED BY <2>2, <2>3
<1>11. \A pair \in rotated' : pair[1] \in deactivated' /\ pair[2] \in KnownRows'
  BY <1>1, <1>3, <1>8 DEF AccessIInv, ColumnsFit
<1>12. excused' \in BOOLEAN
  BY <1>1
<1>13. \A k \in ApiKeys : role'[k] # "admin"
  <2>1. \A k \in ApiKeys : k \in Rows /\ role[k] # "admin"
    BY RowsKinds DEF AccessIInv, ColumnsFit
  <2>2. QED BY <1>3, <1>5, <2>1
<1>14. ColumnsFit'
  BY <1>6, <1>7, <1>9, <1>10, <1>11, <1>12, <1>13 DEF ColumnsFit
<1>15. QED BY <1>8, <1>14 DEF w

(* A commit publishes what the session has written, and frees its rows. *)
LEMMA CommitAccessIInv ==
  ASSUME AccessAssumption, AccessIInv, NEW s \in AccessSessions, CommitAccess(s)
  PROVE  AccessIInv'
<1> DEFINE was == access[s]
           w == was.writes
<1>1. /\ was.pc \in {"ready", "flushed"}
      /\ role' = Overlaid(role, w.role) /\ active' = Overlaid(active, w.active)
      /\ excused' = (excused \/ SelfDemotion(s))
      /\ access' = [access EXCEPT ![s] = LoggedOut]
  BY DEF CommitAccess, Become
<1>2. /\ was # LoggedOut /\ FitsAccess(was, KnownRows) /\ GoodWrites(w, KnownRows)
      /\ Inserts(w) \cap KnownRows = {} /\ Touched(w) \subseteq Held(was)
  BY <1>1, CommittedWrites
<1>3. ColumnsFit' /\ KnownRows \subseteq KnownRows' /\ KnownRows' \subseteq KnownRows \cup DOMAIN w.role
  BY CommittedColumns
<1>4. DOMAIN access = AccessSessions /\ DOMAIN role = Rows /\ DOMAIN active = Rows
  BY DEF AccessIInv, SessionsAreGood, ColumnsFit
<1>5. access'[s] = LoggedOut /\ (\A o \in AccessSessions : o # s => access'[o] = access[o])
      /\ DOMAIN access' = AccessSessions
  BY <1>1, <1>4
<1>6. LoggedOut.pc = "idle" /\ Held(LoggedOut) = {} /\ ~Administers(LoggedOut)
  BY DEF LoggedOut, Held, Administers
<1>7. SessionsAreGood'
  <2>1. \A o \in AccessSessions : access'[o] = LoggedOut \/ FitsAccess(access'[o], KnownRows')
    BY <1>3, <1>5, KnownGrows DEF AccessIInv, SessionsAreGood
  <2>2. ASSUME NEW o \in AccessSessions PROVE InsertsNew(access'[o], KnownRows')
    <3>1. CASE o = s
      BY <1>5, <1>6, <3>1 DEF InsertsNew
    <3>2. CASE o # s /\ access[o].pc \in {"ready", "flushed"}
      <4>1. Inserts(access[o].writes) \cap KnownRows = {} /\ Touched(access[o].writes) \subseteq Held(access[o])
        BY <3>2, CommittedWrites
      <4>2. Held(was) \cap Held(access[o]) = {}
        BY <3>2 DEF AccessIInv, SessionsAreGood
      <4>3. DOMAIN w.role \cap Inserts(access[o].writes) = {}
        BY <1>2, <4>1, <4>2 DEF Touched, Inserts
      <4>4. QED BY <1>3, <1>5, <3>2, <4>1, <4>3 DEF InsertsNew
    <3>3. CASE o # s /\ access[o].pc \notin {"ready", "flushed"}
      BY <1>5, <3>3 DEF InsertsNew
    <3>4. QED BY <3>1, <3>2, <3>3
  <2>3. \A r, o \in AccessSessions : r # o => Held(access'[r]) \cap Held(access'[o]) = {}
    <3>1. \A r, o \in AccessSessions : r # o => Held(access[r]) \cap Held(access[o]) = {}
      BY DEF AccessIInv, SessionsAreGood
    <3>2. QED BY <1>5, <1>6, <3>1
  <2>4. QED BY <1>5, <2>1, <2>2, <2>3 DEF SessionsAreGood
<1>8. ASSUME ~excused'
      PROVE  /\ \E p \in People : role'[p] = "admin" /\ active'[p]
             /\ \A r, o \in AccessSessions : Administers(access'[r]) /\ Administers(access'[o]) => r = o
             /\ \A o \in AccessSessions : Administers(access'[o]) => StillAdmin(access[o])'
  <2>1. /\ \E p \in People : role[p] = "admin" /\ active[p]
        /\ \A r, o \in AccessSessions : Administers(access[r]) /\ Administers(access[o]) => r = o
        /\ \A o \in AccessSessions : Administers(access[o]) => StillAdmin(access[o])
        /\ ~SelfDemotion(s)
    BY <1>1, <1>8 DEF AccessIInv, AdminStays
  <2>2. \A r, o \in AccessSessions : Administers(access'[r]) /\ Administers(access'[o]) => r = o
    BY <1>5, <1>6, <2>1
  <2>3. CASE was.role = "admin"
    <3>1. Administers(was) /\ StillAdmin(was) /\ was.actor \in People
      BY <1>2, <2>1, <2>3 DEF Administers, FitsAccess
    <3>2. was.actor \in Rows
      BY <3>1, RowsKinds
    <3>3. role[was.actor] = "admin" /\ active[was.actor] /\ was.actor \notin DOMAIN w.active
      BY <3>1 DEF StillAdmin
    <3>4. was.actor \in DOMAIN w.role => w.role[was.actor] = "admin"
      BY <2>1, <3>3 DEF SelfDemotion
    <3>5. role'[was.actor] = "admin" /\ active'[was.actor]
      BY <1>1, <1>4, <3>2, <3>3, <3>4 DEF Overlaid
    <3>6. \A o \in AccessSessions : ~Administers(access'[o])
      BY <1>5, <1>6, <2>1, <3>1
    <3>7. QED BY <2>2, <3>1, <3>5, <3>6
  <2>4. CASE was.role # "admin"
    <3>1. w = NoWrites \/ OwnRow(w, was.actor)
      BY <1>1, <1>2, <2>4 DEF FitsAccess
    <3>2. /\ \A r \in DOMAIN w.role : r = was.actor
          /\ \A r \in DOMAIN w.active : r \in DOMAIN w.role
      <4>1. CASE w = NoWrites
        BY <4>1 DEF NoWrites, RowWrites
      <4>2. CASE OwnRow(w, was.actor)
        BY <4>2, OwnRowOnly
      <4>3. QED BY <3>1, <4>1, <4>2
    <3>3. \A r \in KnownRows : active'[r] = active[r]
      BY <1>1, <1>2, <1>4, <3>2 DEF Overlaid, KnownRows, Inserts
    <3>4. \A r \in DOMAIN w.role : role[r] = "admin" => w.role[r] = "admin"
      BY <2>1, <3>2 DEF SelfDemotion
    <3>5. \A r \in KnownRows : role[r] = "admin" => role'[r] = "admin"
      BY <1>1, <1>4, <3>4 DEF Overlaid, KnownRows
    <3>6. \A p \in People : role[p] = "admin" => p \in KnownRows
      BY RowsKinds DEF KnownRows, Exists, AccessAssumption
    <3>7. ASSUME NEW o \in AccessSessions, Administers(access'[o])
          PROVE  StillAdmin(access[o])'
      <4>1. o # s /\ access'[o] = access[o]
        BY <1>5, <1>6, <3>7
      <4>2. StillAdmin(access[o]) /\ access[o].actor \in KnownRows
        BY <2>1, <3>7, <4>1 DEF Administers, AccessIInv, SessionsAreGood, FitsAccess
      <4>3. QED BY <3>3, <3>5, <4>1, <4>2 DEF StillAdmin
    <3>8. \E p \in People : role'[p] = "admin" /\ active'[p]
      BY <2>1, <3>3, <3>5, <3>6
    <3>9. QED BY <2>2, <3>7, <3>8
  <2>5. QED BY <2>3, <2>4
<1>9. AdminStays'
  BY <1>8 DEF AdminStays
<1>10. QED BY <1>3, <1>7, <1>9 DEF AccessIInv

-----------------------------------------------------------------------------
(* User access: the theorem.                                               *)

(* The invariant holds at the start. *)
LEMMA AccessInitIInv ==
  ASSUME AccessAssumption, AccessInit
  PROVE  AccessIInv
<1>1. \A r \in FirstAdmins : r \in People /\ r \in Rows
  BY RowsKinds DEF AccessAssumption
<1>2. role = [r \in Rows |-> IF r \in FirstAdmins THEN "admin" ELSE NoRole]
      /\ active = [r \in Rows |-> r \in FirstAdmins] /\ deactivated = {} /\ rotated = {} /\ excused = FALSE
      /\ access = [s \in AccessSessions |-> LoggedOut]
  BY DEF AccessInit
<1>3. role \in [Rows -> Roles \cup {NoRole}]
  BY <1>2 DEF Roles
<1>4. active \in [Rows -> BOOLEAN]
  BY <1>2
<1>5. excused \in BOOLEAN
  BY <1>2, Zenon
<1>6. ColumnsFit
  <2>1. \A k \in ApiKeys : k \in Rows /\ k \notin FirstAdmins
    BY <1>1, RowsKinds
  <2>2. \A k \in ApiKeys : role[k] # "admin"
    BY <1>2, <2>1 DEF AccessAssumption
  <2>3. QED BY <1>2, <1>3, <1>4, <1>5, <2>2 DEF ColumnsFit
<1>7. LoggedOut.pc = "idle" /\ Held(LoggedOut) = {} /\ InsertsNew(LoggedOut, KnownRows) /\ ~Administers(LoggedOut)
  BY DEF LoggedOut, Held, InsertsNew, Administers
<1>8. SessionsAreGood
  BY <1>2, <1>7 DEF SessionsAreGood
<1>9. AdminStays
  <2>1. PICK p \in FirstAdmins : TRUE
    BY DEF AccessAssumption
  <2>2. p \in People /\ role[p] = "admin" /\ active[p]
    BY <1>1, <1>2
  <2>3. QED BY <1>2, <1>7, <2>2 DEF AdminStays
<1>10. QED BY <1>6, <1>8, <1>9 DEF AccessIInv

(* Every step of a session keeps the invariant. *)
LEMMA AccessNextIInv ==
  ASSUME AccessAssumption, AccessIInv, [AccessNext]_accessVars
  PROVE  AccessIInv'
<1>1. ASSUME NEW k \in ApiKeys, Expire(k) PROVE AccessIInv'
  BY <1>1 DEF Expire, AccessIInv, ColumnsFit, SessionsAreGood, AdminStays, KnownRows, Exists, StillAdmin
<1>2. ASSUME NEW s \in AccessSessions, NEW k \in ApiKeys, LogInKey(s, k) PROVE AccessIInv'
  <2>1. /\ access[s] = LoggedOut /\ LogIn(s, k, role[k], NoWrites) /\ Exists(k)
        /\ UNCHANGED <<role, active, rotated, deactivated, excused>>
    BY <1>2 DEF LogInKey, UnchangedRows
  <2>2. k \in Rows /\ role[k] \in Roles /\ role[k] # "admin"
    BY <2>1, RowsKinds DEF Exists, AccessIInv, ColumnsFit
  <2>3. excused' \in BOOLEAN /\ (excused => excused')
    BY <2>1 DEF AccessIInv, ColumnsFit
  <2>4. GoodWrites(NoWrites, KnownRows)
    BY GoodNoWrites
  <2>5. QED BY <2>1, <2>2, <2>3, <2>4, LogInIInv
<1>3. ASSUME NEW s \in AccessSessions, RollbackAccess(s) PROVE AccessIInv'
  BY <1>3, LeaveIInv DEF RollbackAccess, Become, UnchangedRows
<1>4. CASE UNCHANGED accessVars
  BY <1>4 DEF accessVars, AccessIInv, ColumnsFit, SessionsAreGood, AdminStays, KnownRows, Exists, StillAdmin
<1>5. QED
  BY <1>1, <1>2, <1>3, <1>4, LogInUserIInv, ProvisionIInv, SamlIInv, ChangeIInv, FlushLoginIInv,
     FlushChangeIInv, CommitAccessIInv DEF AccessNext

(* The inductive invariant holds in every reachable state. *)
LEMMA AccessInvariance == AccessSpec => []AccessIInv
<1>1. AccessInit => AccessIInv
  BY AccessInitIInv, AccessAssumption
<1>2. AccessIInv /\ [AccessNext]_accessVars => AccessIInv'
  BY AccessNextIInv, AccessAssumption
<1>3. QED BY <1>1, <1>2, PTL DEF AccessSpec

-----------------------------------------------------------------------------
(* The rate limits: the inductive invariant.                               *)

(* What an instance lets through in the observed window is the rest of one *)
(* window of its own, and the next.                                        *)
InMemoryHolds(i) ==
  LET start == counters[i].start
      count == counters[i].count IN
  /\ start < observed => granted[i] <= count /\ granted[i] <= PerMinute
  /\ observed <= start /\ start < observed + Window => granted[i] <= PerMinute + count
  /\ granted[i] <= 2 * PerMinute

(* The members of a sorted set from an instant on. *)
NotBefore(set, from) == {t \in set : from <= t}

RateTypes ==
  /\ instant \in 0 .. LastInstant /\ observed \in 0 .. LastInstant + 1
  /\ members \subseteq 0 .. instant
  /\ counters \in [Instances -> [start : Nat, count : 0 .. PerMinute + 1]]
  /\ \A i \in Instances : counters[i].start <= instant
  /\ granted \in [Instances \cup {"redis"} -> Nat]
  /\ told \in Window .. Window + TicksPerSecond /\ twins \in Nat
  /\ observed # NotObserved => observed <= instant

RedisHolds ==
  /\ granted["redis"] <= PerMinute + Burst + twins
  /\ observed <= instant /\ instant < observed + Window =>
       granted["redis"] <= Cardinality(NotBefore(members, observed)) + twins

RateIInv ==
  /\ RateTypes /\ RedisHolds
  /\ observed = NotObserved => \A limiter \in Instances \cup {"redis"} : granted[limiter] = 0
  /\ \A i \in Instances : InMemoryHolds(i)

-----------------------------------------------------------------------------
(* The rate limits: the steps.                                             *)

(* The length of a window is positive. *)
LEMMA WindowIsPositive == Window \in Nat /\ Window > 0
BY RateAssumption DEF RateAssumption, Window

(* Whoever waits as long as it is told finds the window over, and waits at *)
(* most a second too long.                                                 *)
LEMMA RetryIsInTime ==
  ASSUME NEW elapsed \in Nat, elapsed < Window
  PROVE  elapsed + RetryAfter(elapsed) \in Window .. Window + TicksPerSecond
<1>1. \A rest, ticks \in Nat : ticks > 0 =>
        /\ ticks * (rest \div ticks) <= rest /\ rest < ticks * (rest \div ticks + 1)
        /\ ticks * (rest \div ticks + 1) = ticks * (rest \div ticks) + ticks
        /\ ticks * (rest \div ticks + 1) \in Nat
  OBVIOUS
<1>2. Window - elapsed \in Nat /\ TicksPerSecond \in Nat /\ TicksPerSecond > 0
  BY WindowIsPositive, RateAssumption DEF RateAssumption
<1>3. QED BY <1>1, <1>2, WindowIsPositive DEF RetryAfter

(* The smaller of two numbers. *)
LEMMA MinOfTwo ==
  ASSUME NEW a \in Nat, NEW b \in Nat
  PROVE  Min({a, b}) = IF a <= b THEN a ELSE b
BY DEF Min

(* As long as the observed window lasts, the script forgets none of it. *)
LEMMA WindowIsKept ==
  ASSUME RateTypes, observed <= instant, instant < observed + Window
  PROVE  NotBefore(InWindow, observed) = NotBefore(members, observed)
<1>1. \A t \in members : t \in Nat /\ (observed <= t => t > instant - Window)
  BY WindowIsPositive, RateAssumption DEF RateAssumption, RateTypes
<1>2. QED BY <1>1 DEF NotBefore, InWindow

(* A request that is counted in memory. *)
LEMMA CountInMemoryIInv ==
  ASSUME RateIInv, NEW i \in Instances, CountInMemory(i), instant' = instant, members' \in {members, InWindow},
         twins' = twins
  PROVE  RateIInv'
<1> DEFINE elapsed == instant - counters[i].start
           renewed == elapsed >= Window
           start == IF renewed THEN instant ELSE counters[i].start
           count == IF renewed THEN 1 ELSE counters[i].count + 1
           most == IF count <= PerMinute + 1 THEN count ELSE PerMinute + 1
           inside == instant >= observed /\ instant <= observed + Window - 1
<1> USE RateAssumption, WindowIsPositive DEF RateAssumption
<1>1. /\ counters[i].start \in 0 .. instant /\ counters[i].count \in 0 .. PerMinute + 1
      /\ instant \in Nat /\ observed \in Nat /\ elapsed \in Nat
      /\ counters[i] = [start |-> counters[i].start, count |-> counters[i].count]
  BY DEF RateIInv, RateTypes
<1>2. counters' = [counters EXCEPT ![i] = [start |-> start, count |-> most]]
  <2>1. Min({count, PerMinute + 1}) = most
    <3>1. count \in Nat /\ PerMinute + 1 \in Nat
      BY <1>1
    <3> HIDE DEF count
    <3>2. QED BY <3>1, MinOfTwo
  <2>2. counters' = [counters EXCEPT ![i] = [start |-> start, count |-> Min({count, PerMinute + 1})]]
    BY Zenon DEF CountInMemory
  <2>3. QED BY <2>1, <2>2, Zenon
<1>3. counters'[i].start = start /\ counters'[i].count = most
  BY <1>2 DEF RateIInv, RateTypes
<1>4. \A j \in Instances \ {i} : counters'[j] = counters[j]
  BY <1>2 DEF RateIInv, RateTypes
<1>5. counters' \in [Instances -> [start : Nat, count : 0 .. PerMinute + 1]]
  BY <1>1, <1>2 DEF RateIInv, RateTypes
<1>6. /\ observed' = observed
      /\ \A limiter \in (Instances \cup {"redis"}) \ {i} : granted'[limiter] = granted[limiter]
      /\ granted' \in [Instances \cup {"redis"} -> Nat]
      /\ \/ count <= PerMinute /\ inside /\ granted'[i] = granted[i] + 1
         \/ granted'[i] = granted[i]
  BY DEF CountInMemory, Grant, IsObserved, RateIInv, RateTypes
<1>7. told' \in Window .. Window + TicksPerSecond
  <2>1. CASE count <= PerMinute
    BY <2>1 DEF CountInMemory, RateIInv, RateTypes
  <2>2. CASE count > PerMinute
    <3>1. elapsed < Window
      BY <2>2, <1>1
    <3>2. told' = elapsed + RetryAfter(elapsed)
      <4>1. IF count <= PerMinute THEN TRUE ELSE told' = elapsed + RetryAfter(elapsed)
        BY Zenon DEF CountInMemory
      <4>2. ~(count <= PerMinute)
        BY <2>2, <1>1
      <4>3. QED BY <4>1, <4>2, Zenon
    <3>3. QED BY <1>1, <3>1, <3>2, RetryIsInTime DEF RateIInv, RateTypes
  <2>3. QED BY <1>1, <2>1, <2>2
<1> HIDE DEF elapsed
<1>8. RateTypes'
  BY <1>1, <1>3, <1>4, <1>5, <1>6, <1>7 DEF RateIInv, RateTypes, InWindow
<1>9. RedisHolds'
  BY <1>6, WindowIsKept DEF RateIInv, RateTypes, RedisHolds
<1>10. observed = NotObserved => \A limiter \in Instances \cup {"redis"} : granted'[limiter] = 0
  BY <1>1, <1>6 DEF RateIInv, RateTypes, NotObserved
<1>11. \A j \in Instances \ {i} : InMemoryHolds(j)'
  BY <1>4, <1>6 DEF RateIInv, InMemoryHolds
<1>12. InMemoryHolds(i)'
  <2>1. granted[i] \in Nat /\ granted'[i] \in Nat
    BY <1>6 DEF RateIInv, RateTypes
  <2>2. observed > instant => granted[i] = 0
    BY <1>1 DEF RateIInv, RateTypes
  <2>3. InMemoryHolds(i)
    BY DEF RateIInv
  <2>4. QED
    BY <1>1, <1>3, <1>6, <2>1, <2>2, <2>3 DEF InMemoryHolds, elapsed
<1>13. QED BY <1>6, <1>8, <1>9, <1>10, <1>11, <1>12 DEF RateIInv, NotObserved

(* A request that reaches the script, and is let through. *)
LEMMA CheckRedisIInv ==
  ASSUME RateIInv, NEW i \in Instances, CheckRedis(i)
  PROVE  RateIInv'
<1> USE RateAssumption, WindowIsPositive DEF RateAssumption
<1>1. /\ Cardinality(InWindow) < PerMinute + Burst /\ members' = InWindow \cup {instant}
      /\ UNCHANGED <<instant, counters, connected, told, observed>>
      /\ \A limiter \in Instances : granted'[limiter] = granted[limiter]
      /\ granted' \in [Instances \cup {"redis"} -> Nat]
      /\ \/ /\ instant >= observed /\ instant < observed + Window
            /\ granted'["redis"] = granted["redis"] + 1
            /\ twins' = twins + (IF instant \in members THEN 1 ELSE 0)
         \/ granted'["redis"] = granted["redis"] /\ twins' = twins
  BY DEF CheckRedis, Grant, IsTwin, IsObserved, RateIInv, RateTypes
<1>2. /\ instant \in Nat /\ observed \in Nat /\ granted["redis"] \in Nat /\ twins \in Nat
      /\ IsFiniteSet(members) /\ members \subseteq 0 .. instant
  <2>1. members \subseteq 0 .. instant /\ instant \in Nat /\ observed \in Nat /\ granted["redis"] \in Nat /\ twins \in Nat
    BY DEF RateIInv, RateTypes
  <2>2. IsFiniteSet(0 .. instant)
    BY <2>1, FS_Interval
  <2>3. QED BY <2>1, <2>2, FS_Subset
<1>3. RateTypes'
  <2>1. InWindow \subseteq members /\ instant \in 0 .. instant
    BY <1>2 DEF InWindow
  <2>2. members' \subseteq 0 .. instant'
    BY <1>1, <1>2, <2>1
  <2>3. QED BY <1>1, <2>2 DEF RateIInv, RateTypes
<1>4. RedisHolds'
  <2>1. CASE observed <= instant /\ instant < observed + Window
    <3> DEFINE old == NotBefore(members, observed)
    <3>1. old \subseteq InWindow /\ old \subseteq members /\ InWindow \subseteq members
      BY <2>1, WindowIsKept DEF RateIInv, NotBefore, InWindow
    <3>2. IsFiniteSet(old) /\ IsFiniteSet(InWindow) /\ Cardinality(old) \in Nat /\ Cardinality(InWindow) \in Nat
      BY <1>2, <3>1, FS_Subset, FS_CardinalityType
    <3>3. Cardinality(old) <= Cardinality(InWindow)
      BY <3>1, <3>2, FS_Subset
    <3>4. granted["redis"] <= Cardinality(old) + twins
      BY <2>1 DEF RateIInv, RedisHolds
    <3>5. NotBefore(members', observed) = old \cup {instant}
      BY <1>1, <2>1, WindowIsKept DEF RateIInv, NotBefore
    <3>6. Cardinality(old \cup {instant}) = IF instant \in old THEN Cardinality(old) ELSE Cardinality(old) + 1
      BY <3>2, FS_AddElement
    <3>7. instant \notin members => instant \notin old
      BY <3>1
    <3> HIDE DEF old
    <3>8. granted'["redis"] <= Cardinality(old \cup {instant}) + twins'
          /\ granted'["redis"] <= PerMinute + Burst + twins'
      BY <1>1, <1>2, <3>2, <3>3, <3>4, <3>6, <3>7 DEF RateIInv, RedisHolds
    <3>9. QED BY <1>1, <3>5, <3>8 DEF RedisHolds
  <2>2. CASE ~(observed <= instant /\ instant < observed + Window)
    BY <1>1, <1>2, <2>2 DEF RateIInv, RedisHolds
  <2>3. QED BY <2>1, <2>2
<1>5. observed = NotObserved => \A limiter \in Instances \cup {"redis"} : granted'[limiter] = 0
  BY <1>1, <1>2 DEF RateIInv, RateTypes, NotObserved
<1>6. \A j \in Instances : InMemoryHolds(j)'
  BY <1>1 DEF RateIInv, InMemoryHolds
<1>7. QED BY <1>1, <1>3, <1>4, <1>5, <1>6 DEF RateIInv, NotObserved

(* Every request, and the clock, keep the invariant. *)
LEMMA RateNextIInv ==
  ASSUME RateIInv, [RatesNext]_rateVars
  PROVE  RateIInv'
<1> USE RateAssumption, WindowIsPositive DEF RateAssumption
<1>1. ASSUME NEW i \in Instances, CheckInMemory(i) \/ RefuseRedis(i) \/ RedisFails(i) PROVE RateIInv'
  <2>1. CountInMemory(i) /\ instant' = instant /\ members' \in {members, InWindow} /\ twins' = twins
    BY <1>1 DEF CheckInMemory, RefuseRedis, RedisFails
  <2>2. QED BY <2>1, CountInMemoryIInv
<1>2. ASSUME NEW i \in Instances, CheckRedis(i) PROVE RateIInv'
  BY <1>2, CheckRedisIInv
<1>3. ASSUME NEW i \in Instances, Connect(i) PROVE RateIInv'
  BY <1>3 DEF Connect, RateIInv, RateTypes, RedisHolds, InMemoryHolds, NotObserved
<1>4. CASE Observe
  <2>1. /\ observed = NotObserved /\ observed' = instant
        /\ UNCHANGED <<instant, counters, connected, members, granted, twins, told>>
    BY <1>4 DEF Observe
  <2>2. /\ \A limiter \in Instances \cup {"redis"} : granted[limiter] = 0
        /\ instant \in 0 .. LastInstant /\ instant # NotObserved
    BY <2>1 DEF RateIInv, RateTypes, NotObserved
  <2>3. RateTypes'
    BY <2>1, <2>2 DEF RateIInv, RateTypes
  <2>4. RedisHolds'
    <3>0. NotBefore(members, instant) \subseteq 0 .. instant
      BY DEF RateIInv, RateTypes, NotBefore
    <3>1. IsFiniteSet(0 .. instant)
      BY <2>2, FS_Interval
    <3>2. Cardinality(NotBefore(members, instant)) \in Nat
      BY <3>0, <3>1, FS_Subset, FS_CardinalityType
    <3>3. twins \in Nat /\ granted["redis"] = 0 /\ PerMinute + Burst \in Nat
      BY <2>2 DEF RateIInv, RateTypes
    <3>4. QED BY <2>1, <2>2, <3>2, <3>3 DEF RedisHolds
  <2>5. \A i \in Instances : InMemoryHolds(i)'
    BY <2>1, <2>2 DEF RateIInv, RateTypes, InMemoryHolds
  <2>6. QED BY <2>1, <2>2, <2>3, <2>4, <2>5 DEF RateIInv, NotObserved
<1>5. CASE RateTick
  BY <1>5 DEF RateTick, RateIInv, RateTypes, RedisHolds, InMemoryHolds, NotObserved
<1>6. CASE UNCHANGED rateVars
  BY <1>6 DEF rateVars, RateIInv, RateTypes, RedisHolds, InMemoryHolds, NotObserved
<1>7. QED BY <1>1, <1>2, <1>3, <1>4, <1>5, <1>6 DEF RatesNext

(* No request has been seen, and no window is observed. *)
LEMMA RateInitIInv == RateInit => RateIInv
BY RateAssumption, WindowIsPositive
   DEF RateAssumption, RateInit, RateIInv, RateTypes, RedisHolds, InMemoryHolds, NotObserved

(* The inductive invariant holds in every reachable state. *)
LEMMA RateInvariance == RatesSpec => []RateIInv
BY RateInitIInv, RateNextIInv, PTL DEF RatesSpec

(* The invariant implies what the limiters promise. *)
LEMMA RatesAreSound == RateIInv => RequestsAreLimited
BY DEF RateIInv, RateTypes, RedisHolds, InMemoryHolds, RequestsAreLimited

-----------------------------------------------------------------------------
(* Documents: the inductive invariant.                                     *)

(* A document that nobody works on yet, an upload or a task under way,     *)
(* whose chunks and entries nobody sees, or what either has left: r, c and *)
(* e are its record, chunks and entries.                                   *)
UploadHolds(x, r, c, e) ==
  \/ /\ x = NotUploading /\ c = 0
     /\ (r \in {"none", "pending"} /\ e = {}) \/ (r = "none" /\ "deleted" \in e)
  \/ /\ x = Uploading(x.pc, x.route, x.batches, x.stored, x.cause)
     /\ x.pc \in {"processing", "ready", "failed", "aborted", "refused", "abandoned"}
     /\ x.pc = "ready" => x.stored = x.batches
     /\ c = 0 /\ e = {}
     /\ (x.route = "worker" /\ r = "pending") \/ (x.route # "worker" /\ r = "none")
  \/ /\ x = Uploading("answered", x.route, x.batches, x.stored, x.cause)
     /\ \/ r = "ready" /\ c = x.batches /\ (x.route = "worker" \/ "success" \in e)
        \/ r = "failed" /\ "error" \in e
        \/ r = "none" /\ c = 0 /\ "deleted" \in e

DocumentIInv ==
  /\ upload = [u \in Uploads |-> upload[u]] /\ record = [u \in Uploads |-> record[u]]
  /\ chunks = [u \in Uploads |-> chunks[u]] /\ entry = [u \in Uploads |-> entry[u]]
  /\ \A u \in Uploads : UploadHolds(upload[u], record[u], chunks[u], entry[u])

-----------------------------------------------------------------------------
(* Documents: the steps.                                                   *)

(* One upload changes in what is its own. *)
LEMMA OneUpload ==
  ASSUME DocumentIInv, NEW u \in Uploads, NEW x, NEW r, NEW c, NEW e, UploadHolds(x, r, c, e),
         upload' = [upload EXCEPT ![u] = x], record' = [record EXCEPT ![u] = r],
         chunks' = [chunks EXCEPT ![u] = c], entry' = [entry EXCEPT ![u] = e]
  PROVE  DocumentIInv'
<1>1. /\ upload'[u] = x /\ record'[u] = r /\ chunks'[u] = c /\ entry'[u] = e
      /\ \A v \in Uploads \ {u} : /\ upload'[v] = upload[v] /\ record'[v] = record[v]
                                  /\ chunks'[v] = chunks[v] /\ entry'[v] = entry[v]
  BY DEF DocumentIInv
<1>2. \A v \in Uploads : UploadHolds(upload'[v], record'[v], chunks'[v], entry'[v])
  BY <1>1 DEF DocumentIInv
<1>3. QED BY <1>2 DEF DocumentIInv

(* One upload changes, and nothing that is committed. *)
LEMMA OnlyUpload ==
  ASSUME DocumentIInv, NEW u \in Uploads, NEW x, UploadHolds(x, record[u], chunks[u], entry[u]),
         upload' = [upload EXCEPT ![u] = x], UNCHANGED Committed
  PROVE  DocumentIInv'
<1>1. /\ record' = [record EXCEPT ![u] = record[u]] /\ chunks' = [chunks EXCEPT ![u] = chunks[u]]
      /\ entry' = [entry EXCEPT ![u] = entry[u]]
  BY DEF Committed, DocumentIInv
<1>2. QED BY <1>1, OneUpload

(* The request or the task goes on. *)
LEMMA UploadGoesOn ==
  ASSUME DocumentIInv, NEW u \in Uploads, NEW pc, NEW kept, NEW cause, GoesOn(u, pc, kept, cause),
         upload[u].pc \notin {"none", "answered"},
         pc \in {"processing", "ready", "failed", "aborted", "refused", "abandoned"},
         pc = "ready" => kept = upload[u].batches,
         UNCHANGED <<Committed, deleter>>
  PROVE  DocumentIInv'
<1>1. PICK x : x = Uploading(pc, upload[u].route, upload[u].batches, kept, cause)
  OBVIOUS
<1>2. /\ chunks[u] = 0 /\ entry[u] = {}
      /\ (upload[u].route = "worker" /\ record[u] = "pending") \/ (upload[u].route # "worker" /\ record[u] = "none")
  BY DEF DocumentIInv, UploadHolds, NotUploading, Uploading
<1>3. UploadHolds(x, record[u], chunks[u], entry[u])
  BY <1>1, <1>2 DEF UploadHolds, Uploading
<1>4. upload' = [upload EXCEPT ![u] = x]
  BY <1>1 DEF GoesOn
<1>5. QED BY <1>3, <1>4, OnlyUpload

(* A task that raised is as if it had not begun. *)
LEMMA TaskRaisesIInv ==
  ASSUME DocumentIInv, NEW u \in Uploads, TaskRaises(u)
  PROVE  DocumentIInv'
<1>1. /\ upload[u] # NotUploading /\ upload[u].route = "worker" /\ upload[u].pc # "answered"
      /\ upload' = [upload EXCEPT ![u] = NotUploading] /\ UNCHANGED Committed
  BY DEF TaskRaises, IsTask, Committed
<1>2. record[u] = "pending" /\ chunks[u] = 0 /\ entry[u] = {}
  BY <1>1 DEF DocumentIInv, UploadHolds, Uploading
<1>3. UploadHolds(NotUploading, record[u], chunks[u], entry[u])
  BY <1>2 DEF UploadHolds
<1>4. QED BY <1>1, <1>3, OnlyUpload

(* The commit of a request or a task is the first anyone sees of it. *)
LEMMA CommitUploadIInv ==
  ASSUME DocumentIInv, NEW u \in Uploads, CommitUpload(u)
  PROVE  DocumentIInv'
<1>1. PICK x, r, c, e :
        /\ x = Uploading("answered", upload[u].route, upload[u].batches, upload[u].stored, upload[u].cause)
        /\ r = upload[u].pc /\ c = upload[u].stored /\ e = EntriesAbout(u)
  OBVIOUS
<1>2. /\ upload[u].pc = "ready" \/ (upload[u].pc = "failed" /\ ~IsTask(u))
      /\ upload' = [upload EXCEPT ![u] = x] /\ record' = [record EXCEPT ![u] = r]
      /\ chunks' = [chunks EXCEPT ![u] = c] /\ entry' = [entry EXCEPT ![u] = e]
  BY <1>1 DEF CommitUpload, Becomes, GoesOn
<1>3. upload[u].pc = "ready" => upload[u].stored = upload[u].batches
  BY <1>2 DEF DocumentIInv, UploadHolds, NotUploading, Uploading
<1>4. upload[u].route = "worker" \/ "success" \in e \/ upload[u].pc = "failed"
  BY <1>1, <1>2 DEF EntriesAbout, IsTask
<1>5. upload[u].pc = "failed" => "error" \in e
  BY <1>1, <1>2 DEF EntriesAbout
<1>6. UploadHolds(x, r, c, e)
  BY <1>1, <1>2, <1>3, <1>4, <1>5 DEF UploadHolds, Uploading
<1>7. QED BY <1>2, <1>6, OneUpload

(* The deletion of a document that nobody works on. *)
LEMMA DeleteDocumentIInv ==
  ASSUME DocumentIInv, NEW u \in Uploads, CommitDelete(u)
  PROVE  DocumentIInv'
<1>1. PICK x, e : x = upload[u] /\ e = entry[u] \cup {"deleted"}
  OBVIOUS
<1>2. upload' = upload /\ (x = NotUploading \/ x.pc = "answered")
  BY <1>1 DEF CommitDelete
<1>3. UploadHolds(x, "none", 0, e)
  BY <1>1, <1>2 DEF DocumentIInv, UploadHolds, Uploading
<1>4. /\ upload' = [upload EXCEPT ![u] = x] /\ record' = [record EXCEPT ![u] = "none"]
      /\ chunks' = [chunks EXCEPT ![u] = 0] /\ entry' = [entry EXCEPT ![u] = e]
  BY <1>1, <1>2 DEF CommitDelete, DocumentIInv
<1>5. QED BY <1>3, <1>4, OneUpload

(* A Document is there for the pool. *)
LEMMA StoreDocumentIInv ==
  ASSUME DocumentIInv, NEW u \in Uploads, StoreDocument(u)
  PROVE  DocumentIInv'
<1>1. upload[u] = NotUploading /\ entry[u] = {} /\ record' = [record EXCEPT ![u] = "pending"]
  BY DEF StoreDocument
<1>2. chunks[u] = 0
  BY <1>1 DEF DocumentIInv, UploadHolds, NotUploading, Uploading
<1>3. UploadHolds(upload[u], "pending", chunks[u], entry[u])
  BY <1>1, <1>2 DEF UploadHolds
<1>4. /\ upload' = [upload EXCEPT ![u] = upload[u]] /\ chunks' = [chunks EXCEPT ![u] = chunks[u]]
      /\ entry' = [entry EXCEPT ![u] = entry[u]]
  BY DEF StoreDocument, DocumentIInv
<1>5. QED BY <1>1, <1>3, <1>4, OneUpload

LEMMA BeginUploadIInv ==
  ASSUME DocumentIInv, NEW u \in Uploads, NEW route, NEW n, BeginUpload(u, route, n)
  PROVE  DocumentIInv'
<1>1. PICK x : x = Uploading("processing", route, n, 0, "none")
  OBVIOUS
<1>2. /\ upload[u] = NotUploading /\ entry[u] = {} /\ upload' = [upload EXCEPT ![u] = x] /\ UNCHANGED Committed
      /\ (route = "worker" /\ record[u] = "pending") \/ (route # "worker" /\ record[u] = "none")
  BY <1>1 DEF BeginUpload, Committed
<1>3. chunks[u] = 0
  BY <1>2 DEF DocumentIInv, UploadHolds, NotUploading, Uploading
<1>4. UploadHolds(x, record[u], chunks[u], entry[u])
  BY <1>1, <1>2, <1>3 DEF UploadHolds, Uploading
<1>5. QED BY <1>2, <1>4, OnlyUpload

LEMMA DocumentsInitIInv == DocumentsInit => DocumentIInv
BY DEF DocumentsInit, DocumentIInv, UploadHolds

LEMMA DocumentsNextIInv == DocumentIInv /\ [DocumentsNext]_docVars => DocumentIInv'
<1> SUFFICES ASSUME DocumentIInv, [DocumentsNext]_docVars PROVE DocumentIInv'
  OBVIOUS
<1>1. CASE UNCHANGED docVars
  BY <1>1 DEF docVars, DocumentIInv
<1>2. ASSUME NEW u \in Uploads, StoreBatch(u) PROVE DocumentIInv'
  BY <1>2, UploadGoesOn DEF StoreBatch
<1>3. ASSUME NEW u \in Uploads, Complete(u) \/ PipelineFails(u) \/ FlushFails(u) \/ RefuseCommit(u) \/ AbandonUpload(u)
      PROVE  DocumentIInv'
  BY <1>3, UploadGoesOn DEF Complete, PipelineFails, FlushFails, RefuseCommit, AbandonUpload, Becomes
<1>4. ASSUME NEW u \in Uploads, BeginDelete(u) \/ DeleteFails(u) PROVE DocumentIInv'
  BY <1>4 DEF BeginDelete, DeleteFails, Committed, DocumentIInv
<1>5. QED BY <1>1, <1>2, <1>3, <1>4, BeginUploadIInv, StoreDocumentIInv, TaskRaisesIInv, CommitUploadIInv,
            DeleteDocumentIInv DEF DocumentsNext

LEMMA DocumentsInvariance == DocumentsSpec => []DocumentIInv
BY DocumentsInitIInv, DocumentsNextIInv, PTL DEF DocumentsSpec

(* What the invariant says of the documents that can be retrieved. *)
LEMMA DocumentsAreSound == DocumentIInv => UploadsAreWhole
BY DEF DocumentIInv, UploadHolds, UploadsAreWhole, Uploading, NotUploading, IsTask

-----------------------------------------------------------------------------
(* Fine-tuning jobs: the inductive invariant.                              *)

(* What the row r of a job may say when its object has the status at.      *)
RowMaySay(at, r, j, c) ==
  \/ r \in {"none", "failed"} \/ at = "failed"
  \/ r = "cancelled" /\ j \in c
  \/ r = "pending" /\ at \in {"pending", "preparing", "training", "evaluating", "completed"}
  \/ r = "preparing" /\ at \in {"preparing", "training", "evaluating", "completed"}
  \/ r = "training" /\ at \in {"training", "evaluating", "completed"}
  \/ r = "evaluating" /\ at \in {"evaluating", "completed"}
  \/ r = "completed" /\ at = "completed"

(* The object x of job j, its row r, the request q that has created it and *)
(* the cancelled jobs c.                                                   *)
JobHolds(x, r, q, j, c) ==
  \/ x = NoJob /\ r = "none" /\ q = "none" /\ j \notin c
  \/ /\ x = JobOf(x.kind, x.status, x.progress, x.alive)
     /\ x.kind \in {"memory", "stored"} /\ x.progress \in 0..LastStep
     /\ x.status \in {"pending", "preparing", "training", "evaluating", "completed", "failed", "cancelled"}
     /\ x.status \in {"evaluating", "completed"} => x.progress = LastStep
     /\ x.status \in {"completed", "failed"} => x.alive = FALSE
     /\ x.kind = "memory" => r = "none" /\ q = "none" /\ (j \in c <=> x.status = "cancelled")
     /\ x.kind = "stored" => /\ x.status # "cancelled"
                             /\ q = "open" => r = "none"
                             /\ j \in c => r = "cancelled"
     /\ RowMaySay(x.status, r, j, c)

TuningIInv ==
  /\ job = [j \in Jobs |-> job[j]] /\ row = [j \in Jobs |-> row[j]] /\ request = [j \in Jobs |-> request[j]]
  /\ \A j \in Jobs : JobHolds(job[j], row[j], request[j], j, cancelled)

(* What NextStage makes of a job. *)
StageAfter(x, y) ==
  \/ x.status = "pending" /\ y = JobOf(x.kind, "preparing", x.progress, TRUE)
  \/ x.status = "preparing" /\ y = JobOf(x.kind, "training", x.progress, TRUE)
  \/ x.status = "training" /\ x.progress < LastStep /\ y = JobOf(x.kind, "training", x.progress + 1, TRUE)
  \/ x.status = "training" /\ x.progress >= LastStep /\ y = JobOf(x.kind, "evaluating", x.progress, TRUE)
  \/ x.status \notin {"pending", "preparing", "training"} /\ y = JobOf(x.kind, "completed", x.progress, FALSE)
-----------------------------------------------------------------------------
(* Fine-tuning jobs: the steps.                                            *)

(* The records of jobs. *)
LEMMA JobFields ==
  ASSUME NEW x, NEW k, NEW s, NEW p, NEW a, x = JobOf(k, s, p, a)
  PROVE  x.kind = k /\ x.status = s /\ x.progress = p /\ x.alive = a /\ x # NoJob
BY DEF JobOf, NoJob

(* One job changes in what is its own. *)
LEMMA OneJob ==
  ASSUME TuningIInv, NEW j \in Jobs, NEW x, NEW r, NEW q, NEW c, JobHolds(x, r, q, j, c),
         job' = [job EXCEPT ![j] = x], row' = [row EXCEPT ![j] = r], request' = [request EXCEPT ![j] = q],
         cancelled' = c, c = cancelled \/ c = cancelled \cup {j}
  PROVE  TuningIInv'
<1>1. /\ job'[j] = x /\ row'[j] = r /\ request'[j] = q
      /\ \A i \in Jobs \ {j} : job'[i] = job[i] /\ row'[i] = row[i] /\ request'[i] = request[i]
  BY DEF TuningIInv
<1>2. \A i \in Jobs \ {j} : i \in c <=> i \in cancelled
  OBVIOUS
<1>3. \A i \in Jobs \ {j} : JobHolds(job[i], row[i], request[i], i, c)
  BY <1>2 DEF TuningIInv, JobHolds, RowMaySay
<1>4. \A i \in Jobs : JobHolds(job'[i], row'[i], request'[i], i, c)
  BY <1>1, <1>3, Zenon
<1>5. QED BY <1>1, <1>4 DEF TuningIInv

(* A stage is followed by the next, of a job that is alive. *)
LEMMA NextStageHolds ==
  ASSUME NEW x, NEW y, NEW r, NEW q, NEW j, NEW c, JobHolds(x, r, q, j, c), x # NoJob, x.alive = TRUE,
         x.status # "cancelled", StageAfter(x, y)
  PROVE  JobHolds(y, r, q, j, c)
<1>1. /\ x.kind \in {"memory", "stored"} /\ x.progress \in 0..LastStep
      /\ x.status \in {"pending", "preparing", "training", "evaluating"}
      /\ x.status = "evaluating" => x.progress = LastStep
      /\ x.kind = "memory" => r = "none" /\ q = "none" /\ j \notin c
      /\ RowMaySay(x.status, r, j, c)
  BY DEF JobHolds
<1>2. PICK s, p, a : /\ y = JobOf(x.kind, s, p, a)
                     /\ \/ x.status = "pending" /\ s = "preparing" /\ p = x.progress /\ a = TRUE
                        \/ x.status = "preparing" /\ s = "training" /\ p = x.progress /\ a = TRUE
                        \/ x.status = "training" /\ x.progress < LastStep /\ s = "training" /\ p = x.progress + 1 /\ a = TRUE
                        \/ x.status = "training" /\ x.progress >= LastStep /\ s = "evaluating" /\ p = x.progress /\ a = TRUE
                        \/ x.status = "evaluating" /\ s = "completed" /\ p = x.progress /\ a = FALSE
  BY <1>1, Zenon DEF StageAfter
<1>3. p \in 0..LastStep /\ (s \in {"evaluating", "completed"} => p = LastStep)
  BY <1>1, <1>2, TrainingAssumption
<1>4. s \in {"preparing", "training", "evaluating", "completed"} /\ (s = "completed" => a = FALSE)
  BY <1>2
<1>5. RowMaySay(s, r, j, c)
  BY <1>1, <1>2 DEF RowMaySay
<1>6. /\ y.kind = x.kind /\ y.status = s /\ y.progress = p /\ y.alive = a
  BY <1>2, JobFields
<1>7. QED BY <1>1, <1>2, <1>3, <1>4, <1>5, <1>6 DEF JobHolds

(* A job ends with a status that it had, or failed. *)
LEMMA EndedHolds ==
  ASSUME NEW x, NEW y, NEW s, NEW r, NEW q, NEW p, NEW j, NEW c, JobHolds(x, r, q, j, c), x # NoJob,
         y = JobOf(x.kind, s, x.progress, FALSE), q = p \/ q = "open",
         s = x.status \/ (s = "failed" /\ x.status # "cancelled")
  PROVE  JobHolds(y, r, p, j, c)
<1>1. /\ y.kind = x.kind /\ y.status = s /\ y.progress = x.progress /\ y.alive = FALSE
  BY DEF JobOf
<1>2. RowMaySay(s, r, j, c)
  BY DEF JobHolds, RowMaySay
<1>3. QED BY <1>1, <1>2 DEF JobHolds

LEMMA TrainIInv ==
  ASSUME TuningIInv, NEW j \in Jobs, Train(j) \/ TrainingFails(j)
  PROVE  TuningIInv'
<1>1. job[j].kind # "none" /\ job[j].alive = TRUE /\ UNCHANGED <<row, request, cancelled>>
  BY Zenon DEF Train, TrainingFails
<1>2. job[j] # NoJob /\ JobHolds(job[j], row[j], request[j], j, cancelled)
  BY <1>1 DEF TuningIInv, NoJob
<1>3. PICK y : job' = [job EXCEPT ![j] = y] /\ JobHolds(y, row[j], request[j], j, cancelled)
  <2>1. CASE Train(j) /\ job[j].status = "cancelled"
    <3>1. PICK y : y = EndedAs(j, "cancelled")
      OBVIOUS
    <3>2. job' = [job EXCEPT ![j] = y]
      BY <2>1, <3>1 DEF Train
    <3>3. JobHolds(y, row[j], request[j], j, cancelled)
      BY <1>2, <2>1, <3>1, EndedHolds DEF EndedAs
    <3>4. QED BY <3>2, <3>3
  <2>2. CASE Train(j) /\ job[j].status # "cancelled"
    <3>1. PICK y : y = NextStage(j)
      OBVIOUS
    <3>2. job' = [job EXCEPT ![j] = y]
      BY <2>2, <3>1 DEF Train
    <3>3. job[j].progress < LastStep \/ job[j].progress >= LastStep
      BY <1>2, TrainingAssumption DEF JobHolds
    <3>4. StageAfter(job[j], y)
      <4>1. CASE job[j].status = "pending"
        BY <3>1, <4>1, Zenon DEF NextStage, StageAfter
      <4>2. CASE job[j].status = "preparing"
        BY <3>1, <4>2, Zenon DEF NextStage, StageAfter
      <4>3. CASE job[j].status = "training" /\ job[j].progress < LastStep
        <5>1. ~(job[j].progress >= LastStep)
          BY <1>2, <4>3, TrainingAssumption DEF JobHolds
        <5>2. y = JobOf(job[j].kind, "training", job[j].progress + 1, TRUE)
          BY <3>1, <4>3, <5>1, Zenon DEF NextStage
        <5>3. QED BY <4>3, <5>2, Zenon DEF StageAfter
      <4>4. CASE job[j].status = "training" /\ job[j].progress >= LastStep
        <5>1. ~(job[j].progress < LastStep)
          BY <1>2, <4>4, TrainingAssumption DEF JobHolds
        <5>2. y = JobOf(job[j].kind, "evaluating", job[j].progress, TRUE)
          BY <3>1, <4>4, <5>1, Zenon DEF NextStage
        <5>3. QED BY <4>4, <5>2, Zenon DEF StageAfter
      <4>5. CASE job[j].status \notin {"pending", "preparing", "training"}
        BY <3>1, <4>5, Zenon DEF NextStage, StageAfter
      <4>6. QED BY <3>3, <4>1, <4>2, <4>3, <4>4, <4>5
    <3>5. JobHolds(y, row[j], request[j], j, cancelled)
      BY <1>1, <1>2, <2>2, <3>4, NextStageHolds
    <3>6. QED BY <3>2, <3>5
  <2>3. CASE TrainingFails(j)
    <3>1. PICK y : y = EndedAs(j, "failed")
      OBVIOUS
    <3>2. job' = [job EXCEPT ![j] = y] /\ (job[j].status = "training" \/ request[j] = "open")
      BY <2>3, <3>1 DEF TrainingFails
    <3>3. job[j].status # "cancelled"
      BY <1>2, <3>2 DEF JobHolds
    <3>4. JobHolds(y, row[j], request[j], j, cancelled)
      BY <1>2, <3>1, <3>3, EndedHolds DEF EndedAs
    <3>5. QED BY <3>2, <3>4
  <2>4. QED BY <2>1, <2>2, <2>3
<1>4. row' = [row EXCEPT ![j] = row[j]] /\ request' = [request EXCEPT ![j] = request[j]] /\ cancelled' = cancelled
  BY <1>1 DEF TuningIInv
<1>5. QED BY <1>3, <1>4, OneJob

LEMMA CreateJobIInv ==
  ASSUME TuningIInv, NEW j \in Jobs, NEW kind \in {"memory", "stored"}, CreateJob(j, kind)
  PROVE  TuningIInv'
<1>1. PICK x, q : x = JobOf(kind, "pending", 0, TRUE) /\ q = IF kind = "stored" THEN "open" ELSE "none"
  OBVIOUS
<1>2. /\ job[j] = NoJob /\ job' = [job EXCEPT ![j] = x] /\ request' = [request EXCEPT ![j] = q]
      /\ row' = row /\ cancelled' = cancelled
  BY <1>1 DEF CreateJob
<1>3. row[j] = "none" /\ j \notin cancelled
  BY <1>2, JobFields DEF TuningIInv, JobHolds
<1>4. x.kind = kind /\ x.status = "pending" /\ x.progress = 0 /\ x.alive = TRUE
  BY <1>1 DEF JobOf
<1>5. 0 \in 0..LastStep
  BY TrainingAssumption
<1>6. JobHolds(x, row[j], q, j, cancelled)
  BY <1>1, <1>3, <1>4, <1>5 DEF JobHolds, RowMaySay
<1>7. row' = [row EXCEPT ![j] = row[j]]
  BY <1>2 DEF TuningIInv
<1>8. QED BY <1>2, <1>6, <1>7, OneJob

LEMMA CommitJobIInv ==
  ASSUME TuningIInv, NEW j \in Jobs, CommitJob(j) \/ RollbackJob(j)
  PROVE  TuningIInv'
<1>1. PICK r : /\ r \in {row[j], job[j].status} /\ row' = [row EXCEPT ![j] = r]
               /\ request[j] = "open" /\ request' = [request EXCEPT ![j] = "closed"]
               /\ job' = job /\ cancelled' = cancelled
  BY DEF CommitJob, RollbackJob, TuningIInv
<1>2. PICK x : x = job[j]
  OBVIOUS
<1>3. JobHolds(x, row[j], "open", j, cancelled)
  BY <1>1, <1>2 DEF TuningIInv
<1>4. JobHolds(x, r, "closed", j, cancelled)
  BY <1>1, <1>2, <1>3 DEF JobHolds, RowMaySay
<1>5. job' = [job EXCEPT ![j] = x]
  BY <1>1, <1>2 DEF TuningIInv
<1>6. QED BY <1>1, <1>4, <1>5, OneJob

LEMMA CancelObjectIInv ==
  ASSUME TuningIInv, NEW j \in Jobs, CancelObject(j)
  PROVE  TuningIInv'
<1>1. PICK x : x = JobOf("memory", "cancelled", job[j].progress, job[j].alive)
  OBVIOUS
<1>2. /\ job[j].kind = "memory" /\ job[j].status \notin Terminal /\ job' = [job EXCEPT ![j] = x]
      /\ cancelled' = cancelled \cup {j} /\ row' = row /\ request' = request
  BY <1>1 DEF CancelObject
<1>3. JobHolds(job[j], row[j], request[j], j, cancelled) /\ job[j] # NoJob
  BY <1>2 DEF TuningIInv, NoJob
<1>4. x.kind = "memory" /\ x.status = "cancelled" /\ x.progress = job[j].progress
  BY <1>1, JobFields
<1>5. x = JobOf(x.kind, x.status, x.progress, x.alive)
  BY <1>1 DEF JobOf
<1>6. job[j].progress \in 0..LastStep /\ row[j] = "none" /\ request[j] = "none"
  BY <1>2, <1>3 DEF JobHolds
<1>7. PICK c : c = cancelled \cup {j} /\ JobHolds(x, row[j], request[j], j, c)
  BY <1>4, <1>5, <1>6 DEF JobHolds, RowMaySay
<1>8. PICK r, q : r = row[j] /\ q = request[j]
  OBVIOUS
<1>9. /\ row' = [row EXCEPT ![j] = r] /\ request' = [request EXCEPT ![j] = q]
      /\ cancelled' = c /\ c = cancelled \cup {j}
  BY <1>2, <1>7, <1>8 DEF TuningIInv
<1>10. job' = [job EXCEPT ![j] = x] /\ JobHolds(x, r, q, j, c)
  BY <1>2, <1>7, <1>8
<1>11. QED BY <1>9, <1>10, OneJob

LEMMA CancelRowIInv ==
  ASSUME TuningIInv, NEW j \in Jobs, CancelRow(j)
  PROVE  TuningIInv'
<1>1. /\ row[j] # "none" /\ row' = [row EXCEPT ![j] = "cancelled"]
      /\ cancelled' = cancelled \cup {j} /\ job' = job /\ request' = request
  BY DEF CancelRow
<1>2. PICK x, c : x = job[j] /\ c = cancelled \cup {j}
  OBVIOUS
<1>3. JobHolds(x, row[j], request[j], j, cancelled)
  BY <1>2 DEF TuningIInv
<1>4. JobHolds(x, "cancelled", request[j], j, c)
  BY <1>1, <1>2, <1>3 DEF JobHolds, RowMaySay
<1>5. job' = [job EXCEPT ![j] = x] /\ request' = [request EXCEPT ![j] = request[j]]
  BY <1>1, <1>2 DEF TuningIInv
<1>6. cancelled' = c /\ c = cancelled \cup {j}
  BY <1>1, <1>2
<1>7. QED BY <1>1, <1>4, <1>5, <1>6, OneJob

LEMMA RestartTrainingIInv ==
  ASSUME TuningIInv, RestartTraining
  PROVE  TuningIInv'
<1>1. /\ job' = [j \in Jobs |-> IF job[j].kind = "none" THEN NoJob ELSE EndedAs(j, job[j].status)]
      /\ request' = [j \in Jobs |-> IF request[j] = "open" THEN "closed" ELSE request[j]]
      /\ row' = row /\ cancelled' = cancelled
  BY DEF RestartTraining
<1>2. ASSUME NEW j \in Jobs PROVE JobHolds(job'[j], row'[j], request'[j], j, cancelled')
  <2>1. JobHolds(job[j], row[j], request[j], j, cancelled)
    BY DEF TuningIInv
  <2>2. CASE job[j].kind = "none"
    <3>1. job[j] = NoJob
      BY <2>1, <2>2 DEF JobHolds
    <3>2. job'[j] = NoJob /\ request'[j] = request[j]
      BY <1>1, <2>1, <2>2, <3>1, JobFields DEF JobHolds
    <3>3. QED BY <1>1, <2>1, <3>1, <3>2
  <2>3. CASE job[j].kind # "none"
    <3>1. job[j] # NoJob
      BY <2>3 DEF NoJob
    <3>2. PICK y : y = JobOf(job[j].kind, job[j].status, job[j].progress, FALSE)
      OBVIOUS
    <3>3. job'[j] = y
      BY <1>1, <2>3, <3>2 DEF EndedAs
    <3>4. PICK p : p = request'[j] /\ (request[j] = p \/ request[j] = "open")
      BY <1>1
    <3>5. JobHolds(y, row[j], p, j, cancelled)
      BY <2>1, <3>1, <3>2, <3>4, EndedHolds
    <3>6. QED BY <1>1, <3>3, <3>4, <3>5
  <2>4. QED BY <2>2, <2>3
<1>3. /\ job' = [j \in Jobs |-> job'[j]] /\ row' = [j \in Jobs |-> row'[j]] /\ request' = [j \in Jobs |-> request'[j]]
  BY <1>1 DEF TuningIInv
<1>4. QED BY <1>2, <1>3 DEF TuningIInv

LEMMA TuningInitIInv == TuningInit => TuningIInv
BY DEF TuningInit, TuningIInv, JobHolds

LEMMA TuningNextIInv == TuningIInv /\ [TuningNext]_tuningVars => TuningIInv'
<1> SUFFICES ASSUME TuningIInv, [TuningNext]_tuningVars PROVE TuningIInv'
  OBVIOUS
<1>1. CASE UNCHANGED tuningVars
  BY <1>1 DEF tuningVars, TuningIInv
<1>2. CASE RestartTraining
  BY <1>2, RestartTrainingIInv
<1>3. ASSUME NEW j \in Jobs, \E kind \in {"memory", "stored"} : CreateJob(j, kind) PROVE TuningIInv'
  BY <1>3, CreateJobIInv
<1>4. ASSUME NEW j \in Jobs, CommitJob(j) \/ RollbackJob(j) PROVE TuningIInv'
  BY <1>4, CommitJobIInv
<1>5. ASSUME NEW j \in Jobs, Train(j) \/ TrainingFails(j) PROVE TuningIInv'
  BY <1>5, TrainIInv
<1>6. ASSUME NEW j \in Jobs, CancelObject(j) PROVE TuningIInv'
  BY <1>6, CancelObjectIInv
<1>7. ASSUME NEW j \in Jobs, CancelRow(j) PROVE TuningIInv'
  BY <1>7, CancelRowIInv
<1>8. QED BY <1>1, <1>2, <1>3, <1>4, <1>5, <1>6, <1>7 DEF TuningNext

LEMMA TuningInvariance == TuningSpec => []TuningIInv
BY TuningInitIInv, TuningNextIInv, PTL DEF TuningSpec

(* A stage counts as reached when it is not after the present one. *)
LEMMA StagesReached ==
  ASSUME NEW at, NEW r, NEW j, NEW c, RowMaySay(at, r, j, c)
  PROVE  r \in {"none", "failed"} \/ (r = "cancelled" /\ j \in c) \/ Reached(at, r) \/ at = "failed"
<1>1. DOMAIN Stages = 1..5 /\ Stages[1] = "pending" /\ Stages[2] = "preparing" /\ Stages[3] = "training"
      /\ Stages[4] = "evaluating" /\ Stages[5] = "completed"
  BY DEF Stages
<1>2. ASSUME NEW m \in 1..5, NEW n \in 1..5, m <= n, Stages[m] = r, Stages[n] = at PROVE Reached(at, r)
  BY <1>1, <1>2 DEF Reached
<1>3. CASE r = "pending" /\ at \in {"pending", "preparing", "training", "evaluating", "completed"}
  BY <1>1, <1>2, <1>3
<1>4. CASE r = "preparing" /\ at \in {"preparing", "training", "evaluating", "completed"}
  BY <1>1, <1>2, <1>4
<1>5. CASE r = "training" /\ at \in {"training", "evaluating", "completed"}
  BY <1>1, <1>2, <1>5
<1>6. CASE r = "evaluating" /\ at \in {"evaluating", "completed"}
  BY <1>1, <1>2, <1>6
<1>7. CASE r = "completed" /\ at = "completed"
  BY <1>1, <1>2, <1>7
<1>8. QED BY <1>3, <1>4, <1>5, <1>6, <1>7 DEF RowMaySay

LEMMA JobsAreHonest == TuningIInv => TrainingIsHonest
<1> SUFFICES ASSUME TuningIInv, NEW j \in Jobs, job[j] # NoJob
             PROVE  /\ j \in cancelled => (IF job[j].kind = "memory" THEN job[j].status ELSE row[j]) = "cancelled"
                    /\ job[j].status = "cancelled" => j \in cancelled
                    /\ job[j].status = "completed" => job[j].progress = LastStep
                    /\ row[j] \in {"none", "failed"} \/ (row[j] = "cancelled" /\ j \in cancelled)
                         \/ Reached(job[j].status, row[j]) \/ job[j].status = "failed"
  BY DEF TrainingIsHonest
<1>1. JobHolds(job[j], row[j], request[j], j, cancelled)
  BY DEF TuningIInv
<1>2. RowMaySay(job[j].status, row[j], j, cancelled)
  BY <1>1 DEF JobHolds
<1>3. row[j] \in {"none", "failed"} \/ (row[j] = "cancelled" /\ j \in cancelled)
         \/ Reached(job[j].status, row[j]) \/ job[j].status = "failed"
  BY <1>2, StagesReached
<1>4. QED BY <1>1, <1>3 DEF JobHolds

-----------------------------------------------------------------------------
(* Tenant settings and quotas: the inductive invariant.                    *)

Columns == [Fields -> Int \cup {Null}]
FigureNames == {"users", "active", "today", "month", "calls", "errors"}

RequestTypes(q) ==
  /\ q = Requesting(q.op, q.pc, q.asked, q.values, q.seen, q.day, q.counted, q.figures, q.overtaken)
  /\ q.asked \subseteq Fields /\ q.values \in Columns /\ q.seen \in Columns \cup {NoSettings}
  /\ q.day \in 1 .. LastDay /\ q.counted \in Nat /\ q.figures \in [FigureNames -> Nat]
  /\ q.overtaken \in BOOLEAN

(* What the request q of session s has to do with the row and its lock: a  *)
(* new row is written only if there is none.                               *)
RowSeen(q, s, kept, lock) ==
  /\ s \in lock => q.pc \in {"created", "counting"} /\ (q.seen = NoSettings => kept = NoSettings)
  /\ q.pc = "created" => s \in lock /\ q.seen = NoSettings
  /\ q.pc = "found" => q.seen # NoSettings
  /\ q.seen # NoSettings => kept # NoSettings

(* What the figures so far have to do with the people p and the calls m.   *)
FiguresHold(q, p, m) ==
  /\ q.op = "details" =>
       /\ q.counted \in 1 .. 4 /\ q.overtaken = FALSE => q.figures["users"] = p.all
       /\ q.counted \in 2 .. 4 /\ q.overtaken = FALSE => q.figures["active"] <= q.figures["users"]
       /\ q.counted = 3 => q.figures["today"] <= Cardinality(Since(FirstOfMonth[q.day], m))
       /\ q.counted = 4 => q.figures["today"] <= q.figures["month"]
  /\ q.op \in QuotaOps =>
       /\ q.counted = 2 => q.figures["today"] <= Cardinality(Since(FirstOfMonth[q.day], m))
       /\ q.counted = 3 => q.figures["today"] <= q.figures["month"]
  /\ q.op = "usage" =>
       /\ q.counted = 1 /\ q.overtaken = FALSE => q.figures["calls"] = Cardinality(Until(q.day, m))
       /\ q.counted = 2 /\ q.overtaken = FALSE => q.figures["errors"] <= q.figures["calls"]

CallsAreDated(m) == IsFiniteSet(m) /\ \A c \in m : c.day \in Nat
PeopleAdd(p) == p.all \in Nat /\ p.active \in Nat /\ p.active <= p.all

RowIsLatest(kept, last) ==
  /\ kept \in Columns \cup {NoSettings} /\ last \in Columns
  /\ kept = NoSettings => last = Defaults
  /\ kept # NoSettings => kept = last

ReplyHolds(r) ==
  /\ r.overtaken \in BOOLEAN
  /\ r.op \in {"details"} \cup QuotaOps => r.figures["today"] <= r.figures["month"]
  /\ r.op = "details" /\ r.overtaken = FALSE => r.figures["active"] <= r.figures["users"]
  /\ r.op = "usage" /\ r.overtaken = FALSE => r.figures["errors"] <= r.figures["calls"]
  /\ r.op \in QuotaOps =>
       /\ r.budget # 0
       /\ r.remaining + r.figures["today"] >= r.budget
       /\ r.remaining # 0 => r.remaining + r.figures["today"] = r.budget
       /\ r.settings["max_users"] # Null =>
            r.users_remaining + r.figures["users"] >= r.settings["max_users"]

QuotaIInv ==
  /\ tenant_request = [s \in Admins |-> tenant_request[s]]
  /\ \A s \in Admins : /\ RequestTypes(tenant_request[s])
                       /\ RowSeen(tenant_request[s], s, settings_row, settings_lock)
                       /\ FiguresHold(tenant_request[s], people, metrics)
  /\ settings_lock \subseteq Admins /\ \A s, o \in settings_lock : s = o
  /\ requests_made \in Nat
  /\ requests_made = 0 => \A s \in Admins : tenant_request[s] = NoRequest
  /\ RowIsLatest(settings_row, latest)
  /\ PeopleAdd(people) /\ CallsAreDated(metrics) /\ day \in 1 .. LastDay
  /\ ReplyHolds(reply)
-----------------------------------------------------------------------------
(* Tenant settings and quotas: the steps.                                  *)

(* The records of requests. *)
LEMMA RequestFields ==
  ASSUME NEW q, NEW op, NEW pc, NEW asked, NEW values, NEW seen, NEW today, NEW n, NEW figures, NEW passed,
         q = Requesting(op, pc, asked, values, seen, today, n, figures, passed)
  PROVE  /\ q.op = op /\ q.pc = pc /\ q.asked = asked /\ q.values = values /\ q.seen = seen
         /\ q.day = today /\ q.counted = n /\ q.figures = figures /\ q.overtaken = passed
         /\ q = Requesting(q.op, q.pc, q.asked, q.values, q.seen, q.day, q.counted, q.figures, q.overtaken)
BY DEF Requesting

(* A session that has no request. *)
LEMMA NoRequestHolds ==
  /\ RequestTypes(NoRequest) /\ NoRequest.op = "none" /\ NoRequest.pc = "idle" /\ NoRequest.seen = NoSettings
  /\ \A p, m : FiguresHold(NoRequest, p, m)
<1>1. PICK q : q = NoRequest
  OBVIOUS
<1>2. /\ q.op = "none" /\ q.pc = "idle" /\ q.asked = {} /\ q.values = Defaults /\ q.seen = NoSettings
      /\ q.day = 1 /\ q.counted = 0 /\ q.figures = NoFigures /\ q.overtaken = FALSE
      /\ q = Requesting(q.op, q.pc, q.asked, q.values, q.seen, q.day, q.counted, q.figures, q.overtaken)
  BY <1>1 DEF NoRequest, Requesting
<1>3. Defaults \in Columns /\ NoFigures \in [FigureNames -> Nat] /\ 1 \in 1 .. LastDay
  BY QuotaAssumption DEF Defaults, Columns, NoFigures, FigureNames
<1>4. RequestTypes(q)
  <2>1. q.overtaken \in BOOLEAN
    BY <1>2, Zenon
  <2>2. /\ q.asked \subseteq Fields /\ q.values \in Columns /\ q.seen \in Columns \cup {NoSettings}
        /\ q.day \in 1 .. LastDay /\ q.counted \in Nat /\ q.figures \in [FigureNames -> Nat]
    BY <1>2, <1>3
  <2>3. QED BY <1>2, <2>1, <2>2, Zenon DEF RequestTypes
<1>5. \A p, m : FiguresHold(q, p, m)
  BY <1>2 DEF FiguresHold
<1>6. QED BY <1>1, <1>2, <1>4, <1>5

(* More calls are not fewer. *)
LEMMA MoreCalls ==
  ASSUME NEW m, NEW w, CallsAreDated(w), m \subseteq w, NEW first \in Nat
  PROVE  /\ Cardinality(Since(first, m)) \in Nat /\ Cardinality(Since(first, w)) \in Nat
         /\ Cardinality(Since(first, m)) <= Cardinality(Since(first, w))
<1>1. Since(first, m) \subseteq Since(first, w) /\ Since(first, w) \subseteq w
  BY DEF Since
<1>2. IsFiniteSet(Since(first, w))
  BY <1>1, FS_Subset DEF CallsAreDated
<1>3. QED BY <1>1, <1>2, FS_Subset, FS_CardinalityType

(* The month has no fewer calls than the day, and errors are calls.        *)
LEMMA CallsCompare ==
  ASSUME NEW m, CallsAreDated(m), NEW d \in 1 .. LastDay
  PROVE  /\ Cardinality(Since(d, m)) \in Nat /\ Cardinality(Since(FirstOfMonth[d], m)) \in Nat
         /\ Cardinality(Since(d, m)) <= Cardinality(Since(FirstOfMonth[d], m))
         /\ Cardinality(Until(d, m)) \in Nat /\ Cardinality(FailedCalls(Until(d, m))) \in Nat
         /\ Cardinality(FailedCalls(Until(d, m))) <= Cardinality(Until(d, m))
<1> DEFINE failures == FailedCalls(Until(d, m))
<1>1. FirstOfMonth[d] \in Nat /\ FirstOfMonth[d] <= d /\ d \in Nat
  BY QuotaAssumption
<1>2. Since(d, m) \subseteq Since(FirstOfMonth[d], m) /\ Since(FirstOfMonth[d], m) \subseteq m
  BY <1>1 DEF Since, CallsAreDated
<1>3. failures \subseteq Until(d, m) /\ Until(d, m) \subseteq m
  BY DEF Until, FailedCalls
<1> HIDE DEF failures
<1>4. IsFiniteSet(Since(FirstOfMonth[d], m)) /\ IsFiniteSet(Until(d, m))
  BY <1>2, <1>3, FS_Subset DEF CallsAreDated
<1>5. /\ IsFiniteSet(Since(d, m)) /\ IsFiniteSet(failures)
      /\ Cardinality(Since(d, m)) <= Cardinality(Since(FirstOfMonth[d], m))
      /\ Cardinality(failures) <= Cardinality(Until(d, m))
  BY <1>2, <1>3, <1>4, FS_Subset
<1>6. QED BY <1>4, <1>5, FS_CardinalityType DEF failures

(* One session goes on, and the row stays. *)
LEMMA OneRequest ==
  ASSUME QuotaIInv, NEW s \in Admins, NEW x, NEW l, NEW r,
         tenant_request' = [tenant_request EXCEPT ![s] = x], settings_lock' = l, reply' = r,
         \/ l = settings_lock
         \/ l = {s} /\ settings_lock \subseteq {s}
         \/ l = settings_lock \ {s},
         RequestTypes(x), RowSeen(x, s, settings_row, l), FiguresHold(x, people, metrics), ReplyHolds(r),
         requests_made' \in Nat \ {0}, UNCHANGED <<settings_row, people, metrics, day, latest>>
  PROVE  QuotaIInv'
<1>1. tenant_request'[s] = x /\ \A o \in Admins \ {s} : tenant_request'[o] = tenant_request[o]
  BY DEF QuotaIInv
<1>2. ASSUME NEW o \in Admins \ {s} PROVE RowSeen(tenant_request[o], o, settings_row, l)
  <2>1. RowSeen(tenant_request[o], o, settings_row, settings_lock)
    BY DEF QuotaIInv
  <2>2. o \in l <=> o \in settings_lock
    OBVIOUS
  <2>3. QED BY <2>1, <2>2 DEF RowSeen
<1>3. ASSUME NEW o \in Admins
      PROVE  /\ RequestTypes(tenant_request'[o]) /\ RowSeen(tenant_request'[o], o, settings_row, l)
             /\ FiguresHold(tenant_request'[o], people, metrics)
  BY <1>1, <1>2 DEF QuotaIInv
<1>4. l \subseteq Admins /\ \A o, p \in l : o = p
  BY DEF QuotaIInv
<1>5. tenant_request' = [o \in Admins |-> tenant_request'[o]]
  BY DEF QuotaIInv
<1>6. QED BY <1>3, <1>4, <1>5 DEF QuotaIInv

(* Somebody has asked, so a request has been made. *)
LEMMA AskedFor ==
  ASSUME QuotaIInv, NEW s \in Admins, tenant_request[s] # NoRequest
  PROVE  requests_made \in Nat \ {0}
BY DEF QuotaIInv

LEMMA AsksTenantIInv ==
  ASSUME QuotaIInv, NEW s \in Admins, NEW op, NEW asked, NEW values, asked \subseteq Fields, values \in Columns,
         AsksTenant(s, op, asked, values)
  PROVE  QuotaIInv'
<1> DEFINE pc == IF op \in {"details", "usage"} THEN "counting" ELSE "asked"
           x == Requesting(op, pc, asked, values, NoSettings, day, 0, NoFigures, FALSE)
<1>1. pc \in {"counting", "asked"} /\ tenant_request' = [tenant_request EXCEPT ![s] = x]
  BY DEF AsksTenant
<1>2. /\ tenant_request[s] = NoRequest /\ requests_made' = requests_made + 1 /\ reply' = NoReply
      /\ UNCHANGED <<settings_row, settings_lock, people, metrics, day, latest>>
  BY DEF AsksTenant
<1>3. /\ x.op = op /\ x.pc = pc /\ x.asked = asked /\ x.values = values /\ x.seen = NoSettings
      /\ x.day = day /\ x.counted = 0 /\ x.figures = NoFigures /\ x.overtaken = FALSE
      /\ x = Requesting(x.op, x.pc, x.asked, x.values, x.seen, x.day, x.counted, x.figures, x.overtaken)
  BY DEF Requesting
<1> HIDE DEF pc, x
<1>4. s \notin settings_lock
  BY <1>2, NoRequestHolds DEF QuotaIInv, RowSeen
<1>5. RequestTypes(x)
  <2>1. x.overtaken \in BOOLEAN
    BY <1>3, Zenon
  <2>2. NoFigures \in [FigureNames -> Nat] /\ day \in 1 .. LastDay
    BY DEF NoFigures, FigureNames, QuotaIInv
  <2>3. /\ x.asked \subseteq Fields /\ x.values \in Columns /\ x.seen \in Columns \cup {NoSettings}
        /\ x.day \in 1 .. LastDay /\ x.counted \in Nat /\ x.figures \in [FigureNames -> Nat]
    BY <1>3, <2>2
  <2>4. QED BY <1>3, <2>1, <2>3, Zenon DEF RequestTypes
<1>6. RowSeen(x, s, settings_row, settings_lock)
  BY <1>1, <1>3, <1>4 DEF RowSeen
<1>7. FiguresHold(x, people, metrics)
  BY <1>3 DEF FiguresHold
<1>8. ReplyHolds(NoReply)
  BY DEF ReplyHolds, NoReply, Replying, QuotaOps
<1>9. requests_made' \in Nat \ {0}
  BY <1>2 DEF QuotaIInv
<1>10. QED BY <1>1, <1>2, <1>5, <1>6, <1>7, <1>8, <1>9, OneRequest

LEMMA RequestsAskIInv ==
  ASSUME QuotaIInv, NEW s \in Admins,
         \/ GetTenant(s) \/ GetTenantUsage(s) \/ GetTenantSettings(s) \/ GetTenantQuota(s)
         \/ UpdateTenantSettings(s) \/ UpdateTenantQuota(s)
  PROVE  QuotaIInv'
<1>1. PICK op, asked, values : AsksTenant(s, op, asked, values) /\ asked \subseteq Fields /\ values \in Columns
  <2>1. Defaults \in Columns
    BY DEF Defaults, Columns
  <2>3. {} \subseteq Fields /\ {"token_budget"} \subseteq Fields /\ {"branding"} \subseteq Fields
        /\ {"max_users", "token_budget"} \subseteq Fields
    BY DEF Fields
  <2>4. CASE GetTenant(s) \/ GetTenantUsage(s) \/ GetTenantSettings(s) \/ GetTenantQuota(s)
    BY <2>1, <2>3, <2>4 DEF GetTenant, GetTenantUsage, GetTenantSettings, GetTenantQuota, ReportsOnly
  <2>5. CASE UpdateTenantSettings(s)
    <3>1. CASE AsksTenant(s, "new settings", {"branding"}, [f \in Fields |-> 1])
      <4>1. [f \in Fields |-> 1] \in Columns
        BY DEF Columns
      <4>2. QED BY <2>3, <3>1, <4>1
    <3>2. ASSUME NEW allowed \in {-1, 0, 1}, AsksTenant(s, "new settings", {"token_budget"}, [f \in Fields |-> allowed])
          PROVE  \E op, asked, values : AsksTenant(s, op, asked, values) /\ asked \subseteq Fields /\ values \in Columns
      <4>1. [f \in Fields |-> allowed] \in Columns
        BY DEF Columns
      <4>2. QED BY <2>3, <3>2, <4>1
    <3>3. QED BY <2>5, <3>1, <3>2 DEF UpdateTenantSettings
  <2>6. CASE UpdateTenantQuota(s)
    <3>1. PICK limit \in {Null, 1} : AsksTenant(s, "new quota", {"max_users", "token_budget"}, [f \in Fields |-> limit])
      BY <2>6 DEF UpdateTenantQuota
    <3>2. [f \in Fields |-> limit] \in Columns
      BY DEF Columns
    <3>3. QED BY <2>3, <3>1, <3>2
  <2>7. QED BY <2>4, <2>5, <2>6
<1>2. QED BY <1>1, AsksTenantIInv

(* The request goes on with what it has seen: x is that request.           *)
LEMMA ProceedsTo ==
  ASSUME QuotaIInv, NEW s \in Admins, NEW pc, NEW seen \in Columns \cup {NoSettings}, Proceeds(s, pc, seen)
  PROVE  \E x : /\ tenant_request' = [tenant_request EXCEPT ![s] = x]
                /\ x.pc = pc /\ x.seen = seen
                /\ RequestTypes(x) /\ FiguresHold(x, people, metrics)
<1>1. PICK q : q = tenant_request[s]
  OBVIOUS
<1>2. PICK x : /\ x = Requesting(q.op, pc, q.asked, q.values, seen, q.day, q.counted, q.figures, q.overtaken)
               /\ tenant_request' = [tenant_request EXCEPT ![s] = x]
  BY <1>1 DEF Proceeds
<1>3. /\ x.op = q.op /\ x.pc = pc /\ x.asked = q.asked /\ x.values = q.values /\ x.seen = seen
      /\ x.day = q.day /\ x.counted = q.counted /\ x.figures = q.figures /\ x.overtaken = q.overtaken
      /\ x = Requesting(x.op, x.pc, x.asked, x.values, x.seen, x.day, x.counted, x.figures, x.overtaken)
  BY <1>2, RequestFields
<1>4. RequestTypes(q) /\ FiguresHold(q, people, metrics)
  BY <1>1 DEF QuotaIInv
<1>5. RequestTypes(x)
  BY <1>3, <1>4 DEF RequestTypes
<1>6. FiguresHold(x, people, metrics)
  BY <1>3, <1>4 DEF FiguresHold
<1>7. QED BY <1>2, <1>3, <1>5, <1>6

LEMMA GetSettingsIInv ==
  ASSUME QuotaIInv, NEW s \in Admins, GetSettings(s)
  PROVE  QuotaIInv'
<1>1. PICK pc : /\ Proceeds(s, pc, settings_row) /\ tenant_request[s].pc = "asked"
                /\ \/ pc = "absent" /\ settings_row = NoSettings
                   \/ pc = "found" /\ settings_row # NoSettings
                /\ UNCHANGED <<settings_row, settings_lock, requests_made, people, metrics, day, latest, reply>>
  BY DEF GetSettings
<1>2. settings_row \in Columns \cup {NoSettings}
  BY DEF QuotaIInv, RowIsLatest
<1>3. PICK x : /\ tenant_request' = [tenant_request EXCEPT ![s] = x] /\ x.pc = pc /\ x.seen = settings_row
               /\ RequestTypes(x) /\ FiguresHold(x, people, metrics)
  BY <1>1, <1>2, ProceedsTo
<1>4. tenant_request[s] # NoRequest /\ s \notin settings_lock
  BY <1>1, NoRequestHolds DEF QuotaIInv, RowSeen
<1>5. RowSeen(x, s, settings_row, settings_lock)
  BY <1>1, <1>3, <1>4 DEF RowSeen
<1>6. requests_made \in Nat \ {0} /\ ReplyHolds(reply)
  BY <1>4, AskedFor DEF QuotaIInv
<1>7. QED BY <1>1, <1>3, <1>5, <1>6, OneRequest

(* A request ends without a commit, and whatever it has locked is free.    *)
LEMMA RequestGone ==
  ASSUME QuotaIInv, NEW s \in Admins, tenant_request[s] # NoRequest, NEW r, reply' = r, ReplyHolds(r),
         tenant_request' = [tenant_request EXCEPT ![s] = NoRequest], settings_lock' = settings_lock \ {s},
         UNCHANGED <<settings_row, requests_made, people, metrics, day, latest>>
  PROVE  QuotaIInv'
<1>1. PICK l : l = settings_lock \ {s}
  OBVIOUS
<1>2. RowSeen(NoRequest, s, settings_row, l)
  BY <1>1, NoRequestHolds DEF RowSeen
<1>3. requests_made' \in Nat \ {0}
  BY AskedFor
<1>4. QED BY <1>1, <1>2, <1>3, NoRequestHolds, OneRequest

LEMMA CreateSettingsIInv ==
  ASSUME QuotaIInv, NEW s \in Admins, CreateSettings(s)
  PROVE  QuotaIInv'
<1>1. /\ tenant_request[s].pc = "absent" /\ settings_lock = {} /\ ReplyHolds(reply)
      /\ UNCHANGED <<settings_row, requests_made, people, metrics, day, latest, reply>>
  BY DEF CreateSettings, QuotaIInv
<1>2. tenant_request[s] # NoRequest
  BY <1>1, NoRequestHolds
<1>3. CASE settings_row = NoSettings
  <2>1. settings_lock' = {s} /\ Proceeds(s, "created", NoSettings)
    BY <1>3 DEF CreateSettings
  <2>2. PICK x : /\ tenant_request' = [tenant_request EXCEPT ![s] = x] /\ x.pc = "created" /\ x.seen = NoSettings
                 /\ RequestTypes(x) /\ FiguresHold(x, people, metrics)
    BY <2>1, ProceedsTo
  <2>3. PICK l : l = {s} /\ RowSeen(x, s, settings_row, l)
    BY <1>3, <2>2 DEF RowSeen
  <2>4. requests_made' \in Nat \ {0} /\ settings_lock' = l
    BY <1>1, <1>2, <2>1, <2>3, AskedFor
  <2>5. settings_lock \subseteq {s}
    BY <1>1
  <2>6. QED BY <1>1, <2>2, <2>3, <2>4, <2>5, OneRequest
<1>4. CASE settings_row # NoSettings
  <2>1. tenant_request' = [tenant_request EXCEPT ![s] = NoRequest] /\ settings_lock' = settings_lock \ {s}
    BY <1>1, <1>4 DEF CreateSettings
  <2>2. QED BY <1>1, <1>2, <2>1, RequestGone
<1>5. QED BY <1>3, <1>4

LEMMA RollbackRequestIInv ==
  ASSUME QuotaIInv, NEW s \in Admins, RollbackRequest(s)
  PROVE  QuotaIInv'
<1>1. reply' = reply /\ ReplyHolds(reply)
  BY DEF RollbackRequest, QuotaIInv
<1>2. QED BY <1>1, RequestGone DEF RollbackRequest

LEMMA UpdateSettingsIInv ==
  ASSUME QuotaIInv, NEW s \in Admins, UpdateSettings(s)
  PROVE  QuotaIInv'
<1>1. /\ tenant_request[s].pc \in {"found", "created"} /\ Proceeds(s, "counting", tenant_request[s].seen)
      /\ UNCHANGED <<settings_row, requests_made, people, metrics, day, latest, reply>>
  BY DEF UpdateSettings
<1>2. PICK l : /\ settings_lock' = l
               /\ l = settings_lock \/ (l = {s} /\ settings_lock \subseteq {s})
  BY DEF UpdateSettings
<1>3. PICK seen : seen = tenant_request[s].seen
  OBVIOUS
<1>4. seen \in Columns \cup {NoSettings} /\ RowSeen(tenant_request[s], s, settings_row, settings_lock)
  BY <1>3 DEF QuotaIInv, RequestTypes
<1>5. PICK x : /\ tenant_request' = [tenant_request EXCEPT ![s] = x] /\ x.pc = "counting" /\ x.seen = seen
               /\ RequestTypes(x) /\ FiguresHold(x, people, metrics)
  BY <1>1, <1>3, <1>4, ProceedsTo
<1>6. RowSeen(x, s, settings_row, l)
  BY <1>1, <1>2, <1>3, <1>4, <1>5 DEF RowSeen
<1>7. requests_made' \in Nat \ {0} /\ ReplyHolds(reply)
  BY <1>1, NoRequestHolds, AskedFor DEF QuotaIInv
<1>8. QED BY <1>1, <1>2, <1>5, <1>6, <1>7, OneRequest

(* Reports are of three kinds. *)
LEMMA KindsDiffer == "details" \notin QuotaOps /\ "usage" \notin QuotaOps
BY DEF QuotaOps

(* What each of them counts. *)
LEMMA CountedStatements ==
  /\ TenantStatements("details") = <<"users", "active", "today", "month">>
  /\ TenantStatements("usage") = <<"calls", "errors">>
  /\ \A op \in QuotaOps : TenantStatements(op) = <<"users", "today", "month">>
  /\ \A op : op \notin {"details", "usage"} \cup QuotaOps => Len(TenantStatements(op)) = 0
<1>1. TenantStatements("details") = <<"users", "active", "today", "month">>
  BY KindsDiffer DEF TenantStatements
<1>2. TenantStatements("usage") = <<"calls", "errors">>
  BY KindsDiffer DEF TenantStatements
<1>3. ASSUME NEW op \in QuotaOps PROVE TenantStatements(op) = <<"users", "today", "month">>
  <2>1. op # "details" /\ op # "usage"
    BY <1>3, KindsDiffer
  <2>2. QED BY <1>3, <2>1, Zenon DEF TenantStatements
<1>4. ASSUME NEW op, op \notin {"details", "usage"} \cup QuotaOps PROVE Len(TenantStatements(op)) = 0
  <2>1. op # "details" /\ op # "usage" /\ op \notin QuotaOps
    BY <1>4
  <2>2. TenantStatements(op) = << >>
    BY <2>1, Zenon DEF TenantStatements
  <2>3. Len(<< >>) = 0
    OBVIOUS
  <2>4. QED BY <2>2, <2>3, Zenon
<1>5. QED BY <1>1, <1>2, <1>3, <1>4

(* Which statement comes next. *)
NextIs(op, n, statement) ==
  \/ op = "details" /\ n = 0 /\ statement = "users"
  \/ op = "details" /\ n = 1 /\ statement = "active"
  \/ op = "details" /\ n = 2 /\ statement = "today"
  \/ op = "details" /\ n = 3 /\ statement = "month"
  \/ op = "usage" /\ n = 0 /\ statement = "calls"
  \/ op = "usage" /\ n = 1 /\ statement = "errors"
  \/ op \in QuotaOps /\ n = 0 /\ statement = "users"
  \/ op \in QuotaOps /\ n = 1 /\ statement = "today"
  \/ op \in QuotaOps /\ n = 2 /\ statement = "month"

LEMMA NextStatement ==
  ASSUME NEW op, NEW n \in Nat, n < Len(TenantStatements(op))
  PROVE  NextIs(op, n, TenantStatements(op)[n + 1])
<1>1. CASE op = "details"
  <2>1. PICK q : q = TenantStatements(op) /\ q = <<"users", "active", "today", "month">>
    BY <1>1, CountedStatements
  <2>2. n \in {0, 1, 2, 3} /\ q[1] = "users" /\ q[2] = "active" /\ q[3] = "today" /\ q[4] = "month"
    BY <2>1
  <2>3. NextIs(op, n, q[n + 1])
    BY <1>1, <2>2 DEF NextIs
  <2>4. QED BY <2>1, <2>3
<1>2. CASE op = "usage"
  <2>1. PICK q : q = TenantStatements(op) /\ q = <<"calls", "errors">>
    BY <1>2, CountedStatements
  <2>2. n \in {0, 1} /\ q[1] = "calls" /\ q[2] = "errors"
    BY <2>1
  <2>3. NextIs(op, n, q[n + 1])
    BY <1>2, <2>2 DEF NextIs
  <2>4. QED BY <2>1, <2>3
<1>3. CASE op \in QuotaOps
  <2>1. PICK q : q = TenantStatements(op) /\ q = <<"users", "today", "month">>
    BY <1>3, CountedStatements
  <2>2. n \in {0, 1, 2} /\ q[1] = "users" /\ q[2] = "today" /\ q[3] = "month"
    BY <2>1
  <2>3. NextIs(op, n, q[n + 1])
    BY <1>3, <2>2 DEF NextIs
  <2>4. QED BY <2>1, <2>3
<1>4. CASE op \notin {"details", "usage"} \cup QuotaOps
  BY <1>4, CountedStatements
<1>5. QED BY <1>1, <1>2, <1>3, <1>4

(* What a statement finds, of the people p and the calls m. *)
NumberIs(statement, number, today, p, m) ==
  /\ statement = "users" => number = p.all
  /\ statement = "active" => number = p.active
  /\ statement = "today" => number = Cardinality(Since(today, m))
  /\ statement = "month" => number = Cardinality(Since(FirstOfMonth[today], m))
  /\ statement = "calls" => number = Cardinality(Until(today, m))
  /\ statement = "errors" => number = Cardinality(FailedCalls(Until(today, m)))

(* The request q becomes x with one figure more. *)
OneMoreFigure(q, x, statement, number, today) ==
  /\ x.figures[statement] = number
  /\ \A f \in FigureNames \ {statement} : x.figures[f] = q.figures[f]
  /\ \A f \in FigureNames : q.figures[f] \in Nat
  /\ x.op = q.op /\ x.counted = q.counted + 1 /\ x.overtaken = q.overtaken /\ x.day = today
  /\ statement # "today" => today = q.day

(* A statement is counted in the request q, which becomes x. *)
LEMMA StatementCounted ==
  ASSUME NEW q, NEW x, NEW statement, NEW number, NEW today \in 1 .. LastDay, NEW p, NEW m,
         PeopleAdd(p), CallsAreDated(m), FiguresHold(q, p, m), q.counted \in Nat,
         NextIs(q.op, q.counted, statement), NumberIs(statement, number, today, p, m),
         OneMoreFigure(q, x, statement, number, today)
  PROVE  FiguresHold(x, p, m)
<1> USE DEF NumberIs, OneMoreFigure
<1>1. PICK day_, month, until, failed :
        /\ day_ = Cardinality(Since(today, m)) /\ month = Cardinality(Since(FirstOfMonth[today], m))
        /\ until = Cardinality(Until(today, m)) /\ failed = Cardinality(FailedCalls(Until(today, m)))
        /\ day_ \in Nat /\ month \in Nat /\ day_ <= month
        /\ until \in Nat /\ failed \in Nat /\ failed <= until
  BY CallsCompare
<1>2. CASE q.op = "details" /\ q.counted = 0 /\ statement = "users"
  <2>1. x.op = "details" /\ x.counted = 1 /\ x.figures["users"] = p.all
    BY <1>2
  <2>2. QED BY <2>1, KindsDiffer DEF FiguresHold
<1>3. CASE q.op = "details" /\ q.counted = 1 /\ statement = "active"
  <2>1. x.op = "details" /\ x.counted = 2 /\ x.overtaken = q.overtaken /\ q.counted \in 1 .. 4
    BY <1>3
  <2>2. x.figures["users"] = q.figures["users"] /\ x.figures["active"] = p.active
    BY <1>3 DEF FigureNames
  <2>3. q.overtaken = FALSE => q.figures["users"] = p.all
    BY <1>3, <2>1 DEF FiguresHold
  <2>4. p.active <= p.all
    BY DEF PeopleAdd
  <2>5. /\ x.overtaken = FALSE => x.figures["users"] = p.all
        /\ x.overtaken = FALSE => x.figures["active"] <= x.figures["users"]
    BY <2>1, <2>2, <2>3, <2>4
  <2>6. QED BY <2>1, <2>5, KindsDiffer DEF FiguresHold
<1>4. CASE q.op = "details" /\ q.counted = 2 /\ statement = "today"
  <2>1. x.op = "details" /\ x.counted = 3 /\ x.overtaken = q.overtaken /\ x.day = today /\ q.counted \in 2 .. 4
    BY <1>4
  <2>2. /\ x.figures["users"] = q.figures["users"] /\ x.figures["active"] = q.figures["active"]
        /\ x.figures["today"] = day_
    BY <1>1, <1>4 DEF FigureNames
  <2>3. /\ q.overtaken = FALSE => q.figures["users"] = p.all
        /\ q.overtaken = FALSE => q.figures["active"] <= q.figures["users"]
    BY <1>4, <2>1 DEF FiguresHold
  <2>4. /\ x.overtaken = FALSE => x.figures["users"] = p.all
        /\ x.overtaken = FALSE => x.figures["active"] <= x.figures["users"]
        /\ x.figures["today"] <= Cardinality(Since(FirstOfMonth[x.day], m))
    BY <1>1, <2>1, <2>2, <2>3
  <2>5. QED BY <2>1, <2>4, KindsDiffer DEF FiguresHold
<1>5. CASE q.op = "details" /\ q.counted = 3 /\ statement = "month"
  <2>1. x.op = "details" /\ x.counted = 4 /\ x.overtaken = q.overtaken /\ today = q.day /\ q.counted \in 2 .. 4
    BY <1>5
  <2>2. /\ x.figures["users"] = q.figures["users"] /\ x.figures["active"] = q.figures["active"]
        /\ x.figures["today"] = q.figures["today"] /\ x.figures["month"] = month
    BY <1>1, <1>5 DEF FigureNames
  <2>3. /\ q.overtaken = FALSE => q.figures["users"] = p.all
        /\ q.overtaken = FALSE => q.figures["active"] <= q.figures["users"]
        /\ q.figures["today"] <= Cardinality(Since(FirstOfMonth[q.day], m))
    BY <1>5, <2>1 DEF FiguresHold
  <2>4. /\ x.overtaken = FALSE => x.figures["users"] = p.all
        /\ x.overtaken = FALSE => x.figures["active"] <= x.figures["users"]
        /\ x.figures["today"] <= x.figures["month"]
    BY <1>1, <2>1, <2>2, <2>3
  <2>5. QED BY <2>1, <2>4, KindsDiffer DEF FiguresHold
<1>6. CASE q.op = "usage" /\ q.counted = 0 /\ statement = "calls"
  <2>1. x.op = "usage" /\ x.counted = 1 /\ x.figures["calls"] = Cardinality(Until(x.day, m))
    BY <1>6
  <2>2. QED BY <2>1, KindsDiffer DEF FiguresHold
<1>7. CASE q.op = "usage" /\ q.counted = 1 /\ statement = "errors"
  <2>1. x.op = "usage" /\ x.counted = 2 /\ x.overtaken = q.overtaken /\ today = q.day
    BY <1>7
  <2>2. x.figures["calls"] = q.figures["calls"] /\ x.figures["errors"] = failed
    BY <1>1, <1>7 DEF FigureNames
  <2>3. q.overtaken = FALSE => q.figures["calls"] = until
    BY <1>1, <1>7, <2>1 DEF FiguresHold
  <2>4. x.overtaken = FALSE => x.figures["errors"] <= x.figures["calls"]
    BY <1>1, <2>1, <2>2, <2>3
  <2>5. QED BY <2>1, <2>4, KindsDiffer DEF FiguresHold
<1>8. CASE q.op \in QuotaOps /\ q.counted = 0 /\ statement = "users"
  <2>1. x.op \in QuotaOps /\ x.counted = 1
    BY <1>8
  <2>2. QED BY <2>1, KindsDiffer DEF FiguresHold
<1>9. CASE q.op \in QuotaOps /\ q.counted = 1 /\ statement = "today"
  <2>1. x.op \in QuotaOps /\ x.counted = 2 /\ x.figures["today"] <= Cardinality(Since(FirstOfMonth[x.day], m))
    BY <1>1, <1>9
  <2>2. QED BY <2>1, KindsDiffer DEF FiguresHold
<1>10. CASE q.op \in QuotaOps /\ q.counted = 2 /\ statement = "month"
  <2>1. x.op \in QuotaOps /\ x.counted = 3 /\ today = q.day
    BY <1>10
  <2>2. x.figures["today"] = q.figures["today"] /\ x.figures["month"] = month
    BY <1>1, <1>10 DEF FigureNames
  <2>3. q.figures["today"] <= Cardinality(Since(FirstOfMonth[q.day], m))
    BY <1>10 DEF FiguresHold
  <2>4. x.figures["today"] <= x.figures["month"]
    BY <1>1, <2>1, <2>2, <2>3
  <2>5. QED BY <2>1, <2>4, KindsDiffer DEF FiguresHold
<1>11. QED BY <1>2, <1>3, <1>4, <1>5, <1>6, <1>7, <1>8, <1>9, <1>10 DEF NextIs

LEMMA CountNextIInv ==
  ASSUME QuotaIInv, NEW s \in Admins, CountNext(s)
  PROVE  QuotaIInv'
<1> DEFINE q == tenant_request[s]
           statement == TenantStatements(q.op)[q.counted + 1]
           today == IF statement = "today" THEN day ELSE q.day
           number == Number(statement, today)
           x == Requesting(q.op, q.pc, q.asked, q.values, q.seen, today, q.counted + 1,
                           [q.figures EXCEPT ![statement] = number], q.overtaken)
<1>1. /\ q.pc = "counting" /\ q.counted < Len(TenantStatements(q.op))
      /\ tenant_request' = [tenant_request EXCEPT ![s] = x]
      /\ UNCHANGED <<settings_row, settings_lock, requests_made, people, metrics, day, latest, reply>>
  BY DEF CountNext
<1>2. /\ RequestTypes(q) /\ RowSeen(q, s, settings_row, settings_lock) /\ FiguresHold(q, people, metrics)
      /\ PeopleAdd(people) /\ CallsAreDated(metrics) /\ day \in 1 .. LastDay
  BY DEF QuotaIInv
<1>4. q.counted \in Nat /\ q.figures \in [FigureNames -> Nat] /\ q.day \in 1 .. LastDay /\ today \in 1 .. LastDay
  BY <1>2 DEF RequestTypes
<1>5. NextIs(q.op, q.counted, statement)
  BY <1>1, <1>4, NextStatement
<1> HIDE DEF statement
<1>6. statement \in FigureNames /\ (statement # "today" => today = q.day) /\ (statement = "today" => today = day)
  BY <1>5 DEF NextIs, FigureNames
<1>7. /\ statement = "users" => number = people.all
      /\ statement = "active" => number = people.active
      /\ statement = "today" => number = Cardinality(Since(today, metrics))
      /\ statement = "month" => number = Cardinality(Since(FirstOfMonth[today], metrics))
      /\ statement = "calls" => number = Cardinality(Until(today, metrics))
      /\ statement = "errors" => number = Cardinality(FailedCalls(Until(today, metrics)))
  BY DEF Number
<1> HIDE DEF today, number
<1>3. /\ x.op = q.op /\ x.pc = q.pc /\ x.asked = q.asked /\ x.values = q.values /\ x.seen = q.seen
      /\ x.day = today /\ x.counted = q.counted + 1
      /\ x.figures = [q.figures EXCEPT ![statement] = number] /\ x.overtaken = q.overtaken
      /\ x = Requesting(x.op, x.pc, x.asked, x.values, x.seen, x.day, x.counted, x.figures, x.overtaken)
  BY DEF Requesting
<1> HIDE DEF x
<1>8. /\ Cardinality(Since(today, metrics)) \in Nat /\ Cardinality(Since(FirstOfMonth[today], metrics)) \in Nat
      /\ Cardinality(Since(today, metrics)) <= Cardinality(Since(FirstOfMonth[today], metrics))
      /\ Cardinality(Until(today, metrics)) \in Nat
      /\ Cardinality(FailedCalls(Until(today, metrics))) \in Nat
      /\ Cardinality(FailedCalls(Until(today, metrics))) <= Cardinality(Until(today, metrics))
  BY <1>2, <1>4, CallsCompare
<1>9. number \in Nat
  BY <1>2, <1>6, <1>7, <1>8 DEF FigureNames, PeopleAdd
<1>10. /\ x.figures \in [FigureNames -> Nat] /\ x.figures[statement] = number
       /\ \A f \in FigureNames \ {statement} : x.figures[f] = q.figures[f]
  BY <1>3, <1>4, <1>6, <1>9
<1>11. RequestTypes(x)
  <2>1. x.overtaken \in BOOLEAN /\ x.asked \subseteq Fields /\ x.values \in Columns /\ x.seen \in Columns \cup {NoSettings}
    BY <1>2, <1>3 DEF RequestTypes
  <2>2. x.counted \in Nat /\ x.day \in 1 .. LastDay
    BY <1>3, <1>4
  <2>3. QED BY <1>3, <1>10, <2>1, <2>2 DEF RequestTypes
<1>12. RowSeen(x, s, settings_row, settings_lock)
  BY <1>2, <1>3 DEF RowSeen
<1>13. FiguresHold(x, people, metrics)
  <2>1. NumberIs(statement, number, today, people, metrics)
    BY <1>7 DEF NumberIs
  <2>2. OneMoreFigure(q, x, statement, number, today)
    BY <1>3, <1>4, <1>6, <1>10 DEF OneMoreFigure
  <2>3. PICK r, y, p, m, st, n, at :
          r = q /\ y = x /\ p = people /\ m = metrics /\ st = statement /\ n = number /\ at = today
    OBVIOUS
  <2>4. /\ at \in 1 .. LastDay /\ PeopleAdd(p) /\ CallsAreDated(m) /\ FiguresHold(r, p, m) /\ r.counted \in Nat
        /\ NextIs(r.op, r.counted, st) /\ NumberIs(st, n, at, p, m) /\ OneMoreFigure(r, y, st, n, at)
    BY <1>2, <1>4, <1>5, <2>1, <2>2, <2>3
  <2>5. FiguresHold(y, p, m)
    BY <2>4, StatementCounted
  <2>6. QED BY <2>3, <2>5
<1>14. requests_made' \in Nat \ {0} /\ ReplyHolds(reply)
  BY <1>1, NoRequestHolds, AskedFor DEF QuotaIInv
<1>15. QED BY <1>1, <1>11, <1>12, <1>13, <1>14, OneRequest

(* What is left of a limit. *)
LEMMA LeftOfLimit ==
  ASSUME NEW limit \in Int, NEW used \in Nat
  PROVE  /\ LeftOf(limit, used) \in Int
         /\ LeftOf(limit, used) + used >= limit
         /\ LeftOf(limit, used) # 0 => LeftOf(limit, used) + used = limit
<1>1. CASE used < limit
  BY <1>1 DEF LeftOf
<1>2. CASE ~(used < limit)
  BY <1>2 DEF LeftOf
<1>3. QED BY <1>1, <1>2

(* What a session has in its hands is settings, with a budget. *)
LEMMA SettingsFit ==
  ASSUME NEW q, RequestTypes(q)
  PROVE  /\ Settings(q) \in Columns
         /\ EffectiveBudget(Settings(q)) \in Int \ {0}
<1>1. PICK old : old = (IF q.seen = NoSettings THEN Defaults ELSE q.seen) /\ old \in Columns
  <2>1. Defaults \in Columns
    BY DEF Defaults, Columns
  <2>2. QED BY <2>1 DEF RequestTypes
<1>2. q.values \in Columns
  BY DEF RequestTypes
<1>3. Settings(q) \in Columns
  BY <1>1, <1>2 DEF Settings, Overlay, Columns
<1>4. PICK settings : settings = Settings(q) /\ settings \in Columns
  BY <1>3
<1>5. settings["token_budget"] \in Int \cup {Null}
  BY <1>4 DEF Columns, Fields
<1>6. DefaultBudget \in Int \ {0}
  BY QuotaAssumption
<1>7. EffectiveBudget(settings) \in Int \ {0}
  BY <1>5, <1>6 DEF EffectiveBudget
<1>8. QED BY <1>3, <1>4, <1>7

(* Who has counted everything has its answer. *)
LEMMA AnswerHolds ==
  ASSUME NEW q, NEW p, NEW m, RequestTypes(q), FiguresHold(q, p, m), q.counted = Len(TenantStatements(q.op))
  PROVE  ReplyHolds(TenantAnswer(q))
<1>1. PICK settings, allowed, leftover, left, r :
        /\ settings = Settings(q) /\ allowed = EffectiveBudget(settings)
        /\ leftover = LeftOf(allowed, q.figures["today"])
        /\ left = IF settings["max_users"] = Null THEN Null ELSE LeftOf(settings["max_users"], q.figures["users"])
        /\ r = Replying(q.op, q.figures, settings, allowed, leftover, left, q.overtaken)
        /\ r = TenantAnswer(q)
  BY DEF TenantAnswer
<1>2. /\ r.op = q.op /\ r.figures = q.figures /\ r.settings = settings /\ r.budget = allowed
      /\ r.remaining = leftover /\ r.users_remaining = left /\ r.overtaken = q.overtaken
  BY <1>1 DEF Replying
<1>3. q.figures["today"] \in Nat /\ q.figures["users"] \in Nat
  BY DEF RequestTypes, FigureNames
<1>4. allowed \in Int \ {0} /\ settings \in Columns
  BY <1>1, SettingsFit
<1>5. /\ leftover \in Int /\ leftover + q.figures["today"] >= allowed
      /\ leftover # 0 => leftover + q.figures["today"] = allowed
  BY <1>1, <1>3, <1>4, LeftOfLimit
<1>6. settings["max_users"] # Null => left + q.figures["users"] >= settings["max_users"]
  <2>1. SUFFICES ASSUME settings["max_users"] # Null PROVE left + q.figures["users"] >= settings["max_users"]
    OBVIOUS
  <2>2. settings["max_users"] \in Int
    BY <1>4, <2>1 DEF Columns, Fields
  <2>3. PICK limit \in Int : limit = settings["max_users"]
    BY <2>2
  <2>4. left = LeftOf(limit, q.figures["users"])
    BY <1>1, <2>1, <2>3
  <2>5. QED BY <1>3, <2>3, <2>4, LeftOfLimit
<1>7. q.op = "details" => q.counted = 4
  BY CountedStatements
<1>8. q.op = "usage" => q.counted = 2
  BY CountedStatements
<1>9. q.op \in QuotaOps => q.counted = 3
  BY CountedStatements
<1>10. /\ q.op = "details" => q.figures["today"] <= q.figures["month"]
       /\ q.op = "details" => (q.overtaken = FALSE => q.figures["active"] <= q.figures["users"])
  BY <1>7 DEF FiguresHold
<1>11. q.op = "usage" => (q.overtaken = FALSE => q.figures["errors"] <= q.figures["calls"])
  BY <1>8 DEF FiguresHold
<1>12. q.op \in QuotaOps => q.figures["today"] <= q.figures["month"]
  BY <1>9 DEF FiguresHold
<1>13. r.overtaken \in BOOLEAN
  BY <1>2 DEF RequestTypes
<1>14. ReplyHolds(r)
  <2>1. r.op \in {"details"} \cup QuotaOps => r.figures["today"] <= r.figures["month"]
    BY <1>2, <1>10, <1>12
  <2>2. r.op = "details" /\ r.overtaken = FALSE => r.figures["active"] <= r.figures["users"]
    BY <1>2, <1>10
  <2>3. r.op = "usage" /\ r.overtaken = FALSE => r.figures["errors"] <= r.figures["calls"]
    BY <1>2, <1>11
  <2>4. /\ r.budget # 0
        /\ r.remaining + r.figures["today"] >= r.budget
        /\ r.remaining # 0 => r.remaining + r.figures["today"] = r.budget
    BY <1>2, <1>4, <1>5
  <2>5. r.settings["max_users"] # Null => r.users_remaining + r.figures["users"] >= r.settings["max_users"]
    BY <1>2, <1>6
  <2>6. QED BY <1>13, <2>1, <2>2, <2>3, <2>4, <2>5 DEF ReplyHolds
<1>15. QED BY <1>1, <1>14

(* Other commits come between: what was counted before stays no more than  *)
(* what is there now.                                                      *)
LEMMA OvertakenHolds ==
  ASSUME NEW q, NEW p, NEW m, NEW now, NEW w, RequestTypes(q), FiguresHold(q, p, m),
         m \subseteq w, CallsAreDated(w)
  PROVE  /\ RequestTypes(Overtaken(q)) /\ FiguresHold(Overtaken(q), now, w)
         /\ Overtaken(q).pc = q.pc /\ Overtaken(q).seen = q.seen
<1>1. CASE q = NoRequest
  BY <1>1, NoRequestHolds DEF Overtaken
<1>2. CASE q # NoRequest
  <2>1. PICK x : /\ x = Overtaken(q)
                 /\ x = Requesting(q.op, q.pc, q.asked, q.values, q.seen, q.day, q.counted, q.figures, TRUE)
    BY <1>2 DEF Overtaken
  <2>2. /\ x.op = q.op /\ x.pc = q.pc /\ x.asked = q.asked /\ x.values = q.values /\ x.seen = q.seen
        /\ x.day = q.day /\ x.counted = q.counted /\ x.figures = q.figures
        /\ x = Requesting(x.op, x.pc, x.asked, x.values, x.seen, x.day, x.counted, x.figures, x.overtaken)
    BY <2>1 DEF Requesting
  <2>3. x.overtaken = TRUE
    BY <2>1 DEF Requesting
  <2>4. RequestTypes(x)
    <3>1. x.overtaken \in BOOLEAN
      BY <2>3
    <3>2. /\ x.asked \subseteq Fields /\ x.values \in Columns /\ x.seen \in Columns \cup {NoSettings}
          /\ x.day \in 1 .. LastDay /\ x.counted \in Nat /\ x.figures \in [FigureNames -> Nat]
      BY <2>2 DEF RequestTypes
    <3>3. QED BY <2>2, <3>1, <3>2, Zenon DEF RequestTypes
  <2>5. FiguresHold(x, now, w)
    <3>1. PICK first, before, after :
            /\ first = FirstOfMonth[q.day] /\ first \in Nat
            /\ before = Cardinality(Since(FirstOfMonth[q.day], m))
            /\ after = Cardinality(Since(FirstOfMonth[q.day], w))
            /\ before \in Nat /\ after \in Nat /\ before <= after
      <4>1. FirstOfMonth[q.day] \in Nat
        BY QuotaAssumption DEF RequestTypes
      <4>2. QED BY <4>1, MoreCalls
    <3>2. q.figures["today"] \in Nat
      BY DEF RequestTypes, FigureNames
    <3>3. x.overtaken # FALSE
      BY <2>3
    <3>4. CASE q.op = "details"
      <4>1. q.counted = 3 => q.figures["today"] <= after
        BY <3>1, <3>2, <3>4 DEF FiguresHold
      <4>2. q.counted = 4 => q.figures["today"] <= q.figures["month"]
        BY <3>4 DEF FiguresHold
      <4>3. QED BY <2>2, <3>1, <3>3, <3>4, <4>1, <4>2, KindsDiffer DEF FiguresHold
    <3>5. CASE q.op \in QuotaOps
      <4>1. q.counted = 2 => q.figures["today"] <= after
        BY <3>1, <3>2, <3>5 DEF FiguresHold
      <4>2. q.counted = 3 => q.figures["today"] <= q.figures["month"]
        BY <3>5 DEF FiguresHold
      <4>3. QED BY <2>2, <3>1, <3>3, <3>5, <4>1, <4>2, KindsDiffer DEF FiguresHold
    <3>6. CASE q.op # "details" /\ q.op \notin QuotaOps
      BY <2>2, <3>3, <3>6 DEF FiguresHold
    <3>7. QED BY <3>4, <3>5, <3>6
  <2>6. QED BY <2>1, <2>2, <2>4, <2>5
<1>3. QED BY <1>1, <1>2

(* The row and its lock only look at where a request is and what it saw. *)
LEMMA RowSeenStays ==
  ASSUME NEW q, NEW x, NEW s, NEW shown, NEW lock, RowSeen(q, s, shown, lock), x.pc = q.pc, x.seen = q.seen
  PROVE  RowSeen(x, s, shown, lock)
BY DEF RowSeen

(* What others commit overtakes everyone. *)
LEMMA EveryoneOvertakenIInv ==
  ASSUME QuotaIInv, tenant_request' = [o \in Admins |-> Overtaken(tenant_request[o])],
         NEW p, NEW w, people' = p, metrics' = w, PeopleAdd(p), CallsAreDated(w), metrics \subseteq w,
         UNCHANGED <<settings_row, settings_lock, requests_made, day, latest, reply>>
  PROVE  QuotaIInv'
<1>1. ASSUME NEW o \in Admins
      PROVE  /\ RequestTypes(tenant_request'[o]) /\ RowSeen(tenant_request'[o], o, settings_row, settings_lock)
             /\ FiguresHold(tenant_request'[o], p, w)
  <2>1. PICK q, x : q = tenant_request[o] /\ x = Overtaken(q) /\ tenant_request'[o] = x
    OBVIOUS
  <2>2. RequestTypes(q) /\ RowSeen(q, o, settings_row, settings_lock) /\ FiguresHold(q, people, metrics)
    BY <2>1 DEF QuotaIInv
  <2>3. RequestTypes(x) /\ FiguresHold(x, p, w) /\ x.pc = q.pc /\ x.seen = q.seen
    BY <2>1, <2>2, OvertakenHolds
  <2>4. RowSeen(x, o, settings_row, settings_lock)
    BY <2>2, <2>3, RowSeenStays
  <2>5. QED BY <2>1, <2>3, <2>4
<1>2. requests_made = 0 => \A o \in Admins : tenant_request'[o] = NoRequest
  <2>1. Overtaken(NoRequest) = NoRequest
    BY DEF Overtaken
  <2>2. QED BY <2>1 DEF QuotaIInv
<1>3. tenant_request' = [o \in Admins |-> tenant_request'[o]]
  OBVIOUS
<1>4. QED BY <1>1, <1>2, <1>3 DEF QuotaIInv

LEMMA PeopleChangeIInv ==
  ASSUME QuotaIInv, PeopleChange
  PROVE  QuotaIInv'
<1>1. PeopleAdd(people) /\ CallsAreDated(metrics) /\ UNCHANGED metrics
  BY DEF QuotaIInv, PeopleChange
<1>2. PeopleAdd(people')
  <2>1. CASE people.all < 2 /\ people' = [all |-> people.all + 1, active |-> people.active]
    BY <1>1, <2>1 DEF PeopleAdd
  <2>2. CASE people.active < people.all /\ people' = [all |-> people.all, active |-> people.active + 1]
    BY <1>1, <2>2 DEF PeopleAdd
  <2>3. QED BY <2>1, <2>2 DEF PeopleChange
<1>3. PICK p, w : p = people' /\ w = metrics' /\ w = metrics
  BY <1>1
<1>4. PeopleAdd(p) /\ CallsAreDated(w) /\ metrics \subseteq w
  BY <1>1, <1>2, <1>3
<1>5. /\ tenant_request' = [o \in Admins |-> Overtaken(tenant_request[o])]
      /\ UNCHANGED <<settings_row, settings_lock, requests_made, day, latest, reply>>
  BY DEF PeopleChange
<1>6. QED BY <1>3, <1>4, <1>5, EveryoneOvertakenIInv

LEMMA CallRecordedIInv ==
  ASSUME QuotaIInv, CallRecorded
  PROVE  QuotaIInv'
<1>1. PeopleAdd(people) /\ CallsAreDated(metrics) /\ UNCHANGED people /\ day \in Nat
  BY DEF QuotaIInv, CallRecorded
<1>2. PICK c : c.day = day /\ metrics' = metrics \cup {c}
  <2>1. PICK failed : metrics' = metrics \cup {[id |-> Cardinality(metrics), day |-> day, failed |-> failed]}
    BY DEF CallRecorded
  <2>2. QED BY <2>1
<1>3. PICK p, w : p = people /\ w = metrics \cup {c}
  OBVIOUS
<1>4. CallsAreDated(w) /\ metrics \subseteq w
  <2>1. IsFiniteSet(w)
    BY <1>1, <1>3, FS_AddElement DEF CallsAreDated
  <2>2. QED BY <1>1, <1>2, <1>3, <2>1 DEF CallsAreDated
<1>5. /\ tenant_request' = [o \in Admins |-> Overtaken(tenant_request[o])]
      /\ UNCHANGED <<settings_row, settings_lock, requests_made, day, latest, reply>>
  BY DEF CallRecorded
<1>6. PeopleAdd(p) /\ people' = p /\ metrics' = w
  BY <1>1, <1>2, <1>3
<1>7. QED BY <1>4, <1>5, <1>6, EveryoneOvertakenIInv

LEMMA MidnightIInv ==
  ASSUME QuotaIInv, Midnight
  PROVE  QuotaIInv'
<1>1. day' \in 1 .. LastDay
  BY QuotaAssumption DEF QuotaIInv, Midnight
<1>2. UNCHANGED <<settings_row, tenant_request, settings_lock, requests_made, people, metrics, latest, reply>>
  BY DEF Midnight
<1>3. QED BY <1>1, <1>2 DEF QuotaIInv

(* Settings are told from no settings. *)
LEMMA SettingsExist == \A settings \in Columns : settings # NoSettings
BY QuotaAssumption DEF Columns

LEMMA EarlierRequestIInv ==
  ASSUME QuotaIInv, EarlierRequest
  PROVE  QuotaIInv'
<1>1. /\ settings_row = NoSettings /\ settings_row' = Defaults
      /\ \A s \in Admins : tenant_request[s] = NoRequest
      /\ UNCHANGED <<tenant_request, settings_lock, requests_made, people, metrics, day, latest, reply>>
  BY DEF QuotaIInv, EarlierRequest
<1>2. Defaults \in Columns /\ Defaults # NoSettings
  <2>1. Defaults \in Columns
    BY DEF Defaults, Columns
  <2>2. QED BY <2>1, SettingsExist
<1>3. latest = Defaults /\ RowIsLatest(Defaults, latest)
  BY <1>1, <1>2 DEF QuotaIInv, RowIsLatest
<1>4. ASSUME NEW s \in Admins PROVE RowSeen(tenant_request[s], s, Defaults, settings_lock)
  <2>1. RowSeen(tenant_request[s], s, settings_row, settings_lock) /\ tenant_request[s] = NoRequest
    BY <1>1 DEF QuotaIInv
  <2>2. QED BY <2>1, NoRequestHolds DEF RowSeen
<1>5. QED BY <1>1, <1>3, <1>4 DEF QuotaIInv

(* A commit of the fields that a request has set, over a row that nobody   *)
(* else can write meanwhile.                                               *)
LEMMA RowFollowsLatest ==
  ASSUME NEW q, NEW shown, NEW last, RequestTypes(q), RowIsLatest(shown, last),
         q.seen = NoSettings => shown = NoSettings, q.seen # NoSettings => shown # NoSettings
  PROVE  RowIsLatest(Overlay(Settings(q), Wrote(q), shown), Overlay(q.values, q.asked \cap Wrote(q), last))
<1>1. /\ q.values \in Columns /\ q.asked \subseteq Fields /\ last \in Columns /\ Defaults \in Columns
      /\ q.seen \in Columns \cup {NoSettings}
  BY DEF RequestTypes, RowIsLatest, Defaults, Columns
<1>2. CASE q.seen = NoSettings
  <2>1. shown = NoSettings /\ last = Defaults /\ Wrote(q) = Fields /\ Settings(q) = Overlay(q.values, q.asked, Defaults)
    BY <1>2 DEF RowIsLatest, Wrote, Settings
  <2>2. PICK kept, next : /\ kept = Overlay(Settings(q), Wrote(q), shown)
                         /\ next = Overlay(q.values, q.asked \cap Wrote(q), last)
    OBVIOUS
  <2>3. kept = [f \in Fields |-> Overlay(q.values, q.asked, Defaults)[f]]
    BY <2>1, <2>2 DEF Overlay
  <2>4. kept = Overlay(q.values, q.asked, Defaults) /\ q.asked \cap Fields = q.asked
    BY <1>1, <2>3 DEF Overlay
  <2>5. kept = next
    BY <2>1, <2>2, <2>4
  <2>6. kept \in Columns
    BY <1>1, <2>4 DEF Overlay, Columns
  <2>7. kept # NoSettings
    BY <2>6, SettingsExist
  <2>8. QED BY <2>2, <2>5, <2>6, <2>7 DEF RowIsLatest
<1>3. CASE q.seen # NoSettings
  <2>1. /\ shown = last /\ Wrote(q) = {f \in q.asked : q.values[f] # q.seen[f]}
        /\ Settings(q) = Overlay(q.values, q.asked, q.seen)
    BY <1>3 DEF RowIsLatest, Wrote, Settings
  <2>2. Wrote(q) \subseteq q.asked
    BY <2>1
  <2>3. \A f \in Wrote(q) : Settings(q)[f] = q.values[f]
    BY <1>1, <2>1, <2>2 DEF Overlay
  <2>4. q.asked \cap Wrote(q) = Wrote(q)
    BY <2>2
  <2>5. Overlay(Settings(q), Wrote(q), shown) = Overlay(q.values, q.asked \cap Wrote(q), last)
    BY <2>1, <2>3, <2>4 DEF Overlay
  <2>6. Overlay(q.values, q.asked \cap Wrote(q), last) \in Columns
    BY <1>1 DEF Overlay, Columns
  <2>7. PICK kept : kept = Overlay(Settings(q), Wrote(q), shown) /\ kept = Overlay(q.values, q.asked \cap Wrote(q), last)
                   /\ kept \in Columns
    BY <2>5, <2>6
  <2>8. kept # NoSettings
    BY <2>7, SettingsExist
  <2>9. QED BY <2>7, <2>8 DEF RowIsLatest
<1>4. QED BY <1>2, <1>3

LEMMA CommitRequestIInv ==
  ASSUME QuotaIInv, NEW s \in Admins, CommitRequest(s)
  PROVE  QuotaIInv'
<1>1. PICK q : q = tenant_request[s]
  OBVIOUS
<1>2. /\ q.pc = "counting" /\ q.counted = Len(TenantStatements(q.op))
      /\ settings_lock' = settings_lock \ {s} /\ reply' = TenantAnswer(q)
      /\ UNCHANGED <<requests_made, people, metrics, day>>
  BY <1>1 DEF CommitRequest
<1>3. RequestTypes(q) /\ RowSeen(q, s, settings_row, settings_lock) /\ FiguresHold(q, people, metrics)
  BY <1>1 DEF QuotaIInv
<1>4. PICK r : r = TenantAnswer(q) /\ ReplyHolds(r)
  BY <1>2, <1>3, AnswerHolds
<1>5. tenant_request[s] # NoRequest
  BY <1>1, <1>2, NoRequestHolds
<1>6. CASE s \notin settings_lock
  <2>1. tenant_request' = [tenant_request EXCEPT ![s] = NoRequest] /\ UNCHANGED <<settings_row, latest>>
    BY <1>6 DEF CommitRequest
  <2>2. QED BY <1>2, <1>4, <1>5, <2>1, RequestGone
<1>7. CASE s \in settings_lock
  <2>1. /\ settings_row' = Overlay(Settings(q), Wrote(q), settings_row)
        /\ latest' = Overlay(q.values, q.asked \cap Wrote(q), latest)
        /\ tenant_request' = [o \in Admins |-> IF o = s THEN NoRequest ELSE Overtaken(tenant_request[o])]
    BY <1>1, <1>7 DEF CommitRequest
  <2>2. settings_lock = {s}
    BY <1>7 DEF QuotaIInv
  <2>3. PICK kept, last : /\ kept = Overlay(Settings(q), Wrote(q), settings_row)
                         /\ last = Overlay(q.values, q.asked \cap Wrote(q), latest)
                         /\ RowIsLatest(kept, last)
    <3>1. RowIsLatest(settings_row, latest)
      BY DEF QuotaIInv
    <3>2. /\ q.seen = NoSettings => settings_row = NoSettings
          /\ q.seen # NoSettings => settings_row # NoSettings
      BY <1>3, <1>7 DEF RowSeen
    <3>3. QED BY <1>3, <3>1, <3>2, RowFollowsLatest
  <2>4. kept # NoSettings
    <3>1. Settings(q) \in Columns
      BY <1>3, SettingsFit
    <3>2. kept \in Columns
      <4>1. CASE settings_row \in Columns
        BY <2>3, <3>1, <4>1 DEF Overlay, Columns
      <4>2. CASE settings_row = NoSettings
        <5>1. Wrote(q) = Fields
          BY <1>3, <4>2 DEF RowSeen, Wrote
        <5>2. QED BY <2>3, <3>1, <5>1 DEF Overlay, Columns
      <4>3. QED BY <4>1, <4>2 DEF QuotaIInv, RowIsLatest
    <3>3. QED BY <3>2, SettingsExist
  <2>5. ASSUME NEW o \in Admins
        PROVE  /\ RequestTypes(tenant_request'[o]) /\ RowSeen(tenant_request'[o], o, kept, {})
               /\ FiguresHold(tenant_request'[o], people, metrics)
    <3>1. CASE o = s
      <4>1. tenant_request'[o] = NoRequest
        BY <2>1, <3>1
      <4>2. RowSeen(NoRequest, o, kept, {})
        BY NoRequestHolds DEF RowSeen
      <4>3. QED BY <4>1, <4>2, NoRequestHolds
    <3>2. CASE o # s
      <4>1. PICK y, x : y = tenant_request[o] /\ x = Overtaken(y) /\ tenant_request'[o] = x
        BY <2>1, <3>2
      <4>2. /\ RequestTypes(y) /\ RowSeen(y, o, settings_row, settings_lock) /\ FiguresHold(y, people, metrics)
            /\ CallsAreDated(metrics)
        BY <4>1 DEF QuotaIInv
      <4>3. RequestTypes(x) /\ FiguresHold(x, people, metrics) /\ x.pc = y.pc /\ x.seen = y.seen
        BY <4>1, <4>2, OvertakenHolds
      <4>4. o \notin settings_lock
        BY <2>2, <3>2
      <4>5. RowSeen(y, o, kept, {})
        BY <2>4, <4>2, <4>4 DEF RowSeen
      <4>6. RowSeen(x, o, kept, {})
        BY <4>3, <4>5, RowSeenStays
      <4>7. QED BY <4>1, <4>3, <4>6
    <3>3. QED BY <3>1, <3>2
  <2>6. requests_made \in Nat \ {0}
    BY <1>5, AskedFor
  <2>7. settings_lock' = {}
    BY <1>2, <2>2
  <2>8. /\ settings_row' = kept /\ latest' = last /\ reply' = r /\ requests_made' = requests_made
        /\ people' = people /\ metrics' = metrics /\ day' = day
    BY <1>2, <1>4, <2>1, <2>3
  <2>9. tenant_request' = [o \in Admins |-> tenant_request'[o]]
    BY <2>1
  <2>10. PeopleAdd(people) /\ CallsAreDated(metrics) /\ day \in 1 .. LastDay
    BY DEF QuotaIInv
  <2>11. QED BY <1>4, <2>3, <2>5, <2>6, <2>7, <2>8, <2>9, <2>10 DEF QuotaIInv
<1>8. QED BY <1>6, <1>7

LEMMA QuotasInitIInv == QuotasInit => QuotaIInv
<1> SUFFICES ASSUME QuotasInit PROVE QuotaIInv
  OBVIOUS
<1>1. ASSUME NEW s \in Admins
      PROVE  /\ RequestTypes(tenant_request[s]) /\ RowSeen(tenant_request[s], s, settings_row, settings_lock)
             /\ FiguresHold(tenant_request[s], people, metrics)
  <2>1. tenant_request[s] = NoRequest /\ settings_lock = {}
    BY DEF QuotasInit
  <2>2. RowSeen(NoRequest, s, settings_row, {})
    BY NoRequestHolds DEF RowSeen
  <2>3. QED BY <2>1, <2>2, NoRequestHolds
<1>2. RowIsLatest(settings_row, latest)
  BY DEF QuotasInit, RowIsLatest, Defaults, Columns
<1>3. PeopleAdd(people) /\ CallsAreDated(metrics)
  BY FS_EmptySet DEF QuotasInit, PeopleAdd, CallsAreDated
<1>4. ReplyHolds(reply)
  <2>1. ReplyHolds(NoReply)
    BY DEF ReplyHolds, NoReply, Replying, QuotaOps
  <2>2. QED BY <2>1 DEF QuotasInit
<1>5. day \in 1 .. LastDay /\ requests_made \in Nat /\ settings_lock = {}
  BY QuotaAssumption DEF QuotasInit
<1>6. tenant_request = [s \in Admins |-> tenant_request[s]] /\ \A s \in Admins : tenant_request[s] = NoRequest
  BY DEF QuotasInit
<1>7. QED BY <1>1, <1>2, <1>3, <1>4, <1>5, <1>6 DEF QuotaIInv

LEMMA QuotasNextIInv == QuotaIInv /\ [QuotasNext]_quotaVars => QuotaIInv'
<1> SUFFICES ASSUME QuotaIInv, [QuotasNext]_quotaVars PROVE QuotaIInv'
  OBVIOUS
<1>1. CASE UNCHANGED quotaVars
  BY <1>1 DEF quotaVars, QuotaIInv
<1>2. ASSUME NEW s \in Admins,
             \/ GetTenant(s) \/ GetTenantUsage(s) \/ GetTenantSettings(s) \/ GetTenantQuota(s)
             \/ UpdateTenantSettings(s) \/ UpdateTenantQuota(s)
      PROVE  QuotaIInv'
  BY <1>2, RequestsAskIInv
<1>3. ASSUME NEW s \in Admins,
             GetSettings(s) \/ CreateSettings(s) \/ UpdateSettings(s) \/ CountNext(s)
             \/ CommitRequest(s) \/ RollbackRequest(s)
      PROVE  QuotaIInv'
  BY <1>3, GetSettingsIInv, CreateSettingsIInv, UpdateSettingsIInv, CountNextIInv, CommitRequestIInv, RollbackRequestIInv
<1>4. CASE EarlierRequest \/ PeopleChange \/ CallRecorded \/ Midnight
  BY <1>4, EarlierRequestIInv, PeopleChangeIInv, CallRecordedIInv, MidnightIInv
<1>5. QED BY <1>1, <1>2, <1>3, <1>4 DEF QuotasNext

LEMMA QuotasInvariance == QuotasSpec => []QuotaIInv
BY QuotasInitIInv, QuotasNextIInv, PTL DEF QuotasSpec

LEMMA QuotasStaySound == QuotaIInv => QuotasAreSound
<1> SUFFICES ASSUME QuotaIInv PROVE QuotasAreSound
  OBVIOUS
<1>1. SettingsAreLatest
  BY DEF QuotaIInv, RowIsLatest, SettingsAreLatest
<1>2. PICK r : r = reply /\ ReplyHolds(r)
  BY DEF QuotaIInv
<1>3. r.overtaken \in BOOLEAN
  BY <1>2 DEF ReplyHolds
<1>4. ReportsAreConsistent
  <2>1. r.op \in {"details"} \cup QuotaOps => r.figures["today"] <= r.figures["month"]
    BY <1>2 DEF ReplyHolds
  <2>2. r.op = "details" /\ ~r.overtaken => r.figures["active"] <= r.figures["users"]
    BY <1>2, <1>3 DEF ReplyHolds
  <2>3. r.op = "usage" /\ ~r.overtaken => r.figures["errors"] <= r.figures["calls"]
    BY <1>2, <1>3 DEF ReplyHolds
  <2>4. QED BY <1>2, <2>1, <2>2, <2>3 DEF ReportsAreConsistent
<1>5. QuotasAddUp
  BY <1>2 DEF ReplyHolds, QuotasAddUp
<1>6. QED BY <1>1, <1>4, <1>5 DEF QuotasAreSound

-----------------------------------------------------------------------------
(* The deliveries of a webhook: the inductive invariant.                   *)

(* A row after an attempt, of a delivery with so many posts, of which so   *)
(* many were accepted.                                                     *)
Attempted(trail, posted, taken) ==
  /\ trail = [attempts |-> trail.attempts, status |-> trail.status]
  /\ trail.status \in {"pending", "failed", "delivered"}
  /\ trail.attempts \in 1 .. MaxAttempts
  /\ trail.status = "failed" => trail.attempts = MaxAttempts
  /\ trail.status = "pending" => trail.attempts < MaxAttempts
  /\ trail.status = "delivered" => taken > 0
  /\ trail.attempts <= posted

(* A row before its next attempt. *)
Due(trail, posted) ==
  /\ trail.status = "pending" /\ trail.attempts \in 0 .. MaxAttempts - 1
  /\ trail.attempts <= posted

(* What the row says is all there was. *)
Exact(trail, posted, taken) ==
  trail.attempts = posted /\ (taken > 0 <=> trail.status = "delivered")

(* What a session has in hand. *)
SessionDelivers(x, posted, taken) ==
  /\ x = Sending(x.todo, x.rows, x.posting, x.flushed)
  /\ x.todo \cup x.flushed = DOMAIN x.rows /\ x.todo \cap x.flushed = {}
  /\ x.rows = [d \in DOMAIN x.rows |-> x.rows[d]] /\ DOMAIN x.rows \subseteq Deliveries
  /\ x.posting \in x.todo \cup {NoDelivery}
  /\ \A d \in DOMAIN x.rows :
       IF d \in x.todo /\ d # x.posting THEN Due(x.rows[d], posted[d])
       ELSE Attempted(x.rows[d], posted[d], taken[d])

WebhookTypes ==
  /\ posts \in [Deliveries -> Nat] /\ accepted \in [Deliveries -> Nat]
  /\ disturbed_delivery \in BOOLEAN
  /\ deliverer = [s \in Deliverers |-> deliverer[s]]
  /\ delivery = [d \in DOMAIN delivery |-> delivery[d]] /\ DOMAIN delivery \subseteq Deliveries
  /\ \A d \in Deliveries : accepted[d] <= posts[d]

(* One session at a time, and nothing that its rows do not say. *)
InTurn ==
  /\ \A s, o \in Deliverers : Busy(s) /\ Busy(o) => s = o
  /\ \A d \in Deliveries : accepted[d] <= 1
  /\ \A s \in Deliverers : \A d \in DOMAIN deliverer[s].rows :
       Exact(deliverer[s].rows[d], posts[d], accepted[d])
  /\ \A d \in DOMAIN delivery :
       (\A s \in Deliverers : d \notin DOMAIN deliverer[s].rows) =>
         Exact(delivery[d], posts[d], accepted[d])

WebhookIInv ==
  /\ WebhookTypes
  /\ \A s \in Deliverers : SessionDelivers(deliverer[s], posts, accepted)
  /\ \A d \in DOMAIN delivery : Attempted(delivery[d], posts[d], accepted[d])
  /\ ~disturbed_delivery => InTurn

-----------------------------------------------------------------------------
(* The deliveries of a webhook: the steps.                                 *)

(* A session that rests has no rows. *)
LEMMA RestingHasNoRows ==
  /\ DOMAIN AtRest.rows = {} /\ AtRest.todo = {} /\ AtRest.flushed = {} /\ AtRest.posting = NoDelivery
  /\ \A posted, taken : SessionDelivers(AtRest, posted, taken)
BY DEF AtRest, Sending, NoRows, SessionDelivers

(* Posts and acceptances are only added. *)
LEMMA RowsStayTrue ==
  ASSUME NEW x, NEW posted \in [Deliveries -> Nat], NEW taken \in [Deliveries -> Nat],
         NEW posted2 \in [Deliveries -> Nat], NEW taken2 \in [Deliveries -> Nat],
         \A d \in Deliveries : posted[d] <= posted2[d] /\ taken[d] <= taken2[d],
         SessionDelivers(x, posted, taken)
  PROVE  SessionDelivers(x, posted2, taken2)
BY WebhookAssumption DEF WebhookAssumption, SessionDelivers, Attempted, Due

(* An attempt that is counted. *)
LEMMA CountedIsAttempted ==
  ASSUME NEW trail, NEW ok \in BOOLEAN, NEW posted \in Nat, NEW taken \in Nat, Due(trail, posted), ok => taken > 0
  PROVE  Attempted(Counted(trail, ok), posted + 1, taken)
<1>1. CASE ok
  BY <1>1, WebhookAssumption DEF WebhookAssumption, Due, Counted, Attempted
<1>2. CASE ~ok
  BY <1>2, WebhookAssumption DEF WebhookAssumption, Due, Counted, Attempted
<1>3. QED BY <1>1, <1>2

(* A session begins: with a new row, or with those that are to be retried. *)
LEMMA SendingIInv ==
  ASSUME WebhookIInv, NEW s \in Deliverers, NEW chosen, StartSending(s, chosen),
         chosen = [d \in DOMAIN chosen |-> chosen[d]], DOMAIN chosen \subseteq Deliveries,
         \A d \in DOMAIN chosen : Due(chosen[d], posts[d]),
         ~disturbed_delivery /\ (\A o \in Deliverers : ~Busy(o)) =>
           \A d \in DOMAIN chosen : Exact(chosen[d], posts[d], accepted[d])
  PROVE  WebhookIInv'
<1> DEFINE x == Sending(DOMAIN chosen, chosen, NoDelivery, {})
<1>1. /\ ~Busy(s) /\ deliverer' = [deliverer EXCEPT ![s] = x]
      /\ disturbed_delivery' = (disturbed_delivery \/ \E o \in Deliverers : Busy(o))
      /\ UNCHANGED <<enabled, delivery, posts, accepted>>
  BY DEF StartSending
<1>2. SessionDelivers(x, posts, accepted) /\ x.rows = chosen
  BY WebhookAssumption DEF WebhookAssumption, SessionDelivers, Sending
<1> HIDE DEF x
<1>3. deliverer'[s] = x /\ \A o \in Deliverers \ {s} : deliverer'[o] = deliverer[o]
  BY <1>1 DEF WebhookIInv, WebhookTypes
<1>4. WebhookTypes'
  BY <1>1 DEF WebhookIInv, WebhookTypes
<1>5. \A o \in Deliverers : SessionDelivers(deliverer'[o], posts', accepted')
  BY <1>1, <1>2, <1>3 DEF WebhookIInv
<1>6. \A d \in DOMAIN delivery' : Attempted(delivery'[d], posts'[d], accepted'[d])
  BY <1>1 DEF WebhookIInv
<1>7. ASSUME ~disturbed_delivery' PROVE InTurn'
  <2>1. ~disturbed_delivery /\ InTurn /\ \A o \in Deliverers : ~Busy(o)
    BY <1>1, <1>7 DEF WebhookIInv
  <2>2. \A o \in Deliverers \ {s} : ~Busy(o)'
    BY <1>3, <2>1 DEF Busy
  <2>3. \A o \in Deliverers : DOMAIN deliverer[o].rows = {}
    BY <2>1, RestingHasNoRows DEF Busy
  <2>4. \A d \in DOMAIN chosen : Exact(chosen[d], posts[d], accepted[d])
    BY <2>1
  <2>5. \A o \in Deliverers : \A d \in DOMAIN deliverer'[o].rows : Exact(deliverer'[o].rows[d], posts[d], accepted[d])
    BY <1>2, <1>3, <2>3, <2>4
  <2>6. \A d \in DOMAIN delivery : Exact(delivery[d], posts[d], accepted[d])
    BY <2>1, <2>3 DEF InTurn
  <2>7. QED BY <1>1, <2>1, <2>2, <2>5, <2>6 DEF InTurn
<1>8. QED BY <1>4, <1>5, <1>6, <1>7 DEF WebhookIInv

(* A new event, whose delivery nobody has heard of. *)
LEMMA DeliverIInv ==
  ASSUME WebhookIInv, NEW s \in Deliverers, Deliver(s)
  PROVE  WebhookIInv'
<1>1. PICK d \in Deliveries :
        posts[d] = 0 /\ StartSending(s, [n \in {d} |-> [status |-> "pending", attempts |-> 0]])
  BY DEF Deliver
<1> DEFINE chosen == [n \in {d} |-> [status |-> "pending", attempts |-> 0]]
<1>2. DOMAIN chosen = {d} /\ chosen[d].status = "pending" /\ chosen[d].attempts = 0
  OBVIOUS
<1>3. posts[d] = 0 /\ accepted[d] \in Nat /\ accepted[d] <= posts[d]
  BY <1>1 DEF WebhookIInv, WebhookTypes
<1>4. Due(chosen[d], posts[d]) /\ Exact(chosen[d], posts[d], accepted[d])
  BY <1>2, <1>3, WebhookAssumption DEF WebhookAssumption, Due, Exact
<1>5. StartSending(s, chosen) /\ chosen = [n \in DOMAIN chosen |-> chosen[n]]
  BY <1>1
<1> HIDE DEF chosen
<1>6. QED BY <1>2, <1>4, <1>5, SendingIInv

(* What was not delivered is sent again. *)
LEMMA RetryIInv ==
  ASSUME WebhookIInv, NEW s \in Deliverers, RetryFailed(s)
  PROVE  WebhookIInv'
<1> DEFINE due == {d \in DOMAIN delivery : Retryable(delivery[d])}
           chosen == [d \in due |-> delivery[d]]
<1>1. StartSending(s, chosen)
  BY DEF RetryFailed
<1>2. \A d \in due : d \in Deliveries /\ Due(delivery[d], posts[d]) /\ delivery[d].status # "delivered"
  <2> SUFFICES ASSUME NEW d \in DOMAIN delivery, Retryable(delivery[d])
               PROVE  d \in Deliveries /\ Due(delivery[d], posts[d]) /\ delivery[d].status # "delivered"
    OBVIOUS
  <2>1. Attempted(delivery[d], posts[d], accepted[d]) /\ d \in Deliveries /\ posts[d] \in Nat
    BY DEF WebhookIInv, WebhookTypes
  <2>2. delivery[d].status \in {"pending", "failed"} /\ delivery[d].attempts < MaxAttempts
    BY DEF Retryable
  <2>3. QED BY <2>1, <2>2, WebhookAssumption DEF WebhookAssumption, Attempted, Due
<1>3. DOMAIN chosen = due /\ \A d \in due : chosen[d] = delivery[d] /\ d \in DOMAIN delivery
  OBVIOUS
<1>4. chosen = [d \in DOMAIN chosen |-> chosen[d]]
  OBVIOUS
<1>5. ASSUME ~disturbed_delivery, \A o \in Deliverers : ~Busy(o)
      PROVE  \A d \in DOMAIN delivery : Exact(delivery[d], posts[d], accepted[d])
  <2>1. \A o \in Deliverers : DOMAIN deliverer[o].rows = {}
    BY <1>5, RestingHasNoRows DEF Busy
  <2>2. QED BY <1>5, <2>1 DEF WebhookIInv, InTurn
<1> HIDE DEF chosen, due
<1>6. QED BY <1>1, <1>2, <1>3, <1>4, <1>5, SendingIInv

(* The endpoint takes a post or not, and the session hears of it or not. *)
LEMMA PostIInv ==
  ASSUME WebhookIInv, NEW s \in Deliverers, PostDelivery(s)
  PROVE  WebhookIInv'
<1>0. deliverer[s].posting = NoDelivery /\ UNCHANGED <<enabled, delivery>>
  BY DEF PostDelivery
<1>1. PICK d \in deliverer[s].todo, taken \in BOOLEAN, seen \in BOOLEAN :
        /\ seen => taken
        /\ deliverer' = [deliverer EXCEPT ![s] = Posting(deliverer[s], d, seen)]
        /\ posts' = [posts EXCEPT ![d] = posts[d] + 1]
        /\ accepted' = [accepted EXCEPT ![d] = IF taken THEN accepted[d] + 1 ELSE accepted[d]]
        /\ disturbed_delivery' = (disturbed_delivery \/ (taken /\ ~seen))
  BY Zenon DEF PostDelivery
<1>2. PICK x, y : x = deliverer[s] /\ y = Posting(x, d, seen)
  OBVIOUS
<1>3. /\ SessionDelivers(x, posts, accepted) /\ d \in DOMAIN x.rows /\ d \in Deliveries
      /\ DOMAIN x.rows \subseteq Deliveries /\ d \in x.todo /\ x.posting = NoDelivery
      /\ Due(x.rows[d], posts[d])
  BY <1>0, <1>1, <1>2, WebhookAssumption DEF WebhookAssumption, WebhookIInv, SessionDelivers
<1>4. deliverer' = [deliverer EXCEPT ![s] = y]
  BY <1>1, <1>2, Zenon
<1>5. deliverer'[s] = y /\ \A o \in Deliverers \ {s} : deliverer'[o] = deliverer[o]
  BY <1>4 DEF WebhookIInv, WebhookTypes
<1>6. /\ posts' \in [Deliveries -> Nat] /\ accepted' \in [Deliveries -> Nat]
      /\ posts'[d] = posts[d] + 1 /\ (accepted'[d] = IF taken THEN accepted[d] + 1 ELSE accepted[d])
      /\ \A e \in Deliveries \ {d} : posts'[e] = posts[e] /\ accepted'[e] = accepted[e]
      /\ \A e \in Deliveries : posts[e] \in Nat /\ accepted[e] \in Nat /\ accepted[e] <= posts[e]
  BY <1>1, <1>3 DEF WebhookIInv, WebhookTypes
<1>7. \A e \in Deliveries : posts[e] <= posts'[e] /\ accepted[e] <= accepted'[e] /\ accepted'[e] <= posts'[e]
  BY <1>6
<1>8. WebhookTypes'
  BY <1>0, <1>1, <1>4, <1>6, <1>7 DEF WebhookIInv, WebhookTypes
<1>9. /\ DOMAIN y.rows = DOMAIN x.rows /\ y.rows[d] = Counted(x.rows[d], seen)
      /\ \A e \in DOMAIN x.rows \ {d} : y.rows[e] = x.rows[e]
      /\ y.rows = [e \in DOMAIN y.rows |-> y.rows[e]]
      /\ y.todo = x.todo /\ y.flushed = x.flushed /\ y.posting = d
      /\ y = Sending(y.todo, y.rows, y.posting, y.flushed)
  BY <1>2, <1>3 DEF Posting, Sending, SessionDelivers
<1>10. SessionDelivers(y, posts', accepted')
  <2>1. SessionDelivers(x, posts', accepted')
    BY <1>3, <1>6, <1>7, RowsStayTrue DEF WebhookIInv, WebhookTypes
  <2>2. Attempted(y.rows[d], posts'[d], accepted'[d])
    <3>1. seen => accepted'[d] > 0
      BY <1>1, <1>3, <1>6
    <3>2. QED BY <1>3, <1>6, <1>9, <3>1, CountedIsAttempted
  <2>3. \A e \in DOMAIN y.rows \ {d} :
          IF e \in y.todo /\ e # y.posting THEN Due(y.rows[e], posts'[e]) ELSE Attempted(y.rows[e], posts'[e], accepted'[e])
    BY <1>3, <1>9, <2>1, WebhookAssumption DEF WebhookAssumption, SessionDelivers
  <2>4. QED BY <1>3, <1>9, <2>2, <2>3 DEF SessionDelivers
<1>11. \A o \in Deliverers : SessionDelivers(deliverer'[o], posts', accepted')
  <2>1. \A o \in Deliverers \ {s} : SessionDelivers(deliverer[o], posts', accepted')
    BY <1>6, <1>7, RowsStayTrue DEF WebhookIInv, WebhookTypes
  <2>2. QED BY <1>5, <1>10, <2>1
<1>12. \A e \in DOMAIN delivery' : Attempted(delivery'[e], posts'[e], accepted'[e])
  <2>1. \A e \in DOMAIN delivery : e \in Deliveries
    BY DEF WebhookIInv, WebhookTypes
  <2>2. QED BY <1>0, <1>6, <1>7, <2>1 DEF WebhookIInv, Attempted
<1>13. ASSUME ~disturbed_delivery' PROVE InTurn'
  <2>1. ~disturbed_delivery /\ InTurn /\ (taken <=> seen)
    BY <1>1, <1>13 DEF WebhookIInv
  <2>2. x # AtRest /\ \A o \in Deliverers \ {s} : deliverer[o] = AtRest
    BY <1>2, <1>3, <2>1, RestingHasNoRows DEF InTurn, Busy
  <2>3. \A o \in Deliverers \ {s} : ~Busy(o)' /\ DOMAIN deliverer'[o].rows = {}
    BY <1>5, <2>2, RestingHasNoRows DEF Busy
  <2>4. Exact(x.rows[d], posts[d], accepted[d]) /\ accepted[d] = 0
    BY <1>2, <1>3, <1>6, <2>1 DEF InTurn, Exact, Due
  <2>5. Exact(y.rows[d], posts'[d], accepted'[d])
    <3>1. y.rows[d].attempts = posts'[d] /\ (seen <=> y.rows[d].status = "delivered")
      <4>1. x.rows[d].attempts = posts[d]
        BY <2>4 DEF Exact
      <4>2. Counted(x.rows[d], seen).attempts = x.rows[d].attempts + 1
        BY DEF Counted
      <4>3. seen <=> Counted(x.rows[d], seen).status = "delivered"
        BY DEF Counted
      <4>4. QED BY <1>6, <1>9, <4>1, <4>2, <4>3
    <3>2. accepted'[d] > 0 <=> taken
      BY <1>6, <2>4
    <3>3. accepted'[d] > 0 <=> y.rows[d].status = "delivered"
      BY <2>1, <3>1, <3>2, Zenon
    <3>4. QED BY <3>1, <3>3 DEF Exact
  <2>6. \A e \in DOMAIN y.rows : Exact(y.rows[e], posts'[e], accepted'[e])
    BY <1>2, <1>3, <1>6, <1>9, <2>1, <2>5 DEF InTurn
  <2>7. \A e \in Deliveries : accepted'[e] <= 1
    BY <1>6, <2>1, <2>4 DEF InTurn
  <2>8. \A e \in DOMAIN delivery : (\A o \in Deliverers : e \notin DOMAIN deliverer'[o].rows) =>
          Exact(delivery[e], posts'[e], accepted'[e])
    <3> SUFFICES ASSUME NEW e \in DOMAIN delivery, \A o \in Deliverers : e \notin DOMAIN deliverer'[o].rows
                 PROVE  Exact(delivery[e], posts'[e], accepted'[e])
      OBVIOUS
    <3>1. e # d /\ e \in Deliveries /\ \A o \in Deliverers : e \notin DOMAIN deliverer[o].rows
      BY <1>2, <1>3, <1>5, <1>9, <2>2, RestingHasNoRows DEF WebhookIInv, WebhookTypes
    <3>2. QED BY <1>6, <2>1, <3>1 DEF InTurn
  <2>9. QED BY <1>0, <1>5, <2>3, <2>6, <2>7, <2>8 DEF InTurn
<1>14. QED BY <1>8, <1>11, <1>12, <1>13 DEF WebhookIInv

(* A session that ends, whatever the committed rows are then. *)
LEMMA EndIInv ==
  ASSUME WebhookIInv, NEW s \in Deliverers, Busy(s), deliverer' = [deliverer EXCEPT ![s] = AtRest],
         UNCHANGED <<posts, accepted>>, disturbed_delivery' \in BOOLEAN,
         delivery' = [d \in DOMAIN delivery' |-> delivery'[d]], DOMAIN delivery' \subseteq Deliveries,
         \A d \in DOMAIN delivery' : Attempted(delivery'[d], posts[d], accepted[d]),
         ~disturbed_delivery' =>
           ~disturbed_delivery /\ \A d \in DOMAIN delivery' :
             \/ delivery'[d].attempts = posts[d] /\ (accepted[d] > 0 <=> delivery'[d].status = "delivered")
             \/ \E o \in Deliverers \ {s} : d \in DOMAIN deliverer[o].rows
  PROVE  WebhookIInv'
<1>1. deliverer'[s] = AtRest /\ \A o \in Deliverers \ {s} : deliverer'[o] = deliverer[o]
  BY DEF WebhookIInv, WebhookTypes
<1>2. WebhookTypes'
  BY DEF WebhookIInv, WebhookTypes
<1>3. \A o \in Deliverers : SessionDelivers(deliverer'[o], posts', accepted')
  BY <1>1, RestingHasNoRows DEF WebhookIInv
<1>4. \A d \in DOMAIN delivery' : Attempted(delivery'[d], posts'[d], accepted'[d])
  OBVIOUS
<1>5. ASSUME ~disturbed_delivery' PROVE InTurn'
  <2>1. InTurn
    BY <1>5 DEF WebhookIInv
  <2>2. \A o \in Deliverers : Busy(o)' => Busy(o) /\ o # s
    BY <1>1 DEF Busy
  <2>3. \A o \in Deliverers : DOMAIN deliverer'[o].rows = {}
    BY <1>1, <2>1, <2>2, RestingHasNoRows DEF InTurn, Busy
  <2>4. \A d \in DOMAIN delivery' : Exact(delivery'[d], posts'[d], accepted'[d])
    BY <1>1, <1>5, <2>3 DEF Exact
  <2>5. QED BY <2>1, <2>2, <2>3, <2>4 DEF InTurn
<1>6. QED BY <1>2, <1>3, <1>4, <1>5 DEF WebhookIInv

(* A webhook is deleted with its rows. *)
LEMMA DeleteIInv ==
  ASSUME WebhookIInv, DeleteWebhook
  PROVE  WebhookIInv'
<1>1. UNCHANGED <<deliverer, posts, accepted, disturbed_delivery>> /\ delivery' = NoRows
  BY DEF DeleteWebhook
<1>2. DOMAIN NoRows = {} /\ NoRows = [d \in DOMAIN NoRows |-> NoRows[d]]
  BY DEF NoRows
<1>3. WebhookTypes'
  BY <1>1, <1>2 DEF WebhookIInv, WebhookTypes
<1>4. ~disturbed_delivery' => InTurn'
  BY <1>1, <1>2 DEF WebhookIInv, InTurn, Busy
<1>5. QED BY <1>1, <1>2, <1>3, <1>4 DEF WebhookIInv

(* A session flushes the row it has posted. *)
LEMMA FlushIInv ==
  ASSUME WebhookIInv, NEW s \in Deliverers, FlushDelivery(s)
  PROVE  WebhookIInv'
<1>1. PICK x, d, y : /\ x = deliverer[s] /\ d = x.posting
                     /\ y = Sending(x.todo \ {d}, x.rows, NoDelivery, x.flushed \cup {d})
  OBVIOUS
<1>2. /\ d # NoDelivery /\ deliverer' = [deliverer EXCEPT ![s] = y]
      /\ UNCHANGED <<enabled, delivery, posts, accepted, disturbed_delivery>>
  BY <1>1, Zenon DEF FlushDelivery
<1>3. SessionDelivers(x, posts, accepted) /\ d \in x.todo
  BY <1>1, <1>2 DEF WebhookIInv, SessionDelivers
<1>4. deliverer'[s] = y /\ \A o \in Deliverers \ {s} : deliverer'[o] = deliverer[o]
  BY <1>2 DEF WebhookIInv, WebhookTypes
<1>5. /\ y.todo = x.todo \ {d} /\ y.rows = x.rows /\ y.posting = NoDelivery /\ y.flushed = x.flushed \cup {d}
      /\ y = Sending(y.todo, y.rows, y.posting, y.flushed)
  BY <1>1 DEF Sending
<1>6. SessionDelivers(y, posts, accepted)
  <2>1. \A e \in DOMAIN y.rows :
          IF e \in y.todo /\ e # y.posting THEN Due(y.rows[e], posts[e]) ELSE Attempted(y.rows[e], posts[e], accepted[e])
    <3>1. \A e \in DOMAIN x.rows \ {d} :
            IF e \in x.todo THEN Due(x.rows[e], posts[e]) ELSE Attempted(x.rows[e], posts[e], accepted[e])
      BY <1>1, <1>3 DEF SessionDelivers
    <3>2. Attempted(x.rows[d], posts[d], accepted[d])
      BY <1>1, <1>3 DEF SessionDelivers
    <3>3. \A e \in DOMAIN y.rows : e # y.posting
      BY <1>3, <1>5, WebhookAssumption DEF WebhookAssumption, SessionDelivers
    <3>4. QED BY <1>5, <3>1, <3>2, <3>3
  <2>2. QED BY <1>3, <1>5, <2>1 DEF SessionDelivers
<1>7. WebhookTypes'
  BY <1>2 DEF WebhookIInv, WebhookTypes
<1>8. \A o \in Deliverers : SessionDelivers(deliverer'[o], posts', accepted')
  BY <1>2, <1>4, <1>6 DEF WebhookIInv
<1>9. \A e \in DOMAIN delivery' : Attempted(delivery'[e], posts'[e], accepted'[e])
  BY <1>2 DEF WebhookIInv
<1>10. ASSUME ~disturbed_delivery' PROVE InTurn'
  <2>1. InTurn
    BY <1>2, <1>10 DEF WebhookIInv
  <2>2. Busy(s)
    BY <1>1, <1>2, RestingHasNoRows DEF Busy
  <2>3. \A o \in Deliverers : Busy(o)' => o = s
    BY <1>4, <2>1, <2>2 DEF InTurn, Busy
  <2>4. \A o \in Deliverers : deliverer'[o].rows = deliverer[o].rows
    BY <1>1, <1>4, <1>5
  <2>5. QED BY <1>2, <2>1, <2>3, <2>4 DEF InTurn
<1>11. QED BY <1>7, <1>8, <1>9, <1>10 DEF WebhookIInv

(* A session commits what it has flushed. *)
LEMMA CommitIInv ==
  ASSUME WebhookIInv, NEW s \in Deliverers, CommitDeliveries(s)
  PROVE  WebhookIInv'
<1>1. PICK x : x = deliverer[s]
  OBVIOUS
<1>2. /\ Busy(s) /\ x.todo = {} /\ deliverer' = [deliverer EXCEPT ![s] = AtRest]
      /\ UNCHANGED <<posts, accepted, disturbed_delivery>>
      /\ delivery' = [i \in x.flushed \cup DOMAIN delivery |-> IF i \in x.flushed THEN x.rows[i] ELSE delivery[i]]
  BY <1>1 DEF CommitDeliveries
<1>3. SessionDelivers(x, posts, accepted) /\ x.flushed = DOMAIN x.rows
  BY <1>1, <1>2 DEF WebhookIInv, SessionDelivers
<1>4. /\ DOMAIN delivery' = x.flushed \cup DOMAIN delivery
      /\ \A d \in DOMAIN delivery' : delivery'[d] = IF d \in x.flushed THEN x.rows[d] ELSE delivery[d]
  BY <1>2
<1>5. DOMAIN delivery' \subseteq Deliveries /\ delivery' = [d \in DOMAIN delivery' |-> delivery'[d]]
  BY <1>2, <1>3, <1>4 DEF WebhookIInv, WebhookTypes, SessionDelivers
<1>6. \A d \in DOMAIN delivery' : Attempted(delivery'[d], posts[d], accepted[d])
  <2>1. \A d \in x.flushed : Attempted(x.rows[d], posts[d], accepted[d])
    BY <1>2, <1>3 DEF SessionDelivers
  <2>2. QED BY <1>4, <2>1 DEF WebhookIInv
<1>7. ASSUME ~disturbed_delivery
      PROVE  \A d \in DOMAIN delivery' :
               \/ delivery'[d].attempts = posts[d] /\ (accepted[d] > 0 <=> delivery'[d].status = "delivered")
               \/ \E o \in Deliverers \ {s} : d \in DOMAIN deliverer[o].rows
  <2> SUFFICES ASSUME NEW d \in DOMAIN delivery', \A o \in Deliverers \ {s} : d \notin DOMAIN deliverer[o].rows
               PROVE  Exact(delivery'[d], posts[d], accepted[d])
    BY DEF Exact
  <2>1. InTurn
    BY <1>7 DEF WebhookIInv
  <2>2. CASE d \in x.flushed
    BY <1>1, <1>3, <1>4, <2>1, <2>2 DEF InTurn
  <2>3. CASE d \notin x.flushed
    BY <1>1, <1>3, <1>4, <2>1, <2>3 DEF InTurn
  <2>4. QED BY <2>2, <2>3
<1>8. disturbed_delivery' \in BOOLEAN
  BY <1>2 DEF WebhookIInv, WebhookTypes
<1>9. QED BY <1>2, <1>5, <1>6, <1>7, <1>8, EndIInv

(* A session is rolled back. *)
LEMMA AbortIInv ==
  ASSUME WebhookIInv, NEW s \in Deliverers, AbortDeliveries(s)
  PROVE  WebhookIInv'
<1>1. /\ Busy(s) /\ deliverer' = [deliverer EXCEPT ![s] = AtRest] /\ disturbed_delivery'
      /\ UNCHANGED <<enabled, delivery, posts, accepted>> /\ disturbed_delivery' \in BOOLEAN
  BY DEF AbortDeliveries
<1>2. /\ delivery' = [d \in DOMAIN delivery' |-> delivery'[d]] /\ DOMAIN delivery' \subseteq Deliveries
      /\ \A d \in DOMAIN delivery' : Attempted(delivery'[d], posts[d], accepted[d])
  BY <1>1 DEF WebhookIInv, WebhookTypes
<1>3. QED BY <1>1, <1>2, EndIInv

LEMMA WebhookInitIInv == WebhookInit => WebhookIInv
<1> SUFFICES ASSUME WebhookInit PROVE WebhookIInv
  OBVIOUS
<1>1. /\ delivery = NoRows /\ DOMAIN NoRows = {} /\ ~disturbed_delivery
      /\ \A s \in Deliverers : deliverer[s] = AtRest
      /\ \A d \in Deliveries : posts[d] = 0 /\ accepted[d] = 0
  BY DEF WebhookInit, NoRows
<1>2. WebhookTypes
  <2>1. delivery = [d \in DOMAIN delivery |-> delivery[d]] /\ DOMAIN delivery \subseteq Deliveries
    BY <1>1 DEF NoRows
  <2>2. deliverer = [s \in Deliverers |-> deliverer[s]]
    BY DEF WebhookInit
  <2>3. posts \in [Deliveries -> Nat] /\ accepted \in [Deliveries -> Nat] /\ disturbed_delivery \in BOOLEAN
    BY DEF WebhookInit
  <2>4. QED BY <1>1, <2>1, <2>2, <2>3 DEF WebhookTypes
<1>3. \A s \in Deliverers : SessionDelivers(deliverer[s], posts, accepted)
  BY <1>1, RestingHasNoRows
<1>4. InTurn
  BY <1>1, RestingHasNoRows DEF InTurn, Busy
<1>5. QED BY <1>1, <1>2, <1>3, <1>4 DEF WebhookIInv

LEMMA WebhookNextIInv == WebhookIInv /\ [WebhookNext]_webhookVars => WebhookIInv'
<1> SUFFICES ASSUME WebhookIInv, [WebhookNext]_webhookVars PROVE WebhookIInv'
  OBVIOUS
<1>1. CASE UNCHANGED webhookVars
  BY <1>1 DEF webhookVars, WebhookIInv, WebhookTypes, InTurn, Busy
<1>2. CASE WebhookNext
  BY <1>2, DeliverIInv, RetryIInv, PostIInv, FlushIInv, CommitIInv, AbortIInv, DeleteIInv DEF WebhookNext
<1>3. QED BY <1>1, <1>2

LEMMA WebhookInvariance == WebhookSpec => []WebhookIInv
BY WebhookInitIInv, WebhookNextIInv, PTL DEF WebhookSpec

(* What the invariant says of the rows that are committed. *)
LEMMA DeliveriesStaySound == WebhookIInv => DeliveriesAreSound
<1> SUFFICES ASSUME WebhookIInv PROVE DeliveriesAreSound
  OBVIOUS
<1>1. AttemptsAreCounted
  BY DEF WebhookIInv, Attempted, AttemptsAreCounted
<1>2. TakenOnce
  BY DEF WebhookIInv, WebhookTypes, InTurn, Exact, TakenOnce
<1>3. QED BY <1>1, <1>2 DEF DeliveriesAreSound

-----------------------------------------------------------------------------
(* What is pushed to people: the sockets.                                  *)

SocketTypes ==
  /\ sockets = [ws \in DOMAIN sockets |-> sockets[ws]]
  /\ \A ws \in DOMAIN sockets :
       sockets[ws] = [meta |-> sockets[ws].meta, open |-> sockets[ws].open] /\ sockets[ws].open \in BOOLEAN
  /\ indexes = [key \in DOMAIN indexes |-> indexes[key]]
  /\ sending = [key |-> sending.key, targets |-> sending.targets, got |-> sending.got]
  /\ sending.targets \cup sending.got \subseteq DOMAIN sockets

SocketIInv == SocketTypes /\ SocketsAreIndexed

(* A socket is registered, and found under its keys from now on. *)
LEMMA ConnectIInv ==
  ASSUME SocketIInv, NEW ws \in Sockets, ConnectSocket(ws)
  PROVE  SocketIInv'
<1>1. PICK meta : /\ sockets' = [s \in DOMAIN sockets \cup {ws} |->
                                   IF s = ws THEN [meta |-> meta, open |-> TRUE] ELSE sockets[s]]
                  /\ indexes' = [key \in DOMAIN indexes \cup KeysOf(meta) |->
                                   At(key) \cup (IF key \in KeysOf(meta) THEN {ws} ELSE {})]
                  /\ ws \notin DOMAIN sockets /\ sending' = sending
  BY DEF ConnectSocket
<1>2. /\ DOMAIN sockets' = DOMAIN sockets \cup {ws}
      /\ sockets'[ws] = [meta |-> meta, open |-> TRUE]
      /\ \A s \in DOMAIN sockets : sockets'[s] = sockets[s]
  BY <1>1
<1>3. Open' = Open \cup {ws} /\ Open \subseteq DOMAIN sockets
  BY <1>2 DEF Open
<1>4. \A key : At(key) = {s \in Open : key \in KeysOf(sockets[s].meta)}
  BY DEF SocketIInv, SocketsAreIndexed, At
<1>5. /\ DOMAIN indexes' = DOMAIN indexes \cup KeysOf(meta)
      /\ \A key \in DOMAIN indexes' : indexes'[key] = At(key) \cup (IF key \in KeysOf(meta) THEN {ws} ELSE {})
  BY <1>1
<1>6. \A key \in DOMAIN indexes' : indexes'[key] = {s \in Open' : key \in KeysOf(sockets'[s].meta)}
  BY <1>1, <1>2, <1>3, <1>4, <1>5
<1>7. \A key \in DOMAIN indexes' : indexes'[key] # {}
  <2>1. \A key \in DOMAIN indexes : At(key) # {}
    BY DEF SocketIInv, SocketsAreIndexed, At
  <2>2. QED BY <1>5, <2>1
<1>8. \A s \in Open' : KeysOf(sockets'[s].meta) \subseteq DOMAIN indexes'
  BY <1>2, <1>3, <1>5 DEF SocketIInv, SocketsAreIndexed
<1>9. \A s \in sending'.targets \cup sending'.got : sending'.key \in KeysOf(sockets'[s].meta)
  BY <1>1, <1>2 DEF SocketIInv, SocketTypes, SocketsAreIndexed
<1>10. SocketTypes'
  BY <1>1, <1>2 DEF SocketIInv, SocketTypes
<1>11. QED BY <1>6, <1>7, <1>8, <1>9, <1>10 DEF SocketIInv, SocketsAreIndexed

(* A socket is taken out of the indexes, with the keys it was alone under. *)
LEMMA DisconnectIInv ==
  ASSUME SocketIInv, NEW ws \in Sockets, DisconnectSocket(ws)
  PROVE  SocketIInv'
<1>1. /\ ws \in DOMAIN sockets /\ sending' = sending
      /\ sockets' = [sockets EXCEPT ![ws] = [meta |-> sockets[ws].meta, open |-> FALSE]]
      /\ indexes' = [key \in {k \in DOMAIN indexes : indexes[k] # {ws}} |-> indexes[key] \ {ws}]
  BY DEF DisconnectSocket, Open
<1>2. /\ DOMAIN sockets' = DOMAIN sockets
      /\ sockets'[ws] = [meta |-> sockets[ws].meta, open |-> FALSE]
      /\ \A s \in DOMAIN sockets \ {ws} : sockets'[s] = sockets[s]
      /\ sockets' = [s \in DOMAIN sockets |-> sockets'[s]]
  BY <1>1 DEF SocketIInv, SocketTypes
<1>3. Open' = Open \ {ws} /\ Open \subseteq DOMAIN sockets
  BY <1>1, <1>2 DEF Open
<1>4. \A s \in DOMAIN sockets : sockets'[s].meta = sockets[s].meta
  BY <1>1, <1>2
<1>5. /\ \A key \in DOMAIN indexes' : key \in DOMAIN indexes /\ indexes[key] # {ws} /\ indexes'[key] = indexes[key] \ {ws}
      /\ \A key \in DOMAIN indexes : indexes[key] # {ws} => key \in DOMAIN indexes'
  BY <1>1
<1>6. /\ \A key \in DOMAIN indexes :
           indexes[key] # {} /\ indexes[key] = {s \in Open : key \in KeysOf(sockets[s].meta)}
      /\ \A s \in Open : KeysOf(sockets[s].meta) \subseteq DOMAIN indexes
  BY DEF SocketIInv, SocketsAreIndexed
<1>7. \A key \in DOMAIN indexes' :
        indexes'[key] # {} /\ indexes'[key] = {s \in Open' : key \in KeysOf(sockets'[s].meta)}
  BY <1>3, <1>4, <1>5, <1>6
<1>8. \A s \in Open' : KeysOf(sockets'[s].meta) \subseteq DOMAIN indexes'
  <2> SUFFICES ASSUME NEW s \in Open', NEW key \in KeysOf(sockets'[s].meta)
               PROVE  key \in DOMAIN indexes'
    OBVIOUS
  <2>1. s \in Open /\ s # ws /\ key \in KeysOf(sockets[s].meta)
    BY <1>3, <1>4
  <2>2. key \in DOMAIN indexes /\ s \in indexes[key]
    BY <1>6, <2>1
  <2>3. QED BY <1>5, <2>1, <2>2
<1>9. \A s \in sending'.targets \cup sending'.got : sending'.key \in KeysOf(sockets'[s].meta)
  BY <1>1, <1>4 DEF SocketIInv, SocketTypes, SocketsAreIndexed
<1>10. SocketTypes'
  BY <1>1, <1>2 DEF SocketIInv, SocketTypes
<1>11. QED BY <1>7, <1>8, <1>9, <1>10 DEF SocketIInv, SocketsAreIndexed

(* A message is sent, and got or not, under one key. *)
LEMMA SendIInv ==
  ASSUME SocketIInv, SendAll \/ \E ws \in Sockets : SafeSendJson(ws)
  PROVE  SocketIInv'
<1>1. UNCHANGED <<sockets, indexes>>
  BY DEF SendAll, SafeSendJson
<1>2. /\ sending' = [key |-> sending'.key, targets |-> sending'.targets, got |-> sending'.got]
      /\ \A s \in sending'.targets \cup sending'.got :
           s \in DOMAIN sockets /\ sending'.key \in KeysOf(sockets[s].meta)
  <2>1. CASE SendAll
    <3>1. PICK key \in DOMAIN indexes : sending' = [key |-> key, targets |-> indexes[key], got |-> {}]
      BY <2>1 DEF SendAll
    <3>2. QED BY <3>1 DEF SocketIInv, SocketsAreIndexed, Open
  <2>2. ASSUME NEW ws \in Sockets, SafeSendJson(ws)
        PROVE  /\ sending'.key = sending.key
               /\ sending' = [key |-> sending'.key, targets |-> sending'.targets, got |-> sending'.got]
               /\ sending'.targets \cup sending'.got \subseteq sending.targets \cup sending.got
    <3>1. PICK sent \in SUBSET ({ws} \cap Open) :
            sending' = [sending EXCEPT !.targets = sending.targets \ {ws}, !.got = sending.got \cup sent]
      BY <2>2 DEF SafeSendJson
    <3>2. ws \in sending.targets
      BY <2>2 DEF SafeSendJson
    <3>3. sending' = [key |-> sending.key, targets |-> sending.targets \ {ws}, got |-> sending.got \cup sent]
      BY <3>1 DEF SocketIInv, SocketTypes
    <3>4. QED BY <3>2, <3>3
  <2>3. QED BY <2>1, <2>2 DEF SocketIInv, SocketTypes, SocketsAreIndexed
<1>3. SocketTypes'
  BY <1>1, <1>2 DEF SocketIInv, SocketTypes
<1>4. SocketsAreIndexed'
  BY <1>1, <1>2 DEF SocketIInv, SocketsAreIndexed, Open
<1>5. QED BY <1>3, <1>4 DEF SocketIInv

-----------------------------------------------------------------------------
(* What is pushed to people: the stream of an agent.                       *)

StreamEvents == {"token", "citation"} \cup LastEvents

StreamTypes ==
  /\ stream = [queue |-> stream.queue, over |-> stream.over] /\ stream.over \in BOOLEAN
  /\ emitter = [waiting |-> emitter.waiting, ended |-> emitter.ended]
  /\ reader = [got |-> reader.got, at |-> reader.at]
  /\ reader.at \in {"reading", "ended", "cancelled"}
  /\ emitted \in Seq(StreamEvents) /\ reader.got \in Seq(StreamEvents) /\ stream.queue \in Seq(StreamEvents)
  /\ emitter.waiting \in Seq(StreamEvents) /\ Len(emitter.waiting) <= 1

(* Every event is read, queued or waiting; the last one is the end, and is *)
(* followed by nothing.                                                    *)
StreamIInv ==
  /\ StreamTypes
  /\ emitted = (reader.got \o stream.queue) \o emitter.waiting
  /\ \A i \in 1 .. Len(emitted) :
       emitted[i] \in LastEvents => i = Len(emitted) /\ (stream.over \/ emitter.waiting # << >>)
  /\ stream.over /\ emitter.waiting # << >> => reader.at = "cancelled"
  /\ reader.at = "ended" => stream.over /\ stream.queue = << >>
  /\ reader.at = "cancelled" => stream.over

(* StreamEvents are moved from the end of a sequence to the next. *)
LEMMA Moving ==
  ASSUME NEW S, NEW got \in Seq(S), NEW queue \in Seq(S)
  PROVE  /\ \A e \in S : /\ (got \o queue) \o << >> = got \o queue
                         /\ Append(got \o queue, e) = got \o Append(queue, e)
                         /\ Append(got \o queue, e) = (got \o queue) \o <<e>>
         /\ queue # << >> => Append(got, Head(queue)) \o Tail(queue) = got \o queue
<1>1. got \o queue \in Seq(S)
  BY ConcatProperties
<1>2. ASSUME NEW e \in S
      PROVE  /\ (got \o queue) \o << >> = got \o queue
             /\ Append(got \o queue, e) = got \o Append(queue, e)
             /\ Append(got \o queue, e) = (got \o queue) \o <<e>>
  <2>1. <<e>> \in Seq(S)
    OBVIOUS
  <2>2. Append(got \o queue, e) = (got \o queue) \o <<e>> /\ Append(queue, e) = queue \o <<e>>
    BY <1>1, AppendIsConcat
  <2>3. QED BY <1>1, <2>1, <2>2, ConcatAssociative, ConcatEmptySeq
<1>3. ASSUME queue # << >>
      PROVE  Append(got, Head(queue)) \o Tail(queue) = got \o queue
  <2>1. Head(queue) \in S /\ Tail(queue) \in Seq(S) /\ <<Head(queue)>> \in Seq(S)
    BY <1>3, HeadTailProperties
  <2>2. queue = <<Head(queue)>> \o Tail(queue)
    <3> DEFINE whole == <<Head(queue)>> \o Tail(queue)
    <3>1. whole \in Seq(S) /\ Len(whole) = Len(queue) /\ \A i \in 1 .. Len(queue) : queue[i] = whole[i]
      BY <1>3, <2>1, ConcatProperties, HeadTailProperties, LenProperties
    <3> HIDE DEF whole
    <3>2. QED BY <3>1, SeqEqual DEF whole
  <2>3. Append(got, Head(queue)) = got \o <<Head(queue)>>
    BY <2>1, AppendIsConcat
  <2>4. QED BY <2>1, <2>2, <2>3, ConcatAssociative
<1>4. QED BY <1>2, <1>3

(* The last event that is emitted ends the stream, if it is one that does. *)
LEMMA EmitIInv ==
  ASSUME StreamIInv, Emit
  PROVE  StreamIInv'
<1>1. PICK event \in StreamEvents :
        /\ ~stream.over /\ emitter.waiting = << >> /\ reader' = reader
        /\ emitted' = Append(emitted, event)
        /\ IF Len(stream.queue) < BufferSize
             THEN /\ stream' = [queue |-> Append(stream.queue, event), over |-> event \in LastEvents]
                  /\ emitter' = [emitter EXCEPT !.ended = event \in LastEvents]
             ELSE emitter' = [emitter EXCEPT !.waiting = <<event>>] /\ UNCHANGED stream
  BY DEF Emit, StreamEvents
<1>2. StreamTypes /\ reader.at = "reading"
  BY <1>1 DEF StreamIInv, StreamTypes
<1>3. emitted = reader.got \o stream.queue
  BY <1>1, <1>2, Moving DEF StreamIInv, StreamTypes
<1>4. /\ emitted \in Seq(StreamEvents) /\ emitted' \in Seq(StreamEvents) /\ Len(emitted') = Len(emitted) + 1
      /\ emitted'[Len(emitted) + 1] = event /\ \A i \in 1 .. Len(emitted) : emitted'[i] = emitted[i]
  BY <1>1, <1>2, AppendProperties DEF StreamTypes
<1>5. \A i \in 1 .. Len(emitted) : emitted[i] \notin LastEvents
  BY <1>1 DEF StreamIInv
<1>6. ASSUME StreamTypes', event \in LastEvents => stream'.over \/ emitter'.waiting # << >>,
             emitted' = (reader'.got \o stream'.queue) \o emitter'.waiting,
             ~(stream'.over /\ emitter'.waiting # << >>)
      PROVE  StreamIInv'
  <2>1. \A i \in 1 .. Len(emitted') :
          emitted'[i] \in LastEvents => i = Len(emitted') /\ (stream'.over \/ emitter'.waiting # << >>)
    <3>1. Len(emitted) \in Nat
      BY <1>4, LenProperties
    <3>2. \A i \in 1 .. Len(emitted') : emitted'[i] \in LastEvents => i = Len(emitted') /\ event \in LastEvents
      BY <1>4, <1>5, <3>1
    <3>3. QED BY <1>6, <3>2
  <2>2. QED BY <1>1, <1>2, <1>6, <2>1 DEF StreamIInv
<1>7. CASE Len(stream.queue) < BufferSize
  <2>1. /\ stream' = [queue |-> Append(stream.queue, event), over |-> event \in LastEvents]
        /\ emitter' = [waiting |-> << >>, ended |-> event \in LastEvents]
    BY <1>1, <1>2, <1>7 DEF StreamTypes
  <2>2. Append(stream.queue, event) \in Seq(StreamEvents)
    BY <1>2, AppendProperties DEF StreamTypes
  <2>3. stream'.queue = Append(stream.queue, event) /\ emitter'.waiting = << >> /\ (stream'.over <=> event \in LastEvents)
    BY <2>1
  <2>4. StreamTypes'
    <3>1. << >> \in Seq(StreamEvents) /\ Len(<< >>) <= 1
      OBVIOUS
    <3>2. QED BY <1>1, <1>2, <1>4, <2>1, <2>2, <3>1 DEF StreamTypes
  <2>5. emitted' = (reader'.got \o stream'.queue) \o emitter'.waiting
    <3>1. emitted' = reader.got \o Append(stream.queue, event)
      <4>1. PICK g \in Seq(StreamEvents), q \in Seq(StreamEvents) : g = reader.got /\ q = stream.queue
        BY <1>2 DEF StreamTypes
      <4>2. Append(g \o q, event) = g \o Append(q, event)
        BY Moving
      <4>3. QED BY <1>1, <1>3, <4>1, <4>2
    <3>2. PICK q \in Seq(StreamEvents) : q = Append(stream.queue, event)
      BY <2>2
    <3>3. (reader.got \o q) \o << >> = reader.got \o q
      BY <1>1, <1>2, Moving DEF StreamTypes
    <3>4. QED BY <1>1, <2>3, <3>1, <3>2, <3>3
  <2>6. QED BY <1>6, <2>3, <2>4, <2>5
<1>8. CASE ~(Len(stream.queue) < BufferSize)
  <2>1. stream' = stream /\ emitter' = [waiting |-> <<event>>, ended |-> emitter.ended]
    BY <1>1, <1>2, <1>8 DEF StreamTypes
  <2>2. <<event>> \in Seq(StreamEvents) /\ Len(<<event>>) <= 1 /\ <<event>> # << >>
    OBVIOUS
  <2>3. StreamTypes'
    BY <1>1, <1>2, <1>4, <2>1, <2>2 DEF StreamTypes
  <2>4. emitted' = (reader'.got \o stream'.queue) \o emitter'.waiting
    BY <1>1, <1>2, <1>3, <2>1, Moving DEF StreamTypes
  <2>5. QED BY <1>1, <1>6, <2>1, <2>2, <2>3, <2>4
<1>9. QED BY <1>7, <1>8

(* The event that waited finds its place. *)
LEMMA PutIInv ==
  ASSUME StreamIInv, Put
  PROVE  StreamIInv'
<1>1. /\ emitter.waiting # << >> /\ UNCHANGED <<emitted, reader>>
      /\ stream' = [queue |-> stream.queue \o emitter.waiting,
                    over |-> stream.over \/ emitter.waiting[1] \in LastEvents]
      /\ emitter' = [waiting |-> << >>, ended |-> emitter.waiting[1] \in LastEvents]
  BY DEF Put
<1>2. StreamTypes
  BY DEF StreamIInv
<1>3. PICK q : q = stream.queue \o emitter.waiting
  OBVIOUS
<1>4. q \in Seq(StreamEvents) /\ reader.got \o q = emitted /\ reader.got \o q \in Seq(StreamEvents)
      /\ (reader.got \o q) \o << >> = reader.got \o q
  BY <1>2, <1>3, ConcatProperties, ConcatAssociative, ConcatEmptySeq DEF StreamIInv, StreamTypes
<1>5. /\ Len(emitted) > 0 /\ emitted[Len(emitted)] = emitter.waiting[1]
  <2>1. PICK p : p = reader.got \o stream.queue
    OBVIOUS
  <2>2. p \in Seq(StreamEvents) /\ emitter.waiting \in Seq(StreamEvents) /\ Len(emitter.waiting) = 1 /\ emitted = p \o emitter.waiting
    <3>1. reader.got \in Seq(StreamEvents) /\ stream.queue \in Seq(StreamEvents) /\ emitter.waiting \in Seq(StreamEvents)
      BY <1>2 DEF StreamTypes
    <3>2. p \in Seq(StreamEvents)
      BY <2>1, <3>1, ConcatProperties
    <3>3. Len(emitter.waiting) = 1
      <4>1. \A w \in Seq(StreamEvents) : w # << >> => Len(w) \in Nat \ {0}
        BY EmptySeq
      <4>2. Len(emitter.waiting) \in Nat \ {0} /\ Len(emitter.waiting) <= 1
        BY <1>1, <1>2, <3>1, <4>1 DEF StreamTypes
      <4>3. \A n \in Nat \ {0} : n <= 1 => n = 1
        OBVIOUS
      <4>4. QED BY <4>2, <4>3, Zenon
    <3>4. emitted = p \o emitter.waiting
      BY <2>1, Zenon DEF StreamIInv
    <3>5. QED BY <3>1, <3>2, <3>3, <3>4
  <2>3. Len(emitted) = Len(p) + 1 /\ Len(p) \in Nat /\ emitted[Len(p) + 1] = emitter.waiting[1]
    BY <2>2, ConcatProperties, LenProperties
  <2>4. QED BY <2>3
<1>6. /\ stream'.queue = q /\ (stream'.over <=> stream.over \/ emitter.waiting[1] \in LastEvents)
      /\ emitter'.waiting = << >>
  BY <1>1, <1>3
<1>7. StreamTypes'
  <2>1. << >> \in Seq(StreamEvents) /\ Len(<< >>) <= 1
    OBVIOUS
  <2>2. stream' = [queue |-> stream'.queue, over |-> stream'.over] /\ stream'.over \in BOOLEAN
    BY <1>1, <1>2 DEF StreamTypes
  <2>3. QED BY <1>1, <1>2, <1>4, <1>6, <2>1, <2>2 DEF StreamTypes
<1>8. emitted' = (reader'.got \o stream'.queue) \o emitter'.waiting
  BY <1>1, <1>4, <1>6
<1>9. \A i \in 1 .. Len(emitted') :
        emitted'[i] \in LastEvents => i = Len(emitted') /\ (stream'.over \/ emitter'.waiting # << >>)
  BY <1>1, <1>5, <1>6 DEF StreamIInv
<1>10. (reader.at = "ended" => FALSE) /\ (reader.at = "cancelled" => stream'.over)
  BY <1>1, <1>6 DEF StreamIInv
<1>11. QED BY <1>1, <1>6, <1>7, <1>8, <1>9, <1>10 DEF StreamIInv

(* The client reads, comes to the end, or leaves. *)
LEMMA ReaderIInv ==
  ASSUME StreamIInv, ReadEvent \/ EndOfStream \/ CancelReader
  PROVE  StreamIInv'
<1>1. StreamTypes /\ reader.at = "reading" /\ UNCHANGED <<emitted, emitter>>
  BY DEF StreamIInv, ReadEvent, EndOfStream, CancelReader
<1>2. CASE ReadEvent
  <2>1. /\ stream.queue # << >> /\ reader' = [got |-> Append(reader.got, Head(stream.queue)), at |-> "reading"]
        /\ stream' = [queue |-> Tail(stream.queue), over |-> stream.over]
    BY <1>1, <1>2 DEF ReadEvent, StreamTypes
  <2>2. /\ Append(reader.got, Head(stream.queue)) \in Seq(StreamEvents) /\ Tail(stream.queue) \in Seq(StreamEvents)
        /\ Append(reader.got, Head(stream.queue)) \o Tail(stream.queue) = reader.got \o stream.queue
    BY <1>1, <2>1, AppendProperties, HeadTailProperties, Moving DEF StreamTypes
  <2>3. StreamTypes'
    BY <1>1, <2>1, <2>2 DEF StreamTypes
  <2>4. emitted' = (reader'.got \o stream'.queue) \o emitter'.waiting
    BY <1>1, <2>1, <2>2 DEF StreamIInv
  <2>5. QED BY <1>1, <2>1, <2>3, <2>4 DEF StreamIInv
<1>3. CASE EndOfStream
  <2>1. /\ stream.queue = << >> /\ stream.over /\ stream' = stream
        /\ reader' = [got |-> reader.got, at |-> "ended"]
    BY <1>1, <1>3 DEF EndOfStream, StreamTypes
  <2>2. StreamTypes'
    BY <1>1, <2>1 DEF StreamTypes
  <2>3. QED BY <1>1, <2>1, <2>2 DEF StreamIInv
<1>4. CASE CancelReader
  <2>1. /\ stream' = [queue |-> stream.queue, over |-> TRUE]
        /\ reader' = [got |-> reader.got, at |-> "cancelled"]
    BY <1>1, <1>4 DEF CancelReader, StreamTypes
  <2>2. StreamTypes'
    BY <1>1, <2>1 DEF StreamTypes
  <2>3. QED BY <1>1, <2>1, <2>2 DEF StreamIInv
<1>5. QED BY <1>2, <1>3, <1>4

-----------------------------------------------------------------------------
(* What is pushed to people: the notifications.                            *)

PerReceiver(c) == c \in [Receivers -> Nat]

NoticeTypes ==
  /\ notice = [kind |-> notice.kind, whom |-> notice.whom, tasks |-> notice.tasks,
               delivered |-> notice.delivered, result |-> notice.result]
  /\ PerReceiver(notice.tasks) /\ PerReceiver(notice.delivered)
  /\ notice.result \in BOOLEAN
  /\ notice.whom \in SUBSET Approvers

(* How many are told of a notification is settled when it is sent. *)
NoticeIInv == NoticeTypes /\ NoticesAreHonest

(* What holds of a notification that nothing has become of yet. *)
LEMMA NewNotice ==
  ASSUME NEW kind, NEW whom \in SUBSET Approvers, NEW tasks, PerReceiver(tasks), NEW result \in BOOLEAN,
         notice' = Notice(kind, whom, tasks, result),
         ~result => \A to \in Receivers : tasks[to] = 0,
         \A to \in Approvers : tasks[to] <= 1 /\ (tasks[to] > 0 => to \in whom),
         tasks["webhook"] <= Cardinality(whom),
         kind # "request" /\ tasks["webhook"] > 0 => \A to \in Approvers : tasks[to] = 0
  PROVE  NoticeIInv'
<1>1. /\ notice'.kind = kind /\ notice'.whom = whom /\ notice'.tasks = tasks /\ notice'.result = result
      /\ notice'.delivered = NoMail
      /\ notice' = [kind |-> notice'.kind, whom |-> notice'.whom, tasks |-> notice'.tasks,
                    delivered |-> notice'.delivered, result |-> notice'.result]
  BY DEF Notice
<1>2. PerReceiver(NoMail) /\ \A to \in Receivers : NoMail[to] = 0
  BY DEF PerReceiver, NoMail
<1>3. NoticeTypes'
  BY <1>1, <1>2 DEF NoticeTypes, PerReceiver
<1>4. \A to \in Receivers : Told(to)' = tasks[to]
  BY <1>1, <1>2 DEF Told, PerReceiver
<1>5. "webhook" \in Receivers /\ Approvers \subseteq Receivers
  BY DEF Receivers
<1>6. NoticesAreHonest'
  BY <1>1, <1>4, <1>5 DEF NoticesAreHonest
<1>7. QED BY <1>3, <1>6 DEF NoticeIInv

(* One task to one receiver, or none. *)
LEMMA OneTask ==
  ASSUME NEW r \in Receivers
  PROVE  /\ PerReceiver(Only(r)) /\ PerReceiver(NoMail)
         /\ Only(r)[r] = 1 /\ \A to \in Receivers \ {r} : Only(r)[to] = 0
         /\ \A to \in Receivers : NoMail[to] = 0
BY DEF PerReceiver, Only, NoMail

(* A notification is sent. *)
LEMMA NoticeSentIInv ==
  ASSUME SendApprovalRequest \/ SendApprovalResult \/ SendExecutionResult
  PROVE  NoticeIInv'
<1>0. /\ Approvers \subseteq Receivers /\ "webhook" \in Receivers /\ "webhook" \notin Approvers
      /\ \A to \in Receivers : to \in Approvers \/ to = "webhook"
      /\ \A whom \in SUBSET Approvers : Cardinality(whom) \in Nat
      /\ \A a \in Approvers : Cardinality({a}) = 1
  BY ChannelAssumption, FS_Subset, FS_CardinalityType, FS_Singleton DEF ChannelAssumption, Receivers
<1>1. CASE SendApprovalRequest
  <2>1. PICK whom \in SUBSET Approvers, channels \in SUBSET {"email", "teams", "in_app"},
             configured \in SUBSET {"email", "teams"} :
          notice' = Notice("request", whom,
            [to \in Receivers |->
               IF to = "webhook" THEN IF "teams" \in channels \cap configured THEN Cardinality(whom) ELSE 0
               ELSE IF to \in whom /\ "email" \in channels \cap configured THEN 1 ELSE 0],
            whom # {} /\ channels \cap (configured \cup {"in_app"}) # {})
    BY <1>1 DEF SendApprovalRequest
  <2> DEFINE tasks == [to \in Receivers |->
               IF to = "webhook" THEN IF "teams" \in channels \cap configured THEN Cardinality(whom) ELSE 0
               ELSE IF to \in whom /\ "email" \in channels \cap configured THEN 1 ELSE 0]
             result == (whom # {} /\ channels \cap (configured \cup {"in_app"}) # {})
  <2>2. notice' = Notice("request", whom, tasks, result)
    BY <2>1
  <2>3. tasks["webhook"] = IF "teams" \in channels \cap configured THEN Cardinality(whom) ELSE 0
    BY <1>0
  <2>4. \A to \in Approvers : tasks[to] = IF to \in whom /\ "email" \in channels \cap configured THEN 1 ELSE 0
    BY <1>0
  <2>5. result \in BOOLEAN /\ Cardinality(whom) \in Nat
    BY <1>0
  <2>6. ~result => \A to \in Receivers : tasks[to] = 0
    <3> SUFFICES ASSUME ~result, NEW to \in Receivers PROVE tasks[to] = 0
      OBVIOUS
    <3>1. CASE whom = {}
      BY <1>0, <2>3, <2>4, <3>1, FS_EmptySet
    <3>2. CASE channels \cap (configured \cup {"in_app"}) = {}
      <4>1. "teams" \notin channels \cap configured /\ "email" \notin channels \cap configured
        BY <3>2
      <4>2. QED BY <1>0, <2>3, <2>4, <4>1
    <3>3. QED BY <3>1, <3>2
  <2>7. PerReceiver(tasks)
    BY <2>5 DEF PerReceiver
  <2>8. \A to \in Approvers : tasks[to] <= 1 /\ (tasks[to] > 0 => to \in whom)
    BY <2>4
  <2>9. tasks["webhook"] <= Cardinality(whom)
    BY <2>3, <2>5
  <2> HIDE DEF tasks, result
  <2>10. QED BY <2>2, <2>5, <2>6, <2>7, <2>8, <2>9, NewNotice
<1>2. CASE SendApprovalResult
  <2>1. PICK requester \in Approvers, configured \in BOOLEAN :
          notice' = Notice("result", {requester}, IF configured THEN Only(requester) ELSE NoMail, configured)
    BY <1>2 DEF SendApprovalResult
  <2>2. PerReceiver(Only(requester)) /\ PerReceiver(NoMail) /\ Only(requester)[requester] = 1
    BY <1>0, OneTask
  <2>3. \A to \in Receivers \ {requester} : Only(requester)[to] = 0
    BY <1>0, OneTask
  <2>4. \A to \in Receivers : NoMail[to] = 0
    BY <1>0, OneTask
  <2>5. PICK tasks : tasks = IF configured THEN Only(requester) ELSE NoMail
    OBVIOUS
  <2>6. PerReceiver(tasks) /\ (~configured => \A to \in Receivers : tasks[to] = 0)
    BY <2>2, <2>4, <2>5
  <2>7. \A to \in Approvers : tasks[to] <= 1 /\ (tasks[to] > 0 => to \in {requester})
    BY <1>0, <2>2, <2>3, <2>4, <2>5
  <2>8. tasks["webhook"] = 0
    BY <1>0, <2>3, <2>4, <2>5
  <2>9. tasks["webhook"] <= Cardinality({requester})
    BY <1>0, <2>8
  <2>10. notice' = Notice("result", {requester}, tasks, configured)
    BY <2>1, <2>5
  <2>11. QED BY <2>6, <2>7, <2>8, <2>9, <2>10, NewNotice
<1>3. CASE SendExecutionResult
  <2>1. PICK to \in Approvers, configured \in SUBSET {"email", "teams"} :
          notice' = Notice("execution", {to},
                           IF "email" \in configured THEN Only(to)
                           ELSE IF "teams" \in configured THEN Only("webhook") ELSE NoMail, TRUE)
    BY <1>3 DEF SendExecutionResult
  <2>2. PICK tasks : tasks = IF "email" \in configured THEN Only(to)
                             ELSE IF "teams" \in configured THEN Only("webhook") ELSE NoMail
    OBVIOUS
  <2>3. PerReceiver(Only(to)) /\ PerReceiver(Only("webhook")) /\ PerReceiver(NoMail)
    BY <1>0, OneTask
  <2>4. Only(to)[to] = 1 /\ Only("webhook")["webhook"] = 1
    BY <1>0, OneTask
  <2>5. \A r \in Receivers \ {to} : Only(to)[r] = 0
    BY <1>0, OneTask
  <2>6. \A r \in Receivers \ {"webhook"} : Only("webhook")[r] = 0
    BY <1>0, OneTask
  <2>7. \A r \in Receivers : NoMail[r] = 0
    BY <1>0, OneTask
  <2>8. tasks = Only(to) \/ tasks = Only("webhook") \/ tasks = NoMail
    BY <2>2
  <2>9. PerReceiver(tasks)
    BY <2>3, <2>8
  <2>10. \A r \in Approvers : tasks[r] <= 1 /\ (tasks[r] > 0 => r \in {to})
    BY <1>0, <2>4, <2>5, <2>6, <2>7, <2>8
  <2>11. tasks["webhook"] <= Cardinality({to})
    BY <1>0, <2>4, <2>5, <2>7, <2>8
  <2>12. tasks["webhook"] > 0 => \A r \in Approvers : tasks[r] = 0
    BY <1>0, <2>5, <2>6, <2>7, <2>8
  <2>13. notice' = Notice("execution", {to}, tasks, TRUE)
    BY <2>1, <2>2
  <2>14. QED BY <2>9, <2>10, <2>11, <2>12, <2>13, NewNotice
<1>4. QED BY <1>1, <1>2, <1>3

(* A task of a notification ends. *)
LEMMA TaskIInv ==
  ASSUME NoticeIInv, NotificationTask
  PROVE  NoticeIInv'
<1>1. PICK to \in Receivers, arrives \in {0, 1} :
        /\ notice.tasks[to] > 0
        /\ notice' = [notice EXCEPT !.tasks[to] = notice.tasks[to] - 1,
                                    !.delivered[to] = notice.delivered[to] + arrives]
  BY DEF NotificationTask
<1>2. /\ notice'.kind = notice.kind /\ notice'.whom = notice.whom /\ notice'.result = notice.result
      /\ notice'.tasks = [notice.tasks EXCEPT ![to] = notice.tasks[to] - 1]
      /\ notice'.delivered = [notice.delivered EXCEPT ![to] = notice.delivered[to] + arrives]
      /\ notice' = [kind |-> notice'.kind, whom |-> notice'.whom, tasks |-> notice'.tasks,
                    delivered |-> notice'.delivered, result |-> notice'.result]
  BY <1>1 DEF NoticeIInv, NoticeTypes, Notice
<1>3. PerReceiver(notice.tasks) /\ PerReceiver(notice.delivered)
  BY DEF NoticeIInv, NoticeTypes
<1>4. NoticeTypes'
  BY <1>1, <1>2, <1>3 DEF NoticeIInv, NoticeTypes, PerReceiver
<1>5. \A r \in Receivers : Told(r) \in Nat /\ Told(r)' \in Nat /\ Told(r)' <= Told(r)
  BY <1>1, <1>2, <1>3 DEF Told, PerReceiver
<1>6. Approvers \subseteq Receivers /\ "webhook" \in Receivers /\ Cardinality(notice.whom) \in Nat
  BY ChannelAssumption, FS_Subset, FS_CardinalityType DEF ChannelAssumption, Receivers, NoticeIInv, NoticeTypes
<1>7. NoticesAreHonest'
  <2>1. NoticesAreHonest
    BY DEF NoticeIInv
  <2>2. ~notice'.result => \A r \in Receivers : Told(r)' = 0
    BY <1>2, <1>5, <2>1 DEF NoticesAreHonest
  <2>3. \A r \in Approvers : Told(r)' <= 1 /\ (Told(r)' > 0 => r \in notice'.whom)
    BY <1>2, <1>5, <1>6, <2>1 DEF NoticesAreHonest
  <2>4. Told("webhook")' <= Cardinality(notice'.whom)
    BY <1>2, <1>5, <1>6, <2>1 DEF NoticesAreHonest
  <2>5. notice'.kind # "request" /\ Told("webhook")' > 0 => \A r \in Approvers : Told(r)' = 0
    BY <1>2, <1>5, <1>6, <2>1 DEF NoticesAreHonest
  <2>6. QED BY <2>2, <2>3, <2>4, <2>5 DEF NoticesAreHonest
<1>8. QED BY <1>4, <1>7 DEF NoticeIInv

-----------------------------------------------------------------------------
(* What is pushed to people: the channels together.                        *)

ChannelIInv == SocketIInv /\ StreamIInv /\ NoticeIInv

LEMMA ChannelsInitIInv == ChannelsInit => ChannelIInv
<1> SUFFICES ASSUME ChannelsInit PROVE ChannelIInv
  OBVIOUS
<1>1. SocketIInv
  BY DEF ChannelsInit, NoSending, SocketIInv, SocketTypes, SocketsAreIndexed, Open
<1>2. StreamIInv
  <2>1. << >> \in Seq(StreamEvents) /\ Len(<< >>) = 0 /\ << >> \o << >> = << >>
    BY EmptySeq, ConcatEmptySeq
  <2>2. StreamTypes
    BY <2>1 DEF ChannelsInit, StreamTypes
  <2>3. QED BY <2>1, <2>2 DEF ChannelsInit, StreamIInv
<1>3. NoticeIInv
  <2>1. /\ notice.whom = {} /\ notice.tasks = NoMail /\ notice.delivered = NoMail /\ notice.result = FALSE
        /\ notice = [kind |-> notice.kind, whom |-> notice.whom, tasks |-> notice.tasks,
                     delivered |-> notice.delivered, result |-> notice.result]
    BY DEF ChannelsInit, NoNotice, Notice
  <2>2. PerReceiver(NoMail) /\ \A to \in Receivers : Told(to) = 0
    BY <2>1 DEF PerReceiver, NoMail, Told
  <2>3. Approvers \subseteq Receivers /\ "webhook" \in Receivers
    BY DEF Receivers
  <2>4. NoticesAreHonest
    BY <2>1, <2>2, <2>3, FS_EmptySet DEF NoticesAreHonest
  <2>5. QED BY <2>1, <2>2, <2>4 DEF NoticeIInv, NoticeTypes
<1>4. QED BY <1>1, <1>2, <1>3 DEF ChannelIInv

LEMMA ChannelsNextIInv == ChannelIInv /\ [ChannelsNext]_channelVars => ChannelIInv'
<1> SUFFICES ASSUME ChannelIInv, [ChannelsNext]_channelVars PROVE ChannelIInv'
  OBVIOUS
<1> USE DEF ChannelIInv
<1>1. ASSUME UNCHANGED socketVars PROVE SocketIInv'
  BY <1>1 DEF socketVars, SocketIInv, SocketTypes, SocketsAreIndexed, Open
<1>2. ASSUME UNCHANGED streamVars PROVE StreamIInv'
  BY <1>2 DEF streamVars, StreamIInv, StreamTypes
<1>3. ASSUME UNCHANGED notice PROVE NoticeIInv'
  <2> SUFFICES ASSUME notice' = notice PROVE NoticeIInv'
    BY <1>3
  <2>1. \A to : Told(to)' = Told(to)
    BY DEF Told
  <2>2. NoticesAreHonest'
    BY <2>1 DEF NoticeIInv, NoticesAreHonest
  <2>3. QED BY <2>2 DEF NoticeIInv, NoticeTypes
<1>4. CASE UNCHANGED channelVars
  <2>1. UNCHANGED <<socketVars, streamVars, notice>>
    BY <1>4 DEF channelVars, socketVars, streamVars
  <2>2. QED BY <1>1, <1>2, <1>3, <2>1
<1>5. ASSUME NEW ws \in Sockets, ConnectSocket(ws) \/ DisconnectSocket(ws) \/ SafeSendJson(ws) PROVE ChannelIInv'
  <2>1. UNCHANGED <<streamVars, notice>>
    BY <1>5 DEF ConnectSocket, DisconnectSocket, SafeSendJson
  <2>2. QED BY <1>2, <1>3, <1>5, <2>1, ConnectIInv, DisconnectIInv, SendIInv
<1>6. CASE SendAll
  <2>1. UNCHANGED <<streamVars, notice>>
    BY <1>6 DEF SendAll
  <2>2. QED BY <1>2, <1>3, <1>6, <2>1, SendIInv
<1>7. CASE Emit \/ Put \/ ReadEvent \/ EndOfStream \/ CancelReader
  <2>1. UNCHANGED <<socketVars, notice>>
    BY <1>7 DEF Emit, Put, ReadEvent, EndOfStream, CancelReader
  <2>2. QED BY <1>1, <1>3, <1>7, <2>1, EmitIInv, PutIInv, ReaderIInv
<1>8. CASE SendApprovalRequest \/ SendApprovalResult \/ SendExecutionResult
  <2>1. UNCHANGED <<socketVars, streamVars>>
    BY <1>8 DEF SendApprovalRequest, SendApprovalResult, SendExecutionResult
  <2>2. QED BY <1>1, <1>2, <1>8, <2>1, NoticeSentIInv
<1>9. CASE NotificationTask
  <2>1. UNCHANGED <<socketVars, streamVars>>
    BY <1>9 DEF NotificationTask
  <2>2. QED BY <1>1, <1>2, <1>9, <2>1, TaskIInv
<1>10. QED BY <1>4, <1>5, <1>6, <1>7, <1>8, <1>9 DEF ChannelsNext

LEMMA ChannelsInvariance == ChannelsSpec => []ChannelIInv
BY ChannelsInitIInv, ChannelsNextIInv, PTL DEF ChannelsSpec

(* What the invariant says of sockets, events and notifications. *)
LEMMA ChannelsStaySound == ChannelIInv => ChannelsAreSound
<1> SUFFICES ASSUME ChannelIInv PROVE ChannelsAreSound
  OBVIOUS
<1>1. SocketsAreIndexed
  BY DEF ChannelIInv, SocketIInv
<1>2. EventsAreInOrder
  <2>1. StreamIInv /\ StreamTypes
    BY DEF ChannelIInv, StreamIInv
  <2>2. PICK p : p = reader.got \o stream.queue
    OBVIOUS
  <2>3. /\ reader.got \in Seq(StreamEvents) /\ stream.queue \in Seq(StreamEvents) /\ emitter.waiting \in Seq(StreamEvents)
        /\ emitted \in Seq(StreamEvents) /\ emitted = p \o emitter.waiting
    BY <2>1, <2>2 DEF StreamIInv, StreamTypes
  <2>4. p \in Seq(StreamEvents) /\ Len(p) = Len(reader.got) + Len(stream.queue)
    BY <2>2, <2>3, ConcatProperties
  <2>5. Len(p) + Len(emitter.waiting) = Len(emitted)
    BY <2>3, <2>4, ConcatProperties
  <2>6. IsPrefix(reader.got \o stream.queue \o emitter.waiting, emitted)
    <3>1. Len(emitted) \in Nat
      BY <2>3, LenProperties
    <3>2. QED BY <2>2, <2>3, <3>1 DEF IsPrefix
  <2>7. \A i \in 1 .. Len(emitted) - 1 : emitted[i] \notin LastEvents
    <3>1. Len(emitted) \in Nat
      BY <2>3, LenProperties
    <3>2. \A i \in 1 .. Len(emitted) : emitted[i] \in LastEvents => i = Len(emitted)
      BY <2>1 DEF StreamIInv
    <3>3. \A i \in 1 .. Len(emitted) - 1 : i \in 1 .. Len(emitted) /\ i # Len(emitted)
      BY <3>1
    <3>4. QED BY <3>2, <3>3, Zenon
  <2>8. reader.at = "ended" => reader.got = emitted
    <3> SUFFICES ASSUME reader.at = "ended" PROVE reader.got = emitted
      OBVIOUS
    <3>1. stream.queue = << >> /\ emitter.waiting = << >>
      BY <2>1 DEF StreamIInv
    <3>2. QED BY <2>2, <2>3, <2>4, <3>1, ConcatEmptySeq
  <2>9. emitter.waiting # << >> /\ reader.at # "reading" => reader.at = "cancelled"
    BY <2>1 DEF StreamIInv, StreamTypes
  <2>10. Len(reader.got) + Len(stream.queue) + Len(emitter.waiting) = Len(emitted)
    BY <2>4, <2>5
  <2>11. QED BY <2>6, <2>7, <2>8, <2>9, <2>10, Zenon DEF EventsAreInOrder
<1>3. NoticesAreHonest
  BY DEF ChannelIInv, NoticeIInv
<1>4. QED BY <1>1, <1>2, <1>3 DEF ChannelsAreSound

-----------------------------------------------------------------------------
(* Metering and savings.                                                   *)

(* The sum of a sequence is that of its first elements and the last one.   *)
LEMMA TotalIs ==
  ASSUME NEW N \in Nat, NEW costs, Len(costs) = N, \A i \in 1 .. N : costs[i] \in Nat
  PROVE  \E sum \in [0 .. N -> Nat] :
           /\ sum[0] = 0 /\ \A i \in 1 .. N : sum[i] = sum[i - 1] + costs[i]
           /\ Total(costs) = sum[N]
<1> DEFINE Sums(f, n) == f[0] = 0 /\ \A i \in 1 .. n : f[i] = f[i - 1] + costs[i]
           S == {n \in Nat : n <= N => \E f \in [0 .. n -> Nat] : Sums(f, n)}
           Def(f) == f = [n \in 0 .. N |-> IF n = 0 THEN 0 ELSE f[n - 1] + costs[n]]
           sum == CHOOSE f : Def(f)
<1>1. 0 \in S
  <2> DEFINE f == [i \in 0 .. 0 |-> 0]
  <2>1. f \in [0 .. 0 -> Nat] /\ Sums(f, 0) OBVIOUS
  <2> QED BY <2>1
<1>2. ASSUME NEW n \in Nat, n \in S PROVE n + 1 \in S
  <2> SUFFICES ASSUME n + 1 <= N PROVE \E f \in [0 .. n + 1 -> Nat] : Sums(f, n + 1)
    <3> HIDE DEF Sums
    <3> QED OBVIOUS
  <2>1. PICK f \in [0 .. n -> Nat] : Sums(f, n) BY <1>2
  <2> DEFINE g == [i \in 0 .. n + 1 |-> IF i = n + 1 THEN f[n] + costs[n + 1] ELSE f[i]]
  <2>2. f[n] \in Nat /\ costs[n + 1] \in Nat OBVIOUS
  <2>3. g \in [0 .. n + 1 -> Nat] BY <2>2
  <2>4. g[0] = 0 BY <2>1
  <2>5. \A i \in 1 .. n + 1 : g[i] = g[i - 1] + costs[i]
    <3> TAKE i \in 1 .. n + 1
    <3>1. CASE i = n + 1 BY <3>1
    <3>2. CASE i # n + 1
      <4>1. i \in 1 .. n /\ i - 1 \in 0 .. n BY <3>2
      <4> QED BY <4>1, <2>1
    <3> QED BY <3>1, <3>2
  <2> HIDE DEF g
  <2> QED BY <2>3, <2>4, <2>5
<1>3. N \in S
  <2> HIDE DEF S
  <2> QED BY <1>1, <1>2, SetInduction
<1>4. PICK f \in [0 .. N -> Nat] : Sums(f, N) BY <1>3
<1>5. Def(f)
  <2> DEFINE h == [n \in 0 .. N |-> IF n = 0 THEN 0 ELSE f[n - 1] + costs[n]]
  <2> HIDE DEF S, sum
  <2>1. \A n \in 0 .. N : f[n] = h[n] BY <1>4
  <2>2. f = [n \in 0 .. N |-> f[n]] OBVIOUS
  <2> HIDE DEF h
  <2>3. f = [n \in 0 .. N |-> h[n]] BY <2>1, <2>2
  <2> QED BY <2>3 DEF h
<1>6. Def(sum)
  <2> HIDE DEF Def
  <2> QED BY <1>5
<1>7. Total(costs) = sum[N]
  BY DEF Total
<1> HIDE DEF sum
<1>8. sum[0] = 0 /\ \A i \in 1 .. N : sum[i] = sum[i - 1] + costs[i]
  BY <1>6
<1>9. DOMAIN sum = 0 .. N /\ sum = [i \in 0 .. N |-> sum[i]]
  BY <1>6
<1> DEFINE T == {n \in Nat : n <= N => sum[n] \in Nat}
<1>10. 0 \in T
  BY <1>8
<1>11. ASSUME NEW n \in Nat, n \in T PROVE n + 1 \in T
  <2> SUFFICES ASSUME n + 1 <= N PROVE sum[n + 1] \in Nat
    OBVIOUS
  <2>1. n + 1 \in 1 .. N /\ (n + 1) - 1 = n OBVIOUS
  <2>2. sum[n + 1] = sum[n] + costs[n + 1] BY <1>8, <2>1
  <2>3. sum[n] \in Nat BY <1>11
  <2> QED BY <2>1, <2>2, <2>3
<1>12. Nat \subseteq T
  <2> HIDE DEF T
  <2> QED BY <1>10, <1>11, SetInduction
<1>13. sum \in [0 .. N -> Nat]
  BY <1>9, <1>12
<1> QED BY <1>7, <1>8, <1>13

(* A sum of costs is a number. *)
LEMMA TotalIsNat ==
  ASSUME NEW N \in Nat, NEW costs, Len(costs) = N, \A i \in 1 .. N : costs[i] \in Nat
  PROVE  Total(costs) \in Nat
<1>1. PICK sum \in [0 .. N -> Nat] : Total(costs) = sum[N]
  BY TotalIs
<1> QED BY <1>1

(* What is less item by item is less in sum. *)
LEMMA TotalsCompare ==
  ASSUME NEW N \in Nat, NEW x, Len(x) = N, \A i \in 1 .. N : x[i] \in Nat,
         NEW y, Len(y) = N, \A i \in 1 .. N : y[i] \in Nat,
         NEW c \in {1, 10}, \A i \in 1 .. N : x[i] <= c * y[i]
  PROVE  Total(x) <= c * Total(y)
<1>1. PICK f \in [0 .. N -> Nat] : f[0] = 0 /\ (\A i \in 1 .. N : f[i] = f[i - 1] + x[i]) /\ Total(x) = f[N]
  BY TotalIs
<1>2. PICK g \in [0 .. N -> Nat] : g[0] = 0 /\ (\A i \in 1 .. N : g[i] = g[i - 1] + y[i]) /\ Total(y) = g[N]
  BY TotalIs
<1> DEFINE S == {n \in Nat : n <= N => f[n] <= c * g[n]}
<1>3. 0 \in S
  BY <1>1, <1>2
<1>4. ASSUME NEW n \in Nat, n \in S PROVE n + 1 \in S
  <2> SUFFICES ASSUME n + 1 <= N PROVE f[n + 1] <= c * g[n + 1]
    OBVIOUS
  <2>1. n + 1 \in 1 .. N /\ (n + 1) - 1 = n /\ n \in 0 .. N OBVIOUS
  <2>2. f[n + 1] = f[n] + x[n + 1] /\ g[n + 1] = g[n] + y[n + 1] BY <1>1, <1>2, <2>1
  <2>3. f[n] <= c * g[n] BY <1>4, <2>1
  <2>4. x[n + 1] <= c * y[n + 1] /\ x[n + 1] \in Nat /\ y[n + 1] \in Nat /\ f[n] \in Nat /\ g[n] \in Nat BY <2>1
  <2> HIDE DEF S
  <2>5. CASE c = 1
    <3>1. f[n] <= g[n] /\ x[n + 1] <= y[n + 1] BY <2>3, <2>4, <2>5
    <3>2. f[n + 1] <= g[n + 1] BY <2>2, <2>4, <3>1
    <3> QED BY <2>2, <2>4, <2>5, <3>2
  <2>6. CASE c = 10
    <3>1. f[n] <= 10 * g[n] /\ x[n + 1] <= 10 * y[n + 1] BY <2>3, <2>4, <2>6
    <3>2. \A p, q, u, v \in Nat : p <= 10 * q /\ u <= 10 * v => p + u <= 10 * (q + v) OBVIOUS
    <3>3. f[n] + x[n + 1] <= 10 * (g[n] + y[n + 1]) BY <2>4, <3>1, <3>2, Zenon
    <3>4. f[n + 1] <= 10 * g[n + 1] BY <2>2, <3>3
    <3> QED BY <2>6, <3>4
  <2> QED BY <2>5, <2>6
<1>5. N \in S
  <2> HIDE DEF S
  <2> QED BY <1>3, <1>4, SetInduction
<1> QED BY <1>1, <1>2, <1>5

-----------------------------------------------------------------------------
(* The decisions of the router: what their cost is counted from. *)
DecisionsFit(ds) ==
  IsSequence(ds) /\ \A i \in 1 .. Len(ds) : "tokens" \in DOMAIN ds[i] /\ ds[i].tokens \in Nat

(* What is said to be saved is at most what was spent, in percent and in   *)
(* tokens.                                                                 *)
LEMMA SavingsFit ==
  ASSUME NEW ds, DecisionsFit(ds)
  PROVE  LET saved == SavingsEstimate(ds)
         IN /\ saved.cost_reduction_pct \in 0 .. 90
            /\ saved.tokens_saved \in 0 .. Total(TokensOf(Recent(ds), ds))
            /\ Total(TierDistribution(ds)) <= Cardinality(Recent(ds))
            /\ \A tier \in Range(Tiers) : QualityOf(tier, ds) \in 0 .. 100
<1> DEFINE N == Len(ds)
           known == TokensOf(Known(ds), ds)
           recent == TokensOf(Recent(ds), ds)
           costs == CostOf(Known(ds), ds)
           R == Recent(ds)
<1>1. N \in Nat /\ DOMAIN ds = 1 .. N /\ \A i \in 1 .. N : ds[i].tokens \in Nat
  BY DEF DecisionsFit, IsSequence
<1>2. Known(ds) \subseteq R /\ R \subseteq 1 .. N
  BY <1>1 DEF Known, Recent
<1>3. \A tier : tier \in Range(Tiers) <=> tier \in {"light", "standard", "heavy"}
  <2>1. DOMAIN Tiers = 1 .. 3 /\ Tiers[1] = "light" /\ Tiers[2] = "standard" /\ Tiers[3] = "heavy" BY DEF Tiers
  <2>2. 1 .. 3 = {1, 2, 3} OBVIOUS
  <2> QED BY <2>1, <2>2 DEF Range
<1>4. \A tier \in Range(Tiers) : Weight(tier) \in {1, 3, 10}
  BY <1>3 DEF Weight
<1>5. /\ Len(known) = N /\ \A i \in 1 .. N : known[i] = IF i \in Known(ds) THEN ds[i].tokens ELSE 0
      /\ Len(recent) = N /\ \A i \in 1 .. N : recent[i] = IF i \in R THEN ds[i].tokens ELSE 0
      /\ Len(costs) = N
      /\ \A i \in 1 .. N : costs[i] = IF i \in Known(ds) THEN ds[i].tokens * Weight(ds[i].tier) ELSE 0
  <2>1. \A f : f = [i \in 1 .. N |-> f[i]] => Len(f) = N BY <1>1
  <2> HIDE DEF N
  <2>2. known = [i \in 1 .. N |-> known[i]] /\ recent = [i \in 1 .. N |-> recent[i]] /\ costs = [i \in 1 .. N |-> costs[i]]
    BY <1>1 DEF TokensOf, CostOf
  <2>3. /\ \A i \in 1 .. N : known[i] = IF i \in Known(ds) THEN ds[i].tokens ELSE 0
        /\ \A i \in 1 .. N : recent[i] = IF i \in R THEN ds[i].tokens ELSE 0
        /\ \A i \in 1 .. N : costs[i] = IF i \in Known(ds) THEN ds[i].tokens * Weight(ds[i].tier) ELSE 0
    BY <1>1 DEF TokensOf, CostOf
  <2> QED BY <2>1, <2>2, <2>3
<1>6. \A i \in 1 .. N : i \in Known(ds) => Weight(ds[i].tier) \in {1, 3, 10}
  BY <1>4 DEF Known
<1> HIDE DEF known, recent, costs, R, N
<1>7. \A i \in 1 .. N : known[i] \in Nat /\ recent[i] \in Nat /\ costs[i] \in Nat
  <2> TAKE i \in 1 .. N
  <2>1. ds[i].tokens \in Nat BY <1>1
  <2>2. CASE i \in Known(ds) BY <1>5, <1>6, <2>1, <2>2
  <2>3. CASE i \notin Known(ds) BY <1>5, <2>1, <2>3
  <2> QED BY <2>2, <2>3
<1>8. \A i \in 1 .. N : known[i] <= 1 * recent[i] /\ known[i] <= 1 * costs[i] /\ costs[i] <= 10 * known[i]
  <2> TAKE i \in 1 .. N
  <2>1. ds[i].tokens \in Nat BY <1>1
  <2>2. CASE i \in Known(ds) BY <1>2, <1>5, <1>6, <2>1, <2>2
  <2>3. CASE i \notin Known(ds) BY <1>5, <2>1, <2>3
  <2> QED BY <2>2, <2>3
<1> DEFINE k == Total(known)
           r == Total(recent)
           a == Total(costs)
<1>9. /\ k \in Nat /\ r \in Nat /\ a \in Nat /\ k <= 1 * r /\ k <= 1 * a /\ a <= 10 * k
  BY <1>1, <1>5, <1>7, <1>8, TotalIsNat, TotalsCompare
<1>10. HeavyCost(ds) = 10 * k /\ ActualCost(ds) = a
  BY DEF HeavyCost, ActualCost, known, costs
<1> HIDE DEF k, r, a
<1>11. SavingsEstimate(ds).tokens_saved \in 0 .. r
  <2>1. SavingsEstimate(ds).tokens_saved = (10 * k - a) \div 10 BY <1>10 DEF SavingsEstimate
  <2> QED BY <1>9, <2>1
<1>12. SavingsEstimate(ds).cost_reduction_pct \in 0 .. 90
  <2>1. SavingsEstimate(ds).cost_reduction_pct = IF 10 * k = 0 THEN 0 ELSE (100 * (10 * k - a)) \div (10 * k)
    BY <1>10 DEF SavingsEstimate
  <2>2. CASE k = 0 BY <2>1, <2>2
  <2>3. CASE k # 0
    <3> DEFINE x == 10 * k
               p == 100 * (10 * k - a)
    <3>1. x \in Nat /\ x # 0 /\ p \in 0 .. 90 * x BY <1>9, <2>3
    <3>2. SavingsEstimate(ds).cost_reduction_pct = p \div x BY <2>1, <2>3, <3>1
    <3> HIDE DEF x, p
    <3>3. p \div x \in 0 .. 90 BY <3>1
    <3> QED BY <3>2, <3>3
  <2> QED BY <1>9, <2>2, <2>3
<1>13. IsFiniteSet(R) /\ \A tier : OfTier(tier, ds) \subseteq R
  <2>1. IsFiniteSet(1 .. N) BY <1>1, FS_Interval
  <2> QED BY <1>2, <2>1, FS_Subset DEF OfTier, R
<1>14. Total(TierDistribution(ds)) <= Cardinality(R)
  <2> DEFINE l == OfTier("light", ds)
             s == OfTier("standard", ds)
             h == OfTier("heavy", ds)
             t == TierDistribution(ds)
  <2>1. l \cap s = {} /\ (l \cup s) \cap h = {} BY DEF OfTier
  <2>2. t[1] = Cardinality(l) /\ t[2] = Cardinality(s) /\ t[3] = Cardinality(h) /\ Len(t) = 3
    BY DEF TierDistribution, Tiers
  <2>3. IsFiniteSet(l) /\ IsFiniteSet(s) /\ IsFiniteSet(h) /\ l \cup s \cup h \subseteq R
    BY <1>13, FS_Subset
  <2> HIDE DEF l, s, h, t
  <2>4. Cardinality(l) \in Nat /\ Cardinality(s) \in Nat /\ Cardinality(h) \in Nat BY <2>3, FS_CardinalityType
  <2>5. IsFiniteSet(l \cup s) /\ Cardinality(l \cup s) = Cardinality(l) + Cardinality(s)
    BY <2>1, <2>3, <2>4, FS_Union, FS_EmptySet
  <2>6. Cardinality((l \cup s) \cup h) = Cardinality(l) + Cardinality(s) + Cardinality(h)
    <3>1. Cardinality((l \cup s) \cup h) = Cardinality(l \cup s) + Cardinality(h) - Cardinality((l \cup s) \cap h)
      BY <2>3, <2>5, FS_Union
    <3>2. Cardinality((l \cup s) \cap h) = 0 BY <2>1, FS_EmptySet
    <3>3. Cardinality((l \cup s) \cup h) = Cardinality(l) + Cardinality(s) + Cardinality(h) - 0 BY <2>5, <3>1, <3>2
    <3> QED BY <2>4, <3>3
  <2>7. Cardinality((l \cup s) \cup h) <= Cardinality(R)
    BY <1>13, <2>3, FS_Subset
  <2>8. \A i \in 1 .. 3 : t[i] \in Nat
    <3>1. 1 .. 3 = {1, 2, 3} OBVIOUS
    <3> QED BY <2>2, <2>4, <3>1
  <2>9. PICK sum \in [0 .. 3 -> Nat] : sum[0] = 0 /\ (\A i \in 1 .. 3 : sum[i] = sum[i - 1] + t[i]) /\ Total(t) = sum[3]
    BY <2>2, <2>8, TotalIs
  <2>10. sum[1] = t[1] /\ sum[2] = sum[1] + t[2] /\ sum[3] = sum[2] + t[3]
    BY <2>8, <2>9
  <2>11. Total(t) = Cardinality(l) + Cardinality(s) + Cardinality(h)
    BY <2>2, <2>4, <2>9, <2>10
  <2> QED BY <2>6, <2>7, <2>11 DEF t
<1>15. ASSUME NEW tier PROVE QualityOf(tier, ds) \in 0 .. 100
  <2> DEFINE rated == Rated(tier, ds)
             good == Good(tier, ds)
  <2>1. good \subseteq rated /\ rated \subseteq OfTier(tier, ds) BY DEF Good, Rated
  <2>2. QualityOf(tier, ds) = IF rated = {} THEN 0 ELSE (100 * Cardinality(good)) \div Cardinality(rated)
    BY DEF QualityOf
  <2> HIDE DEF rated, good
  <2>3. rated \subseteq R BY <1>13, <2>1
  <2>4. IsFiniteSet(rated) /\ IsFiniteSet(good) /\ Cardinality(good) <= Cardinality(rated)
    BY <1>13, <2>1, <2>3, FS_Subset
  <2>5. Cardinality(rated) \in Nat /\ Cardinality(good) \in Nat BY <2>4, FS_CardinalityType
  <2>6. rated # {} => Cardinality(rated) # 0 BY <2>4, FS_EmptySet
  <2>7. \A x \in Nat \ {0}, y \in Nat : y <= x => (100 * y) \div x \in 0 .. 100
    <3> SUFFICES ASSUME NEW x \in Nat \ {0}, NEW y \in Nat, y <= x PROVE (100 * y) \div x \in 0 .. 100 OBVIOUS
    <3> DEFINE p == 100 * y
    <3>1. p \in 0 .. 100 * x OBVIOUS
    <3> HIDE DEF p
    <3>2. p \div x \in 0 .. 100 BY <3>1
    <3> QED BY <3>2 DEF p
  <2>8. CASE rated = {} BY <2>2, <2>8
  <2>9. CASE rated # {}
    <3>1. QualityOf(tier, ds) = (100 * Cardinality(good)) \div Cardinality(rated) BY <2>2, <2>9
    <3>2. Cardinality(rated) \in Nat \ {0} BY <2>5, <2>6, <2>9
    <3>3. (100 * Cardinality(good)) \div Cardinality(rated) \in 0 .. 100 BY <2>4, <2>5, <2>7, <3>2, Zenon
    <3> QED BY <3>1, <3>3
  <2> QED BY <2>8, <2>9
<1> QED BY <1>11, <1>12, <1>14, <1>15 DEF r, recent, R

-----------------------------------------------------------------------------
(* The metrics by place: with each of them numbered as it was recorded.    *)
Placed == Range(metric_buffer) \cup shared.adding \cup usage_rows \cup discarded

NumberedOnce(rows) ==
  /\ IsFiniteSet(rows)
  /\ \A r \in rows : r.id \in Nat /\ r.id < Cardinality(rows)
  /\ \A r, s \in rows : r.id = s.id => r = s

PlacesApart ==
  /\ usage_rows \cap (discarded \cup shared.adding \cup Range(metric_buffer)) = {}
  /\ discarded \cap (shared.adding \cup Range(metric_buffer)) = {}
  /\ shared.adding \cap Range(metric_buffer) = {}

(* Who is committing has the session, and others have taken nothing.       *)
FlushersFit ==
  /\ flusher \in [Flushers -> [at : {"resting", "flushing", "committing"}, batch : SUBSET shared.adding]]
  /\ DOMAIN shared = {"adding", "busy"} /\ shared.busy \in Flushers \cup {NoFlusher}
  /\ \A f \in Flushers : flusher[f].at = "committing" <=> shared.busy = f
  /\ \A f \in Flushers : flusher[f].at # "committing" => flusher[f].batch = {}
  /\ collecting \in {"serving", "stopping", "stopped"}
  /\ collecting = "serving" => flusher[Final] = Resting
  /\ collecting = "stopping" /\ flusher[Final].at # "flushing" => metric_buffer = << >>
  /\ collecting = "stopped" =>
       metric_buffer = << >> /\ shared.adding = {} /\ \A f \in Flushers : flusher[f] = Resting

CollectorIInv == IsSequence(metric_buffer) /\ NumberedOnce(Placed) /\ PlacesApart /\ FlushersFit

SummaryIInv ==
  /\ IsFiniteSet(usage_rows) /\ summary.before \subseteq usage_rows /\ IsSequence(summary.counts)
  /\ \A i \in 1 .. Len(summary.counts) :
       summary.counts[i] \in CountOf(Statements[i], summary.before) .. CountOf(Statements[i], usage_rows)

DailyIInv ==
  /\ DOMAIN daily = Summarizers
  /\ \A s, o \in Summarizers : daily[s] \in {"flushed", "stored"} /\ daily[o] \in {"flushed", "stored"} => s = o

DecisionsIInv ==
  DOMAIN decisions = {"memory", "rows"} /\ \A place \in {"memory", "rows"} : DecisionsFit(decisions[place])

(* Without a mishap what is to be inserted is what its flusher holds.      *)
NothingLost ==
  /\ mishap \in BOOLEAN
  /\ ~mishap =>
       discarded = {} /\ \A point \in shared.adding : shared.busy \in Flushers /\ point \in flusher[shared.busy].batch

UsageIInv == CollectorIInv /\ NothingLost /\ SummaryIInv /\ DailyIInv /\ DecisionsIInv

(* A recorded call is in the buffer, with a flusher, in the table or lost. *)
LEMMA RecordedArePlaced ==
  ASSUME FlushersFit
  PROVE  Recorded = Placed
<1>1. \A f \in Flushers : flusher[f].batch \subseteq shared.adding
  BY DEF FlushersFit
<1>2. Taken \subseteq shared.adding
  BY <1>1 DEF Taken
<1> QED BY <1>2 DEF Recorded, Placed

(* No call is recorded and nothing summarized at first. *)
LEMMA UsageInitIInv ==
  ASSUME UsageAssumption, UsageInit
  PROVE  UsageIInv
<1>1. Range(<< >>) = {} /\ IsSequence(<< >>) /\ Len(<< >>) = 0
  BY EmptySequence DEF Range
<1>2. Placed = {} /\ PlacesApart
  BY <1>1 DEF UsageInit, Placed, PlacesApart
<1>3. NumberedOnce({})
  BY FS_EmptySet DEF NumberedOnce
<1>4. FlushersFit
  BY DEF UsageInit, FlushersFit, Resting, UsageAssumption
<1>5. SummaryIInv
  BY <1>1, FS_EmptySet DEF UsageInit, SummaryIInv, NoSummary
<1>6. DailyIInv
  BY DEF UsageInit, DailyIInv
<1>7. DecisionsIInv
  <2>1. DecisionsFit(<< >>) BY <1>1 DEF DecisionsFit
  <2> QED BY <2>1 DEF UsageInit, DecisionsIInv
<1>8. NothingLost
  BY DEF UsageInit, NothingLost
<1> QED BY <1>1, <1>2, <1>3, <1>4, <1>5, <1>6, <1>7, <1>8 DEF UsageIInv, CollectorIInv, UsageInit

(* What is stored stays, so that counts grow.                              *)
LEMMA CountsGrow ==
  ASSUME NEW rows, NEW more, rows \subseteq more, IsFiniteSet(more), NEW kinds
  PROVE  CountOf(kinds, rows) \in Nat /\ CountOf(kinds, more) \in Nat /\ CountOf(kinds, rows) <= CountOf(kinds, more)
<1> DEFINE R == {metric \in rows : metric.kind \in kinds}
           M == {metric \in more : metric.kind \in kinds}
<1>1. R \subseteq M /\ M \subseteq more
  OBVIOUS
<1> HIDE DEF R, M
<1>2. IsFiniteSet(M) /\ IsFiniteSet(R) /\ Cardinality(R) <= Cardinality(M)
  BY <1>1, FS_Subset
<1> QED BY <1>2, FS_CardinalityType DEF CountOf, R, M

(* The calls that failed are among the calls. *)
LEMMA FailedCallsAreCalls ==
  ASSUME NEW rows, IsFiniteSet(rows)
  PROVE  CountOf({"failed call"}, rows) <= CountOf({"call", "failed call"}, rows)
<1> DEFINE R == {metric \in rows : metric.kind \in {"failed call"}}
           M == {metric \in rows : metric.kind \in {"call", "failed call"}}
<1>1. R \subseteq M /\ M \subseteq rows
  OBVIOUS
<1> HIDE DEF R, M
<1>2. IsFiniteSet(M) /\ Cardinality(R) <= Cardinality(M)
  BY <1>1, FS_Subset
<1> QED BY <1>2 DEF CountOf, R, M

(* A summary is of rows that stay. *)
LEMMA RowsGrow ==
  ASSUME SummaryIInv, usage_rows \subseteq usage_rows', IsFiniteSet(usage_rows'), UNCHANGED summary
  PROVE  SummaryIInv'
<1> SUFFICES ASSUME NEW i \in 1 .. Len(summary.counts)
             PROVE  summary.counts[i] \in CountOf(Statements[i], summary.before) .. CountOf(Statements[i], usage_rows')
  BY DEF SummaryIInv
<1>1. summary.counts[i] \in CountOf(Statements[i], summary.before) .. CountOf(Statements[i], usage_rows)
  BY DEF SummaryIInv
<1>2. CountOf(Statements[i], usage_rows) <= CountOf(Statements[i], usage_rows')
      /\ CountOf(Statements[i], usage_rows) \in Nat /\ CountOf(Statements[i], usage_rows') \in Nat
  BY CountsGrow
<1>3. CountOf(Statements[i], summary.before) \in Nat
  BY CountsGrow DEF SummaryIInv
<1> QED BY <1>1, <1>2, <1>3

(* A row that gets the next number is new. *)
LEMMA NumberedNext ==
  ASSUME NEW rows, NumberedOnce(rows), NEW metric, metric.id = Cardinality(rows)
  PROVE  NumberedOnce(rows \cup {metric}) /\ metric \notin rows
<1> DEFINE n == Cardinality(rows)
<1>1. IsFiniteSet(rows) /\ n \in Nat /\ (\A r \in rows : r.id \in Nat /\ r.id < n)
  BY FS_CardinalityType DEF NumberedOnce
<1>2. metric \notin rows
  BY <1>1
<1>3. IsFiniteSet(rows \cup {metric}) /\ Cardinality(rows \cup {metric}) = n + 1
  BY <1>1, <1>2, FS_AddElement
<1> HIDE DEF n
<1>4. \A r \in rows \cup {metric} : r.id \in Nat /\ r.id < n + 1
  BY <1>1 DEF n
<1>5. \A r \in rows : r.id # metric.id
  BY <1>1 DEF n
<1> QED BY <1>2, <1>3, <1>4, <1>5 DEF NumberedOnce

(* What is appended joins the range. *)
LEMMA RangeOfAppend ==
  ASSUME NEW s, IsSequence(s), NEW x
  PROVE  Range(Append(s, x)) = Range(s) \cup {x}
<1> DEFINE t == Append(s, x)
<1>1. /\ IsSequence(t) /\ Len(t) = Len(s) + 1 /\ Len(s) \in Nat
      /\ t[Len(s) + 1] = x /\ \A i \in 1 .. Len(s) : t[i] = s[i]
  BY AppendToSequence DEF IsSequence
<1>2. DOMAIN s = 1 .. Len(s) /\ DOMAIN t = 1 .. Len(s) + 1
  BY <1>1 DEF IsSequence
<1> HIDE DEF t
<1>3. \A i \in 1 .. Len(s) + 1 : i = Len(s) + 1 \/ i \in 1 .. Len(s)
  BY <1>1
<1>4. Len(s) + 1 \in DOMAIN t /\ 1 .. Len(s) \subseteq DOMAIN t
  BY <1>1, <1>2
<1>5. Range(t) \subseteq Range(s) \cup {x}
  BY <1>1, <1>2, <1>3 DEF Range
<1>6. x \in Range(t) /\ Range(s) \subseteq Range(t)
  BY <1>1, <1>2, <1>4 DEF Range
<1> QED BY <1>5, <1>6 DEF t

(* A task that begins to flush. *)
LEMMA BeginsToFlush ==
  ASSUME UsageAssumption, FlushersFit, NEW f \in Flushers, f # Final, flusher[f] = Resting, collecting = "serving",
         flusher' = [flusher EXCEPT ![f] = [at |-> "flushing", batch |-> {}]], shared' = shared, collecting' = collecting
  PROVE  FlushersFit'
<1> DEFINE x == [at |-> "flushing", batch |-> {}]
           F == [at : {"resting", "flushing", "committing"}, batch : SUBSET shared.adding]
<1>1. x.at = "flushing" /\ x.batch = {} /\ x \in F
  OBVIOUS
<1>2. Final \in Flushers
  BY DEF UsageAssumption
<1>3. flusher \in [Flushers -> F]
  BY DEF FlushersFit
<1>4. flusher[f].at = "resting"
  BY DEF Resting
<1> HIDE DEF x, F
<1>5. flusher' \in [Flushers -> F] /\ \A g \in Flushers : flusher'[g] = IF g = f THEN x ELSE flusher[g]
  BY <1>1, <1>3 DEF x
<1>6. \A g \in Flushers : flusher'[g].at = "committing" <=> shared.busy = g
  <2> TAKE g \in Flushers
  <2>1. flusher[g].at = "committing" <=> shared.busy = g BY DEF FlushersFit
  <2>2. CASE g = f BY <1>1, <1>4, <1>5, <2>1, <2>2
  <2>3. CASE g # f BY <1>5, <2>1, <2>3
  <2> QED BY <2>2, <2>3
<1>7. \A g \in Flushers : flusher'[g].at # "committing" => flusher'[g].batch = {}
  <2> TAKE g \in Flushers
  <2>1. flusher[g].at # "committing" => flusher[g].batch = {} BY DEF FlushersFit
  <2>2. CASE g = f BY <1>1, <1>5, <2>2
  <2>3. CASE g # f BY <1>5, <2>1, <2>3
  <2> QED BY <2>2, <2>3
<1>8. flusher'[Final] = Resting
  BY <1>2, <1>5 DEF FlushersFit
<1> QED BY <1>5, <1>6, <1>7, <1>8 DEF FlushersFit, F

(* record() puts a call into the buffer. *)
LEMMA RecordMetricIInv ==
  ASSUME UsageAssumption, CollectorIInv, RecordMetric
  PROVE  CollectorIInv' /\ usage_rows' = usage_rows
<1>1. PICK kind \in Kinds : metric_buffer' = Append(metric_buffer, [kind |-> kind, id |-> Cardinality(Recorded)])
  BY DEF RecordMetric
<1> DEFINE metric == [kind |-> kind, id |-> Cardinality(Recorded)]
<1>2. metric.id = Cardinality(Placed)
  BY RecordedArePlaced DEF CollectorIInv
<1>3. UNCHANGED <<shared, usage_rows, discarded, collecting>> /\ collecting = "serving"
  BY DEF RecordMetric
<1>4. metric_buffer' = Append(metric_buffer, metric)
  BY <1>1
<1> HIDE DEF metric
<1>5. IsSequence(metric_buffer') /\ Range(metric_buffer') = Range(metric_buffer) \cup {metric}
  BY <1>4, AppendToSequence, RangeOfAppend DEF CollectorIInv
<1>6. Placed' = Placed \cup {metric}
  BY <1>3, <1>5 DEF Placed
<1>7. NumberedOnce(Placed') /\ metric \notin Placed
  BY <1>2, <1>6, NumberedNext DEF CollectorIInv
<1>8. PlacesApart'
  BY <1>3, <1>5, <1>7 DEF CollectorIInv, PlacesApart, Placed
<1>9. FlushersFit'
  <2>1. CASE UNCHANGED flusher
    BY <1>3, <2>1 DEF CollectorIInv, FlushersFit
  <2>2. CASE \E f \in Flushers \ {Periodic, Final} : flusher[f] = Resting /\ Flusher(f, "flushing", {})
    <3>1. PICK f \in Flushers \ {Periodic, Final} : flusher[f] = Resting /\ Flusher(f, "flushing", {}) BY <2>2
    <3>2. flusher' = [flusher EXCEPT ![f] = [at |-> "flushing", batch |-> {}]] BY <3>1 DEF Flusher
    <3> QED BY <1>3, <3>1, <3>2, BeginsToFlush DEF CollectorIInv
  <2> QED BY <2>1, <2>2 DEF RecordMetric
<1> QED BY <1>3, <1>5, <1>7, <1>8, <1>9 DEF CollectorIInv

(* The periodic flush begins. *)
LEMMA PeriodicFlushIInv ==
  ASSUME UsageAssumption, CollectorIInv, PeriodicFlush
  PROVE  CollectorIInv' /\ usage_rows' = usage_rows
<1>1. /\ UNCHANGED <<metric_buffer, shared, usage_rows, discarded, collecting>>
      /\ flusher' = [flusher EXCEPT ![Periodic] = [at |-> "flushing", batch |-> {}]]
      /\ collecting = "serving" /\ flusher[Periodic] = Resting
  BY DEF PeriodicFlush, Flusher
<1>2. Periodic \in Flushers /\ Periodic # Final
  BY DEF UsageAssumption
<1>3. FlushersFit'
  BY <1>1, <1>2, BeginsToFlush DEF CollectorIInv
<1> QED BY <1>1, <1>3 DEF CollectorIInv, Placed, PlacesApart

(* A flush takes what is in the buffer, all of it. *)
LEMMA FlushBufferIInv ==
  ASSUME UsageAssumption, CollectorIInv, NEW f \in Flushers, FlushBuffer(f)
  PROVE  CollectorIInv' /\ usage_rows' = usage_rows
<1> DEFINE busy == IF shared.busy = NoFlusher /\ metric_buffer # << >> THEN f ELSE shared.busy
           adding == shared.adding \cup Range(metric_buffer)
           x == IF busy = f THEN [at |-> "committing", batch |-> Range(metric_buffer)] ELSE [at |-> "resting", batch |-> {}]
<1>1. /\ flusher[f].at = "flushing" /\ metric_buffer' = << >>
      /\ shared' = [adding |-> adding, busy |-> busy]
      /\ UNCHANGED <<usage_rows, discarded, collecting>>
  BY DEF FlushBuffer
<1>2. shared'.busy = busy /\ shared'.adding = adding /\ DOMAIN shared' = {"adding", "busy"}
  BY <1>1
<1>3. flusher' = [flusher EXCEPT ![f] = x]
  BY <1>2 DEF FlushBuffer, Flusher
<1>4. IsSequence(metric_buffer') /\ Range(metric_buffer') = {}
  BY <1>1, EmptySequence DEF Range
<1>5. Placed' = Placed
  BY <1>1, <1>2, <1>4 DEF Placed
<1>6. PlacesApart'
  BY <1>1, <1>2, <1>4 DEF CollectorIInv, PlacesApart
<1>7. FlushersFit'
  <2>1. shared.busy # f BY <1>1 DEF CollectorIInv, FlushersFit
  <2>2. busy \in Flushers \cup {NoFlusher} /\ (busy = f \/ busy = shared.busy) /\ (busy = f => shared.busy = NoFlusher)
    BY <2>1 DEF CollectorIInv, FlushersFit
  <2>3. /\ x \in [at : {"resting", "flushing", "committing"}, batch : SUBSET adding]
        /\ x.at = "committing" <=> busy = f
        /\ x.at # "committing" => x.batch = {}
        /\ x.at # "flushing" /\ (x = Resting \/ x.at = "committing")
    BY DEF Resting
  <2>4. \A g \in Flushers : flusher[g].batch \subseteq adding BY DEF CollectorIInv, FlushersFit
  <2>5. NoFlusher \notin Flushers BY DEF UsageAssumption
  <2>6. collecting = "stopped" => FALSE BY <1>1 DEF CollectorIInv, FlushersFit, Resting
  <2>7. collecting = "serving" => f # Final BY <1>1 DEF CollectorIInv, FlushersFit, Resting
  <2> HIDE DEF x, busy, adding
  <2>8. flusher' \in [Flushers -> [at : {"resting", "flushing", "committing"}, batch : SUBSET adding]]
    BY <1>3, <2>3, <2>4 DEF CollectorIInv, FlushersFit
  <2>9. \A g \in Flushers : flusher'[g] = IF g = f THEN x ELSE flusher[g]
    BY <1>3 DEF CollectorIInv, FlushersFit
  <2>10. \A g \in Flushers : flusher'[g].at = "committing" <=> busy = g
    <3> TAKE g \in Flushers
    <3>1. flusher[g].at = "committing" <=> shared.busy = g BY DEF CollectorIInv, FlushersFit
    <3>2. CASE g = f BY <2>3, <2>9, <3>2
    <3>3. CASE g # f BY <2>2, <2>5, <2>9, <3>1, <3>3
    <3> QED BY <3>2, <3>3
  <2>11. \A g \in Flushers : flusher'[g].at # "committing" => flusher'[g].batch = {}
    <3> TAKE g \in Flushers
    <3>1. flusher[g].at # "committing" => flusher[g].batch = {} BY DEF CollectorIInv, FlushersFit
    <3>2. CASE g = f BY <2>3, <2>9, <3>2
    <3>3. CASE g # f BY <2>9, <3>1, <3>3
    <3> QED BY <3>2, <3>3
  <2>12. collecting = "serving" => flusher'[Final] = Resting
    BY <2>7, <2>9 DEF CollectorIInv, FlushersFit, UsageAssumption
  <2> QED BY <1>1, <1>2, <2>2, <2>6, <2>8, <2>10, <2>11, <2>12 DEF CollectorIInv, FlushersFit
<1> QED BY <1>1, <1>4, <1>5, <1>6, <1>7 DEF CollectorIInv

(* A flush stores its calls or loses them, each of them once. *)
LEMMA CommitBufferIInv ==
  ASSUME UsageAssumption, CollectorIInv, NEW f \in Flushers, CommitBuffer(f) \/ CommitBufferFails(f)
  PROVE  CollectorIInv' /\ usage_rows \subseteq usage_rows'
<1>1. /\ shared.busy = f /\ flusher[f].at = "committing" /\ UNCHANGED <<metric_buffer, collecting>>
      /\ flusher' = [flusher EXCEPT ![f] = [at |-> "resting", batch |-> {}]]
  BY DEF CommitBuffer, CommitBufferFails, Flusher
<1>2. PICK moved \in SUBSET shared.adding :
        /\ flusher[f].batch \subseteq moved
        /\ shared' = [adding |-> shared.adding \ moved, busy |-> NoFlusher]
        /\ \/ usage_rows' = usage_rows \cup moved /\ UNCHANGED discarded
           \/ discarded' = discarded \cup moved /\ UNCHANGED usage_rows
  <2>1. flusher[f].batch \subseteq shared.adding BY DEF CollectorIInv, FlushersFit
  <2>2. CASE CommitBuffer(f)
    <3>1. PICK tardy \in SUBSET (shared.adding \ flusher[f].batch) :
            /\ usage_rows' = usage_rows \cup flusher[f].batch \cup tardy
            /\ shared' = [adding |-> shared.adding \ (flusher[f].batch \cup tardy), busy |-> NoFlusher]
      BY <2>2 DEF CommitBuffer
    <3> DEFINE moved == flusher[f].batch \cup tardy
    <3>2. moved \in SUBSET shared.adding /\ flusher[f].batch \subseteq moved BY <2>1
    <3>3. usage_rows' = usage_rows \cup moved /\ UNCHANGED discarded BY <2>2, <3>1 DEF CommitBuffer
    <3>4. shared' = [adding |-> shared.adding \ moved, busy |-> NoFlusher] BY <3>1
    <3> HIDE DEF moved
    <3> QED BY <3>2, <3>3, <3>4
  <2>3. CASE CommitBufferFails(f)
    <3>1. shared.adding \ shared.adding = {} OBVIOUS
    <3>2. discarded' = discarded \cup shared.adding /\ UNCHANGED usage_rows
          /\ shared' = [adding |-> shared.adding \ shared.adding, busy |-> NoFlusher]
      BY <2>3, <3>1 DEF CommitBufferFails
    <3> QED BY <2>1, <3>2
  <2> QED BY <2>2, <2>3
<1>3. shared'.busy = NoFlusher /\ shared'.adding = shared.adding \ moved /\ DOMAIN shared' = {"adding", "busy"}
  BY <1>2
<1>4. Placed' = Placed
  BY <1>1, <1>2, <1>3 DEF Placed
<1>5. PlacesApart'
  BY <1>1, <1>2, <1>3 DEF CollectorIInv, PlacesApart
<1>6. FlushersFit'
  <2> DEFINE x == [at |-> "resting", batch |-> {}]
  <2>1. \A g \in Flushers : g # f => flusher[g].at # "committing" /\ flusher[g].batch = {}
    BY <1>1 DEF CollectorIInv, FlushersFit
  <2>2. x.at = "resting" /\ x.batch = {} /\ x = Resting
        /\ x \in [at : {"resting", "flushing", "committing"}, batch : SUBSET shared'.adding]
    BY DEF Resting
  <2>3. collecting # "stopped" BY <1>1 DEF CollectorIInv, FlushersFit, Resting
  <2>4. collecting = "serving" => f # Final BY <1>1 DEF CollectorIInv, FlushersFit, Resting
  <2>5. Final \in Flushers /\ NoFlusher \notin Flushers BY DEF UsageAssumption
  <2> HIDE DEF x
  <2>6. \A g \in Flushers : flusher'[g] = IF g = f THEN x ELSE flusher[g]
    BY <1>1 DEF CollectorIInv, FlushersFit, x
  <2>7. flusher' \in [Flushers -> [at : {"resting", "flushing", "committing"}, batch : SUBSET shared'.adding]]
    <3>1. \A g \in Flushers : flusher'[g] \in [at : {"resting", "flushing", "committing"}, batch : SUBSET shared'.adding]
      <4> TAKE g \in Flushers
      <4>1. CASE g = f BY <2>2, <2>6, <4>1
      <4>2. CASE g # f
        <5>1. flusher[g] \in [at : {"resting", "flushing", "committing"}, batch : SUBSET shared.adding]
          BY DEF CollectorIInv, FlushersFit
        <5> QED BY <2>1, <2>6, <4>2, <5>1
      <4> QED BY <4>1, <4>2
    <3>2. flusher' = [g \in Flushers |-> flusher'[g]] BY <1>1 DEF CollectorIInv, FlushersFit
    <3> QED BY <3>1, <3>2
  <2>8. \A g \in Flushers : flusher'[g].at # "committing" /\ flusher'[g].batch = {}
    BY <2>1, <2>2, <2>6
  <2>9. collecting = "serving" => flusher'[Final] = Resting
    BY <2>4, <2>5, <2>6 DEF CollectorIInv, FlushersFit
  <2>10. collecting = "stopping" /\ flusher'[Final].at # "flushing" => metric_buffer = << >>
    <3>1. CASE f = Final BY <1>1, <3>1 DEF CollectorIInv, FlushersFit
    <3>2. CASE f # Final BY <2>5, <2>6, <3>2 DEF CollectorIInv, FlushersFit
    <3> QED BY <3>1, <3>2
  <2> QED BY <1>1, <1>3, <2>3, <2>5, <2>7, <2>8, <2>9, <2>10 DEF CollectorIInv, FlushersFit
<1> QED BY <1>1, <1>2, <1>4, <1>5, <1>6 DEF CollectorIInv

(* stop() cancels the periodic flush wherever it is, and flushes once more. *)
LEMMA StopCollectorIInv ==
  ASSUME UsageAssumption, CollectorIInv, StopCollector
  PROVE  CollectorIInv' /\ usage_rows \subseteq usage_rows'
<1>1. /\ collecting = "serving" /\ collecting' = "stopping" /\ metric_buffer' = metric_buffer
      /\ flusher' = [flusher EXCEPT ![Periodic] = Resting, ![Final].at = "flushing"]
  BY DEF StopCollector
<1>2. Periodic \in Flushers /\ Final \in Flushers /\ Periodic # Final /\ NoFlusher \notin Flushers
  BY DEF UsageAssumption
<1>3. flusher[Final] = Resting /\ shared.busy # Final
  BY <1>1, <1>2 DEF CollectorIInv, FlushersFit, Resting
<1> DEFINE F == [at : {"resting", "flushing", "committing"}, batch : SUBSET shared.adding]
           w == [Resting EXCEPT !.at = "flushing"]
<1>4. w.at = "flushing" /\ w.batch = {} /\ w = [at |-> "flushing", batch |-> {}]
  BY DEF Resting
<1>5. flusher \in [Flushers -> F]
  BY DEF CollectorIInv, FlushersFit
<1> HIDE DEF F
<1>6. DOMAIN flusher' = Flushers /\ flusher' = [g \in Flushers |-> flusher'[g]]
      /\ \A g \in Flushers : flusher'[g] = IF g = Final THEN w ELSE IF g = Periodic THEN Resting ELSE flusher[g]
  BY <1>1, <1>2, <1>3, <1>5
<1> DEFINE Moves(kept, dropped) ==
             /\ kept \subseteq shared.adding /\ dropped \subseteq shared.adding /\ kept \cap dropped = {}
             /\ usage_rows' = usage_rows \cup kept /\ discarded' = discarded \cup dropped
             /\ shared'.adding = shared.adding \ (kept \cup dropped)
             /\ shared'.busy = IF shared.busy = Periodic THEN NoFlusher ELSE shared.busy
             /\ DOMAIN shared' = {"adding", "busy"}
             /\ shared.busy # Periodic => shared' = shared
<1>7. PICK kept, dropped : Moves(kept, dropped)
  <2>1. CASE shared.busy = Periodic
    <3> DEFINE batch == flusher[Periodic].batch
    <3>1. batch \subseteq shared.adding BY <1>2 DEF CollectorIInv, FlushersFit
    <3>2. shared' = [adding |-> {}, busy |-> NoFlusher] BY <2>1 DEF StopCollector
    <3>3. \/ usage_rows' = usage_rows \cup batch /\ discarded' = discarded \cup (shared.adding \ batch)
          \/ discarded' = discarded \cup shared.adding /\ UNCHANGED usage_rows
      BY <2>1 DEF StopCollector
    <3> HIDE DEF batch
    <3>4. shared'.adding = {} /\ shared'.busy = NoFlusher /\ DOMAIN shared' = {"adding", "busy"} BY <3>2
    <3>5. CASE usage_rows' = usage_rows \cup batch /\ discarded' = discarded \cup (shared.adding \ batch)
      <4>1. Moves(batch, shared.adding \ batch) BY <2>1, <3>1, <3>4, <3>5
      <4> HIDE DEF Moves
      <4> QED BY <4>1
    <3>6. CASE discarded' = discarded \cup shared.adding /\ UNCHANGED usage_rows
      <4>1. Moves({}, shared.adding) BY <2>1, <3>4, <3>6
      <4> HIDE DEF Moves
      <4> QED BY <4>1
    <3> QED BY <3>3, <3>5, <3>6
  <2>2. CASE shared.busy # Periodic
    <3>1. UNCHANGED <<shared, usage_rows, discarded>> BY <2>2 DEF StopCollector
    <3>2. DOMAIN shared = {"adding", "busy"} BY DEF CollectorIInv, FlushersFit
    <3>3. Moves({}, {}) BY <2>2, <3>1, <3>2
    <3> HIDE DEF Moves
    <3> QED BY <3>3
  <2> QED BY <2>1, <2>2
<1>8. Placed' = Placed
  BY <1>1, <1>7 DEF Placed
<1>9. PlacesApart'
  BY <1>1, <1>7 DEF CollectorIInv, PlacesApart
<1>10. FlushersFit'
  <2> DEFINE G == [at : {"resting", "flushing", "committing"}, batch : SUBSET shared'.adding]
  <2>1. \A g \in Flushers : flusher'[g] \in G
    <3> TAKE g \in Flushers
    <3>1. CASE g = Final BY <1>4, <1>6, <3>1
    <3>2. CASE g = Periodic BY <1>2, <1>6, <3>2 DEF Resting
    <3>3. CASE g # Final /\ g # Periodic
      <4>1. flusher[g] \in F BY <1>5
      <4>2. CASE shared.busy = Periodic
        <5>1. flusher[g].batch = {} BY <3>3, <4>2 DEF CollectorIInv, FlushersFit
        <5> QED BY <1>6, <3>3, <4>1, <5>1 DEF F
      <4>3. CASE shared.busy # Periodic BY <1>6, <1>7, <3>3, <4>1, <4>3 DEF F
      <4> QED BY <4>2, <4>3
    <3> QED BY <3>1, <3>2, <3>3
  <2>2. flusher' \in [Flushers -> G]
    <3> HIDE DEF G
    <3> QED BY <1>6, <2>1
  <2>3. \A g \in Flushers : flusher'[g].at = "committing" <=> shared'.busy = g
    <3> TAKE g \in Flushers
    <3>1. flusher[g].at = "committing" <=> shared.busy = g BY DEF CollectorIInv, FlushersFit
    <3>2. CASE g = Final BY <1>2, <1>3, <1>4, <1>6, <1>7, <3>2
    <3>3. CASE g = Periodic BY <1>2, <1>6, <1>7, <3>3 DEF Resting
    <3>4. CASE g # Final /\ g # Periodic BY <1>2, <1>6, <1>7, <3>1, <3>4
    <3> QED BY <3>2, <3>3, <3>4
  <2>4. \A g \in Flushers : flusher'[g].at # "committing" => flusher'[g].batch = {}
    <3> TAKE g \in Flushers
    <3>1. flusher[g].at # "committing" => flusher[g].batch = {} BY DEF CollectorIInv, FlushersFit
    <3>2. CASE g = Final BY <1>4, <1>6, <3>2
    <3>3. CASE g = Periodic BY <1>2, <1>6, <3>3 DEF Resting
    <3>4. CASE g # Final /\ g # Periodic BY <1>6, <3>1, <3>4
    <3> QED BY <3>2, <3>3, <3>4
  <2>5. flusher'[Final].at = "flushing" BY <1>2, <1>4, <1>6
  <2>6. shared'.busy \in Flushers \cup {NoFlusher} BY <1>7 DEF CollectorIInv, FlushersFit
  <2> QED BY <1>1, <1>7, <2>2, <2>3, <2>4, <2>5, <2>6 DEF FlushersFit
<1> QED BY <1>1, <1>7, <1>8, <1>9, <1>10 DEF CollectorIInv

(* The collector ends with its last flush. *)
LEMMA EndCollectorIInv ==
  ASSUME UsageAssumption, CollectorIInv, EndCollector
  PROVE  CollectorIInv' /\ usage_rows' = usage_rows
<1>1. /\ collecting = "stopping" /\ collecting' = "stopped" /\ flusher[Final] = Resting
      /\ flusher' = [f \in Flushers |-> Resting] /\ discarded' = discarded \cup shared.adding
      /\ shared' = [adding |-> {}, busy |-> NoFlusher] /\ UNCHANGED <<metric_buffer, usage_rows>>
  BY DEF EndCollector
<1>2. metric_buffer = << >>
  BY <1>1 DEF CollectorIInv, FlushersFit, Resting
<1>3. Placed' = Placed /\ PlacesApart'
  BY <1>1 DEF CollectorIInv, Placed, PlacesApart
<1>4. FlushersFit'
  BY <1>1, <1>2 DEF FlushersFit, Resting, UsageAssumption
<1> QED BY <1>1, <1>3, <1>4 DEF CollectorIInv

(* The steps of the collector, which leave the reports as they are.        *)
CollectorNext ==
  \/ RecordMetric \/ PeriodicFlush
  \/ \E f \in Flushers : FlushBuffer(f) \/ CommitBuffer(f) \/ CommitBufferFails(f)
  \/ StopCollector \/ EndCollector

(* A metric is not lost by a step that is no mishap. *)
LEMMA NothingLostNext ==
  ASSUME UsageAssumption, CollectorIInv, NothingLost, CollectorNext
  PROVE  NothingLost'
<1> DEFINE Carried(point) == shared.busy \in Flushers /\ point \in flusher[shared.busy].batch
<1>0. mishap \in BOOLEAN /\ (~mishap => discarded = {} /\ \A point \in shared.adding : Carried(point))
  BY DEF NothingLost
<1>1. /\ DOMAIN flusher = Flushers /\ NoFlusher \notin Flushers /\ Periodic \in Flushers
      /\ \A f \in Flushers : flusher[f].at = "committing" <=> shared.busy = f
  BY DEF CollectorIInv, FlushersFit, UsageAssumption
<1>2. ASSUME UNCHANGED <<shared, discarded, mishap>>, NEW f, NEW x, flusher' = [flusher EXCEPT ![f] = x], shared.busy # f
      PROVE  NothingLost'
  <2>1. \A g \in Flushers : g # f => flusher'[g] = flusher[g] BY <1>1, <1>2
  <2> QED BY <1>0, <1>2, <2>1 DEF NothingLost
<1>3. ASSUME UNCHANGED <<shared, discarded, mishap, flusher>> PROVE NothingLost'
  BY <1>0, <1>3 DEF NothingLost
<1>4. CASE RecordMetric
  <2>1. UNCHANGED <<shared, discarded, mishap>> BY <1>4 DEF RecordMetric
  <2>2. CASE UNCHANGED flusher BY <1>3, <2>1, <2>2
  <2>3. CASE \E f \in Flushers \ {Periodic, Final} : flusher[f] = Resting /\ Flusher(f, "flushing", {})
    <3>1. PICK f \in Flushers : flusher[f] = Resting /\ Flusher(f, "flushing", {}) BY <2>3
    <3>2. shared.busy # f BY <1>1, <3>1 DEF Resting
    <3> QED BY <1>2, <2>1, <3>1, <3>2 DEF Flusher
  <2> QED BY <1>4, <2>2, <2>3 DEF RecordMetric
<1>5. CASE PeriodicFlush
  <2>1. UNCHANGED <<shared, discarded, mishap>> /\ Flusher(Periodic, "flushing", {}) /\ shared.busy # Periodic
    BY <1>1, <1>5 DEF PeriodicFlush, Resting
  <2> QED BY <1>2, <2>1 DEF Flusher
<1>6. ASSUME NEW f \in Flushers, FlushBuffer(f) PROVE NothingLost'
  <2> DEFINE busy == IF shared.busy = NoFlusher /\ metric_buffer # << >> THEN f ELSE shared.busy
             met == shared.busy # NoFlusher /\ metric_buffer # << >>
  <2>1. /\ flusher[f].at = "flushing" /\ discarded' = discarded /\ mishap' = (mishap \/ met)
        /\ shared' = [adding |-> shared.adding \cup Range(metric_buffer), busy |-> busy]
    BY <1>6 DEF FlushBuffer
  <2>2. shared'.busy = busy /\ shared'.adding = shared.adding \cup Range(metric_buffer) BY <2>1
  <2>3. \E x : flusher' = [flusher EXCEPT ![f] = x] /\ (busy = f => x.batch = Range(metric_buffer))
    <3>1. CASE busy = f
      <4>1. Flusher(f, "committing", Range(metric_buffer)) BY <1>6, <2>2, <3>1 DEF FlushBuffer
      <4>2. [at |-> "committing", batch |-> Range(metric_buffer)].batch = Range(metric_buffer) OBVIOUS
      <4> QED BY <4>1, <4>2 DEF Flusher
    <3>2. CASE busy # f
      <4>1. Flusher(f, "resting", {}) BY <1>6, <2>2, <3>2 DEF FlushBuffer
      <4> QED BY <3>2, <4>1 DEF Flusher
    <3> QED BY <3>1, <3>2
  <2>4. PICK x : flusher' = [flusher EXCEPT ![f] = x] /\ (busy = f => x.batch = Range(metric_buffer)) BY <2>3
  <2>5. flusher'[f] = x /\ \A g \in Flushers : g # f => flusher'[g] = flusher[g] BY <1>1, <2>4
  <2>6. shared.busy # f BY <1>1, <2>1
  <2>7. mishap' \in BOOLEAN BY <1>0, <2>1
  <2>8. ASSUME ~mishap', NEW point \in shared'.adding PROVE shared'.busy \in Flushers /\ point \in flusher'[shared'.busy].batch
    <3>1. ~mishap /\ ~met /\ \A r \in shared.adding : Carried(r) BY <1>0, <2>1, <2>8
    <3>2. CASE shared.busy = NoFlusher
      <4>1. shared.adding = {} BY <1>1, <3>1, <3>2
      <4>2. point \in Range(metric_buffer) BY <2>2, <2>8, <4>1
      <4>3. metric_buffer # << >>
        <5>1. Range(<< >>) = {} BY DEF Range
        <5> QED BY <4>2, <5>1
      <4> QED BY <2>2, <2>4, <2>5, <3>2, <4>2, <4>3
    <3>3. CASE shared.busy # NoFlusher
      <4>1. metric_buffer = << >> BY <3>1, <3>3
      <4>2. Range(<< >>) = {} BY DEF Range
      <4>3. point \in shared.adding /\ busy = shared.busy BY <2>2, <2>8, <3>3, <4>1, <4>2
      <4> QED BY <2>2, <2>5, <2>6, <3>1, <4>3
    <3> QED BY <3>2, <3>3
  <2>9. ~mishap' => discarded' = {} BY <1>0, <2>1
  <2> QED BY <2>7, <2>8, <2>9 DEF NothingLost
<1>7. ASSUME NEW f \in Flushers, CommitBuffer(f) PROVE NothingLost'
  <2>1. PICK tardy \in SUBSET (shared.adding \ flusher[f].batch) :
          shared' = [adding |-> shared.adding \ (flusher[f].batch \cup tardy), busy |-> NoFlusher]
    BY <1>7 DEF CommitBuffer
  <2>2. shared.busy = f /\ discarded' = discarded /\ mishap' = mishap BY <1>7 DEF CommitBuffer
  <2>3. shared'.adding \subseteq shared.adding \ flusher[f].batch BY <2>1
  <2>4. ~mishap => shared'.adding = {} BY <1>0, <2>2, <2>3
  <2> QED BY <1>0, <2>2, <2>4 DEF NothingLost
<1>8. ASSUME NEW f \in Flushers, CommitBufferFails(f) PROVE NothingLost'
  BY <1>8 DEF CommitBufferFails, NothingLost
<1>9. CASE StopCollector
  <2>1. mishap' = (mishap \/ shared.busy = Periodic) /\ mishap' \in BOOLEAN BY <1>0, <1>9 DEF StopCollector
  <2>2. CASE shared.busy = Periodic BY <2>1, <2>2 DEF NothingLost
  <2>3. CASE shared.busy # Periodic
    <3>1. UNCHANGED <<shared, discarded>> /\ mishap' = mishap BY <1>0, <1>9, <2>1, <2>3 DEF StopCollector
    <3>2. \A g \in Flushers : g # Periodic /\ g # Final => flusher'[g] = flusher[g] BY <1>1, <1>9 DEF StopCollector
    <3>3. shared.busy # Final
      <4>1. flusher[Final].at # "committing" /\ Final \in Flushers
        BY <1>9 DEF StopCollector, CollectorIInv, FlushersFit, Resting, UsageAssumption
      <4> QED BY <1>1, <4>1
    <3> QED BY <1>0, <2>3, <3>1, <3>2, <3>3 DEF NothingLost
  <2> QED BY <2>2, <2>3
<1>10. CASE EndCollector
  <2>1. /\ discarded' = discarded \cup shared.adding /\ mishap' = (mishap \/ shared.busy # NoFlusher)
        /\ shared' = [adding |-> {}, busy |-> NoFlusher]
    BY <1>10 DEF EndCollector
  <2>2. shared'.adding = {} /\ mishap' \in BOOLEAN BY <1>0, <2>1
  <2>3. ~mishap' => discarded' = {} BY <1>0, <1>1, <2>1
  <2> QED BY <2>2, <2>3 DEF NothingLost
<1> QED BY <1>4, <1>5, <1>6, <1>7, <1>8, <1>9, <1>10 DEF CollectorNext

(* Every step of the collector preserves the invariant. *)
LEMMA CollectorNextIInv ==
  ASSUME UsageAssumption, UsageIInv, CollectorNext
  PROVE  UsageIInv'
<1>1. CollectorIInv' /\ usage_rows \subseteq usage_rows'
  <2>1. CollectorIInv BY DEF UsageIInv
  <2> QED BY <2>1, RecordMetricIInv, PeriodicFlushIInv, FlushBufferIInv, CommitBufferIInv, StopCollectorIInv, EndCollectorIInv
        DEF CollectorNext
<1>2. UNCHANGED <<summary, daily, decisions>>
  BY DEF CollectorNext, RecordMetric, PeriodicFlush, FlushBuffer, CommitBuffer, CommitBufferFails, StopCollector,
         EndCollector, KeepReports
<1>3. IsFiniteSet(usage_rows')
  <2>1. usage_rows' \subseteq Placed' BY DEF Placed
  <2> QED BY <1>1, <2>1, FS_Subset DEF CollectorIInv, NumberedOnce
<1>4. SummaryIInv'
  BY <1>1, <1>2, <1>3, RowsGrow DEF UsageIInv
<1>5. DailyIInv' /\ DecisionsIInv'
  BY <1>2 DEF UsageIInv, DailyIInv, DecisionsIInv
<1>6. NothingLost'
  BY NothingLostNext DEF UsageIInv
<1> QED BY <1>1, <1>4, <1>5, <1>6 DEF UsageIInv

(* The collector is left alone by what reads its table. *)
LEMMA CollectorRests ==
  ASSUME UsageIInv, UNCHANGED collectorVars
  PROVE  CollectorIInv' /\ NothingLost' /\ usage_rows' = usage_rows
<1>1. CollectorIInv' /\ usage_rows' = usage_rows
  BY DEF UsageIInv, collectorVars, CollectorIInv, Placed, PlacesApart, FlushersFit
<1>2. NothingLost'
  BY DEF UsageIInv, collectorVars, NothingLost
<1> QED BY <1>1, <1>2

(* A summary reads, in one statement after the other, rows that only grow. *)
LEMMA GetUsageSummaryIInv ==
  ASSUME UsageIInv, GetUsageSummary
  PROVE  UsageIInv'
<1> DEFINE n == Len(summary.counts) + 1
           count == CountOf(Statements[n], usage_rows)
           counts == Append(summary.counts, count)
           before == IF summary.counts = << >> THEN usage_rows ELSE summary.before
           x == [counts |-> counts, before |-> before]
<1>1. summary' = x /\ UNCHANGED <<collectorVars, daily, decisions>>
  BY DEF GetUsageSummary
<1>2. CollectorIInv' /\ NothingLost' /\ usage_rows' = usage_rows
  BY <1>1, CollectorRests
<1>3. SummaryIInv
  BY DEF UsageIInv
<1>4. /\ IsSequence(counts) /\ Len(counts) = n /\ Len(summary.counts) \in Nat
      /\ counts[n] = count /\ \A i \in 1 .. Len(summary.counts) : counts[i] = summary.counts[i]
  BY <1>3, AppendToSequence DEF SummaryIInv, IsSequence
<1>5. x.counts = counts /\ x.before = before
  OBVIOUS
<1>6. before \subseteq usage_rows /\ IsFiniteSet(usage_rows)
  BY <1>3 DEF SummaryIInv
<1>7. 1 .. Len(summary.counts) # {} => before = summary.before
  <2>1. summary.counts = << >> => Len(summary.counts) = 0 BY EmptySequence
  <2>2. summary.counts = << >> => 1 .. Len(summary.counts) = {} BY <2>1
  <2> QED BY <2>2
<1> HIDE DEF x, before, counts
<1>8. \A i \in 1 .. n : counts[i] \in CountOf(Statements[i], before) .. CountOf(Statements[i], usage_rows)
  <2> TAKE i \in 1 .. n
  <2>1. CASE i = n
    <3>1. CountOf(Statements[n], before) \in Nat /\ count \in Nat /\ CountOf(Statements[n], before) <= count
      BY <1>6, CountsGrow
    <3>2. count \in CountOf(Statements[n], before) .. count
      <4> HIDE DEF count
      <4> QED BY <3>1
    <3> QED BY <1>4, <2>1, <3>2
  <2>2. CASE i # n
    <3>1. i \in 1 .. Len(summary.counts) BY <1>4, <2>2
    <3>2. summary.counts[i] \in CountOf(Statements[i], summary.before) .. CountOf(Statements[i], usage_rows)
      BY <1>3, <3>1 DEF SummaryIInv
    <3>3. before = summary.before BY <1>7, <3>1
    <3> QED BY <1>4, <3>1, <3>2, <3>3
  <2> QED BY <2>1, <2>2
<1>9. SummaryIInv'
  BY <1>1, <1>2, <1>4, <1>5, <1>6, <1>8 DEF SummaryIInv
<1> QED BY <1>1, <1>2, <1>9 DEF UsageIInv, DailyIInv, DecisionsIInv

(* A daily summary is made and committed. *)
LEMMA DailySummaryIInv ==
  ASSUME UsageIInv, NEW s \in Summarizers, GenerateDailySummary(s) \/ CommitDailySummary(s)
  PROVE  UsageIInv'
<1>1. UNCHANGED <<collectorVars, summary, decisions>>
  BY DEF GenerateDailySummary, CommitDailySummary
<1>2. CollectorIInv' /\ NothingLost' /\ usage_rows' = usage_rows
  BY <1>1, CollectorRests
<1>3. SummaryIInv'
  BY <1>1, <1>2 DEF UsageIInv, SummaryIInv
<1>4. DailyIInv'
  <2> DEFINE Made(v) == v \in {"flushed", "stored"}
  <2>1. PICK to : daily' = [daily EXCEPT ![s] = to] /\ (Made(to) => \A o \in Summarizers : Made(daily[o]) => o = s)
    <3>1. CASE GenerateDailySummary(s)
      <4> DEFINE to == IF \E o \in Summarizers : daily[o] = "stored" THEN "refused" ELSE "flushed"
      <4>1. daily' = [daily EXCEPT ![s] = to] /\ \A o \in Summarizers : daily[o] # "flushed"
        BY <3>1 DEF GenerateDailySummary
      <4>2. Made(to) => \A o \in Summarizers : ~Made(daily[o]) BY <4>1
      <4> QED BY <4>1, <4>2
    <3>2. CASE CommitDailySummary(s)
      <4>1. daily[s] = "flushed" /\ \E to \in {"stored", "idle"} : daily' = [daily EXCEPT ![s] = to]
        BY <3>2 DEF CommitDailySummary
      <4> QED BY <4>1 DEF UsageIInv, DailyIInv
    <3> QED BY <3>1, <3>2
  <2>2. \A o \in Summarizers : Made(daily'[o]) => (o = s /\ Made(to)) \/ (o # s /\ Made(daily[o]))
    <3> TAKE o \in Summarizers
    <3>1. CASE o # s BY <2>1, <3>1
    <3>2. CASE o = s BY <2>1, <3>2 DEF UsageIInv, DailyIInv
    <3> QED BY <3>1, <3>2
  <2>3. \A o, p \in Summarizers : Made(daily[o]) /\ Made(daily[p]) => o = p BY DEF UsageIInv, DailyIInv
  <2>4. DOMAIN daily' = Summarizers BY <2>1 DEF UsageIInv, DailyIInv
  <2> QED BY <2>1, <2>2, <2>3, <2>4 DEF DailyIInv
<1> QED BY <1>1, <1>2, <1>3, <1>4 DEF UsageIInv, DecisionsIInv

(* A decision of the router is recorded, ages or is forgotten. *)
LEMMA DecisionsNextIInv ==
  ASSUME UsageIInv, (\E place \in {"memory", "rows"} : RecordDecision(place)) \/ DecisionsAge \/ ClearHistory
  PROVE  UsageIInv'
<1>1. UNCHANGED <<collectorVars, summary, daily>>
  BY DEF RecordDecision, DecisionsAge, ClearHistory
<1>2. CollectorIInv' /\ NothingLost' /\ usage_rows' = usage_rows
  BY <1>1, CollectorRests
<1>3. SummaryIInv' /\ DailyIInv'
  BY <1>1, <1>2 DEF UsageIInv, SummaryIInv, DailyIInv
<1>4. ASSUME NEW place \in {"memory", "rows"}, RecordDecision(place) PROVE DecisionsIInv'
  <2>1. PICK tier \in Range(Tiers) \cup {"other"}, quality \in {"unrated", "good", "bad"}, tokens \in {0, 7} :
          decisions' = [decisions EXCEPT ![place] =
                          Append(@, [tier |-> tier, quality |-> quality, tokens |-> tokens, recent |-> TRUE])]
    BY <1>4 DEF RecordDecision
  <2> DEFINE d == [tier |-> tier, quality |-> quality, tokens |-> tokens, recent |-> TRUE]
             ds == Append(decisions[place], d)
  <2>2. "tokens" \in DOMAIN d /\ d.tokens \in Nat OBVIOUS
  <2>3. decisions' = [decisions EXCEPT ![place] = ds] BY <2>1
  <2>4. DecisionsFit(decisions[place]) BY DEF UsageIInv, DecisionsIInv
  <2> HIDE DEF d
  <2>5. /\ IsSequence(ds) /\ Len(ds) = Len(decisions[place]) + 1 /\ Len(decisions[place]) \in Nat
        /\ ds[Len(decisions[place]) + 1] = d /\ \A i \in 1 .. Len(decisions[place]) : ds[i] = decisions[place][i]
    BY <2>4, AppendToSequence DEF DecisionsFit, IsSequence
  <2> HIDE DEF ds
  <2>6. DecisionsFit(ds)
    <3> SUFFICES ASSUME NEW i \in 1 .. Len(ds) PROVE "tokens" \in DOMAIN ds[i] /\ ds[i].tokens \in Nat
      BY <2>5 DEF DecisionsFit
    <3>1. CASE i = Len(decisions[place]) + 1 BY <2>2, <2>5, <3>1
    <3>2. CASE i # Len(decisions[place]) + 1
      <4>1. i \in 1 .. Len(decisions[place]) BY <2>5, <3>2
      <4> QED BY <2>4, <2>5, <4>1 DEF DecisionsFit
    <3> QED BY <3>1, <3>2
  <2> QED BY <2>3, <2>6 DEF UsageIInv, DecisionsIInv
<1>5. ASSUME ClearHistory PROVE DecisionsIInv'
  <2>1. decisions' = [decisions EXCEPT !.memory = << >>] BY <1>5 DEF ClearHistory
  <2>2. DecisionsFit(<< >>) BY EmptySequence DEF DecisionsFit
  <2> QED BY <2>1, <2>2 DEF UsageIInv, DecisionsIInv
<1>6. ASSUME DecisionsAge PROVE DecisionsIInv'
  <2> DEFINE Aged(ds) == [i \in DOMAIN ds |-> [ds[i] EXCEPT !.recent = FALSE]]
  <2>1. decisions' = [decisions EXCEPT !.memory = Aged(@), !.rows = Aged(@)] BY <1>6 DEF DecisionsAge
  <2>2. ASSUME NEW ds, DecisionsFit(ds) PROVE DecisionsFit(Aged(ds))
    <3>1. DOMAIN ds = 1 .. Len(ds) /\ Len(ds) \in Nat BY <2>2 DEF DecisionsFit, IsSequence
    <3>2. \A i \in 1 .. Len(ds) : "tokens" \in DOMAIN ds[i] /\ ds[i].tokens \in Nat BY <2>2 DEF DecisionsFit
    <3> DEFINE ys == Aged(ds)
    <3>3. ys = [i \in 1 .. Len(ds) |-> ys[i]] BY <3>1
    <3>4. \A i \in 1 .. Len(ds) : "tokens" \in DOMAIN ys[i] /\ ys[i].tokens \in Nat BY <3>1, <3>2
    <3>5. Len(ys) = Len(ds)
      <4> HIDE DEF ys
      <4> QED BY <3>1, <3>3
    <3> HIDE DEF ys
    <3>6. DecisionsFit(ys) BY <3>1, <3>3, <3>4, <3>5 DEF DecisionsFit, IsSequence
    <3> QED BY <3>6 DEF ys
  <2> HIDE DEF Aged
  <2> QED BY <2>1, <2>2 DEF UsageIInv, DecisionsIInv
<1> QED BY <1>2, <1>3, <1>4, <1>5, <1>6 DEF UsageIInv

(* Every step of metering and savings preserves the invariant. *)
LEMMA UsageNextIInv ==
  ASSUME UsageAssumption, UsageIInv, [UsageNext]_usageVars
  PROVE  UsageIInv'
<1>1. CASE UNCHANGED usageVars
  BY <1>1 DEF usageVars, UsageIInv, CollectorIInv, NothingLost, Placed, PlacesApart, FlushersFit, SummaryIInv,
             DailyIInv, DecisionsIInv
<1>2. CASE UsageNext
  BY <1>2, CollectorNextIInv, GetUsageSummaryIInv, DailySummaryIInv, DecisionsNextIInv DEF UsageNext, CollectorNext
<1> QED BY <1>1, <1>2

(* The invariant implies what metering and savings promise. *)
LEMMA UsageIInvSound ==
  ASSUME UsageAssumption, UsageIInv
  PROVE  UsageIsSound
<1>1. Recorded = Placed
  BY RecordedArePlaced DEF UsageIInv, CollectorIInv
<1>2. MetricsAreKeptOnce
  <2>1. PlacesApart /\ FlushersFit /\ NumberedOnce(Placed) BY DEF UsageIInv, CollectorIInv
  <2>2. Cardinality({metric.id : metric \in Recorded}) = Cardinality(Recorded)
    <3> DEFINE P == Placed
               ids == {metric.id : metric \in P}
               f == [metric \in P |-> metric.id]
    <3>1. \A r, s \in P : r.id = s.id => r = s BY <2>1 DEF NumberedOnce
    <3>2. f \in Bijection(P, ids)
      <4>1. f \in [P -> ids] /\ \A id \in ids : \E r \in P : f[r] = id OBVIOUS
      <4>2. \A r, s \in P : f[r] = f[s] => r = s BY <3>1
      <4> HIDE DEF f, P, ids
      <4> QED BY <4>1, <4>2 DEF Bijection, Injection, Surjection, IsInjective
    <3>3. IsFiniteSet(P) BY <2>1 DEF NumberedOnce
    <3> HIDE DEF f, P, ids
    <3>4. Cardinality(P) = Cardinality(ids) BY <3>2, <3>3, FS_Bijection DEF ExistsBijection
    <3> QED BY <1>1, <3>4 DEF P, ids
  <2>3. \A f \in Flushers : flusher[f].batch \subseteq shared.adding BY <2>1 DEF FlushersFit
  <2>4. collecting = "stopped" => Recorded = usage_rows \cup discarded
    <3> SUFFICES ASSUME collecting = "stopped" PROVE Recorded = usage_rows \cup discarded OBVIOUS
    <3>1. metric_buffer = << >> /\ shared.adding = {} BY <2>1 DEF FlushersFit
    <3>2. Range(<< >>) = {} BY DEF Range
    <3> QED BY <1>1, <3>1, <3>2 DEF Placed
  <2>5. discarded # {} => mishap BY DEF UsageIInv, NothingLost
  <2> QED BY <2>1, <2>2, <2>3, <2>4, <2>5 DEF MetricsAreKeptOnce, PlacesApart
<1>3. FiguresAgree
  <2> DEFINE n == Len(summary.counts)
             c == summary.counts
  <2>1. SummaryIInv /\ n \in Nat /\ DOMAIN c = 1 .. n BY DEF UsageIInv, SummaryIInv, IsSequence
  <2>2. \A i \in DOMAIN c : c[i] \in CountOf(Statements[i], summary.before) .. CountOf(Statements[i], usage_rows)
    BY <2>1 DEF SummaryIInv
  <2>3. Len(c) = Len(Statements) /\ summary.before = usage_rows => c[3] <= c[1] /\ c[4] = c[2]
    <3> SUFFICES ASSUME Len(c) = Len(Statements), summary.before = usage_rows PROVE c[3] <= c[1] /\ c[4] = c[2]
      OBVIOUS
    <3>1. /\ Len(Statements) = 4 /\ Statements[1] = {"call", "failed call"} /\ Statements[2] = {"tokens"}
          /\ Statements[3] = {"failed call"} /\ Statements[4] = {"tokens"}
      BY DEF Statements
    <3>2. \A i \in 1 .. 4 : c[i] \in CountOf(Statements[i], usage_rows) .. CountOf(Statements[i], usage_rows)
      BY <2>1, <2>2, <3>1
    <3>3. IsFiniteSet(usage_rows) BY <2>1 DEF SummaryIInv
    <3>4. \A i \in 1 .. 4 : c[i] = CountOf(Statements[i], usage_rows)
      <4> TAKE i \in 1 .. 4
      <4>1. CountOf(Statements[i], usage_rows) \in Nat BY <3>3, CountsGrow
      <4> QED BY <3>2, <4>1
    <3>5. c[1] = CountOf({"call", "failed call"}, usage_rows) /\ c[2] = CountOf({"tokens"}, usage_rows)
          /\ c[3] = CountOf({"failed call"}, usage_rows) /\ c[4] = CountOf({"tokens"}, usage_rows)
      <4>1. 1 \in 1 .. 4 /\ 2 \in 1 .. 4 /\ 3 \in 1 .. 4 /\ 4 \in 1 .. 4 OBVIOUS
      <4> HIDE DEF c
      <4> QED BY <3>1, <3>4, <4>1
    <3>6. CountOf({"failed call"}, usage_rows) <= CountOf({"call", "failed call"}, usage_rows)
      BY <3>3, FailedCallsAreCalls
    <3> QED BY <3>5, <3>6
  <2>4. ErrorRate(usage_rows) \in 0 .. 100
    <3> DEFINE x == CountOf({"call", "failed call"}, usage_rows)
               y == CountOf({"failed call"}, usage_rows)
    <3>1. IsFiniteSet(usage_rows) BY <2>1 DEF SummaryIInv
    <3>2. x \in Nat /\ y \in Nat /\ y <= x BY <3>1, CountsGrow, FailedCallsAreCalls
    <3>3. ErrorRate(usage_rows) = IF x = 0 THEN 0 ELSE (100 * y) \div x BY DEF ErrorRate
    <3> HIDE DEF x, y
    <3>4. CASE x = 0 BY <3>3, <3>4
    <3>5. CASE x # 0
      <4> DEFINE p == 100 * y
      <4>1. p \in 0 .. 100 * x BY <3>2
      <4>2. ErrorRate(usage_rows) = p \div x BY <3>3, <3>5
      <4> HIDE DEF p
      <4>3. p \div x \in 0 .. 100 BY <3>2, <3>5, <4>1
      <4> QED BY <4>2, <4>3
    <3> QED BY <3>4, <3>5
  <2>5. Cardinality({s \in Summarizers : daily[s] \in {"flushed", "stored"}}) <= 1
    <3> DEFINE made == {s \in Summarizers : daily[s] \in {"flushed", "stored"}}
    <3>1. \A s, o \in made : s = o BY DEF UsageIInv, DailyIInv
    <3> HIDE DEF made
    <3>2. CASE made = {}
      <4>1. Cardinality(made) = 0 BY <3>2, FS_EmptySet
      <4> QED BY <4>1 DEF made
    <3>3. CASE made # {}
      <4>1. PICK s : made = {s} BY <3>1, <3>3
      <4>2. Cardinality(made) = 1 BY <4>1, FS_Singleton
      <4> QED BY <4>2 DEF made
    <3> QED BY <3>2, <3>3
  <2> QED BY <2>2, <2>3, <2>4, <2>5 DEF FiguresAgree
<1>4. SavingsAreBounded
  BY SavingsFit DEF UsageIInv, DecisionsIInv, SavingsAreBounded
<1> QED BY <1>2, <1>3, <1>4 DEF UsageIsSound

(* The inductive invariant holds in every reachable state. *)
LEMMA UsageInvariance == UsageSpec => []UsageIInv
<1>1. UsageInit => UsageIInv
  BY UsageInitIInv, UsageAssumption
<1>2. UsageIInv /\ [UsageNext]_usageVars => UsageIInv'
  BY UsageNextIInv, UsageAssumption
<1>3. QED BY <1>1, <1>2, PTL DEF UsageSpec

-----------------------------------------------------------------------------
(* Feedback and its data sets.                                             *)

TypesOf(f) == MemoriesOf(submission[f].rating, submission[f].commented)
MemoriesAbout(f) == {<<f, TypesOf(f)[i]>> : i \in DOMAIN TypesOf(f)}
StoredResponses == {f \in Responses : submission[f].at = "stored"}

(* A feedback is remembered in at most as many memories as it says things. *)
LEMMA TypesAreASequence ==
  ASSUME NEW rating \in AllRatings, NEW commented \in BOOLEAN
  PROVE  /\ IsSequence(MemoriesOf(rating, commented))
         /\ Len(MemoriesOf(rating, commented)) \in Nat
<1>1. IsSequence(<<"fact", "preference">>) /\ IsSequence(<<"fact">>) /\ IsSequence(<<"skill">>) /\ IsSequence(<< >>)
  <2>1. \A x, y : IsSequence(<<x, y>>)
    <3> TAKE x, y
    <3>1. Len(<<x, y>>) = 2 /\ <<x, y>> = [i \in 1 .. 2 |-> <<x, y>>[i]] OBVIOUS
    <3> QED BY <3>1 DEF IsSequence
  <2>2. \A x : IsSequence(<<x>>)
    <3> TAKE x
    <3>1. Len(<<x>>) = 1 /\ <<x>> = [i \in 1 .. 1 |-> <<x>>[i]] OBVIOUS
    <3> QED BY <3>1 DEF IsSequence
  <2> QED BY <2>1, <2>2, EmptySequence
<1>2. MemoriesOf(rating, commented) \in {<<"fact", "preference">>, <<"fact">>, <<"skill">>, << >>}
  BY DEF MemoriesOf
<1> QED BY <1>1, <1>2 DEF IsSequence

SubmissionFits(s) ==
  /\ s.at \in {"none", "lost", "remembering", "aborted", "stored"}
  /\ s.at \in {"remembering", "aborted", "stored"} =>
       /\ DOMAIN s = {"at", "rating", "commented", "memories"}
       /\ s.rating \in AllRatings /\ s.commented \in BOOLEAN
  /\ s.at = "remembering" =>
       /\ IsSequence(s.memories) /\ Len(s.memories) <= Len(MemoriesOf(s.rating, s.commented))
       /\ \A i \in 1 .. Len(s.memories) : s.memories[i] = MemoriesOf(s.rating, s.commented)[i]

SubmissionIInv ==
  /\ submission = [f \in Responses |-> submission[f]]
  /\ \A f \in Responses : SubmissionFits(submission[f])
  /\ \A pair : pair \in remembered <=> \E f \in StoredResponses : pair \in MemoriesAbout(f)

(* What has been stored stays as it is. *)
FeedbackStays ==
  /\ \A f \in StoredResponses : submission'[f] = submission[f]
  /\ StoredResponses \subseteq StoredResponses'
  /\ StoredResponses' = StoredResponses \/ stats' = IF stats.at = "idle" THEN stats ELSE [stats EXCEPT !.overtaken = TRUE]

(* No feedback is submitted at first. *)
LEMMA SubmissionInit == FeedbackInit => SubmissionIInv
BY DEF FeedbackInit, SubmissionIInv, SubmissionFits, StoredResponses

(* A submission that is not stored changes nothing that is. *)
LEMMA SubmitsKeeps ==
  ASSUME SubmissionIInv, NEW f \in Responses, NEW given, Submits(f, given), SubmissionFits(given),
         given.at # "stored", submission[f].at # "stored", remembered' = remembered
  PROVE  SubmissionIInv' /\ StoredResponses' = StoredResponses /\ \A g \in StoredResponses : submission'[g] = submission[g]
<1>1. /\ submission' = [g \in Responses |-> submission'[g]] /\ submission'[f] = given
      /\ \A g \in Responses \ {f} : submission'[g] = submission[g]
  BY DEF Submits, SubmissionIInv
<1>2. StoredResponses' = StoredResponses
  BY <1>1 DEF StoredResponses
<1>3. \A g \in StoredResponses : submission'[g] = submission[g] /\ MemoriesAbout(g)' = MemoriesAbout(g)
  BY <1>1 DEF StoredResponses, MemoriesAbout, TypesOf
<1>4. \A pair : pair \in remembered' <=> \E g \in StoredResponses' : pair \in MemoriesAbout(g)'
  BY <1>2, <1>3 DEF SubmissionIInv
<1>5. \A g \in Responses : SubmissionFits(submission'[g])
  BY <1>1 DEF SubmissionIInv
<1> QED BY <1>1, <1>2, <1>3, <1>4, <1>5 DEF SubmissionIInv

(* A memory of a feedback is stored with it. *)
LEMMA StoreMemoryKeeps ==
  ASSUME SubmissionIInv, NEW f \in Responses, StoreFeedbackMemory(f)
  PROVE  SubmissionIInv' /\ StoredResponses' = StoredResponses /\ \A g \in StoredResponses : submission'[g] = submission[g]
<1> DEFINE s == submission[f]
           types == MemoriesOf(s.rating, s.commented)
           type == types[Len(s.memories) + 1]
           more == Append(s.memories, type)
           next == [s EXCEPT !.memories = more]
           aborted == [s EXCEPT !.at = "aborted"]
<1>1. /\ s.at = "remembering" /\ Len(s.memories) # Len(types) /\ remembered' = remembered
      /\ Submits(f, next) \/ Submits(f, aborted)
  BY DEF StoreFeedbackMemory, AllRemembered
<1>2. SubmissionFits(s) BY DEF SubmissionIInv
<1>3. /\ DOMAIN s = {"at", "rating", "commented", "memories"}
      /\ s.rating \in AllRatings /\ s.commented \in BOOLEAN
      /\ IsSequence(s.memories) /\ Len(s.memories) <= Len(types)
      /\ \A i \in 1 .. Len(s.memories) : s.memories[i] = types[i]
  BY <1>1, <1>2 DEF SubmissionFits
<1>4. Len(types) \in Nat /\ Len(s.memories) \in Nat BY <1>3, TypesAreASequence DEF IsSequence
<1>5. /\ IsSequence(more) /\ Len(more) = Len(s.memories) + 1
      /\ more[Len(s.memories) + 1] = type /\ \A i \in 1 .. Len(s.memories) : more[i] = s.memories[i]
  BY <1>3, AppendToSequence
<1> HIDE DEF more
<1>6. /\ DOMAIN next = {"at", "rating", "commented", "memories"} /\ next.at = "remembering"
      /\ next.rating = s.rating /\ next.commented = s.commented /\ next.memories = more
  BY <1>1, <1>3
<1>7. /\ DOMAIN aborted = {"at", "rating", "commented", "memories"} /\ aborted.at = "aborted"
      /\ aborted.rating = s.rating /\ aborted.commented = s.commented
  BY <1>3
<1> HIDE DEF s, types, next, aborted
<1>8. \A i \in 1 .. Len(more) : more[i] = types[i]
  <2> TAKE i \in 1 .. Len(more)
  <2>1. CASE i = Len(s.memories) + 1 BY <2>1, <1>5
  <2>2. CASE i # Len(s.memories) + 1
    <3>1. i \in 1 .. Len(s.memories) BY <2>2, <1>4, <1>5
    <3> QED BY <3>1, <1>3, <1>5
  <2> QED BY <2>1, <2>2
<1>9. Len(more) <= Len(types) BY <1>1, <1>3, <1>4, <1>5
<1>10. SubmissionFits(next) BY <1>3, <1>5, <1>6, <1>8, <1>9 DEF SubmissionFits, types
<1>11. SubmissionFits(aborted) BY <1>3, <1>7 DEF SubmissionFits
<1>12. submission[f].at # "stored" BY <1>1 DEF s
<1> QED BY <1>1, <1>6, <1>7, <1>10, <1>11, <1>12, SubmitsKeeps

(* A feedback is committed with all of its memories. *)
LEMMA CommitFeedbackKeeps ==
  ASSUME SubmissionIInv, NEW f \in Responses, CommitFeedback(f)
  PROVE  SubmissionIInv' /\ FeedbackStays
<1> DEFINE s == submission[f]
           types == MemoriesOf(s.rating, s.commented)
           next == [s EXCEPT !.at = "stored"]
<1>1. /\ s.at = "remembering" /\ Len(s.memories) = Len(types) /\ Submits(f, next)
      /\ remembered' = remembered \cup {<<f, s.memories[i]>> : i \in DOMAIN s.memories}
      /\ stats' = IF stats.at = "idle" THEN stats ELSE [stats EXCEPT !.overtaken = TRUE]
  BY DEF CommitFeedback, AllRemembered
<1>2. SubmissionFits(s) BY DEF SubmissionIInv
<1>3. /\ DOMAIN s = {"at", "rating", "commented", "memories"}
      /\ s.rating \in AllRatings /\ s.commented \in BOOLEAN
      /\ IsSequence(s.memories)
      /\ \A i \in 1 .. Len(s.memories) : s.memories[i] = types[i]
  BY <1>1, <1>2 DEF SubmissionFits
<1>4. IsSequence(types) BY <1>3, TypesAreASequence
<1>5. DOMAIN s.memories = 1 .. Len(types) /\ DOMAIN types = 1 .. Len(types)
  BY <1>1, <1>3, <1>4 DEF IsSequence
<1>6. /\ DOMAIN next = {"at", "rating", "commented", "memories"} /\ next.at = "stored"
      /\ next.rating = s.rating /\ next.commented = s.commented
  BY <1>3
<1> HIDE DEF next
<1>7. /\ submission' = [g \in Responses |-> submission'[g]] /\ submission'[f] = next
      /\ \A g \in Responses \ {f} : submission'[g] = submission[g]
  BY <1>1 DEF Submits, SubmissionIInv
<1>8. StoredResponses' = StoredResponses \cup {f} /\ f \notin StoredResponses
  BY <1>1, <1>6, <1>7 DEF StoredResponses
<1>9. \A g \in StoredResponses : submission'[g] = submission[g] /\ MemoriesAbout(g)' = MemoriesAbout(g)
  BY <1>7, <1>8 DEF StoredResponses, MemoriesAbout, TypesOf
<1>10. MemoriesAbout(f)' = {<<f, types[i]>> : i \in 1 .. Len(types)}
  BY <1>5, <1>6, <1>7 DEF MemoriesAbout, TypesOf
<1>11. \A pair : pair \in {<<f, s.memories[i]>> : i \in DOMAIN s.memories} <=> pair \in MemoriesAbout(f)'
  BY <1>1, <1>3, <1>5, <1>10
<1>12. \A pair : pair \in remembered' <=> \E g \in StoredResponses' : pair \in MemoriesAbout(g)'
  BY <1>1, <1>8, <1>9, <1>11 DEF SubmissionIInv
<1>13. SubmissionFits(next) BY <1>3, <1>6 DEF SubmissionFits
<1>14. \A g \in Responses : SubmissionFits(submission'[g])
  BY <1>7, <1>13 DEF SubmissionIInv
<1> QED BY <1>1, <1>7, <1>8, <1>9, <1>12, <1>14 DEF SubmissionIInv, FeedbackStays

(* Every step of the submissions preserves their invariant, and what is    *)
(* stored stays.                                                           *)
LEMMA SubmissionNext ==
  ASSUME SubmissionIInv, [FeedbackNext]_feedbackVars
  PROVE  SubmissionIInv' /\ FeedbackStays
<1>1. ASSUME UNCHANGED <<submission, remembered>> PROVE SubmissionIInv' /\ FeedbackStays
  <2>1. StoredResponses' = StoredResponses BY <1>1 DEF StoredResponses
  <2>2. \A f : MemoriesAbout(f)' = MemoriesAbout(f) BY <1>1 DEF MemoriesAbout, TypesOf
  <2> QED BY <1>1, <2>1, <2>2 DEF SubmissionIInv, FeedbackStays
<1>2. CASE UNCHANGED feedbackVars BY <1>1, <1>2 DEF feedbackVars
<1>3. ASSUME NEW f \in Responses, SubmitFeedback(f) PROVE SubmissionIInv' /\ FeedbackStays
  <2>1. PICK rating \in AllRatings, commented \in BOOLEAN :
          Submits(f, [at |-> "remembering", rating |-> rating, commented |-> commented, memories |-> << >>])
    BY <1>3 DEF SubmitFeedback
  <2> DEFINE given == [at |-> "remembering", rating |-> rating, commented |-> commented, memories |-> << >>]
  <2>2. SubmissionFits(given)
    <3>1. /\ DOMAIN given = {"at", "rating", "commented", "memories"} /\ given.at = "remembering"
          /\ given.rating = rating /\ given.commented = commented /\ given.memories = << >>
      OBVIOUS
    <3>2. IsSequence(<< >>) /\ Len(<< >>) = 0 BY EmptySequence
    <3>3. Len(MemoriesOf(rating, commented)) \in Nat BY TypesAreASequence
    <3> HIDE DEF given
    <3> QED BY <3>1, <3>2, <3>3 DEF SubmissionFits
  <2>3. submission[f].at # "stored" /\ remembered' = remembered /\ given.at # "stored" /\ stats' = stats
    BY <1>3 DEF SubmitFeedback
  <2> HIDE DEF given
  <2>4. SubmissionIInv' /\ StoredResponses' = StoredResponses /\ \A g \in StoredResponses : submission'[g] = submission[g]
    BY <2>1, <2>2, <2>3, SubmitsKeeps DEF given
  <2> QED BY <2>4 DEF FeedbackStays
<1>4. ASSUME NEW f \in Responses, LoseFeedback(f) PROVE SubmissionIInv' /\ FeedbackStays
  <2> DEFINE given == [at |-> "lost"]
  <2>1. Submits(f, given) /\ submission[f].at # "stored" /\ remembered' = remembered /\ given.at = "lost"
    BY <1>4 DEF LoseFeedback
  <2> HIDE DEF given
  <2>2. SubmissionFits(given) BY <2>1 DEF SubmissionFits
  <2>3. SubmissionIInv' /\ StoredResponses' = StoredResponses /\ \A g \in StoredResponses : submission'[g] = submission[g]
    BY <2>1, <2>2, SubmitsKeeps
  <2> QED BY <2>3 DEF FeedbackStays
<1>5. ASSUME NEW f \in Responses, StoreFeedbackMemory(f) PROVE SubmissionIInv' /\ FeedbackStays
  <2>1. SubmissionIInv' /\ StoredResponses' = StoredResponses /\ \A g \in StoredResponses : submission'[g] = submission[g]
    BY <1>5, StoreMemoryKeeps
  <2> QED BY <2>1 DEF FeedbackStays
<1>6. CASE CountTotal \/ CountPositive \/ CountByModel BY <1>1, <1>6 DEF CountTotal, CountPositive, CountByModel
<1>7. ASSUME NEW d \in Datasets, CreateDataset(d) \/ ExportDataset(d) PROVE SubmissionIInv' /\ FeedbackStays
  BY <1>1, <1>7 DEF CreateDataset, ExportDataset
<1>8. CASE PopulateDataset \/ CommitExport \/ RollbackCuration
  BY <1>1, <1>8 DEF PopulateDataset, CommitExport, RollbackCuration
<1> QED BY <1>2, <1>3, <1>4, <1>5, <1>6, <1>7, <1>8, CommitFeedbackKeeps DEF FeedbackNext

-----------------------------------------------------------------------------
NumberRated(ratings) == Cardinality(RatedAs(ratings))

(* The counts of a statement that saw at most what there is now, and as    *)
(* much if nothing came between.                                           *)
NumberCounted(count, ratings) ==
  count \in Nat /\ count <= NumberRated(ratings) /\ (~stats.overtaken => count = NumberRated(ratings))

StatsIInv ==
  /\ stats.at \in {"idle", "total", "positive", "done"}
  /\ stats.at = "total" =>
       /\ DOMAIN stats = {"at", "total", "overtaken"} /\ stats.overtaken \in BOOLEAN
       /\ NumberCounted(stats.total, AllRatings)
  /\ stats.at = "positive" =>
       /\ DOMAIN stats = {"at", "total", "overtaken", "positive"} /\ stats.overtaken \in BOOLEAN
       /\ NumberCounted(stats.total, AllRatings) /\ NumberCounted(stats.positive, {"positive"})
  /\ stats.at = "done" =>
       DOMAIN stats = {"at", "total", "overtaken", "positive", "by_model"} /\ stats.overtaken \in BOOLEAN
  /\ StatisticsGrow

(* The ratings can be counted. *)
LEMMA RatedIsFinite ==
  ASSUME FeedbackAssumption, NEW ratings
  PROVE  IsFiniteSet(RatedAs(ratings)) /\ NumberRated(ratings) \in Nat
<1>1. RatedAs(ratings) \subseteq Responses BY DEF RatedAs
<1> QED BY <1>1, FS_Subset, FS_CardinalityType DEF FeedbackAssumption, NumberRated

(* Of every rating there will only be more. *)
LEMMA RatedGrows ==
  ASSUME FeedbackAssumption, FeedbackStays, NEW ratings
  PROVE  RatedAs(ratings) \subseteq RatedAs(ratings)' /\ NumberRated(ratings) <= NumberRated(ratings)'
<1>1. RatedAs(ratings) \subseteq RatedAs(ratings)' BY DEF RatedAs, FeedbackStays, StoredResponses
<1>2. RatedAs(ratings)' \subseteq Responses BY DEF RatedAs
<1>3. IsFiniteSet(RatedAs(ratings)') BY <1>2, FS_Subset DEF FeedbackAssumption
<1> QED BY <1>1, <1>3, FS_Subset DEF NumberRated

(* Without another feedback the ratings stay. *)
LEMMA RatedStays ==
  ASSUME FeedbackStays, StoredResponses' = StoredResponses, NEW ratings
  PROVE  NumberRated(ratings)' = NumberRated(ratings)
<1>1. RatedAs(ratings)' = RatedAs(ratings) BY DEF RatedAs, FeedbackStays, StoredResponses
<1> QED BY <1>1 DEF NumberRated

(* Statistics that are not touched stay within what is stored. *)
LEMMA StatsStep ==
  ASSUME FeedbackAssumption, StatsIInv, FeedbackStays, stats' = stats \/ StoredResponses' # StoredResponses
  PROVE  StatsIInv'
<1>1. CASE StoredResponses' = StoredResponses
  <2>1. stats' = stats BY <1>1
  <2>2. \A count, ratings : NumberCounted(count, ratings)' <=> NumberCounted(count, ratings)
    <3>1. \A ratings : NumberRated(ratings)' = NumberRated(ratings) BY <1>1, RatedStays
    <3> QED BY <2>1, <3>1 DEF NumberCounted
  <2>3. NumberCounted(stats.total, AllRatings)' <=> NumberCounted(stats.total, AllRatings)
    BY <2>1, <1>1, RatedStays DEF NumberCounted
  <2>4. NumberCounted(stats.positive, {"positive"})' <=> NumberCounted(stats.positive, {"positive"})
    BY <2>1, <1>1, RatedStays DEF NumberCounted
  <2> QED BY <2>1, <2>3, <2>4 DEF StatsIInv, StatisticsGrow
<1>2. CASE StoredResponses' # StoredResponses
  <2>1. stats' = IF stats.at = "idle" THEN stats ELSE [stats EXCEPT !.overtaken = TRUE] BY <1>2 DEF FeedbackStays
  <2>2. CASE stats.at = "idle" BY <2>1, <2>2 DEF StatsIInv, StatisticsGrow
  <2>3. CASE stats.at # "idle"
    <3>1. stats' = [stats EXCEPT !.overtaken = TRUE] BY <2>1, <2>3
    <3>2. /\ DOMAIN stats' = DOMAIN stats
          /\ "at" \in DOMAIN stats /\ "overtaken" \in DOMAIN stats
      BY <3>1, <2>3 DEF StatsIInv
    <3>3. stats'.overtaken = TRUE /\ \A x \in DOMAIN stats : x # "overtaken" => stats'[x] = stats[x]
      BY <3>1, <3>2
    <3>4. stats'.at = stats.at BY <3>2, <3>3
    <3>5. "total" \in DOMAIN stats => stats'.total = stats.total BY <3>3
    <3>6. "positive" \in DOMAIN stats => stats'.positive = stats.positive BY <3>3
    <3>7. "by_model" \in DOMAIN stats => stats'.by_model = stats.by_model BY <3>3
    <3>8. /\ NumberRated(AllRatings) <= NumberRated(AllRatings)' /\ NumberRated({"positive"}) <= NumberRated({"positive"})'
          /\ NumberRated(AllRatings) \in Nat /\ NumberRated({"positive"}) \in Nat
      BY RatedGrows, RatedIsFinite
    <3>9. NumberRated(AllRatings)' \in Nat /\ NumberRated({"positive"})' \in Nat
      <4>1. RatedAs(AllRatings)' \subseteq Responses /\ RatedAs({"positive"})' \subseteq Responses BY DEF RatedAs
      <4> QED BY <4>1, FS_Subset, FS_CardinalityType DEF FeedbackAssumption, NumberRated
    <3>10. stats.at \in {"total", "positive"} => NumberCounted(stats.total, AllRatings)'
      <4>1. SUFFICES ASSUME stats.at \in {"total", "positive"} PROVE NumberCounted(stats.total, AllRatings)' OBVIOUS
      <4>2. NumberCounted(stats.total, AllRatings) /\ stats'.total = stats.total BY <4>1, <3>5 DEF StatsIInv
      <4> QED BY <4>2, <3>3, <3>8, <3>9 DEF NumberCounted
    <3>11. stats.at = "positive" => NumberCounted(stats.positive, {"positive"})'
      <4>1. SUFFICES ASSUME stats.at = "positive" PROVE NumberCounted(stats.positive, {"positive"})' OBVIOUS
      <4>2. NumberCounted(stats.positive, {"positive"}) /\ stats'.positive = stats.positive BY <4>1, <3>6 DEF StatsIInv
      <4> QED BY <4>2, <3>3, <3>8, <3>9 DEF NumberCounted
    <3>12. StatisticsGrow'
      <4>1. SUFFICES ASSUME stats.at = "done" PROVE StatisticsGrow' BY <3>4 DEF StatisticsGrow
      <4>2. stats'.total = stats.total /\ stats'.positive = stats.positive /\ stats'.by_model = stats.by_model
        BY <4>1, <3>5, <3>6, <3>7 DEF StatsIInv
      <4>3. stats.by_model.count >= stats.total /\ stats.by_model.positive >= stats.positive
        BY <4>1 DEF StatsIInv, StatisticsGrow
      <4> QED BY <4>2, <4>3, <3>3 DEF StatisticsGrow
    <3> QED BY <3>2, <3>3, <3>4, <3>10, <3>11, <3>12 DEF StatsIInv
  <2> QED BY <2>2, <2>3
<1> QED BY <1>1, <1>2

(* The statement that counts all feedback. *)
LEMMA CountTotalKeeps ==
  ASSUME FeedbackAssumption, StatsIInv, CountTotal
  PROVE  StatsIInv'
<1> DEFINE n == NumberRated(AllRatings)
<1>1. stats' = [at |-> "total", total |-> n, overtaken |-> FALSE] /\ submission' = submission
  BY DEF CountTotal, NumberRated
<1>2. n \in Nat BY RatedIsFinite
<1>3. NumberRated(AllRatings)' = n BY <1>1 DEF NumberRated, RatedAs
<1> HIDE DEF n
<1>4. DOMAIN stats' = {"at", "total", "overtaken"} /\ stats'.at = "total" /\ stats'.total = n /\ stats'.overtaken = FALSE
  BY <1>1
<1>5. NumberCounted(stats.total, AllRatings)' BY <1>2, <1>3, <1>4 DEF NumberCounted
<1> QED BY <1>4, <1>5 DEF StatsIInv, StatisticsGrow

(* The statement that counts the positive feedback. *)
LEMMA CountPositiveKeeps ==
  ASSUME FeedbackAssumption, StatsIInv, CountPositive
  PROVE  StatsIInv'
<1> DEFINE n == NumberRated({"positive"})
<1>1. /\ stats' = [at |-> "positive", total |-> stats.total, overtaken |-> stats.overtaken, positive |-> n]
      /\ submission' = submission /\ stats.at = "total"
  BY DEF CountPositive, NumberRated
<1>2. n \in Nat BY RatedIsFinite
<1>3. NumberRated({"positive"})' = n /\ NumberRated(AllRatings)' = NumberRated(AllRatings) BY <1>1 DEF NumberRated, RatedAs
<1> HIDE DEF n
<1>4. /\ DOMAIN stats' = {"at", "total", "overtaken", "positive"} /\ stats'.at = "positive"
      /\ stats'.total = stats.total /\ stats'.overtaken = stats.overtaken /\ stats'.positive = n
  BY <1>1
<1>5. NumberCounted(stats.total, AllRatings) /\ stats.overtaken \in BOOLEAN BY <1>1 DEF StatsIInv
<1>6. NumberCounted(stats.total, AllRatings)' /\ NumberCounted(stats.positive, {"positive"})' BY <1>2, <1>3, <1>4, <1>5 DEF NumberCounted
<1> QED BY <1>4, <1>5, <1>6 DEF StatsIInv, StatisticsGrow

(* The statement that counts by model. *)
LEMMA CountByModelKeeps ==
  ASSUME FeedbackAssumption, StatsIInv, CountByModel
  PROVE  StatsIInv'
<1> DEFINE n == NumberRated(AllRatings)
           p == NumberRated({"positive"})
           sums == [count |-> n, positive |-> p]
<1>1. /\ stats' = [at |-> "done", total |-> stats.total, overtaken |-> stats.overtaken,
                   positive |-> stats.positive, by_model |-> sums]
      /\ submission' = submission /\ stats.at = "positive"
  BY DEF CountByModel, NumberRated
<1>2. n \in Nat /\ p \in Nat /\ p <= n
  <2>1. RatedAs({"positive"}) \subseteq RatedAs(AllRatings) BY DEF RatedAs, AllRatings
  <2> QED BY <2>1, RatedIsFinite, FS_Subset DEF NumberRated
<1>3. sums.count = n /\ sums.positive = p OBVIOUS
<1>4. NumberCounted(stats.total, AllRatings) /\ NumberCounted(stats.positive, {"positive"}) /\ stats.overtaken \in BOOLEAN
  BY <1>1 DEF StatsIInv
<1>5. /\ stats.total \in Nat /\ stats.total <= n /\ (~stats.overtaken => stats.total = n)
      /\ stats.positive \in Nat /\ stats.positive <= p /\ (~stats.overtaken => stats.positive = p)
  BY <1>4 DEF NumberCounted
<1>6. ~stats.overtaken => sums = [count |-> stats.total, positive |-> stats.positive]
  BY <1>5
<1> HIDE DEF n, p, sums
<1>7. /\ DOMAIN stats' = {"at", "total", "overtaken", "positive", "by_model"} /\ stats'.at = "done"
      /\ stats'.total = stats.total /\ stats'.overtaken = stats.overtaken
      /\ stats'.positive = stats.positive /\ stats'.by_model = sums
  BY <1>1
<1>8. StatisticsGrow' BY <1>2, <1>3, <1>5, <1>6, <1>7 DEF StatisticsGrow
<1> QED BY <1>4, <1>7, <1>8 DEF StatsIInv

(* Every step of the statistics preserves their invariant. *)
LEMMA StatsNext ==
  ASSUME FeedbackAssumption, SubmissionIInv, StatsIInv, [FeedbackNext]_feedbackVars
  PROVE  StatsIInv'
<1>1. FeedbackStays BY SubmissionNext
<1>2. ASSUME UNCHANGED stats PROVE StatsIInv' BY <1>1, <1>2, StatsStep
<1>3. ASSUME NEW f \in Responses, CommitFeedback(f) PROVE StatsIInv'
  <2>1. stats' = IF stats.at = "idle" THEN stats ELSE [stats EXCEPT !.overtaken = TRUE]
    BY <1>3 DEF CommitFeedback
  <2>2. StoredResponses' # StoredResponses
    <3>1. submission[f].at = "remembering" /\ Submits(f, [submission[f] EXCEPT !.at = "stored"])
      BY <1>3 DEF CommitFeedback
    <3>2. "at" \in DOMAIN submission[f] BY <3>1 DEF SubmissionIInv, SubmissionFits
    <3>3. submission'[f].at = "stored" BY <3>1, <3>2 DEF Submits, SubmissionIInv
    <3>4. f \in StoredResponses' /\ f \notin StoredResponses BY <3>1, <3>3 DEF StoredResponses
    <3> QED BY <3>4
  <2> QED BY <1>1, <2>2, StatsStep
<1>4. ASSUME NEW f \in Responses, SubmitFeedback(f) \/ StoreFeedbackMemory(f) \/ LoseFeedback(f) PROVE StatsIInv'
  BY <1>2, <1>4 DEF SubmitFeedback, StoreFeedbackMemory, LoseFeedback
<1>5. ASSUME NEW d \in Datasets, CreateDataset(d) \/ ExportDataset(d) PROVE StatsIInv'
  BY <1>2, <1>5 DEF CreateDataset, ExportDataset
<1>6. CASE PopulateDataset \/ CommitExport \/ RollbackCuration
  BY <1>2, <1>6 DEF PopulateDataset, CommitExport, RollbackCuration
<1>7. CASE UNCHANGED feedbackVars BY <1>2, <1>7 DEF feedbackVars
<1> QED BY <1>3, <1>4, <1>5, <1>6, <1>7, CountTotalKeeps, CountPositiveKeeps, CountByModelKeeps DEF FeedbackNext

-----------------------------------------------------------------------------
DatasetFits(d, r) ==
  /\ DOMAIN r = {"records", "count", "only_positive", "status"}
  /\ r.count = Cardinality(r.records) /\ r.records \subseteq Matching(r.only_positive)
  /\ r.only_positive \in BOOLEAN
  /\ r.status = "draft" <=> r.records = {}
  /\ r.status = "exported" <=> d \in exported

DatasetsIInv ==
  /\ dataset = [d \in Datasets |-> dataset[d]]
  /\ \A d \in Datasets : IF dataset[d] = NoDataset THEN d \notin exported ELSE DatasetFits(d, dataset[d])
  /\ curation.at \in {"idle", "created", "exporting"}
  /\ curation.at = "created" => curation.of \in Datasets /\ dataset[curation.of] = NoDataset /\ curation.only_positive \in BOOLEAN
  /\ curation.at = "exporting" =>
       curation.of \in Datasets /\ dataset[curation.of] # NoDataset /\ curation.lines = dataset[curation.of].records

(* What matches a data set goes on matching it. *)
LEMMA MatchingGrows ==
  ASSUME FeedbackStays, NEW only_positive \in BOOLEAN
  PROVE  Matching(only_positive) \subseteq Matching(only_positive)'
<1>1. \A ratings : RatedAs(ratings) \subseteq RatedAs(ratings)' BY DEF RatedAs, FeedbackStays, StoredResponses
<1> QED BY <1>1 DEF Matching, RatedAs, FeedbackStays, StoredResponses

(* Every step of the data sets preserves their invariant. *)
LEMMA DatasetsNext ==
  ASSUME FeedbackAssumption, SubmissionIInv, DatasetsIInv, [FeedbackNext]_feedbackVars
  PROVE  DatasetsIInv'
<1>1. FeedbackStays BY SubmissionNext
<1>2. ASSUME NEW d, NEW r, DatasetFits(d, r), d \in exported' <=> d \in exported
      PROVE  DatasetFits(d, r)'
  <2>1. Matching(r.only_positive) \subseteq Matching(r.only_positive)' BY <1>1, <1>2, MatchingGrows DEF DatasetFits
  <2> QED BY <2>1, <1>2 DEF DatasetFits
<1>3. ASSUME UNCHANGED <<dataset, exported, curation>> PROVE DatasetsIInv'
  <2>1. \A d \in Datasets : IF dataset'[d] = NoDataset THEN d \notin exported' ELSE DatasetFits(d, dataset[d])'
    <3> TAKE d \in Datasets
    <3>1. CASE dataset[d] = NoDataset BY <3>1, <1>3 DEF DatasetsIInv
    <3>2. CASE dataset[d] # NoDataset
      <4>1. DatasetFits(d, dataset[d]) BY <3>2 DEF DatasetsIInv
      <4>2. DatasetFits(d, dataset[d])' BY <4>1, <1>1, <1>2, <1>3, MatchingGrows DEF DatasetFits
      <4> QED BY <3>2, <4>2, <1>3
    <3> QED BY <3>1, <3>2
  <2> QED BY <2>1, <1>3 DEF DatasetsIInv
<1>4. ASSUME UNCHANGED <<dataset, exported>>,
             \/ curation'.at = "idle"
             \/ /\ curation'.at = "created" /\ curation'.of \in Datasets /\ dataset[curation'.of] = NoDataset
                /\ curation'.only_positive \in BOOLEAN
             \/ /\ curation'.at = "exporting" /\ curation'.of \in Datasets /\ dataset[curation'.of] # NoDataset
                /\ curation'.lines = dataset[curation'.of].records
      PROVE  DatasetsIInv'
  <2>1. \A d \in Datasets : IF dataset'[d] = NoDataset THEN d \notin exported' ELSE DatasetFits(d, dataset[d])'
    <3> TAKE d \in Datasets
    <3>1. CASE dataset[d] = NoDataset BY <3>1, <1>4 DEF DatasetsIInv
    <3>2. CASE dataset[d] # NoDataset
      <4>1. DatasetFits(d, dataset[d]) BY <3>2 DEF DatasetsIInv
      <4>2. DatasetFits(d, dataset[d])' BY <4>1, <1>1, <1>2, <1>4, MatchingGrows DEF DatasetFits
      <4> QED BY <3>2, <4>2, <1>4
    <3> QED BY <3>1, <3>2
  <2> QED BY <2>1, <1>4 DEF DatasetsIInv
<1>5. CASE UNCHANGED feedbackVars BY <1>3, <1>5 DEF feedbackVars
<1>6. ASSUME NEW f \in Responses, SubmitFeedback(f) \/ StoreFeedbackMemory(f) \/ CommitFeedback(f) \/ LoseFeedback(f)
      PROVE  DatasetsIInv'
  BY <1>3, <1>6 DEF SubmitFeedback, StoreFeedbackMemory, CommitFeedback, LoseFeedback
<1>7. CASE CountTotal \/ CountPositive \/ CountByModel BY <1>3, <1>7 DEF CountTotal, CountPositive, CountByModel
<1>8. ASSUME NEW d \in Datasets, CreateDataset(d) PROVE DatasetsIInv'
  <2>1. PICK only_positive \in BOOLEAN : curation' = [at |-> "created", of |-> d, only_positive |-> only_positive]
    BY <1>8 DEF CreateDataset, Curates
  <2>2. UNCHANGED <<dataset, exported>> /\ dataset[d] = NoDataset BY <1>8 DEF CreateDataset
  <2>3. curation'.at = "created" /\ curation'.of = d /\ curation'.only_positive = only_positive BY <2>1
  <2> QED BY <2>1, <2>2, <2>3, <1>4
<1>9. ASSUME NEW d \in Datasets, ExportDataset(d) PROVE DatasetsIInv'
  <2> DEFINE lines == dataset[d].records
  <2>1. curation' = [at |-> "exporting", of |-> d, lines |-> lines] BY <1>9 DEF ExportDataset, Curates
  <2>2. UNCHANGED <<dataset, exported>> /\ dataset[d] # NoDataset BY <1>9 DEF ExportDataset
  <2> HIDE DEF lines
  <2>3. curation'.at = "exporting" /\ curation'.of = d /\ curation'.lines = lines BY <2>1
  <2> QED BY <2>2, <2>3, <1>4 DEF lines
<1>10. CASE RollbackCuration
  <2>1. UNCHANGED <<dataset, exported>> /\ curation'.at = "idle" BY <1>10 DEF RollbackCuration, Curates, NotCurating
  <2> QED BY <2>1, <1>4
<1>11. CASE PopulateDataset
  <2>1. curation.at = "created" BY <1>11 DEF PopulateDataset
  <2>2. PICK of \in Datasets, op \in BOOLEAN : of = curation.of /\ op = curation.only_positive /\ dataset[of] = NoDataset
    BY <2>1 DEF DatasetsIInv
  <2> DEFINE records == Matching(op)
             r == Populated(records, op)
  <2>3. dataset' = [dataset EXCEPT ![of] = r] /\ curation'.at = "idle" /\ exported' = exported /\ submission' = submission
    BY <1>11, <2>2 DEF PopulateDataset, Curates, NotCurating
  <2>4. Matching(op)' = records BY <2>3 DEF Matching, RatedAs
  <2>5. /\ DOMAIN r = {"records", "count", "only_positive", "status"}
        /\ r.records = records /\ r.count = Cardinality(records) /\ r.only_positive = op
        /\ r.status = IF records = {} THEN "draft" ELSE "ready"
    <3> HIDE DEF records
    <3> QED BY DEF Populated
  <2> HIDE DEF r, records
  <2>6. of \notin exported BY <2>2 DEF DatasetsIInv
  <2>7. records \subseteq Matching(op)' BY <2>4
  <2>8. r # NoDataset BY <2>5 DEF NoDataset
  <2>9. dataset'[of] = r /\ (\A d \in Datasets \ {of} : dataset'[d] = dataset[d]) /\ (dataset = [d \in Datasets |-> dataset[d]])'
    BY <2>3 DEF DatasetsIInv
  <2>10. DatasetFits(of, dataset[of])'
    <3>1. dataset'[of].only_positive = op /\ dataset'[of].records = records BY <2>5, <2>9
    <3>2. dataset'[of].records \subseteq Matching(dataset[of].only_positive)' BY <2>7, <3>1 DEF Matching, RatedAs
    <3> QED BY <2>3, <2>5, <2>6, <2>9, <3>1, <3>2 DEF DatasetFits
  <2>11. \A d \in Datasets : IF dataset'[d] = NoDataset THEN d \notin exported' ELSE DatasetFits(d, dataset[d])'
    <3> TAKE d \in Datasets
    <3>1. CASE d = of BY <3>1, <2>8, <2>9, <2>10
    <3>2. CASE d # of
      <4>1. dataset'[d] = dataset[d] BY <3>2, <2>9
      <4>2. CASE dataset[d] = NoDataset BY <4>1, <4>2, <2>3 DEF DatasetsIInv
      <4>3. CASE dataset[d] # NoDataset
        <5>1. DatasetFits(d, dataset[d]) BY <4>3 DEF DatasetsIInv
        <5>2. DatasetFits(d, dataset[d])' BY <5>1, <4>1, <1>1, <2>3, MatchingGrows DEF DatasetFits
        <5> QED BY <4>1, <4>3, <5>2
      <4> QED BY <4>2, <4>3
    <3> QED BY <3>1, <3>2
  <2> QED BY <2>3, <2>9, <2>11 DEF DatasetsIInv
<1>12. CASE CommitExport
  <2>1. curation.at = "exporting" BY <1>12 DEF CommitExport
  <2>2. PICK of \in Datasets : of = curation.of /\ dataset[of] # NoDataset /\ curation.lines = dataset[of].records
    BY <2>1 DEF DatasetsIInv
  <2> DEFINE was == dataset[of]
             r == [was EXCEPT !.status = "exported"]
  <2>3. /\ dataset' = [dataset EXCEPT ![of] = r] /\ curation'.at = "idle" /\ exported' = exported \cup {of}
        /\ submission' = submission /\ was.records # {}
    BY <1>12, <2>2 DEF CommitExport, Curates, NotCurating
  <2>4. DatasetFits(of, was) BY <2>2 DEF DatasetsIInv
  <2>5. /\ DOMAIN was = {"records", "count", "only_positive", "status"} /\ was.count = Cardinality(was.records)
        /\ was.records \subseteq Matching(was.only_positive) /\ was.only_positive \in BOOLEAN
    BY <2>4 DEF DatasetFits
  <2>6. /\ DOMAIN r = {"records", "count", "only_positive", "status"} /\ r.status = "exported"
        /\ r.records = was.records /\ r.count = was.count /\ r.only_positive = was.only_positive
    BY <2>5
  <2> HIDE DEF r
  <2>7. r # NoDataset BY <2>6 DEF NoDataset
  <2>8. dataset'[of] = r /\ (\A d \in Datasets \ {of} : dataset'[d] = dataset[d]) /\ (dataset = [d \in Datasets |-> dataset[d]])'
    BY <2>3 DEF DatasetsIInv
  <2>12. PICK op \in BOOLEAN : was.only_positive = op BY <2>5
  <2>9. r.records \subseteq Matching(op)'
    <3>1. Matching(op) \subseteq Matching(op)' BY <1>1, MatchingGrows
    <3> QED BY <3>1, <2>5, <2>6, <2>12
  <2>10. DatasetFits(of, dataset[of])'
    <3>1. dataset'[of].only_positive = op /\ dataset'[of].records = r.records BY <2>6, <2>8, <2>12
    <3>2. dataset'[of].records \subseteq Matching(dataset[of].only_positive)' BY <2>9, <3>1 DEF Matching, RatedAs
    <3> QED BY <2>3, <2>5, <2>6, <2>8, <3>1, <3>2 DEF DatasetFits
  <2>11. \A d \in Datasets : IF dataset'[d] = NoDataset THEN d \notin exported' ELSE DatasetFits(d, dataset[d])'
    <3> TAKE d \in Datasets
    <3>1. CASE d = of BY <3>1, <2>7, <2>8, <2>10
    <3>2. CASE d # of
      <4>1. dataset'[d] = dataset[d] BY <3>2, <2>8
      <4>2. CASE dataset[d] = NoDataset BY <3>2, <4>1, <4>2, <2>3 DEF DatasetsIInv
      <4>3. CASE dataset[d] # NoDataset
        <5>1. DatasetFits(d, dataset[d]) BY <4>3 DEF DatasetsIInv
        <5>2. DatasetFits(d, dataset[d])' BY <3>2, <5>1, <4>1, <1>1, <2>3, MatchingGrows DEF DatasetFits
        <5> QED BY <4>1, <4>3, <5>2
      <4> QED BY <4>2, <4>3
    <3> QED BY <3>1, <3>2
  <2> QED BY <2>3, <2>8, <2>11 DEF DatasetsIInv
<1> QED BY <1>5, <1>6, <1>7, <1>8, <1>9, <1>10, <1>11, <1>12 DEF FeedbackNext

FeedbackIInv == SubmissionIInv /\ StatsIInv /\ DatasetsIInv

(* The invariants hold at first. *)
LEMMA FeedbackInitIInv == FeedbackInit => FeedbackIInv
<1> SUFFICES ASSUME FeedbackInit PROVE FeedbackIInv
  OBVIOUS
<1>1. StatsIInv BY DEF FeedbackInit, NotCounting, StatsIInv, StatisticsGrow
<1>2. DatasetsIInv
  <2>1. curation.at = "idle" BY DEF FeedbackInit, NotCurating
  <2> QED BY <2>1 DEF FeedbackInit, DatasetsIInv
<1> QED BY <1>1, <1>2, SubmissionInit DEF FeedbackIInv

(* Every step of feedback preserves the invariants. *)
LEMMA FeedbackNextIInv ==
  ASSUME FeedbackAssumption, FeedbackIInv, [FeedbackNext]_feedbackVars
  PROVE  FeedbackIInv'
BY SubmissionNext, StatsNext, DatasetsNext DEF FeedbackIInv

(* The invariant implies what feedback promises. *)
LEMMA FeedbackIInvSound ==
  ASSUME FeedbackIInv
  PROVE  FeedbackIsSound
<1>1. FeedbackIsWhole
  <2> DEFINE all == UNION {MemoriesAbout(f) : f \in StoredResponses}
  <2>1. FeedbackIsWhole <=> remembered = all
    BY DEF FeedbackIsWhole, MemoriesAbout, TypesOf, StoredResponses
  <2>2. \A pair : pair \in remembered <=> pair \in all
    <3>1. \A pair : pair \in all <=> \E f \in StoredResponses : pair \in MemoriesAbout(f) OBVIOUS
    <3> QED BY <3>1 DEF FeedbackIInv, SubmissionIInv
  <2> HIDE DEF all
  <2>3. remembered = all BY <2>2
  <2> QED BY <2>1, <2>3
<1>2. DatasetsAreHonest
  BY DEF FeedbackIInv, DatasetsIInv, DatasetFits, DatasetsAreHonest
<1> QED BY <1>1, <1>2 DEF FeedbackIInv, StatsIInv, FeedbackIsSound

(* The inductive invariant holds in every reachable state. *)
LEMMA FeedbackInvariance == FeedbackSpec => []FeedbackIInv
<1>1. FeedbackInit => FeedbackIInv
  BY FeedbackInitIInv, FeedbackAssumption
<1>2. FeedbackIInv /\ [FeedbackNext]_feedbackVars => FeedbackIInv'
  BY FeedbackNextIInv, FeedbackAssumption
<1>3. QED BY <1>1, <1>2, PTL DEF FeedbackSpec

-----------------------------------------------------------------------------
(* Plugins.                                                                *)

(* A joined function has the entries of both. *)
LEMMA JoinedDomain == ASSUME NEW f, NEW g PROVE DOMAIN Joined(f, g) = DOMAIN f \cup DOMAIN g
BY DEF Joined

(* Of the first function it has them all. *)
LEMMA JoinedFirst == ASSUME NEW f, NEW g, NEW k \in DOMAIN f PROVE Joined(f, g)[k] = f[k]
BY DEF Joined

(* Of the second it has those that the first lacks. *)
LEMMA JoinedSecond == ASSUME NEW f, NEW g, NEW k \in DOMAIN g, k \notin DOMAIN f PROVE Joined(f, g)[k] = g[k]
BY DEF Joined

(* What is removed is no longer there. *)
LEMMA WithoutDomain == ASSUME NEW f, NEW K PROVE DOMAIN Without(f, K) = DOMAIN f \ K
BY DEF Without, Restrict

(* What is not removed stays. *)
LEMMA WithoutValue == ASSUME NEW f, NEW K, NEW k \in DOMAIN f, k \notin K PROVE Without(f, K)[k] = f[k]
BY DEF Without, Restrict

-----------------------------------------------------------------------------
(* The watcher.  What is as the last poll has seen it, since it changed,   *)
(* is loaded or about to be.                                               *)
Reloadable(d) ==
  /\ watching.snapshot[d] = plugin_file[d].version /\ plugin_file[d].version # watching.first[d]
  /\ plugin_file[d].code = "ok"
  /\ PluginNameOf[d] \in DOMAIN watching.dirs /\ watching.dirs[PluginNameOf[d]] = d

IsLoaded(d) ==
  PluginNameOf[d] \in DOMAIN loaded /\ loaded[PluginNameOf[d]] = [dir |-> d, version |-> plugin_file[d].version]

WatchingFits ==
  /\ DOMAIN watching = {"running", "snapshot", "dirs", "first"}
  /\ DOMAIN watching.snapshot \subseteq PluginDirs /\ DOMAIN watching.first = DOMAIN watching.snapshot
  /\ \A d \in DOMAIN watching.snapshot : watching.snapshot[d] \in Nat /\ watching.snapshot[d] <= plugin_file[d].version

FilesFit ==
  /\ plugin_file = [d \in PluginDirs |-> plugin_file[d]]
  /\ \A d \in PluginDirs : plugin_file[d].version \in Nat

PollingFits == DOMAIN polling = {"todo", "reload"} /\ \A a, b \in polling.reload : a = b

FilesIInv ==
  /\ FilesFit /\ WatchingFits /\ PollingFits
  /\ \A d \in DOMAIN watching.snapshot : Reloadable(d) => IsLoaded(d) \/ PluginNameOf[d] \in polling.reload
  /\ ImportedIsLoaded

(* Nothing is watched or loaded at first. *)
LEMMA FilesInit == ASSUME PluginAssumption, PluginInit PROVE FilesIInv
<1>1. plugin_file = [d \in PluginDirs |-> [version |-> 1, code |-> "ok"]] BY DEF PluginInit
<1>2. FilesFit BY <1>1 DEF FilesFit
<1>3. watching = [running |-> FALSE, snapshot |-> << >>, dirs |-> << >>, first |-> << >>] BY DEF PluginInit
<1>4. DOMAIN watching = {"running", "snapshot", "dirs", "first"} /\ watching.snapshot = << >> /\ watching.first = << >>
  BY <1>3
<1>5. DOMAIN << >> = {} OBVIOUS
<1>6. WatchingFits BY <1>4, <1>5 DEF WatchingFits
<1>7. polling = [todo |-> << >>, reload |-> {}] BY DEF PluginInit, NotPolling
<1>8. PollingFits
  <2>1. DOMAIN polling = {"todo", "reload"} /\ polling.reload = {} BY <1>7
  <2> QED BY <2>1 DEF PollingFits
<1>9. ImportedIsLoaded BY <1>5 DEF PluginInit, ImportedIsLoaded
<1> QED BY <1>2, <1>4, <1>5, <1>6, <1>8, <1>9 DEF FilesIInv

(* An edit is seen by no snapshot before. *)
LEMMA EditKeeps == ASSUME FilesIInv, NEW d \in PluginDirs, EditPlugin(d) PROVE FilesIInv'
<1>1. /\ watching' = watching /\ polling' = polling /\ loaded' = loaded /\ modules' = modules
      /\ \E code \in {"ok", "broken"} :
           plugin_file' = [plugin_file EXCEPT ![d] = [version |-> @.version + 1, code |-> code]]
  BY DEF EditPlugin
<1>2. PICK code \in {"ok", "broken"} : plugin_file' = [plugin_file EXCEPT ![d] = [version |-> @.version + 1, code |-> code]]
  BY <1>1
<1> DEFINE new == [version |-> plugin_file[d].version + 1, code |-> code]
<1>3. plugin_file' = [plugin_file EXCEPT ![d] = new] BY <1>2
<1>4. new.version = plugin_file[d].version + 1 OBVIOUS
<1> HIDE DEF new
<1>5. plugin_file' = [o \in PluginDirs |-> plugin_file'[o]] /\ \A o \in PluginDirs : plugin_file'[o] = IF o = d THEN new ELSE plugin_file[o]
  BY <1>3 DEF FilesIInv, FilesFit
<1>6. \A o \in PluginDirs : plugin_file[o].version \in Nat BY DEF FilesIInv, FilesFit
<1>7. FilesFit'
  <2>1. \A o \in PluginDirs : plugin_file'[o].version \in Nat BY <1>4, <1>5, <1>6
  <2> QED BY <1>5, <2>1 DEF FilesFit
<1>8. \A o \in DOMAIN watching.snapshot : o \in PluginDirs /\ watching.snapshot[o] \in Nat /\ watching.snapshot[o] <= plugin_file[o].version
  BY DEF FilesIInv, WatchingFits
<1>9. WatchingFits'
  <2>1. \A o \in DOMAIN watching.snapshot : watching.snapshot[o] \in Nat /\ watching.snapshot[o] <= plugin_file'[o].version
    BY <1>4, <1>5, <1>6, <1>8
  <2> QED BY <2>1, <1>1 DEF FilesIInv, WatchingFits
<1>10. ASSUME NEW o \in DOMAIN watching.snapshot, Reloadable(o)' PROVE IsLoaded(o)' \/ PluginNameOf[o] \in polling.reload
  <2>1. o # d
    <3> SUFFICES ASSUME o = d PROVE FALSE OBVIOUS
    <3>1. watching.snapshot[d] = new.version BY <1>1, <1>5, <1>10 DEF Reloadable
    <3>2. watching.snapshot[d] <= plugin_file[d].version /\ watching.snapshot[d] \in Nat /\ plugin_file[d].version \in Nat
      BY <1>6, <1>8
    <3> QED BY <3>1, <3>2, <1>4
  <2>2. plugin_file'[o] = plugin_file[o] BY <2>1, <1>5, <1>8
  <2>3. Reloadable(o) BY <2>2, <1>1, <1>10 DEF Reloadable
  <2>4. IsLoaded(o) \/ PluginNameOf[o] \in polling.reload BY <2>3 DEF FilesIInv
  <2> QED BY <2>2, <2>4, <1>1 DEF IsLoaded
<1>11. PollingFits' /\ ImportedIsLoaded' BY <1>1 DEF FilesIInv, PollingFits, ImportedIsLoaded
<1> QED BY <1>1, <1>7, <1>9, <1>10, <1>11 DEF FilesIInv

(* What begins to be watched has not changed since. *)
LEMMA WatchKeeps == ASSUME PluginAssumption, FilesIInv, NEW d \in PluginDirs, Watch(d) PROVE FilesIInv'
<1> DEFINE seen == [o \in {d} |-> plugin_file[o].version]
           named == [name \in {PluginNameOf[d]} |-> d]
           snapshot == Joined(seen, watching.snapshot)
           first == Joined(seen, watching.first)
           dirs == Joined(named, watching.dirs)
<1>1. /\ watching' = [watching EXCEPT !.snapshot = snapshot, !.first = first, !.dirs = dirs]
      /\ plugin_file' = plugin_file /\ polling' = polling /\ loaded' = loaded /\ modules' = modules
      /\ d \notin DOMAIN watching.snapshot
  BY DEF Watch
<1>2. DOMAIN seen = {d} /\ seen[d] = plugin_file[d].version /\ DOMAIN named = {PluginNameOf[d]} /\ named[PluginNameOf[d]] = d
  OBVIOUS
<1> HIDE DEF seen, named
<1>3. /\ DOMAIN snapshot = DOMAIN watching.snapshot \cup {d} /\ snapshot[d] = plugin_file[d].version
      /\ \A o \in DOMAIN watching.snapshot : o # d => snapshot[o] = watching.snapshot[o]
  <2>1. DOMAIN snapshot = DOMAIN seen \cup DOMAIN watching.snapshot BY JoinedDomain
  <2>2. snapshot[d] = plugin_file[d].version BY <1>2, JoinedFirst
  <2>3. \A o \in DOMAIN watching.snapshot : o # d => snapshot[o] = watching.snapshot[o] BY <1>2, JoinedSecond
  <2> HIDE DEF snapshot, first, dirs
  <2> QED BY <1>2, <2>1, <2>2, <2>3
<1>4. /\ DOMAIN first = DOMAIN watching.first \cup {d} /\ first[d] = plugin_file[d].version
      /\ \A o \in DOMAIN watching.first : o # d => first[o] = watching.first[o]
  <2>1. DOMAIN first = DOMAIN seen \cup DOMAIN watching.first BY JoinedDomain
  <2>2. first[d] = plugin_file[d].version BY <1>2, JoinedFirst
  <2>3. \A o \in DOMAIN watching.first : o # d => first[o] = watching.first[o] BY <1>2, JoinedSecond
  <2> HIDE DEF snapshot, first, dirs
  <2> QED BY <1>2, <2>1, <2>2, <2>3
<1>5. /\ DOMAIN dirs = DOMAIN watching.dirs \cup {PluginNameOf[d]} /\ dirs[PluginNameOf[d]] = d
      /\ \A name \in DOMAIN watching.dirs : name # PluginNameOf[d] => dirs[name] = watching.dirs[name]
  <2>1. DOMAIN dirs = DOMAIN named \cup DOMAIN watching.dirs BY JoinedDomain
  <2>2. dirs[PluginNameOf[d]] = d BY <1>2, JoinedFirst
  <2>3. \A name \in DOMAIN watching.dirs : name # PluginNameOf[d] => dirs[name] = watching.dirs[name] BY <1>2, JoinedSecond
  <2> HIDE DEF snapshot, first, dirs
  <2> QED BY <1>2, <2>1, <2>2, <2>3
<1> HIDE DEF snapshot, first, dirs
<1>6. DOMAIN watching = {"running", "snapshot", "dirs", "first"} BY DEF FilesIInv, WatchingFits
<1>7. DOMAIN watching' = {"running", "snapshot", "dirs", "first"} /\ watching'.snapshot = snapshot
      /\ watching'.first = first /\ watching'.dirs = dirs
  BY <1>1, <1>6
<1>8. FilesFit' /\ PollingFits' /\ ImportedIsLoaded' BY <1>1 DEF FilesIInv, FilesFit, PollingFits, ImportedIsLoaded
<1>9. WatchingFits'
  <2>1. plugin_file[d].version \in Nat BY DEF FilesIInv, FilesFit
  <2>2. \A o \in DOMAIN snapshot : snapshot[o] \in Nat /\ snapshot[o] <= plugin_file[o].version
    BY <1>3, <2>1 DEF FilesIInv, WatchingFits
  <2> QED BY <2>2, <1>1, <1>3, <1>4, <1>7 DEF FilesIInv, WatchingFits
<1>10. ASSUME NEW o \in DOMAIN snapshot, Reloadable(o)' PROVE IsLoaded(o)' \/ PluginNameOf[o] \in polling.reload
  <2>1. /\ snapshot[o] = plugin_file[o].version /\ plugin_file[o].version # first[o] /\ plugin_file[o].code = "ok"
        /\ PluginNameOf[o] \in DOMAIN dirs /\ dirs[PluginNameOf[o]] = o
    BY <1>1, <1>7, <1>10 DEF Reloadable
  <2>2. o # d /\ o \in DOMAIN watching.snapshot /\ o \in DOMAIN watching.first
    BY <2>1, <1>3, <1>4 DEF FilesIInv, WatchingFits
  <2>3. PluginNameOf[o] # PluginNameOf[d] BY <2>1, <2>2, <1>5
  <2>4. Reloadable(o) BY <2>1, <2>2, <2>3, <1>3, <1>4, <1>5 DEF Reloadable
  <2>5. IsLoaded(o) \/ PluginNameOf[o] \in polling.reload BY <2>2, <2>4 DEF FilesIInv
  <2> QED BY <2>5, <1>1 DEF IsLoaded
<1> QED BY <1>1, <1>7, <1>8, <1>9, <1>10 DEF FilesIInv

(* What is no longer watched need not be loaded. *)
LEMMA StopKeeps == ASSUME PluginAssumption, FilesIInv, NEW d \in PluginDirs, StopWatching(d) PROVE FilesIInv'
<1> DEFINE snapshot == Without(watching.snapshot, {d})
           first == Without(watching.first, {d})
           dirs == Without(watching.dirs, {PluginNameOf[d]})
<1>1. /\ watching' = [watching EXCEPT !.snapshot = snapshot, !.first = first, !.dirs = dirs]
      /\ plugin_file' = plugin_file /\ polling' = polling /\ loaded' = loaded /\ modules' = modules
  BY DEF StopWatching
<1>3. /\ DOMAIN snapshot = DOMAIN watching.snapshot \ {d}
      /\ \A o \in DOMAIN watching.snapshot \ {d} : snapshot[o] = watching.snapshot[o]
  <2>1. DOMAIN snapshot = DOMAIN watching.snapshot \ {d} BY WithoutDomain
  <2>2. \A o \in DOMAIN watching.snapshot : o # d => snapshot[o] = watching.snapshot[o] BY WithoutValue
  <2> HIDE DEF snapshot, first, dirs
  <2> QED BY <2>1, <2>2
<1>4. /\ DOMAIN first = DOMAIN watching.first \ {d}
      /\ \A o \in DOMAIN watching.first \ {d} : first[o] = watching.first[o]
  <2>1. DOMAIN first = DOMAIN watching.first \ {d} BY WithoutDomain
  <2>2. \A o \in DOMAIN watching.first : o # d => first[o] = watching.first[o] BY WithoutValue
  <2> HIDE DEF snapshot, first, dirs
  <2> QED BY <2>1, <2>2
<1>5. /\ DOMAIN dirs = DOMAIN watching.dirs \ {PluginNameOf[d]}
      /\ \A name \in DOMAIN watching.dirs \ {PluginNameOf[d]} : dirs[name] = watching.dirs[name]
  <2>1. DOMAIN dirs = DOMAIN watching.dirs \ {PluginNameOf[d]} BY WithoutDomain
  <2>2. \A name \in DOMAIN watching.dirs : name # PluginNameOf[d] => dirs[name] = watching.dirs[name] BY WithoutValue
  <2> HIDE DEF snapshot, first, dirs
  <2> QED BY <2>1, <2>2
<1> HIDE DEF snapshot, first, dirs
<1>6. DOMAIN watching = {"running", "snapshot", "dirs", "first"} BY DEF FilesIInv, WatchingFits
<1>7. DOMAIN watching' = {"running", "snapshot", "dirs", "first"} /\ watching'.snapshot = snapshot
      /\ watching'.first = first /\ watching'.dirs = dirs
  BY <1>1, <1>6
<1>8. FilesFit' /\ PollingFits' /\ ImportedIsLoaded' BY <1>1 DEF FilesIInv, FilesFit, PollingFits, ImportedIsLoaded
<1>9. WatchingFits' BY <1>1, <1>3, <1>4, <1>7 DEF FilesIInv, WatchingFits
<1>10. ASSUME NEW o \in DOMAIN snapshot, Reloadable(o)' PROVE IsLoaded(o)' \/ PluginNameOf[o] \in polling.reload
  <2>1. /\ snapshot[o] = plugin_file[o].version /\ plugin_file[o].version # first[o] /\ plugin_file[o].code = "ok"
        /\ PluginNameOf[o] \in DOMAIN dirs /\ dirs[PluginNameOf[o]] = o
    BY <1>1, <1>7, <1>10 DEF Reloadable
  <2>2. o # d /\ o \in DOMAIN watching.snapshot /\ o \in DOMAIN watching.first
    BY <1>3 DEF FilesIInv, WatchingFits
  <2>4. Reloadable(o) BY <2>1, <2>2, <1>3, <1>4, <1>5 DEF Reloadable
  <2>5. IsLoaded(o) \/ PluginNameOf[o] \in polling.reload BY <2>2, <2>4 DEF FilesIInv
  <2> QED BY <2>5, <1>1 DEF IsLoaded
<1> QED BY <1>1, <1>7, <1>8, <1>9, <1>10 DEF FilesIInv

(* What changes neither the files, nor what is watched and loaded. *)
LEMMA FilesAsBefore ==
  ASSUME FilesIInv, DOMAIN watching' = DOMAIN watching, watching'.snapshot = watching.snapshot,
         watching'.first = watching.first, watching'.dirs = watching.dirs, plugin_file' = plugin_file, loaded' = loaded,
         ImportedIsLoaded', PollingFits', polling'.reload = polling.reload
  PROVE  FilesIInv'
<1>1. FilesFit' /\ WatchingFits' BY DEF FilesIInv, FilesFit, WatchingFits
<1>2. \A d : Reloadable(d)' => Reloadable(d) BY DEF Reloadable
<1>3. \A d : IsLoaded(d) => IsLoaded(d)' BY DEF IsLoaded
<1> QED BY <1>1, <1>2, <1>3 DEF FilesIInv

(* The watcher starts and stops. *)
LEMMA StartStopKeeps == ASSUME FilesIInv, StartStopWatcher PROVE FilesIInv'
<1>1. /\ watching' = [watching EXCEPT !.running = ~@] /\ plugin_file' = plugin_file
      /\ polling' = polling /\ loaded' = loaded /\ modules' = modules
  BY DEF StartStopWatcher
<1>2. DOMAIN watching = {"running", "snapshot", "dirs", "first"} BY DEF FilesIInv, WatchingFits
<1>3. /\ DOMAIN watching' = DOMAIN watching /\ watching'.snapshot = watching.snapshot
      /\ watching'.first = watching.first /\ watching'.dirs = watching.dirs
  BY <1>1, <1>2
<1>4. ImportedIsLoaded' /\ PollingFits' BY <1>1 DEF FilesIInv, ImportedIsLoaded, PollingFits
<1> QED BY <1>1, <1>3, <1>4, FilesAsBefore

(* A poll begins. *)
LEMMA PollKeeps == ASSUME FilesIInv, Poll PROVE FilesIInv'
<1> DEFINE todo == SetToSeq(DOMAIN watching.snapshot)
<1>1. /\ watching' = watching /\ plugin_file' = plugin_file /\ loaded' = loaded /\ modules' = modules
      /\ polling = [todo |-> << >>, reload |-> {}]
      /\ polling' = [[todo |-> << >>, reload |-> {}] EXCEPT !.todo = todo]
  BY DEF Poll, NotPolling, WatcherIdle
<1> HIDE DEF todo
<1>2. DOMAIN polling' = {"todo", "reload"} /\ polling'.reload = {} /\ polling.reload = {} BY <1>1
<1>3. ImportedIsLoaded' BY <1>1 DEF FilesIInv, ImportedIsLoaded
<1>4. PollingFits' BY <1>2 DEF PollingFits
<1> QED BY <1>1, <1>2, <1>3, <1>4, FilesAsBefore

(* A change is stored in the snapshot, and its plugin is to be reloaded. *)
LEMMA SnapshotKeeps == ASSUME FilesIInv, CompareSnapshot PROVE FilesIInv'
<1> DEFINE d == Head(polling.todo)
           changed == plugin_file[d].version # watching.snapshot[d]
           snapshot == [watching.snapshot EXCEPT ![d] = plugin_file[d].version]
           rest == Tail(polling.todo)
           reload == IF changed THEN {PluginNameOf[d]} ELSE {}
<1>1. /\ plugin_file' = plugin_file /\ loaded' = loaded /\ modules' = modules /\ polling.reload = {}
      /\ watching' = IF changed THEN [watching EXCEPT !.snapshot = snapshot] ELSE watching
      /\ polling' = [todo |-> rest, reload |-> reload]
  BY DEF CompareSnapshot
<1>2. DOMAIN snapshot = DOMAIN watching.snapshot
      /\ \A o \in DOMAIN watching.snapshot : snapshot[o] = IF o = d THEN plugin_file[d].version ELSE watching.snapshot[o]
  OBVIOUS
<1>3. DOMAIN polling' = {"todo", "reload"} /\ polling'.reload = reload
  <2> HIDE DEF rest, reload
  <2> QED BY <1>1
<1>4. PollingFits' BY <1>3 DEF PollingFits
<1>5. ImportedIsLoaded' BY <1>1 DEF FilesIInv, ImportedIsLoaded
<1>6. DOMAIN watching = {"running", "snapshot", "dirs", "first"} BY DEF FilesIInv, WatchingFits
<1>7. CASE ~changed
  <2>1. watching' = watching /\ reload = {} BY <1>1, <1>7
  <2> QED BY <2>1, <1>1, <1>3, <1>4, <1>5, FilesAsBefore
<1>8. CASE changed
  <2>1. watching' = [watching EXCEPT !.snapshot = snapshot] /\ reload = {PluginNameOf[d]} BY <1>1, <1>8
  <2> HIDE DEF snapshot, reload, rest, changed, d
  <2>2. /\ DOMAIN watching' = {"running", "snapshot", "dirs", "first"} /\ watching'.snapshot = snapshot
        /\ watching'.first = watching.first /\ watching'.dirs = watching.dirs
    BY <2>1, <1>6
  <2>3. FilesFit' BY <1>1 DEF FilesIInv, FilesFit
  <2>4. WatchingFits'
    <3>1. \A o \in DOMAIN snapshot : snapshot[o] \in Nat /\ snapshot[o] <= plugin_file[o].version
      <4> SUFFICES ASSUME NEW o \in DOMAIN snapshot PROVE snapshot[o] \in Nat /\ snapshot[o] <= plugin_file[o].version
        OBVIOUS
      <4>1. o \in PluginDirs /\ plugin_file[o].version \in Nat BY <1>2 DEF FilesIInv, WatchingFits, FilesFit
      <4>2. CASE o = d BY <4>1, <4>2, <1>2
      <4>3. CASE o # d BY <4>3, <1>2 DEF FilesIInv, WatchingFits
      <4> QED BY <4>2, <4>3
    <3> QED BY <3>1, <2>2, <1>1, <1>2 DEF FilesIInv, WatchingFits
  <2>5. ASSUME NEW o \in DOMAIN snapshot, Reloadable(o)' PROVE IsLoaded(o)' \/ PluginNameOf[o] \in reload
    <3>1. CASE o = d BY <3>1, <2>1
    <3>2. CASE o # d
      <4>1. Reloadable(o) BY <3>2, <2>2, <2>5, <1>1, <1>2 DEF Reloadable
      <4>2. IsLoaded(o) BY <4>1, <1>1, <1>2 DEF FilesIInv
      <4> QED BY <4>2, <1>1 DEF IsLoaded
    <3> QED BY <3>1, <3>2
  <2> QED BY <2>2, <2>3, <2>4, <2>5, <1>3, <1>4, <1>5 DEF FilesIInv
<1> QED BY <1>7, <1>8

(* A reload loads the code that is there, and forgets the modules of the   *)
(* old.                                                                    *)
LEMMA ReloadKeeps == ASSUME FilesIInv, ReloadPlugin PROVE FilesIInv'
<1>1. /\ plugin_file' = plugin_file /\ watching' = watching /\ polling' = [polling EXCEPT !.reload = {}]
      /\ \E name \in polling.reload :
           IF name \notin DOMAIN watching.dirs THEN UNCHANGED <<loaded, modules>>
           ELSE LET d == watching.dirs[name]
                    code == [dir |-> d, version |-> plugin_file[d].version]
                IN IF plugin_file[d].code = "ok"
                   THEN /\ loaded' = Joined([k \in {name} |-> code], loaded)
                        /\ modules' = Joined([k \in {name} |-> code], Evicted(d))
                   ELSE modules' = Evicted(d) /\ UNCHANGED loaded
  BY DEF ReloadPlugin
<1>2. PICK name \in polling.reload :
           IF name \notin DOMAIN watching.dirs THEN UNCHANGED <<loaded, modules>>
           ELSE LET d == watching.dirs[name]
                    code == [dir |-> d, version |-> plugin_file[d].version]
                IN IF plugin_file[d].code = "ok"
                   THEN /\ loaded' = Joined([k \in {name} |-> code], loaded)
                        /\ modules' = Joined([k \in {name} |-> code], Evicted(d))
                   ELSE modules' = Evicted(d) /\ UNCHANGED loaded
  BY <1>1
<1> DEFINE d == watching.dirs[name]
           code == [dir |-> d, version |-> plugin_file[d].version]
<1>3. \A n \in polling.reload : n = name BY <1>2 DEF FilesIInv, PollingFits
<1>4. /\ name \notin DOMAIN watching.dirs => loaded' = loaded /\ modules' = modules
      /\ (name \in DOMAIN watching.dirs /\ plugin_file[d].code = "ok") =>
           /\ loaded' = Joined([k \in {name} |-> code], loaded)
           /\ modules' = Joined([k \in {name} |-> code], Evicted(d))
      /\ (name \in DOMAIN watching.dirs /\ plugin_file[d].code # "ok") => modules' = Evicted(d) /\ loaded' = loaded
  BY <1>2
<1> DEFINE one == [k \in {name} |-> code]
<1>one. DOMAIN one = {name} /\ one[name] = code OBVIOUS
<1>5. DOMAIN Evicted(d) \subseteq DOMAIN modules /\ \A k \in DOMAIN Evicted(d) : Evicted(d)[k] = modules[k]
  <2> HIDE DEF d
  <2> DEFINE gone == {k \in DOMAIN modules : modules[k].dir \in PathsBelow[d]}
  <2>1. Evicted(d) = Without(modules, gone) BY DEF Evicted
  <2> HIDE DEF gone
  <2>2. DOMAIN Evicted(d) = DOMAIN modules \ gone BY <2>1, WithoutDomain
  <2>3. \A k \in DOMAIN modules : k \notin gone => Evicted(d)[k] = modules[k] BY <2>1, WithoutValue
  <2> QED BY <2>2, <2>3
<1>code. code = [dir |-> watching.dirs[name], version |-> plugin_file[watching.dirs[name]].version] OBVIOUS
<1>d. d = watching.dirs[name] OBVIOUS
<1> DEFINE old == Evicted(d)
<1>old. old = Evicted(d) OBVIOUS
<1>14. (name \in DOMAIN watching.dirs /\ plugin_file[d].code = "ok") => loaded' = Joined(one, loaded) /\ modules' = Joined(one, old)
  BY <1>4
<1> HIDE DEF d, code, old, one
<1>6. DOMAIN polling' = {"todo", "reload"} /\ polling'.reload = {} BY <1>1 DEF FilesIInv, PollingFits
<1>7. FilesFit' /\ WatchingFits' BY <1>1 DEF FilesIInv, FilesFit, WatchingFits
<1>8. PollingFits' BY <1>6 DEF PollingFits
<1>9. (name \in DOMAIN watching.dirs /\ plugin_file[d].code = "ok") =>
        /\ DOMAIN loaded' = DOMAIN loaded \cup {name} /\ loaded'[name] = code
        /\ \A k \in DOMAIN loaded : k # name => loaded'[k] = loaded[k]
        /\ DOMAIN modules' = DOMAIN old \cup {name} /\ modules'[name] = code
        /\ \A k \in DOMAIN old : k # name => modules'[k] = old[k]
  <2> SUFFICES ASSUME name \in DOMAIN watching.dirs, plugin_file[d].code = "ok"
               PROVE  /\ DOMAIN loaded' = DOMAIN loaded \cup {name} /\ loaded'[name] = code
                      /\ \A k \in DOMAIN loaded : k # name => loaded'[k] = loaded[k]
                      /\ DOMAIN modules' = DOMAIN old \cup {name} /\ modules'[name] = code
                      /\ \A k \in DOMAIN old : k # name => modules'[k] = old[k]
    OBVIOUS
  <2>1. loaded' = Joined(one, loaded) /\ modules' = Joined(one, old) BY <1>14
  <2>2. DOMAIN loaded' = DOMAIN one \cup DOMAIN loaded /\ DOMAIN modules' = DOMAIN one \cup DOMAIN old BY <2>1, JoinedDomain
  <2>3. loaded'[name] = code /\ modules'[name] = code BY <2>1, <1>one, JoinedFirst
  <2>4. \A k \in DOMAIN loaded : k # name => loaded'[k] = loaded[k] BY <2>1, <1>one, JoinedSecond
  <2>5. \A k \in DOMAIN old : k # name => modules'[k] = old[k] BY <2>1, <1>one, JoinedSecond
  <2> QED BY <1>one, <2>2, <2>3, <2>4, <2>5
<1>10. ASSUME NEW o \in DOMAIN watching.snapshot, Reloadable(o)' PROVE IsLoaded(o)'
  <2>1. Reloadable(o) BY <1>1, <1>10 DEF Reloadable
  <2>2. IsLoaded(o) \/ PluginNameOf[o] = name BY <2>1, <1>3 DEF FilesIInv
  <2>3. CASE PluginNameOf[o] = name
    <3>1. name \in DOMAIN watching.dirs /\ d = o /\ plugin_file[o].code = "ok" BY <2>1, <2>3, <1>d DEF Reloadable
    <3>2. name \in DOMAIN loaded' /\ loaded'[name] = code BY <3>1, <1>9
    <3>3. code = [dir |-> o, version |-> plugin_file[o].version] BY <3>1, <1>d, <1>code
    <3> QED BY <3>2, <3>3, <2>3, <1>1 DEF IsLoaded
  <2>4. CASE PluginNameOf[o] # name
    <3>1. PluginNameOf[o] \in DOMAIN loaded /\ loaded[PluginNameOf[o]] = [dir |-> o, version |-> plugin_file[o].version]
      BY <2>2, <2>4 DEF IsLoaded
    <3>2. PluginNameOf[o] \in DOMAIN loaded' /\ loaded'[PluginNameOf[o]] = loaded[PluginNameOf[o]]
      BY <3>1, <2>4, <1>4, <1>9
    <3> QED BY <3>1, <3>2, <1>1 DEF IsLoaded
  <2> QED BY <2>3, <2>4
<1>11. ImportedIsLoaded'
  <2> SUFFICES ASSUME NEW n \in DOMAIN modules', n # "plugin" PROVE n \in DOMAIN loaded' /\ modules'[n] = loaded'[n]
    BY DEF ImportedIsLoaded
  <2>1. \A k \in DOMAIN modules : k # "plugin" => k \in DOMAIN loaded /\ modules[k] = loaded[k]
    BY DEF FilesIInv, ImportedIsLoaded
  <2>2. CASE name \notin DOMAIN watching.dirs BY <2>1, <2>2, <1>4
  <2>3. CASE name \in DOMAIN watching.dirs /\ plugin_file[d].code # "ok" BY <2>1, <2>3, <1>4, <1>5, <1>old
  <2>4. CASE name \in DOMAIN watching.dirs /\ plugin_file[d].code = "ok"
    <3>1. CASE n = name BY <3>1, <2>4, <1>9
    <3>2. CASE n # name
      <4>1. n \in DOMAIN old /\ modules'[n] = old[n] BY <3>2, <2>4, <1>9
      <4>2. n \in DOMAIN modules /\ old[n] = modules[n] BY <4>1, <1>5, <1>old
      <4>3. n \in DOMAIN loaded /\ modules[n] = loaded[n] BY <4>2, <2>1
      <4> QED BY <4>1, <4>2, <4>3, <3>2, <2>4, <1>9
    <3> QED BY <3>1, <3>2
  <2> QED BY <2>2, <2>3, <2>4
<1> QED BY <1>1, <1>6, <1>7, <1>8, <1>10, <1>11 DEF FilesIInv

(* The loader touches no module of a reloaded plugin. *)
LEMMA LoadKeeps == ASSUME FilesIInv, NEW d \in PluginDirs, LoadDirectory(d) PROVE FilesIInv'
<1> DEFINE code == [dir |-> d, version |-> plugin_file[d].version]
           one == [k \in {"plugin"} |-> code]
<1>1. /\ watching' = watching /\ plugin_file' = plugin_file /\ polling' = polling /\ loaded' = loaded
      /\ modules' = modules \/ modules' = Joined(one, modules)
  BY DEF LoadDirectory
<1>0. DOMAIN one = {"plugin"} /\ one["plugin"] = code OBVIOUS
<1> HIDE DEF code, one
<1>2. ImportedIsLoaded'
  <2> SUFFICES ASSUME NEW n \in DOMAIN modules', n # "plugin" PROVE n \in DOMAIN loaded /\ modules'[n] = loaded[n]
    BY <1>1 DEF ImportedIsLoaded
  <2>1. n \in DOMAIN modules /\ modules'[n] = modules[n]
    <3>1. CASE modules' = modules BY <3>1
    <3>2. CASE modules' = Joined(one, modules)
      <4>1. DOMAIN modules' = DOMAIN one \cup DOMAIN modules BY <3>2, JoinedDomain
      <4>2. n \in DOMAIN modules /\ n \notin DOMAIN one BY <4>1, <1>0
      <4> QED BY <4>2, <3>2, JoinedSecond
    <3> QED BY <3>1, <3>2, <1>1
  <2> QED BY <2>1 DEF FilesIInv, ImportedIsLoaded
<1>3. PollingFits' BY <1>1 DEF FilesIInv, PollingFits
<1> QED BY <1>1, <1>2, <1>3, FilesAsBefore

(* The routes leave the watcher alone. *)
LEMMA FilesStay == ASSUME FilesIInv, UNCHANGED fileVars PROVE FilesIInv'
<1>1. watching' = watching /\ plugin_file' = plugin_file /\ polling' = polling /\ loaded' = loaded /\ modules' = modules
  BY DEF fileVars
<1>2. ImportedIsLoaded' /\ PollingFits' BY <1>1 DEF FilesIInv, ImportedIsLoaded, PollingFits
<1> QED BY <1>1, <1>2, FilesAsBefore

(* The invariant implies that reloads are fresh and imports are what is    *)
(* loaded.                                                                 *)
LEMMA FilesSound == FilesIInv => ReloadsAreFresh /\ ImportedIsLoaded
<1> SUFFICES ASSUME FilesIInv, polling = NotPolling, NEW d \in DOMAIN watching.snapshot, Reloadable(d)
             PROVE IsLoaded(d)
  BY DEF FilesIInv, ReloadsAreFresh, Reloadable, IsLoaded
<1>1. polling.reload = {} BY DEF NotPolling
<1> QED BY <1>1 DEF FilesIInv

-----------------------------------------------------------------------------
(* The settings.                                                           *)
RegistrationRows == [enabled : BOOLEAN, version : 0 .. 2, config : {"empty", "full"}]

FieldsTyped(f) ==
  /\ DOMAIN f \subseteq {"enabled", "version", "config"}
  /\ "enabled" \in DOMAIN f => f["enabled"] \in BOOLEAN
  /\ "version" \in DOMAIN f => f["version"] \in 0 .. 2
  /\ "config" \in DOMAIN f => f["config"] \in {"empty", "full"}

FieldsFit(f) == FieldsTyped(f) /\ ("version" \in DOMAIN f => "config" \notin DOMAIN f)

OneOf(s) == \A a, b \in s : a = b

ReadFits(r) ==
  LET s == setting[r] IN
  /\ DOMAIN s = {"pc", "fields", "seen", "others"} /\ s.pc \in {"read", "flushed"} /\ FieldsFit(s.fields)
  /\ s.seen = NoRegistration => "version" \in DOMAIN s.fields
  /\ s.seen # NoRegistration => registration # NoRegistration /\ s.seen \in RegistrationRows
  /\ s.others = TRUE \/ registration = s.seen
  /\ s.pc = "flushed" /\ s.seen = NoRegistration => registration = NoRegistration /\ r \in setting_lock

SessionFits(r) ==
  \/ setting[r] = Unasked
  \/ DOMAIN setting[r] = {"pc", "fields"} /\ setting[r].pc = "asked" /\ FieldsFit(setting[r].fields)
  \/ ReadFits(r)

SettingsIInv ==
  /\ setting = [r \in PluginRequests |-> setting[r]]
  /\ \A r \in PluginRequests : SessionFits(r)
  /\ registration = NoRegistration \/ registration \in RegistrationRows
  /\ registration = NoRegistration => setting_answer.config = "empty"
  /\ OneOf(setting_lock)
  /\ DOMAIN registry = {"global", "tenant"} /\ registry.global \in 0 .. 2 /\ registry.tenant \in 0 .. 2
  /\ SettingsAreKept

(* A row is not the missing one. *)
LEMMA NoRowIsNone == PluginAssumption => NoRegistration \notin RegistrationRows
BY DEF PluginAssumption, RegistrationRows

(* A row is made of its three columns. *)
LEMMA RowIs ==
  ASSUME NEW x, x = [k \in DOMAIN x |-> x[k]], DOMAIN x = {"enabled", "version", "config"}, FieldsTyped(x)
  PROVE  x \in RegistrationRows
<1>1. x["enabled"] \in BOOLEAN /\ x["version"] \in 0 .. 2 /\ x["config"] \in {"empty", "full"} BY DEF FieldsTyped
<1>2. x = [enabled |-> x["enabled"], version |-> x["version"], config |-> x["config"]] OBVIOUS
<1> DEFINE e == x["enabled"]  v == x["version"]  c == x["config"]
<1>3. x = [enabled |-> e, version |-> v, config |-> c] BY <1>2
<1>4. e \in BOOLEAN /\ v \in 0 .. 2 /\ c \in {"empty", "full"} BY <1>1
<1> HIDE DEF e, v, c
<1> QED BY <1>3, <1>4 DEF RegistrationRows

(* The columns of a row have their types. *)
LEMMA RowTyped == ASSUME NEW x \in RegistrationRows PROVE DOMAIN x = {"enabled", "version", "config"} /\ FieldsTyped(x)
<1>1. DOMAIN x = {"enabled", "version", "config"} BY DEF RegistrationRows
<1>2. x["enabled"] \in BOOLEAN BY DEF RegistrationRows
<1>3. x["version"] \in 0 .. 2 BY DEF RegistrationRows
<1>4. x["config"] \in {"empty", "full"} BY DEF RegistrationRows
<1> QED BY <1>1, <1>2, <1>3, <1>4 DEF FieldsTyped

(* A row with typed changes is one. *)
LEMMA JoinedRow == ASSUME NEW f, NEW b \in RegistrationRows, FieldsTyped(f) PROVE Joined(f, b) \in RegistrationRows
<1> DEFINE j == Joined(f, b)
<1>1. DOMAIN j = DOMAIN f \cup DOMAIN b BY JoinedDomain
<1>2. \A k \in DOMAIN f : j[k] = f[k] BY JoinedFirst
<1>3. \A k \in DOMAIN b : k \notin DOMAIN f => j[k] = b[k] BY JoinedSecond
<1>4. j = [k \in DOMAIN j |-> j[k]] BY DEF Joined
<1>5. DOMAIN b = {"enabled", "version", "config"} /\ FieldsTyped(b) BY RowTyped
<1> HIDE DEF j
<1>6. DOMAIN j = {"enabled", "version", "config"} BY <1>1, <1>5 DEF FieldsTyped
<1>7. j["enabled"] \in BOOLEAN
  <2>1. CASE "enabled" \in DOMAIN f BY <2>1, <1>2 DEF FieldsTyped
  <2>2. CASE "enabled" \notin DOMAIN f BY <2>2, <1>3, <1>5 DEF FieldsTyped
  <2> QED BY <2>1, <2>2
<1>8. j["version"] \in 0 .. 2
  <2>1. CASE "version" \in DOMAIN f BY <2>1, <1>2 DEF FieldsTyped
  <2>2. CASE "version" \notin DOMAIN f BY <2>2, <1>3, <1>5 DEF FieldsTyped
  <2> QED BY <2>1, <2>2
<1>9. j["config"] \in {"empty", "full"}
  <2>1. CASE "config" \in DOMAIN f BY <2>1, <1>2 DEF FieldsTyped
  <2>2. CASE "config" \notin DOMAIN f BY <2>2, <1>3, <1>5 DEF FieldsTyped
  <2> QED BY <2>1, <2>2
<1>10. FieldsTyped(j) BY <1>6, <1>7, <1>8, <1>9 DEF FieldsTyped
<1> QED BY <1>4, <1>6, <1>10, RowIs DEF j

(* Nothing is registered at first. *)
LEMMA SettingsInit == ASSUME PluginInit PROVE SettingsIInv
<1>1. setting = [r \in PluginRequests |-> Unasked] /\ setting_lock = {} /\ registration = NoRegistration
      /\ registry = [global |-> 0, tenant |-> 0]
      /\ setting_answer = [row |-> NoRegistration, alone |-> FALSE, config |-> "empty"]
  BY DEF PluginInit
<1>2. setting_answer.config = "empty" /\ ~ setting_answer.alone BY <1>1
<1>3. DOMAIN registry = {"global", "tenant"} /\ registry.global \in 0 .. 2 /\ registry.tenant \in 0 .. 2 BY <1>1
<1>4. \A r \in PluginRequests : setting[r] = Unasked BY <1>1
<1>5. setting = [r \in PluginRequests |-> setting[r]] BY <1>1
<1>6. OneOf(setting_lock) BY <1>1 DEF OneOf
<1>7. SettingsAreKept BY <1>1, <1>2 DEF SettingsAreKept
<1> QED BY <1>1, <1>2, <1>3, <1>4, <1>5, <1>6, <1>7 DEF SettingsIInv, SessionFits

(* The watcher leaves the settings alone. *)
LEMMA SettingsStay == ASSUME SettingsIInv, UNCHANGED settingVars PROVE SettingsIInv'
<1>1. registry' = registry /\ registration' = registration /\ setting' = setting /\ setting_lock' = setting_lock
      /\ setting_answer' = setting_answer
  BY DEF settingVars
<1>2. \A r : SessionFits(r)' <=> SessionFits(r) BY <1>1 DEF SessionFits, ReadFits
<1>3. SettingsAreKept' <=> SettingsAreKept BY <1>1 DEF SettingsAreKept
<1> QED BY <1>1, <1>2, <1>3 DEF SettingsIInv

(* The registry knows versions. *)
LEMMA RegistryKeeps ==
  ASSUME SettingsIInv, NEW scope \in {"global", "tenant"}, NEW version \in 0 .. 2,
         registry' = [registry EXCEPT ![scope] = version],
         UNCHANGED <<registration, setting, setting_lock, setting_answer>>
  PROVE  SettingsIInv'
<1>1. registration' = registration /\ setting' = setting /\ setting_lock' = setting_lock /\ setting_answer' = setting_answer
  OBVIOUS
<1>2. \A r : SessionFits(r)' <=> SessionFits(r) BY <1>1 DEF SessionFits, ReadFits
<1>3. SettingsAreKept' <=> SettingsAreKept BY <1>1 DEF SettingsAreKept
<1>4. DOMAIN registry' = {"global", "tenant"} /\ registry'.global \in 0 .. 2 /\ registry'.tenant \in 0 .. 2
  BY DEF SettingsIInv
<1> QED BY <1>1, <1>2, <1>3, <1>4 DEF SettingsIInv

(* One session goes on, and takes nobody's lock. *)
LEMMA OneSession ==
  ASSUME SettingsIInv, NEW r \in PluginRequests, NEW x, setting' = [setting EXCEPT ![r] = x],
         UNCHANGED <<registry, registration, setting_answer>>,
         OneOf(setting_lock'), \A o \in PluginRequests \ {r} : o \in setting_lock => o \in setting_lock',
         SessionFits(r)'
  PROVE  SettingsIInv'
<1>1. registration' = registration /\ registry' = registry /\ setting_answer' = setting_answer OBVIOUS
<1>2. setting' = [o \in PluginRequests |-> setting'[o]] /\ \A o \in PluginRequests : o # r => setting'[o] = setting[o]
  BY DEF SettingsIInv
<1>3. ASSUME NEW o \in PluginRequests PROVE SessionFits(o)'
  <2>1. CASE o = r BY <2>1
  <2>2. CASE o # r
    <3>1. setting'[o] = setting[o] /\ (o \in setting_lock => o \in setting_lock') BY <2>2, <1>2
    <3>2. SessionFits(o) BY DEF SettingsIInv
    <3>3. ReadFits(o) => ReadFits(o)' BY <3>1, <1>1 DEF ReadFits
    <3> QED BY <3>1, <3>2, <3>3 DEF SessionFits
  <2> QED BY <2>1, <2>2
<1>4. SettingsAreKept' BY <1>1 DEF SettingsIInv, SettingsAreKept
<1> QED BY <1>1, <1>2, <1>3, <1>4 DEF SettingsIInv

(* A request asks for a change that fits. *)
LEMMA AskKeeps ==
  ASSUME SettingsIInv, NEW r \in PluginRequests, NEW f, FieldsFit(f), Asks(r, [pc |-> "asked", fields |-> f])
  PROVE  SettingsIInv'
<1> DEFINE x == [pc |-> "asked", fields |-> f]
<1>1. setting' = [setting EXCEPT ![r] = x] /\ UNCHANGED <<registry, registration, setting_lock, setting_answer>>
  BY DEF Asks
<1>2. DOMAIN x = {"pc", "fields"} /\ x.pc = "asked" /\ x.fields = f OBVIOUS
<1> HIDE DEF x
<1>3. setting'[r] = x BY <1>1 DEF SettingsIInv
<1>4. SessionFits(r)' BY <1>2, <1>3 DEF SessionFits
<1>5. OneOf(setting_lock') BY <1>1 DEF SettingsIInv, OneOf
<1> QED BY <1>1, <1>4, <1>5, OneSession

(* Enabling, disabling and configuring fit. *)
LEMMA AsksFit ==
  ASSUME SettingsIInv, NEW r \in PluginRequests, EnablePlugin(r) \/ DisablePlugin(r) \/ UpdatePluginConfig(r)
  PROVE  SettingsIInv'
<1>1. CASE EnablePlugin(r)
  <2> DEFINE f == [enabled |-> TRUE, version |-> GetPlugin]
  <2>1. GetPlugin \in 0 .. 2 BY DEF GetPlugin, SettingsIInv
  <2>2. DOMAIN f = {"enabled", "version"} /\ f["enabled"] = TRUE /\ f["version"] \in 0 .. 2 BY <2>1
  <2>3. Asks(r, [pc |-> "asked", fields |-> f]) BY <1>1 DEF EnablePlugin
  <2> HIDE DEF f
  <2>4. FieldsFit(f) BY <2>2 DEF FieldsFit, FieldsTyped
  <2> QED BY <2>3, <2>4, AskKeeps
<1>2. CASE DisablePlugin(r)
  <2> DEFINE f == [enabled |-> FALSE]
  <2>2. DOMAIN f = {"enabled"} /\ f["enabled"] = FALSE OBVIOUS
  <2>3. Asks(r, [pc |-> "asked", fields |-> f]) BY <1>2 DEF DisablePlugin
  <2> HIDE DEF f
  <2>4. FieldsFit(f) BY <2>2 DEF FieldsFit, FieldsTyped
  <2> QED BY <2>3, <2>4, AskKeeps
<1>3. CASE UpdatePluginConfig(r)
  <2>1. PICK config \in {"empty", "full"} : Asks(r, [pc |-> "asked", fields |-> [config |-> config]])
    BY <1>3 DEF UpdatePluginConfig
  <2> DEFINE f == [config |-> config]
  <2>2. DOMAIN f = {"config"} /\ f["config"] \in {"empty", "full"} OBVIOUS
  <2>3. Asks(r, [pc |-> "asked", fields |-> f]) BY <2>1
  <2> HIDE DEF f
  <2>4. FieldsFit(f) BY <2>2 DEF FieldsFit, FieldsTyped
  <2> QED BY <2>3, <2>4, AskKeeps
<1> QED BY <1>1, <1>2, <1>3

(* A session has seen the row that was there. *)
LEMMA ReadKeeps ==
  ASSUME SettingsIInv, NEW r \in PluginRequests, ReadRegistration(r)
  PROVE  SettingsIInv'
<1> DEFINE f == setting[r].fields
           s == [pc |-> "read", fields |-> f, seen |-> registration, others |-> FALSE]
           x == IF registration = NoRegistration /\ "version" \notin DOMAIN f THEN Unasked ELSE s
<1>1. setting[r].pc = "asked" BY DEF ReadRegistration
<1>2. setting' = [setting EXCEPT ![r] = x] /\ UNCHANGED <<registry, registration, setting_lock, setting_answer>>
  BY DEF ReadRegistration
<1>3. FieldsFit(f)
  <2>1. SessionFits(r) BY DEF SettingsIInv
  <2> QED BY <1>1, <2>1 DEF SessionFits, ReadFits, Unasked
<1>4. DOMAIN s = {"pc", "fields", "seen", "others"} /\ s.pc = "read" /\ s.fields = f /\ s.seen = registration
  OBVIOUS
<1> HIDE DEF f, s
<1>5. setting'[r] = x BY <1>2 DEF SettingsIInv
<1>6. SessionFits(r)'
  <2>1. CASE x = Unasked BY <2>1, <1>5 DEF SessionFits
  <2>2. CASE x # Unasked
    <3>1. x = s /\ (registration = NoRegistration => "version" \in DOMAIN f) BY <2>2
    <3> HIDE DEF x
    <3>2. ReadFits(r)' BY <3>1, <1>2, <1>3, <1>4, <1>5 DEF ReadFits, SettingsIInv
    <3> QED BY <3>2 DEF SessionFits
  <2> QED BY <2>1, <2>2
<1>7. OneOf(setting_lock') BY <1>2 DEF SettingsIInv, OneOf
<1> HIDE DEF x
<1> QED BY <1>2, <1>6, <1>7, OneSession

(* A request that fails leaves the row alone. *)
LEMMA RollbackSettingKeeps ==
  ASSUME SettingsIInv, NEW r \in PluginRequests, RollbackRegistration(r)
  PROVE  SettingsIInv'
<1>1. /\ setting' = [setting EXCEPT ![r] = Unasked] /\ setting_lock' = setting_lock \ {r}
      /\ UNCHANGED <<registry, registration, setting_answer>>
  BY DEF RollbackRegistration
<1>2. setting'[r] = Unasked BY <1>1 DEF SettingsIInv
<1>3. SessionFits(r)' BY <1>2 DEF SessionFits
<1>4. OneOf(setting_lock') BY <1>1 DEF SettingsIInv, OneOf
<1>5. \A o \in PluginRequests \ {r} : o \in setting_lock => o \in setting_lock' BY <1>1
<1> QED BY <1>1, <1>3, <1>4, <1>5, OneSession

(* An insert takes the lock. *)
LEMMA InsertWrites ==
  ASSUME NEW r, ReadFits(r), setting[r].seen = NoRegistration
  PROVE  Writes(r) # << >> /\ Writes(r) = Answered(r) /\ Answered(r) \in RegistrationRows /\ Answered(r).config = "empty"
         /\ "config" \notin DOMAIN setting[r].fields
<1> DEFINE b == [enabled |-> TRUE, version |-> 0, config |-> "empty"]
           f == setting[r].fields
<1>1. b \in RegistrationRows /\ b["config"] = "empty" /\ "config" \in DOMAIN b BY DEF RegistrationRows
<1>2. Answered(r) = Joined(f, b) /\ Writes(r) = Answered(r) BY DEF Answered, Writes
<1>3. FieldsFit(f) /\ "version" \in DOMAIN f BY DEF ReadFits
<1> HIDE DEF b, f
<1>4. "config" \notin DOMAIN f /\ FieldsTyped(f) BY <1>3 DEF FieldsFit
<1>5. Joined(f, b) \in RegistrationRows BY <1>1, <1>4, JoinedRow
<1>6. Joined(f, b)["config"] = "empty" BY <1>1, <1>4, JoinedSecond
<1>7. DOMAIN Joined(f, b) = {"enabled", "version", "config"} BY <1>5, RowTyped
<1>8. Joined(f, b) # << >> BY <1>7
<1> QED BY <1>2, <1>4, <1>5, <1>6, <1>8 DEF f

(* A flush takes the lock, if there is something to write. *)
LEMMA FlushKeeps ==
  ASSUME SettingsIInv, NEW r \in PluginRequests, FlushRegistration(r)
  PROVE  SettingsIInv'
<1>1. /\ setting[r].pc = "read" /\ (Writes(r) = << >> \/ setting_lock = {})
      /\ UNCHANGED <<registry, registration, setting_answer>>
  BY DEF FlushRegistration
<1>2. ReadFits(r)
  <2>1. SessionFits(r) BY DEF SettingsIInv
  <2> QED BY <1>1, <2>1 DEF SessionFits, Unasked
<1>3. CASE setting[r].seen = NoRegistration /\ registration # NoRegistration
  <2>1. setting' = [setting EXCEPT ![r] = Unasked] /\ setting_lock' = setting_lock BY <1>3 DEF FlushRegistration
  <2>2. setting'[r] = Unasked BY <2>1 DEF SettingsIInv
  <2>3. SessionFits(r)' BY <2>2 DEF SessionFits
  <2>4. OneOf(setting_lock') BY <2>1 DEF SettingsIInv, OneOf
  <2> QED BY <1>1, <2>1, <2>3, <2>4, OneSession
<1>4. CASE ~(setting[r].seen = NoRegistration /\ registration # NoRegistration)
  <2> DEFINE s == setting[r]
             x == [s EXCEPT !.pc = "flushed"]
  <2>1. setting' = [setting EXCEPT ![r].pc = "flushed"] /\ setting_lock' = IF Writes(r) = << >> THEN setting_lock ELSE {r}
    BY <1>4 DEF FlushRegistration
  <2>2. setting' = [setting EXCEPT ![r] = x] BY <2>1
  <2>3. /\ DOMAIN s = {"pc", "fields", "seen", "others"} /\ FieldsFit(s.fields)
        /\ s.seen = NoRegistration => "version" \in DOMAIN s.fields
        /\ s.seen # NoRegistration => registration # NoRegistration /\ s.seen \in RegistrationRows
        /\ s.others = TRUE \/ registration = s.seen
    BY <1>2 DEF ReadFits
  <2>4. ~(s.seen = NoRegistration /\ registration # NoRegistration) BY <1>4
  <2>s. s = setting[r] OBVIOUS
  <2> HIDE DEF s
  <2>5. DOMAIN x = {"pc", "fields", "seen", "others"} /\ x.pc = "flushed" /\ x.fields = s.fields /\ x.seen = s.seen
        /\ x.others = s.others
    BY <2>3
  <2> HIDE DEF x
  <2>6. setting'[r] = x BY <2>2 DEF SettingsIInv
  <2>7. s.seen = NoRegistration => r \in setting_lock'
    BY <1>2, <2>1, <2>s, InsertWrites
  <2>8. ReadFits(r)' BY <1>1, <2>3, <2>4, <2>5, <2>6, <2>7 DEF ReadFits
  <2>9. SessionFits(r)' BY <2>8 DEF SessionFits
  <2>10. OneOf(setting_lock') /\ \A o \in PluginRequests \ {r} : o \in setting_lock => o \in setting_lock'
    <3>1. CASE Writes(r) = << >> BY <3>1, <2>1 DEF SettingsIInv, OneOf
    <3>2. CASE Writes(r) # << >> BY <3>2, <2>1, <1>1 DEF OneOf
    <3> QED BY <3>1, <3>2
  <2> QED BY <1>1, <2>2, <2>9, <2>10, OneSession
<1> QED BY <1>3, <1>4

(* What is not written is in the row that was seen. *)
LEMMA UpdateWrites ==
  ASSUME NEW r, ReadFits(r), setting[r].seen # NoRegistration
  PROVE  /\ FieldsTyped(Writes(r)) /\ DOMAIN Writes(r) \subseteq DOMAIN setting[r].fields
         /\ \A k \in DOMAIN Writes(r) : Writes(r)[k] = setting[r].fields[k]
         /\ Joined(Writes(r), setting[r].seen) = Answered(r)
<1> DEFINE f == setting[r].fields
           promised == setting[r].seen
           D == {k \in DOMAIN f : f[k] # promised[k]}
           w == Writes(r)
<1>1. w = Restrict(f, D) BY DEF Writes
<1>2. DOMAIN w = D /\ \A k \in D : w[k] = f[k] BY <1>1 DEF Restrict
<1>3. D \subseteq DOMAIN f /\ \A k \in DOMAIN f : k \notin D => f[k] = promised[k] OBVIOUS
<1>4. FieldsTyped(f) /\ promised \in RegistrationRows BY DEF ReadFits, FieldsFit
<1>5. Answered(r) = Joined(f, promised) BY DEF Answered
<1> HIDE DEF f, promised, D, w
<1>6. FieldsTyped(w)
  <2>1. \A k \in DOMAIN w : k \in DOMAIN f /\ w[k] = f[k] BY <1>2, <1>3
  <2> QED BY <2>1, <1>4 DEF FieldsTyped
<1>7. DOMAIN promised = {"enabled", "version", "config"} BY <1>4, RowTyped
<1>8. DOMAIN Joined(w, promised) = DOMAIN promised /\ DOMAIN Joined(f, promised) = DOMAIN promised
  <2>1. DOMAIN Joined(w, promised) = DOMAIN w \cup DOMAIN promised BY JoinedDomain
  <2>2. DOMAIN Joined(f, promised) = DOMAIN f \cup DOMAIN promised BY JoinedDomain
  <2> QED BY <2>1, <2>2, <1>4, <1>6, <1>7 DEF FieldsTyped
<1>9. ASSUME NEW k \in DOMAIN promised PROVE Joined(w, promised)[k] = Joined(f, promised)[k]
  <2>1. CASE k \in D
    <3>1. Joined(w, promised)[k] = w[k] BY <2>1, <1>2, JoinedFirst
    <3>2. Joined(f, promised)[k] = f[k] BY <2>1, <1>3, JoinedFirst
    <3> QED BY <3>1, <3>2, <2>1, <1>2
  <2>2. CASE k \notin D
    <3>1. Joined(w, promised)[k] = promised[k] BY <2>2, <1>2, JoinedSecond
    <3>2. CASE k \in DOMAIN f
      <4>1. Joined(f, promised)[k] = f[k] BY <3>2, JoinedFirst
      <4> QED BY <4>1, <3>1, <3>2, <2>2, <1>3
    <3>3. CASE k \notin DOMAIN f
      <4>1. Joined(f, promised)[k] = promised[k] BY <3>3, JoinedSecond
      <4> QED BY <4>1, <3>1
    <3> QED BY <3>2, <3>3
  <2> QED BY <2>1, <2>2
<1>10. Joined(w, promised) = Joined(f, promised)
  <2> DEFINE a == Joined(w, promised)  b == Joined(f, promised)
  <2>1. a = [k \in DOMAIN a |-> a[k]] /\ b = [k \in DOMAIN b |-> b[k]] BY DEF Joined
  <2>2. DOMAIN a = DOMAIN b /\ \A k \in DOMAIN a : a[k] = b[k] BY <1>8, <1>9
  <2> HIDE DEF a, b
  <2>3. a = b BY <2>1, <2>2
  <2> QED BY <2>3 DEF a, b
<1> QED BY <1>2, <1>3, <1>5, <1>6, <1>10 DEF f, promised, w

(* A commit writes what was asked for, and what else is in the row stays. *)
LEMMA CommitKeeps ==
  ASSUME PluginAssumption, SettingsIInv, NEW r \in PluginRequests, CommitRegistration(r)
  PROVE  SettingsIInv'
<1> DEFINE f == setting[r].fields
           w == Writes(r)
           config == IF "config" \in DOMAIN f /\ "config" \in DOMAIN w THEN f["config"] ELSE setting_answer.config
           promised == Answered(r)
           alone == ~setting[r].others
           seen == setting[r].seen
<1>1. /\ setting[r].pc = "flushed"
      /\ registration' = IF registration = NoRegistration THEN w ELSE Joined(w, registration)
      /\ setting_answer' = [row |-> promised, alone |-> alone, config |-> config]
      /\ setting_lock' = setting_lock \ {r} /\ registry' = registry
      /\ setting' = [o \in PluginRequests |->
           IF o = r THEN Unasked
           ELSE IF setting[o].pc \in {"read", "flushed"} THEN [setting[o] EXCEPT !.others = TRUE] ELSE setting[o]]
  BY DEF CommitRegistration
<1>2. ReadFits(r)
  <2>1. SessionFits(r) BY DEF SettingsIInv
  <2> QED BY <1>1, <2>1 DEF SessionFits, Unasked
<1>3. NoRegistration \notin RegistrationRows BY NoRowIsNone
<1>s. seen = setting[r].seen /\ f = setting[r].fields /\ w = Writes(r) /\ promised = Answered(r) OBVIOUS
<1>a. (alone = TRUE) => (seen = registration)
  <2>1. setting[r].others = TRUE \/ registration = setting[r].seen BY <1>2 DEF ReadFits
  <2> QED BY <2>1
<1>c. /\ "config" \in DOMAIN f /\ "config" \in DOMAIN w => config = f["config"]
      /\ ~("config" \in DOMAIN f /\ "config" \in DOMAIN w) => config = setting_answer.config
  OBVIOUS
<1> HIDE DEF f, w, config, promised, alone, seen
<1>5. setting_answer'.row = promised /\ setting_answer'.alone = alone /\ setting_answer'.config = config BY <1>1
<1>6. registration' \in RegistrationRows /\ registration'["config"] = config /\ (alone = TRUE => registration' = promised)
  <2>1. CASE seen = NoRegistration
    <3>1. registration = NoRegistration BY <1>1, <1>2, <1>s, <2>1 DEF ReadFits
    <3>2. w = promised /\ promised \in RegistrationRows /\ promised["config"] = "empty" /\ "config" \notin DOMAIN f BY <1>2, <1>s, <2>1, InsertWrites
    <3>3. setting_answer.config = "empty" BY <3>1 DEF SettingsIInv
    <3>4. config = "empty" BY <3>2, <3>3, <1>c
    <3>5. registration' = promised BY <1>1, <3>1, <3>2
    <3> QED BY <3>2, <3>4, <3>5
  <2>2. CASE seen # NoRegistration
    <3>1. registration # NoRegistration /\ registration \in RegistrationRows /\ registration["config"] = setting_answer.config
      BY <1>2, <1>s, <2>2 DEF ReadFits, SettingsIInv, SettingsAreKept
    <3>2. registration' = Joined(w, registration) BY <1>1, <3>1
    <3>3. FieldsTyped(w) /\ DOMAIN w \subseteq DOMAIN f /\ Joined(w, seen) = promised BY <1>2, <1>s, <2>2, UpdateWrites
    <3>w. \A k \in DOMAIN w : w[k] = f[k] BY <1>2, <1>s, <2>2, UpdateWrites
    <3>4. registration' \in RegistrationRows BY <3>1, <3>2, <3>3, JoinedRow
    <3>5. registration'["config"] = config
      <4>1. CASE "config" \in DOMAIN w
        <5>1. registration'["config"] = w["config"] BY <4>1, <3>2, JoinedFirst
        <5> QED BY <5>1, <4>1, <3>3, <3>w, <1>c
      <4>2. CASE "config" \notin DOMAIN w
        <5>1. "config" \in DOMAIN registration BY <3>1, RowTyped
        <5>2. registration'["config"] = registration["config"] BY <5>1, <4>2, <3>2, JoinedSecond
        <5> QED BY <5>2, <4>2, <3>1, <1>c
      <4> QED BY <4>1, <4>2
    <3> QED BY <3>2, <3>3, <3>4, <3>5, <1>a
  <2> QED BY <2>1, <2>2
<1>7. SettingsAreKept' BY <1>5, <1>6 DEF SettingsAreKept
<1>8. registration' # NoRegistration BY <1>3, <1>6
<1>9. setting' = [o \in PluginRequests |-> setting'[o]] BY <1>1
<1>10. ASSUME NEW o \in PluginRequests PROVE SessionFits(o)'
  <2>1. CASE o = r
    <3>1. setting'[o] = Unasked BY <2>1, <1>1
    <3> QED BY <3>1 DEF SessionFits
  <2>2. CASE o # r /\ setting[o].pc \notin {"read", "flushed"}
    <3>1. setting'[o] = setting[o] BY <2>2, <1>1
    <3>2. SessionFits(o) /\ ~ReadFits(o) BY <2>2 DEF SettingsIInv, ReadFits
    <3> QED BY <3>1, <3>2 DEF SessionFits
  <2>3. CASE o # r /\ setting[o].pc \in {"read", "flushed"}
    <3> DEFINE s == setting[o]
               x == [s EXCEPT !.others = TRUE]
    <3>1. setting'[o] = x BY <2>3, <1>1
    <3>2. ReadFits(o)
      <4>1. SessionFits(o) BY DEF SettingsIInv
      <4> QED BY <4>1, <2>3 DEF SessionFits, Unasked
    <3>3. /\ DOMAIN s = {"pc", "fields", "seen", "others"} /\ s.pc \in {"read", "flushed"} /\ FieldsFit(s.fields)
          /\ s.seen = NoRegistration => "version" \in DOMAIN s.fields
          /\ s.seen # NoRegistration => s.seen \in RegistrationRows
          /\ s.pc = "flushed" /\ s.seen = NoRegistration => registration = NoRegistration /\ o \in setting_lock
      BY <3>2 DEF ReadFits
    <3> HIDE DEF s
    <3>4. DOMAIN x = {"pc", "fields", "seen", "others"} /\ x.pc = s.pc /\ x.fields = s.fields /\ x.seen = s.seen
          /\ x.others = TRUE
      BY <3>3
    <3> HIDE DEF x
    <3>5. ~(s.pc = "flushed" /\ s.seen = NoRegistration)
      <4> SUFFICES ASSUME s.pc = "flushed", s.seen = NoRegistration PROVE FALSE OBVIOUS
      <4>1. registration = NoRegistration /\ o \in setting_lock BY <3>3
      <4>2. seen = NoRegistration BY <4>1, <1>2, <1>s DEF ReadFits
      <4>3. r \in setting_lock BY <4>2, <1>1, <1>2, <1>s DEF ReadFits
      <4> QED BY <4>1, <4>3, <2>3 DEF SettingsIInv, OneOf
    <3>6. ReadFits(o)' BY <3>1, <3>3, <3>4, <3>5, <1>8 DEF ReadFits
    <3> QED BY <3>6 DEF SessionFits
  <2> QED BY <2>1, <2>2, <2>3
<1>11. OneOf(setting_lock') BY <1>1 DEF SettingsIInv, OneOf
<1>12. DOMAIN registry' = {"global", "tenant"} /\ registry'.global \in 0 .. 2 /\ registry'.tenant \in 0 .. 2
  BY <1>1 DEF SettingsIInv
<1> QED BY <1>6, <1>7, <1>8, <1>9, <1>10, <1>11, <1>12 DEF SettingsIInv

-----------------------------------------------------------------------------
PluginIInv == FilesIInv /\ SettingsIInv

(* The invariants hold at first. *)
LEMMA PluginInitIInv == PluginAssumption /\ PluginInit => PluginIInv
BY FilesInit, SettingsInit DEF PluginIInv

(* Every step of the watcher and the routes preserves the invariants. *)
LEMMA PluginNextIInv == ASSUME PluginAssumption, PluginIInv, [PluginNext]_pluginVars PROVE PluginIInv'
<1> USE DEF PluginIInv
<1>1. CASE UNCHANGED pluginVars
  <2>1. UNCHANGED fileVars /\ UNCHANGED settingVars BY <1>1 DEF pluginVars, fileVars, settingVars
  <2> QED BY <2>1, FilesStay, SettingsStay
<1>2. ASSUME NEW d \in PluginDirs, EditPlugin(d) \/ Watch(d) \/ StopWatching(d) \/ LoadDirectory(d) PROVE PluginIInv'
  <2>1. UNCHANGED settingVars BY <1>2 DEF EditPlugin, Watch, StopWatching, LoadDirectory
  <2> QED BY <1>2, <2>1, SettingsStay, EditKeeps, WatchKeeps, StopKeeps, LoadKeeps
<1>3. CASE StartStopWatcher \/ Poll \/ CompareSnapshot \/ ReloadPlugin
  <2>1. UNCHANGED settingVars BY <1>3 DEF StartStopWatcher, Poll, CompareSnapshot, ReloadPlugin
  <2> QED BY <1>3, <2>1, SettingsStay, StartStopKeeps, PollKeeps, SnapshotKeeps, ReloadKeeps
<1>4. ASSUME NEW scope \in {"global", "tenant"}, NEW version \in 1 .. 2, RegisterPlugin(scope, version) PROVE PluginIInv'
  <2>1. UNCHANGED fileVars /\ registry' = [registry EXCEPT ![scope] = version]
        /\ UNCHANGED <<registration, setting, setting_lock, setting_answer>>
    BY <1>4 DEF RegisterPlugin
  <2>2. version \in 0 .. 2 OBVIOUS
  <2> QED BY <2>1, <2>2, FilesStay, RegistryKeeps
<1>5. ASSUME NEW scope \in {"global", "tenant"}, UnregisterPlugin(scope) PROVE PluginIInv'
  <2>1. UNCHANGED fileVars /\ registry' = [registry EXCEPT ![scope] = 0]
        /\ UNCHANGED <<registration, setting, setting_lock, setting_answer>>
    BY <1>5 DEF UnregisterPlugin
  <2>2. 0 \in 0 .. 2 OBVIOUS
  <2> QED BY <2>1, <2>2, FilesStay, RegistryKeeps
<1>6. ASSUME NEW r \in PluginRequests,
             EnablePlugin(r) \/ DisablePlugin(r) \/ UpdatePluginConfig(r) \/ ReadRegistration(r)
             \/ FlushRegistration(r) \/ CommitRegistration(r) \/ RollbackRegistration(r)
      PROVE  PluginIInv'
  <2>1. UNCHANGED fileVars
    BY <1>6 DEF EnablePlugin, DisablePlugin, UpdatePluginConfig, Asks, ReadRegistration, FlushRegistration,
                CommitRegistration, RollbackRegistration
  <2>2. SettingsIInv' BY <1>6, AsksFit, ReadKeeps, FlushKeeps, CommitKeeps, RollbackSettingKeeps
  <2> QED BY <2>1, <2>2, FilesStay
<1> QED BY <1>1, <1>2, <1>3, <1>4, <1>5, <1>6 DEF PluginNext

(* The invariant implies what the plugin host promises. *)
LEMMA PluginIInvSound == PluginIInv => PluginsAreSound
BY FilesSound DEF PluginIInv, SettingsIInv, PluginsAreSound

(* The inductive invariant holds in every reachable state. *)
LEMMA PluginInvariance == PluginSpec => []PluginIInv
<1>1. PluginInit => PluginIInv
  BY PluginInitIInv, PluginAssumption
<1>2. PluginIInv /\ [PluginNext]_pluginVars => PluginIInv'
  BY PluginNextIInv, PluginAssumption
<1>3. QED BY <1>1, <1>2, PTL DEF PluginSpec
=============================================================================
