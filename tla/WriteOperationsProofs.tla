----------------------- MODULE WriteOperationsProofs -----------------------
(***************************************************************************)
(* Proofs about the in-memory write executor, alone and with the           *)
(* escalation service next to it.  HumanInTheLoop and AtMostOneCall are    *)
(* not inductive: an approved operation must already be authorised before  *)
(* it is called, and a request that resumes must still hold an operation   *)
(* nobody else moved.  IInv adds those facts.                              *)
(***************************************************************************)
EXTENDS Escalation, SequenceTheorems, FiniteSetTheorems, TLAPS

Past == {"approved", "executing", "completed", "failed"}

(* What propose() has fixed, and that nothing happened before it. *)
Proposed ==
  \A o \in Ops :
    /\ status[o] # "absent" => info[o] \in Info /\ info[o].user \in Operators
    /\ status[o] = "absent" => approved_by[o] = NoUser

PastIsAuthorised == \A o \in Ops : status[o] \in Past => Authorised(o)

CallsFollowStatus ==
  \A o \in Ops :
    /\ calls[o] \in {0, 1}
    /\ calls[o] = 1 => status[o] \in {"executing", "completed", "failed"}

RequestsHoldExecuting ==
  \A r \in Requests : requests[r] # Idle => status[requests[r]] = "executing"

OneHolder ==
  \A r1, r2 \in Requests : requests[r1] = requests[r2] /\ requests[r1] # Idle => r1 = r2

IInv == /\ TypeOK
        /\ Proposed
        /\ PastIsAuthorised
        /\ ReviewedWithinTenant
        /\ CallsFollowStatus
        /\ RequestsHoldExecuting
        /\ OneHolder

-----------------------------------------------------------------------------
(* Type correctness: the initial state and every handler keep every        *)
(* variable in its shape.                                                  *)
LEMMA InitTypeOK == Init => TypeOK
BY DEF Init, TypeOK, Statuses

(* An audit entry by a known user is an entry. *)
LEMMA EntryTyped ==
  ASSUME NEW event \in Events, NEW u \in Users, NEW mfa \in BOOLEAN
  PROVE  LogEntry(event, u, mfa) \in Entry
BY DEF LogEntry, Entry

(* Adding an entry, or two at once, keeps the audit trails well typed. *)
LEMMA RecordTyped ==
  ASSUME TypeOK, NEW o \in Ops, NEW e \in Entry, NEW f \in Entry
  PROVE  /\ Append(audit_trail[o], e) \in Seq(Entry)
         /\ audit_trail[o] \o <<e, f>> \in Seq(Entry)
<1>1. audit_trail[o] \in Seq(Entry)
  BY DEF TypeOK
<1>2. <<e, f>> \in Seq(Entry)
  OBVIOUS
<1>3. QED BY <1>1, <1>2, AppendProperties, ConcatProperties

(* Verification of a code gives a Boolean whatever the MFA settings. *)
LEMMA VerifyMfaBoolean ==
  ASSUME NEW u \in Users, NEW code \in Codes
  PROVE  VerifyMfa(u, code) \in BOOLEAN
BY ConstantsAssumption DEF VerifyMfa

(* A proposal, auto-approved or not, stores well-typed values. *)
LEMMA ProposeTypeOK ==
  ASSUME TypeOK, NEW u \in Users, NEW o \in Ops, NEW c \in Connectors, NEW risk \in RiskLevels,
         Propose(u, o, c, risk)
  PROVE  TypeOK'
<1>1. PICK mfa \in MfaOfProposal(risk) :
        info' = [info EXCEPT ![o] = [user |-> u, connector |-> c, risk |-> risk,
                                     requires_mfa |-> mfa]]
  BY DEF Propose
<1>2. mfa \in BOOLEAN
  BY DEF MfaOfProposal, MfaByRisk
<1>3. info' \in [Ops -> Info \cup {NoInfo}]
  BY <1>1, <1>2 DEF Info, TypeOK
<1>4. /\ LogEntry("proposed", u, FALSE) \in Entry
      /\ LogEntry("auto_approved", u, FALSE) \in Entry
  BY EntryTyped DEF Events
<1>5. audit_trail' \in [Ops -> Seq(Entry)]
  <2> DEFINE e == LogEntry("proposed", u, FALSE)
             f == LogEntry("auto_approved", u, FALSE)
  <2>1. \/ audit_trail' = [audit_trail EXCEPT ![o] = @ \o <<e, f>>]
        \/ audit_trail' = [audit_trail EXCEPT ![o] = Append(@, e)]
    BY DEF Propose, Record
  <2>2. e \in Entry /\ f \in Entry
    BY <1>4
  <2>3. QED
    <3> HIDE DEF e, f
    <3>1. Append(audit_trail[o], e) \in Seq(Entry) /\ audit_trail[o] \o <<e, f>> \in Seq(Entry)
      BY <2>2, RecordTyped
    <3>2. QED BY <2>1, <3>1 DEF TypeOK
<1>6. status' \in [Ops -> Statuses]
  BY DEF Propose, TypeOK, Statuses
<1>7. approved_by' \in [Ops -> Users \cup {NoUser}]
  BY DEF Propose, TypeOK
<1>8. UNCHANGED <<requests, calls, interrupted>>
  BY DEF Propose
<1>9. QED BY <1>3, <1>5, <1>6, <1>7, <1>8 DEF TypeOK

(* An approval or a rejection stores well-typed values. *)
LEMMA ReviewTypeOK ==
  ASSUME TypeOK, NEW u \in Users, NEW o \in Ops,
         (\E code \in Codes : Approve(u, o, code)) \/ Reject(u, o)
  PROVE  TypeOK'
<1>1. ASSUME NEW code \in Codes, Approve(u, o, code) PROVE TypeOK'
  <2>1. LogEntry("approved", u, VerifyMfa(u, code)) \in Entry
    BY EntryTyped, VerifyMfaBoolean DEF Events
  <2>2. QED BY <1>1, <2>1, RecordTyped DEF Approve, Record, TypeOK, Statuses
<1>2. CASE Reject(u, o)
  <2>1. LogEntry("rejected", u, FALSE) \in Entry
    BY EntryTyped DEF Events
  <2>2. QED BY <1>2, <2>1, RecordTyped DEF Reject, Record, TypeOK, Statuses
<1>3. QED BY <1>1, <1>2

(* The executor only ever runs proposed operations, whose proposer is a    *)
(* user: the name it logs is well typed.                                   *)
LEMMA ExecuteTypeOK ==
  ASSUME TypeOK, Proposed, RequestsHoldExecuting, [Next]_vars,
         \/ \E u \in Users, o \in Ops :
              (\E r \in Requests : StartExecute(r, u, o)) \/ ExecuteUnroutable(u, o)
         \/ \E r \in Requests : CancelRequest(r) \/ \E success \in BOOLEAN : FinishExecute(r, success)
  PROVE  TypeOK'
<1>1. ASSUME NEW o \in Ops, status[o] # "absent", NEW event \in Events
      PROVE  LogEntry(event, info[o].user, FALSE) \in Entry
  BY <1>1, EntryTyped DEF Proposed, Info
<1>2. ASSUME NEW r \in Requests, NEW u \in Users, NEW o \in Ops, StartExecute(r, u, o)
      PROVE  TypeOK'
  <2>1. LogEntry("execution_started", info[o].user, FALSE) \in Entry
    BY <1>1, <1>2 DEF StartExecute, Visible, Events
  <2>2. Append(audit_trail[o], LogEntry("execution_started", info[o].user, FALSE)) \in Seq(Entry)
    BY <2>1, RecordTyped
  <2>3. audit_trail' \in [Ops -> Seq(Entry)]
    BY <1>2, <2>2 DEF StartExecute, Record, TypeOK
  <2>4. calls' \in [Ops -> Nat]
    BY <1>2 DEF StartExecute, TypeOK
  <2>5. QED BY <1>2, <2>3, <2>4 DEF StartExecute, TypeOK, Statuses
<1>3. ASSUME NEW u \in Users, NEW o \in Ops, ExecuteUnroutable(u, o) PROVE TypeOK'
  <2>1. /\ LogEntry("execution_started", info[o].user, FALSE) \in Entry
        /\ LogEntry("execution_failed", info[o].user, FALSE) \in Entry
    BY <1>1, <1>3 DEF ExecuteUnroutable, Visible, Events
  <2> DEFINE e == LogEntry("execution_started", info[o].user, FALSE)
             f == LogEntry("execution_failed", info[o].user, FALSE)
  <2>2. audit_trail[o] \o <<e, f>> \in Seq(Entry)
    BY <2>1, RecordTyped
  <2>3. audit_trail' \in [Ops -> Seq(Entry)]
    BY <1>3, <2>2 DEF ExecuteUnroutable, TypeOK
  <2>4. QED BY <1>3, <2>3 DEF ExecuteUnroutable, TypeOK, Statuses
<1>4. ASSUME NEW r \in Requests, CancelRequest(r) PROVE TypeOK'
  BY <1>4 DEF CancelRequest, TypeOK
<1>5. ASSUME NEW r \in Requests, NEW success \in BOOLEAN, FinishExecute(r, success) PROVE TypeOK'
  <2>1. requests[r] \in Ops /\ status[requests[r]] # "absent"
    BY <1>5 DEF FinishExecute, RequestsHoldExecuting, TypeOK
  <2> DEFINE e == LogEntry(IF success THEN "execution_completed" ELSE "execution_failed",
                           info[requests[r]].user, FALSE)
  <2>2. e \in Entry
    BY <1>1, <2>1 DEF Events
  <2>3. audit_trail' \in [Ops -> Seq(Entry)]
    <3>1. audit_trail' = [audit_trail EXCEPT ![requests[r]] = Append(@, e)]
      BY <1>5 DEF FinishExecute, Record
    <3> HIDE DEF e
    <3>2. Append(audit_trail[requests[r]], e) \in Seq(Entry)
      BY <2>1, <2>2, RecordTyped
    <3>3. QED BY <3>1, <3>2 DEF TypeOK
  <2>4. QED BY <1>5, <2>1, <2>3 DEF FinishExecute, TypeOK, Statuses
<1>6. QED BY <1>2, <1>3, <1>4, <1>5

(* No handler leaves the shapes above. *)
LEMMA NextTypeOK ==
  ASSUME TypeOK, Proposed, RequestsHoldExecuting, [Next]_vars
  PROVE  TypeOK'
<1>1. CASE UNCHANGED vars
  BY <1>1 DEF vars, TypeOK
<1>2. CASE Next
  BY <1>2, ProposeTypeOK, ReviewTypeOK, ExecuteTypeOK DEF Next
<1>3. QED BY <1>1, <1>2

-----------------------------------------------------------------------------
(* Audit trails only ever grow: what was logged stays where it was. *)
TrailGrows ==
  \A o \in Ops : \A i \in DOMAIN audit_trail[o] :
    /\ i \in DOMAIN audit_trail'[o]
    /\ audit_trail'[o][i] = audit_trail[o][i]

(* The two ways entries are added leave the earlier ones where they were. *)
LEMMA AppendGrows ==
  ASSUME NEW S, NEW s \in Seq(S), NEW e, NEW f, NEW i \in DOMAIN s
  PROVE  /\ i \in DOMAIN Append(s, e) /\ Append(s, e)[i] = s[i]
         /\ i \in DOMAIN (s \o <<e, f>>) /\ (s \o <<e, f>>)[i] = s[i]
OBVIOUS

(* Every step of the executor only adds to the audit trails. *)
LEMMA NextTrailGrows ==
  ASSUME TypeOK, [Next]_vars
  PROVE  TrailGrows
<1> SUFFICES ASSUME NEW p \in Ops, NEW i \in DOMAIN audit_trail[p]
             PROVE  i \in DOMAIN audit_trail'[p] /\ audit_trail'[p][i] = audit_trail[p][i]
  BY DEF TrailGrows
<1>1. audit_trail[p] \in Seq(Entry)
  BY DEF TypeOK
<1>2. ASSUME NEW o, NEW e, audit_trail' = [audit_trail EXCEPT ![o] = Append(@, e)]
      PROVE  i \in DOMAIN audit_trail'[p] /\ audit_trail'[p][i] = audit_trail[p][i]
  BY <1>1, <1>2, AppendGrows DEF TypeOK
<1>3. ASSUME NEW o, NEW e, NEW f, audit_trail' = [audit_trail EXCEPT ![o] = @ \o <<e, f>>]
      PROVE  i \in DOMAIN audit_trail'[p] /\ audit_trail'[p][i] = audit_trail[p][i]
  BY <1>1, <1>3, AppendGrows DEF TypeOK
<1>4. ASSUME NEW o, NEW event, NEW u, NEW mfa, Record(o, event, u, mfa)
      PROVE  i \in DOMAIN audit_trail'[p] /\ audit_trail'[p][i] = audit_trail[p][i]
  BY <1>2, <1>4 DEF Record
<1>5. ASSUME NEW u \in Users, NEW o \in Ops, NEW c \in Connectors, NEW risk \in RiskLevels,
             Propose(u, o, c, risk)
      PROVE  i \in DOMAIN audit_trail'[p] /\ audit_trail'[p][i] = audit_trail[p][i]
  <2>1. CASE risk = "low"
    <3>1. audit_trail' = [audit_trail EXCEPT ![o] =
            @ \o <<LogEntry("proposed", u, FALSE), LogEntry("auto_approved", u, FALSE)>>]
      BY <1>5, <2>1 DEF Propose
    <3>2. QED BY <3>1, <1>3
  <2>2. CASE risk # "low"
    BY <1>4, <1>5, <2>2 DEF Propose
  <2>3. QED BY <2>1, <2>2
<1>6. ASSUME NEW u \in Users, NEW o \in Ops, NEW code \in Codes, Approve(u, o, code)
      PROVE  i \in DOMAIN audit_trail'[p] /\ audit_trail'[p][i] = audit_trail[p][i]
  BY <1>4, <1>6 DEF Approve
<1>7. ASSUME NEW u \in Users, NEW o \in Ops, Reject(u, o)
      PROVE  i \in DOMAIN audit_trail'[p] /\ audit_trail'[p][i] = audit_trail[p][i]
  BY <1>4, <1>7 DEF Reject
<1>8. ASSUME NEW r \in Requests, NEW u \in Users, NEW o \in Ops, StartExecute(r, u, o)
      PROVE  i \in DOMAIN audit_trail'[p] /\ audit_trail'[p][i] = audit_trail[p][i]
  BY <1>4, <1>8 DEF StartExecute
<1>9. ASSUME NEW u \in Users, NEW o \in Ops, ExecuteUnroutable(u, o)
      PROVE  i \in DOMAIN audit_trail'[p] /\ audit_trail'[p][i] = audit_trail[p][i]
  BY <1>3, <1>9 DEF ExecuteUnroutable
<1>10. ASSUME NEW r \in Requests, NEW success \in BOOLEAN, FinishExecute(r, success)
       PROVE  i \in DOMAIN audit_trail'[p] /\ audit_trail'[p][i] = audit_trail[p][i]
  BY <1>4, <1>10 DEF FinishExecute
<1>11. ASSUME NEW r \in Requests, CancelRequest(r)
       PROVE  i \in DOMAIN audit_trail'[p] /\ audit_trail'[p][i] = audit_trail[p][i]
  BY <1>11 DEF CancelRequest
<1>12. CASE UNCHANGED vars
  BY <1>12 DEF vars
<1>13. QED BY <1>5, <1>6, <1>7, <1>8, <1>9, <1>10, <1>11, <1>12 DEF Next

(* An authorisation survives as long as the proposal, the reviewer and the *)
(* audit entries it rests on do.                                           *)
LEMMA AuthorisedStable ==
  ASSUME NEW o \in Ops, Authorised(o),
         info'[o] = info[o], approved_by'[o] = approved_by[o],
         \A i \in DOMAIN audit_trail[o] :
            i \in DOMAIN audit_trail'[o] /\ audit_trail'[o][i] = audit_trail[o][i]
  PROVE  Authorised(o)'
BY DEF Authorised

-----------------------------------------------------------------------------
(* The parts of IInv below TypeOK, kept by each group of handlers.         *)
Safe == Proposed /\ PastIsAuthorised /\ ReviewedWithinTenant
          /\ CallsFollowStatus /\ RequestsHoldExecuting /\ OneHolder

(* A proposal is auto-approved in the name of its proposer only. *)
LEMMA ProposeSafe ==
  ASSUME IInv, TypeOK', NEW u \in Users, NEW o \in Ops, NEW c \in Connectors,
         NEW risk \in RiskLevels, Propose(u, o, c, risk)
  PROVE  Safe'
<1>1. /\ u \in Operators /\ status[o] = "absent" /\ approved_by[o] = NoUser
      /\ UNCHANGED <<requests, calls, interrupted>>
  BY DEF Propose, IInv, Proposed
<1>2. /\ info'[o] \in Info /\ info'[o].user = u /\ info'[o].risk = risk
      /\ \A p \in Ops \ {o} : /\ info'[p] = info[p] /\ status'[p] = status[p]
                              /\ approved_by'[p] = approved_by[p]
                              /\ audit_trail'[p] = audit_trail[p]
  <2>1. PICK mfa \in MfaOfProposal(risk) :
          info' = [info EXCEPT ![o] = [user |-> u, connector |-> c, risk |-> risk,
                                       requires_mfa |-> mfa]]
    BY DEF Propose
  <2>2. mfa \in BOOLEAN
    BY DEF MfaOfProposal, MfaByRisk
  <2>3. info'[o] = [user |-> u, connector |-> c, risk |-> risk, requires_mfa |-> mfa]
    BY <2>1 DEF IInv, TypeOK
  <2>4. info'[o] \in Info /\ info'[o].user = u /\ info'[o].risk = risk
    BY <2>2, <2>3 DEF Info
  <2>5. \A p \in Ops \ {o} : audit_trail'[p] = audit_trail[p]
    BY DEF Propose, Record, IInv, TypeOK
  <2>6. \A p \in Ops \ {o} : status'[p] = status[p] /\ approved_by'[p] = approved_by[p]
    BY DEF Propose, IInv, TypeOK
  <2>7. QED BY <2>1, <2>4, <2>5, <2>6 DEF IInv, TypeOK
<1>3. \/ risk = "low" /\ status'[o] = "approved" /\ approved_by'[o] = u
      \/ risk # "low" /\ status'[o] = "pending_approval" /\ approved_by'[o] = NoUser
  BY <1>1 DEF Propose, IInv, TypeOK
<1>4. Proposed'
  BY <1>1, <1>2, <1>3 DEF IInv, Proposed
<1>5. PastIsAuthorised'
  <2> SUFFICES ASSUME NEW p \in Ops, status'[p] \in Past PROVE Authorised(p)'
    BY DEF PastIsAuthorised
  <2>1. CASE p = o
    BY <1>2, <1>3, <2>1 DEF Past, Authorised
  <2>2. CASE p # o
    BY <1>2, <2>2, AuthorisedStable DEF IInv, PastIsAuthorised
  <2>3. QED BY <2>1, <2>2
<1>6. ReviewedWithinTenant'
  BY <1>1, <1>2, <1>3 DEF IInv, ReviewedWithinTenant, Tenant
<1>7. CallsFollowStatus'
  BY <1>1, <1>2 DEF IInv, CallsFollowStatus
<1>8. RequestsHoldExecuting' /\ OneHolder'
  BY <1>1, <1>2 DEF IInv, TypeOK, RequestsHoldExecuting, OneHolder
<1>9. QED BY <1>4, <1>5, <1>6, <1>7, <1>8 DEF Safe

(* Approvals and rejections, by an operator of the tenant. *)
LEMMA ReviewSafe ==
  ASSUME IInv, TypeOK', TrailGrows, NEW u \in Users, NEW o \in Ops,
         (\E code \in Codes : Approve(u, o, code)) \/ Reject(u, o)
  PROVE  Safe'
<1>1. /\ u \in Operators /\ Tenant(o) = TenantOf[u]
      /\ status[o] = "pending_approval"
      /\ approved_by' = [approved_by EXCEPT ![o] = u]
      /\ UNCHANGED <<info, requests, calls, interrupted>>
  BY DEF Approve, Reject, Visible
<1>2. /\ status'[o] \in {"approved", "rejected"}
      /\ \A p \in Ops \ {o} : status'[p] = status[p] /\ approved_by'[p] = approved_by[p]
  BY DEF Approve, Reject, IInv, TypeOK
<1>3. ASSUME status'[o] = "approved" PROVE Authorised(o)'
  <2>1. PICK code \in Codes : Approve(u, o, code)
    BY <1>3 DEF Reject, IInv, TypeOK
  <2>2. audit_trail[o] \in Seq(Entry)
    BY DEF IInv, TypeOK
  <2> DEFINE e == LogEntry("approved", u, VerifyMfa(u, code))
             n == Len(audit_trail[o]) + 1
  <2>3. audit_trail'[o] = Append(audit_trail[o], e)
    BY <2>1 DEF Approve, Record, IInv, TypeOK
  <2>4. n \in DOMAIN audit_trail'[o] /\ audit_trail'[o][n] = e
    <3> HIDE DEF e
    <3> QED BY <2>2, <2>3
  <2>5. /\ e.event = "approved" /\ e.actor = u
        /\ info[o].requires_mfa => e.mfa
    BY <2>1 DEF Approve, LogEntry
  <2>6. approved_by'[o] = u
    BY <1>1 DEF IInv, TypeOK
  <2>7. QED
    <3> HIDE DEF e, n
    <3> QED BY <1>1, <2>4, <2>5, <2>6 DEF Authorised
<1>4. Proposed'
  BY <1>1, <1>2 DEF IInv, Proposed
<1>5. PastIsAuthorised'
  <2> SUFFICES ASSUME NEW p \in Ops, status'[p] \in Past PROVE Authorised(p)'
    BY DEF PastIsAuthorised
  <2>1. CASE p = o
    BY <1>2, <1>3, <2>1 DEF Past
  <2>2. CASE p # o
    BY <1>1, <1>2, <2>2, AuthorisedStable DEF IInv, PastIsAuthorised, TrailGrows
  <2>3. QED BY <2>1, <2>2
<1>6. ReviewedWithinTenant'
  BY <1>1, <1>2 DEF IInv, TypeOK, ReviewedWithinTenant, Tenant
<1>7. CallsFollowStatus'
  BY <1>1, <1>2 DEF IInv, CallsFollowStatus
<1>8. RequestsHoldExecuting' /\ OneHolder'
  BY <1>1, <1>2 DEF IInv, TypeOK, RequestsHoldExecuting, OneHolder
<1>9. QED BY <1>4, <1>5, <1>6, <1>7, <1>8 DEF Safe

(* An execution moves one operation along Past and touches no reviewer, so *)
(* authorisations and reviews carry over.                                  *)
LEMMA AuthorisationCarriesOver ==
  ASSUME IInv, TrailGrows, UNCHANGED <<info, approved_by>>,
         \A p \in Ops : status'[p] = status[p]
                          \/ (status[p] \in Past /\ status'[p] \in Past)
  PROVE  Proposed' /\ PastIsAuthorised' /\ ReviewedWithinTenant'
<1>1. Proposed'
  BY DEF IInv, Proposed, Past
<1>2. PastIsAuthorised'
  BY AuthorisedStable DEF IInv, PastIsAuthorised, TrailGrows
<1>3. ReviewedWithinTenant'
  BY DEF IInv, ReviewedWithinTenant, Tenant
<1>4. QED BY <1>1, <1>2, <1>3

(* An execution starts from an approved, so authorised and uncalled,       *)
(* operation that no request holds.                                        *)
LEMMA StartExecuteSafe ==
  ASSUME IInv, TypeOK', TrailGrows, NEW r \in Requests, NEW u \in Users, NEW o \in Ops,
         StartExecute(r, u, o)
  PROVE  Safe'
<1>1. /\ requests[r] = Idle /\ status[o] = "approved"
      /\ status' = [status EXCEPT ![o] = "executing"]
      /\ requests' = [requests EXCEPT ![r] = o]
      /\ calls' = [calls EXCEPT ![o] = @ + 1]
      /\ UNCHANGED <<info, approved_by>>
  BY DEF StartExecute
<1>2. Proposed' /\ PastIsAuthorised' /\ ReviewedWithinTenant'
  BY <1>1, AuthorisationCarriesOver DEF IInv, TypeOK, Past
<1>3. CallsFollowStatus'
  BY <1>1 DEF IInv, TypeOK, CallsFollowStatus
<1>4. RequestsHoldExecuting'
  BY <1>1 DEF IInv, TypeOK, RequestsHoldExecuting
<1>5. OneHolder'
  <2>1. \A q \in Requests : requests[q] # o
    BY <1>1, IdleAssumption DEF IInv, RequestsHoldExecuting
  <2>2. QED BY <1>1, <2>1 DEF IInv, TypeOK, OneHolder
<1>6. QED BY <1>2, <1>3, <1>4, <1>5 DEF Safe

(* Failing an operation without a connector calls nothing. *)
LEMMA ExecuteUnroutableSafe ==
  ASSUME IInv, TypeOK', TrailGrows, NEW u \in Users, NEW o \in Ops, ExecuteUnroutable(u, o)
  PROVE  Safe'
<1>1. /\ status[o] = "approved"
      /\ status' = [status EXCEPT ![o] = "failed"]
      /\ UNCHANGED <<info, approved_by, requests, calls>>
  BY DEF ExecuteUnroutable
<1>2. Proposed' /\ PastIsAuthorised' /\ ReviewedWithinTenant'
  BY <1>1, AuthorisationCarriesOver DEF IInv, TypeOK, Past
<1>3. CallsFollowStatus'
  BY <1>1 DEF IInv, TypeOK, CallsFollowStatus
<1>4. RequestsHoldExecuting' /\ OneHolder'
  BY <1>1 DEF IInv, TypeOK, RequestsHoldExecuting, OneHolder
<1>5. QED BY <1>2, <1>3, <1>4 DEF Safe

(* A request that resumes or is cancelled was the only holder of its       *)
(* operation.                                                              *)
LEMMA FinishExecuteSafe ==
  ASSUME IInv, TypeOK', TrailGrows, NEW r \in Requests,
         CancelRequest(r) \/ \E success \in BOOLEAN : FinishExecute(r, success)
  PROVE  Safe'
<1> DEFINE o == requests[r]
<1>1. /\ o # Idle /\ requests' = [requests EXCEPT ![r] = Idle]
      /\ UNCHANGED <<info, approved_by, calls>>
  BY DEF CancelRequest, FinishExecute
<1>2. o \in Ops /\ status[o] = "executing"
  BY <1>1 DEF IInv, TypeOK, RequestsHoldExecuting
<1>3. /\ status'[o] \in {"executing", "completed", "failed"}
      /\ \A p \in Ops \ {o} : status'[p] = status[p]
  BY <1>2 DEF CancelRequest, FinishExecute, IInv, TypeOK
<1>4. Proposed' /\ PastIsAuthorised' /\ ReviewedWithinTenant'
  BY <1>1, <1>2, <1>3, AuthorisationCarriesOver DEF Past
<1>5. CallsFollowStatus'
  BY <1>1, <1>2, <1>3 DEF IInv, CallsFollowStatus
<1>6. RequestsHoldExecuting' /\ OneHolder'
  BY <1>1, <1>2, <1>3 DEF IInv, TypeOK, RequestsHoldExecuting, OneHolder
<1>7. QED BY <1>4, <1>5, <1>6 DEF Safe

-----------------------------------------------------------------------------
(* IInv is inductive. *)
LEMMA InitIInv == Init => IInv
<1> SUFFICES ASSUME Init PROVE IInv
  OBVIOUS
<1>1. TypeOK
  BY InitTypeOK
<1>2. Proposed /\ PastIsAuthorised /\ ReviewedWithinTenant /\ CallsFollowStatus
  BY DEF Init, Proposed, PastIsAuthorised, Past, ReviewedWithinTenant, CallsFollowStatus
<1>3. RequestsHoldExecuting /\ OneHolder
  BY DEF Init, RequestsHoldExecuting, OneHolder
<1>4. QED BY <1>1, <1>2, <1>3 DEF IInv

(* Every step of the executor keeps IInv. *)
LEMMA NextIInv == IInv /\ [Next]_vars => IInv'
<1> SUFFICES ASSUME IInv, [Next]_vars PROVE IInv'
  OBVIOUS
<1>1. TypeOK'
  BY NextTypeOK DEF IInv
<1>2. TrailGrows
  BY NextTrailGrows DEF IInv
<1>3. Safe'
  <2>1. CASE UNCHANGED vars
    <3>1. UNCHANGED <<info, approved_by>> /\ UNCHANGED <<status, requests, calls>>
      BY <2>1 DEF vars
    <3>2. Proposed' /\ PastIsAuthorised' /\ ReviewedWithinTenant'
      BY <1>2, <3>1, AuthorisationCarriesOver
    <3>3. CallsFollowStatus' /\ RequestsHoldExecuting' /\ OneHolder'
      BY <3>1 DEF IInv, CallsFollowStatus, RequestsHoldExecuting, OneHolder
    <3>4. QED BY <3>2, <3>3 DEF Safe
  <2>2. CASE Next
    BY <1>1, <1>2, <2>2, ProposeSafe, ReviewSafe, StartExecuteSafe, ExecuteUnroutableSafe,
       FinishExecuteSafe DEF Next
  <2>3. QED BY <2>1, <2>2
<1>4. QED BY <1>1, <1>3 DEF Safe, IInv

(* The inductive invariant holds in every reachable state. *)
THEOREM Invariance == Spec => []IInv
BY InitIInv, NextIInv, PTL DEF Spec

(* Every variable keeps its type. *)
THEOREM TypeCorrect == Spec => []TypeOK
<1>1. IInv => TypeOK
  BY DEF IInv
<1>2. QED BY <1>1, Invariance, PTL

(* No connector is ever called for an operation nobody entitled approved,  *)
(* for any number of users, tenants, operations and concurrent requests.   *)
THEOREM OnlyAuthorisedCalls == Spec => []HumanInTheLoop
<1>1. IInv => HumanInTheLoop
  BY DEF IInv, HumanInTheLoop, CallsFollowStatus, PastIsAuthorised, Past
<1>2. QED BY <1>1, Invariance, PTL

(* Racing execute requests write to the external system at most once. *)
THEOREM NoDoubleCall == Spec => []AtMostOneCall
<1>1. IInv => AtMostOneCall
  BY DEF IInv, AtMostOneCall, CallsFollowStatus, TypeOK
<1>2. QED BY <1>1, Invariance, PTL

(* Approvals and rejections stay within the tenant. *)
THEOREM TenantIsolation == Spec => []ReviewedWithinTenant
<1>1. IInv => ReviewedWithinTenant
  BY DEF IInv
<1>2. QED BY <1>1, Invariance, PTL

-----------------------------------------------------------------------------
OperationStays(o) == /\ status'[o] = status[o]
                     /\ approved_by'[o] = approved_by[o]
                     /\ audit_trail'[o] = audit_trail[o]

(* A request that resumes can only overwrite an operation that is still    *)
(* executing (RequestsHoldExecuting), so terminal operations stay put.     *)
LEMMA TerminalStays ==
  ASSUME IInv, [Next]_vars, NEW o \in Ops, status[o] \in Terminal
  PROVE  OperationStays(o)
<1> USE DEF IInv, TypeOK, Terminal, OperationStays, Record
<1>1. ASSUME NEW u \in Users, NEW p \in Ops, NEW c \in Connectors, NEW risk \in RiskLevels,
             Propose(u, p, c, risk)
      PROVE  OperationStays(o)
  BY <1>1 DEF Propose
<1>2. ASSUME NEW u \in Users, NEW p \in Ops, NEW code \in Codes, Approve(u, p, code)
      PROVE  OperationStays(o)
  BY <1>2 DEF Approve
<1>3. ASSUME NEW u \in Users, NEW p \in Ops, Reject(u, p) PROVE OperationStays(o)
  BY <1>3 DEF Reject
<1>4. ASSUME NEW r \in Requests, NEW u \in Users, NEW p \in Ops, StartExecute(r, u, p)
      PROVE  OperationStays(o)
  BY <1>4 DEF StartExecute
<1>5. ASSUME NEW u \in Users, NEW p \in Ops, ExecuteUnroutable(u, p) PROVE OperationStays(o)
  BY <1>5 DEF ExecuteUnroutable
<1>6. ASSUME NEW r \in Requests, NEW success \in BOOLEAN, FinishExecute(r, success)
      PROVE  OperationStays(o)
  BY <1>6 DEF FinishExecute, RequestsHoldExecuting
<1>7. ASSUME NEW r \in Requests, CancelRequest(r) PROVE OperationStays(o)
  BY <1>7 DEF CancelRequest
<1>8. CASE UNCHANGED vars
  BY <1>8 DEF vars
<1>9. QED BY <1>1, <1>2, <1>3, <1>4, <1>5, <1>6, <1>7, <1>8 DEF Next

(* What is rejected, completed or failed never changes again. *)
THEOREM TerminalOperationsAreFinal == Spec => TerminalIsFinal
<1>1. IInv /\ [Next]_vars =>
        [\A o \in Ops : status[o] \in Terminal =>
           /\ status'[o] = status[o]
           /\ approved_by'[o] = approved_by[o]
           /\ audit_trail'[o] = audit_trail[o]]_vars
  BY TerminalStays DEF OperationStays
<1>2. QED BY <1>1, Invariance, PTL DEF Spec, TerminalIsFinal
-----------------------------------------------------------------------------
(* An operation is only left executing by a request that was cancelled:    *)
(* every other one still holds it.                                         *)
LEMMA HeldStays ==
  ASSUME IInv, ExecutingIsHeld, [Next]_vars
  PROVE  ExecutingIsHeld'
<1> DEFINE Held(o) == status[o] = "executing" =>
                        o \in interrupted \/ \E r \in Requests : requests[r] = o
<1>1. SUFFICES ASSUME NEW o \in Ops PROVE Held(o)'
  <2>1. OneHolder'
    BY NextIInv DEF IInv
  <2>2. QED BY <2>1 DEF ExecutingIsHeld, OneHolder
<1>2. Held(o)
  BY DEF ExecutingIsHeld
<1> USE DEF IInv, TypeOK
<1>3. ASSUME NEW u \in Users, NEW p \in Ops, NEW c \in Connectors, NEW risk \in RiskLevels,
             Propose(u, p, c, risk)
      PROVE  Held(o)'
  BY <1>2, <1>3 DEF Propose
<1>4. ASSUME NEW u \in Users, NEW p \in Ops, NEW code \in Codes, Approve(u, p, code)
      PROVE  Held(o)'
  BY <1>2, <1>4 DEF Approve
<1>5. ASSUME NEW u \in Users, NEW p \in Ops, Reject(u, p) PROVE Held(o)'
  BY <1>2, <1>5 DEF Reject
<1>6. ASSUME NEW r \in Requests, NEW u \in Users, NEW p \in Ops, StartExecute(r, u, p)
      PROVE  Held(o)'
  BY <1>2, <1>6, IdleAssumption DEF StartExecute
<1>7. ASSUME NEW u \in Users, NEW p \in Ops, ExecuteUnroutable(u, p) PROVE Held(o)'
  BY <1>2, <1>7 DEF ExecuteUnroutable
<1>8. ASSUME NEW r \in Requests, NEW success \in BOOLEAN, FinishExecute(r, success)
      PROVE  Held(o)'
  BY <1>2, <1>8 DEF FinishExecute
<1>9. ASSUME NEW r \in Requests, CancelRequest(r) PROVE Held(o)'
  BY <1>2, <1>9 DEF CancelRequest
<1>10. CASE UNCHANGED vars
  BY <1>2, <1>10 DEF vars
<1>11. QED BY <1>3, <1>4, <1>5, <1>6, <1>7, <1>8, <1>9, <1>10 DEF Next

(* However many execute requests come and go, an executing operation has   *)
(* exactly one request that will report on it, or was interrupted.         *)
THEOREM ExecutionsAreHeld == Spec => []ExecutingIsHeld
<1>1. Init => ExecutingIsHeld
  BY DEF Init, ExecutingIsHeld
<1>2. IInv /\ ExecutingIsHeld /\ [Next]_vars => ExecutingIsHeld'
  BY HeldStays
<1>3. QED BY <1>1, <1>2, Invariance, PTL DEF Spec

-----------------------------------------------------------------------------
(* The last entry of a trail that was just written. *)
LEMMA LastEntry ==
  ASSUME NEW S, NEW s \in Seq(S), NEW e \in S, NEW f \in S
  PROVE  /\ Append(s, e) # <<>> /\ Append(s, e)[Len(Append(s, e))] = e
         /\ s \o <<f, e>> # <<>> /\ (s \o <<f, e>>)[Len(s \o <<f, e>>)] = e
OBVIOUS

(* A handler that sets the status its last entry stands for keeps the      *)
(* trails and the statuses of all operations in agreement.                 *)
LEMMA EntryExplains ==
  ASSUME TypeOK, TrailExplainsStatus, NEW o \in Ops, NEW e \in Entry, NEW f \in Entry,
         status' = [status EXCEPT ![o] = StatusAfter(e.event)],
         \/ audit_trail' = [audit_trail EXCEPT ![o] = Append(@, e)]
         \/ audit_trail' = [audit_trail EXCEPT ![o] = @ \o <<f, e>>]
  PROVE  TrailExplainsStatus'
<1>1. audit_trail[o] \in Seq(Entry)
  BY DEF TypeOK
<1>2. audit_trail'[o] # <<>> /\ audit_trail'[o][Len(audit_trail'[o])] = e
  BY <1>1, LastEntry DEF TypeOK
<1>3. status'[o] = StatusAfter(e.event)
  BY DEF TypeOK
<1>4. \A p \in Ops \ {o} : status'[p] = status[p] /\ audit_trail'[p] = audit_trail[p]
  BY DEF TypeOK
<1>5. QED BY <1>2, <1>3, <1>4 DEF TrailExplainsStatus

(* What the entries the executor writes say about the status. *)
LEMMA StatusAfterEntries ==
  ASSUME NEW u, NEW mfa
  PROVE  /\ StatusAfter(LogEntry("proposed", u, mfa).event) = "pending_approval"
         /\ StatusAfter(LogEntry("auto_approved", u, mfa).event) = "approved"
         /\ StatusAfter(LogEntry("approved", u, mfa).event) = "approved"
         /\ StatusAfter(LogEntry("rejected", u, mfa).event) = "rejected"
         /\ StatusAfter(LogEntry("execution_started", u, mfa).event) = "executing"
         /\ StatusAfter(LogEntry("execution_completed", u, mfa).event) = "completed"
         /\ StatusAfter(LogEntry("execution_failed", u, mfa).event) = "failed"
BY DEF StatusAfter, LogEntry

(* Every handler logs what it does to the status, in the same step. *)
LEMMA TrailStaysExplained ==
  ASSUME IInv, TrailExplainsStatus, [Next]_vars
  PROVE  TrailExplainsStatus'
<1>1. TypeOK
  BY DEF IInv
<1>2. ASSUME NEW u \in Users, NEW o \in Ops, NEW c \in Connectors, NEW risk \in RiskLevels,
             Propose(u, o, c, risk)
      PROVE  TrailExplainsStatus'
  <2> DEFINE first == LogEntry("proposed", u, FALSE)
             auto == LogEntry("auto_approved", u, FALSE)
  <2>1. first \in Entry /\ auto \in Entry
    BY EntryTyped DEF Events
  <2>2. CASE risk = "low"
    <3>1. status' = [status EXCEPT ![o] = "approved"]
      BY <1>2, <2>2 DEF Propose
    <3>2. audit_trail' = [audit_trail EXCEPT ![o] = @ \o <<first, auto>>]
      BY <1>2, <2>2 DEF Propose
    <3>3. StatusAfter(auto.event) = "approved"
      BY StatusAfterEntries
    <3> HIDE DEF first, auto
    <3>4. QED BY <1>1, <2>1, <3>1, <3>2, <3>3, EntryExplains
  <2>3. CASE risk # "low"
    <3>1. status' = [status EXCEPT ![o] = "pending_approval"]
      BY <1>2, <2>3 DEF Propose
    <3>2. audit_trail' = [audit_trail EXCEPT ![o] = Append(@, first)]
      BY <1>2, <2>3 DEF Propose, Record
    <3>3. StatusAfter(first.event) = "pending_approval"
      BY StatusAfterEntries
    <3> HIDE DEF first
    <3>4. QED BY <1>1, <2>1, <3>1, <3>2, <3>3, EntryExplains
  <2>4. QED BY <2>2, <2>3
<1>3. ASSUME NEW u \in Users, NEW o \in Ops, NEW code \in Codes, Approve(u, o, code)
      PROVE  TrailExplainsStatus'
  <2> DEFINE e == LogEntry("approved", u, VerifyMfa(u, code))
  <2>1. e \in Entry
    BY EntryTyped, VerifyMfaBoolean DEF Events
  <2>2. /\ status' = [status EXCEPT ![o] = StatusAfter(e.event)]
        /\ audit_trail' = [audit_trail EXCEPT ![o] = Append(@, e)]
    BY <1>3, StatusAfterEntries DEF Approve, Record
  <2> HIDE DEF e
  <2>3. QED BY <1>1, <2>1, <2>2, EntryExplains
<1>4. ASSUME NEW u \in Users, NEW o \in Ops, Reject(u, o) PROVE TrailExplainsStatus'
  <2> DEFINE e == LogEntry("rejected", u, FALSE)
  <2>1. e \in Entry
    BY EntryTyped DEF Events
  <2>2. /\ status' = [status EXCEPT ![o] = StatusAfter(e.event)]
        /\ audit_trail' = [audit_trail EXCEPT ![o] = Append(@, e)]
    BY <1>4, StatusAfterEntries DEF Reject, Record
  <2> HIDE DEF e
  <2>3. QED BY <1>1, <2>1, <2>2, EntryExplains
<1>5. ASSUME NEW r \in Requests, NEW u \in Users, NEW o \in Ops, StartExecute(r, u, o)
      PROVE  TrailExplainsStatus'
  <2> DEFINE e == LogEntry("execution_started", info[o].user, FALSE)
  <2>1. e \in Entry
    BY <1>5, EntryTyped DEF Events, StartExecute, IInv, Proposed, Info
  <2>2. /\ status' = [status EXCEPT ![o] = StatusAfter(e.event)]
        /\ audit_trail' = [audit_trail EXCEPT ![o] = Append(@, e)]
    BY <1>5, StatusAfterEntries DEF StartExecute, Record
  <2> HIDE DEF e
  <2>3. QED BY <1>1, <2>1, <2>2, EntryExplains
<1>6. ASSUME NEW u \in Users, NEW o \in Ops, ExecuteUnroutable(u, o)
      PROVE  TrailExplainsStatus'
  <2> DEFINE first == LogEntry("execution_started", info[o].user, FALSE)
             last == LogEntry("execution_failed", info[o].user, FALSE)
  <2>1. first \in Entry /\ last \in Entry
    BY <1>6, EntryTyped DEF Events, ExecuteUnroutable, IInv, Proposed, Info
  <2>2. /\ status' = [status EXCEPT ![o] = StatusAfter(last.event)]
        /\ audit_trail' = [audit_trail EXCEPT ![o] = @ \o <<first, last>>]
    BY <1>6, StatusAfterEntries DEF ExecuteUnroutable
  <2> HIDE DEF first, last
  <2>3. QED BY <1>1, <2>1, <2>2, EntryExplains
<1>7. ASSUME NEW r \in Requests, NEW success \in BOOLEAN, FinishExecute(r, success)
      PROVE  TrailExplainsStatus'
  <2> DEFINE o == requests[r]
             e == LogEntry(IF success THEN "execution_completed" ELSE "execution_failed",
                           info[o].user, FALSE)
  <2>1. o \in Ops /\ status[o] = "executing"
    BY <1>7 DEF FinishExecute, IInv, TypeOK, RequestsHoldExecuting
  <2>2. e \in Entry
    BY <2>1, EntryTyped DEF Events, IInv, Proposed, Info
  <2>3. /\ status' = [status EXCEPT ![o] = StatusAfter(e.event)]
        /\ audit_trail' = [audit_trail EXCEPT ![o] = Append(@, e)]
    BY <1>7, StatusAfterEntries DEF FinishExecute, Record
  <2> HIDE DEF o, e
  <2>4. QED BY <1>1, <2>1, <2>2, <2>3, EntryExplains
<1>8. ASSUME NEW r \in Requests, CancelRequest(r) PROVE TrailExplainsStatus'
  BY <1>8 DEF CancelRequest, TrailExplainsStatus
<1>9. CASE UNCHANGED vars
  BY <1>9 DEF vars, TrailExplainsStatus
<1>10. QED BY <1>2, <1>3, <1>4, <1>5, <1>6, <1>7, <1>8, <1>9 DEF Next

(* At every moment the last entry of an audit trail tells the status of    *)
(* its operation.                                                          *)
THEOREM AuditTrailsExplain == Spec => []TrailExplainsStatus
<1>1. Init => TrailExplainsStatus
  BY DEF Init, TrailExplainsStatus
<1>2. IInv /\ TrailExplainsStatus /\ [Next]_vars => TrailExplainsStatus'
  BY TrailStaysExplained
<1>3. QED BY <1>1, <1>2, Invariance, PTL DEF Spec
-----------------------------------------------------------------------------
(* The life cycle's view of the executor, as Lifecycle instantiates it. *)
PhaseOf == [o \in Ops |-> Phase(status[o])]

(* The phase a status stands for. *)
LEMMA Phases ==
  /\ Phase("absent") = "absent" /\ Phase("pending_approval") = "pending"
  /\ Phase("approved") = "approved" /\ Phase("rejected") = "rejected"
  /\ Phase("executing") = "executing"
  /\ Phase("completed") = "finished" /\ Phase("failed") = "finished"
BY DEF Phase

(* One operation that changes its status changes its phase, and no other   *)
(* operation does.                                                         *)
LEMMA PhaseMoves ==
  ASSUME TypeOK, NEW o \in Ops, NEW s, status' = [status EXCEPT ![o] = s]
  PROVE  PhaseOf' = [PhaseOf EXCEPT ![o] = Phase(s)]
BY DEF TypeOK, PhaseOf

(* Every handler is a step of the promised life cycle, or leaves it alone. *)
LEMMA HandlersFollowLifecycle ==
  ASSUME IInv, [Next]_vars
  PROVE  [Lifecycle!LifecycleNext]_(Lifecycle!lvars)
<1> DEFINE Follows == [Lifecycle!LifecycleNext]_(Lifecycle!lvars)
<1>1. TypeOK /\ \A o \in Ops : PhaseOf[o] = Phase(status[o])
  BY DEF IInv, PhaseOf
<1>2. ASSUME NEW u \in Users, NEW o \in Ops, NEW c \in Connectors, NEW risk \in RiskLevels,
             Propose(u, o, c, risk)
      PROVE  Follows
  <2>1. PICK s \in {"approved", "pending_approval"} :
          status[o] = "absent" /\ status' = [status EXCEPT ![o] = s] /\ calls' = calls
    BY <1>2 DEF Propose
  <2>2. /\ PhaseOf[o] = "absent" /\ Phase(s) \in {"pending", "approved"}
        /\ PhaseOf' = [PhaseOf EXCEPT ![o] = Phase(s)]
    BY <1>1, <2>1, Phases, PhaseMoves
  <2>3. Lifecycle!Submit(o)
    BY <2>1, <2>2 DEF Lifecycle!Submit, PhaseOf
  <2>4. QED BY <2>3 DEF Lifecycle!LifecycleNext
<1>3. ASSUME NEW u \in Users, NEW o \in Ops, NEW code \in Codes, Approve(u, o, code)
      PROVE  Follows
  <2>1. status[o] = "pending_approval" /\ status' = [status EXCEPT ![o] = "approved"]
        /\ calls' = calls
    BY <1>3 DEF Approve
  <2> PhaseOf' = [PhaseOf EXCEPT ![o] = Phase("approved")]
    BY <1>1, <2>1, PhaseMoves
  <2>2. PhaseOf[o] = "pending" /\ PhaseOf' = [PhaseOf EXCEPT ![o] = "approved"]
    BY <1>1, <2>1, Phases
  <2>3. Lifecycle!Accept(o)
    BY <2>1, <2>2 DEF Lifecycle!Accept, PhaseOf
  <2>4. QED BY <2>3 DEF Lifecycle!LifecycleNext
<1>4. ASSUME NEW u \in Users, NEW o \in Ops, Reject(u, o) PROVE Follows
  <2>1. status[o] = "pending_approval" /\ status' = [status EXCEPT ![o] = "rejected"]
        /\ calls' = calls
    BY <1>4 DEF Reject
  <2> PhaseOf' = [PhaseOf EXCEPT ![o] = Phase("rejected")]
    BY <1>1, <2>1, PhaseMoves
  <2>2. PhaseOf[o] = "pending" /\ PhaseOf' = [PhaseOf EXCEPT ![o] = "rejected"]
    BY <1>1, <2>1, Phases
  <2>3. PhaseOf' = [p \in Ops |-> IF p \in {o} THEN "rejected" ELSE PhaseOf[p]]
    BY <2>2 DEF PhaseOf
  <2>4. Lifecycle!Deny({o})
    BY <2>1, <2>2, <2>3 DEF Lifecycle!Deny, PhaseOf
  <2>5. QED BY <2>4 DEF Lifecycle!LifecycleNext
<1>5. ASSUME NEW r \in Requests, NEW u \in Users, NEW o \in Ops, StartExecute(r, u, o)
      PROVE  Follows
  <2>1. status[o] = "approved" /\ status' = [status EXCEPT ![o] = "executing"]
        /\ calls' = [calls EXCEPT ![o] = @ + 1]
    BY <1>5 DEF StartExecute
  <2> PhaseOf' = [PhaseOf EXCEPT ![o] = Phase("executing")]
    BY <1>1, <2>1, PhaseMoves
  <2>2. PhaseOf[o] = "approved" /\ PhaseOf' = [PhaseOf EXCEPT ![o] = "executing"]
    BY <1>1, <2>1, Phases
  <2>3. Lifecycle!Begin(o)
    BY <2>1, <2>2 DEF Lifecycle!Begin, PhaseOf
  <2>4. QED BY <2>3 DEF Lifecycle!LifecycleNext
<1>6. ASSUME NEW u \in Users, NEW o \in Ops, ExecuteUnroutable(u, o) PROVE Follows
  <2>1. status[o] = "approved" /\ status' = [status EXCEPT ![o] = "failed"] /\ calls' = calls
    BY <1>6 DEF ExecuteUnroutable
  <2> PhaseOf' = [PhaseOf EXCEPT ![o] = Phase("failed")]
    BY <1>1, <2>1, PhaseMoves
  <2>2. PhaseOf[o] = "approved" /\ PhaseOf' = [PhaseOf EXCEPT ![o] = "finished"]
    BY <1>1, <2>1, Phases
  <2>3. Lifecycle!FailUnserved(o)
    BY <2>1, <2>2 DEF Lifecycle!FailUnserved, PhaseOf
  <2>4. QED BY <2>3 DEF Lifecycle!LifecycleNext
<1>7. ASSUME NEW r \in Requests, NEW success \in BOOLEAN, FinishExecute(r, success)
      PROVE  Follows
  <2> DEFINE o == requests[r]
  <2>1. PICK s \in {"completed", "failed"} :
          status' = [status EXCEPT ![o] = s] /\ calls' = calls
    BY <1>7 DEF FinishExecute
  <2>2. o \in Ops /\ status[o] = "executing"
    BY <1>7 DEF FinishExecute, IInv, TypeOK, RequestsHoldExecuting
  <2> PhaseOf' = [PhaseOf EXCEPT ![o] = Phase(s)]
    BY <1>1, <2>1, <2>2, PhaseMoves
  <2>3. PhaseOf[o] = "executing" /\ PhaseOf' = [PhaseOf EXCEPT ![o] = "finished"]
    BY <1>1, <2>1, <2>2, Phases
  <2>4. Lifecycle!End(o)
    BY <2>1, <2>3 DEF Lifecycle!End, PhaseOf
  <2>5. QED BY <2>2, <2>4 DEF Lifecycle!LifecycleNext
<1>8. ASSUME (\E r \in Requests : CancelRequest(r)) \/ UNCHANGED vars
      PROVE  Follows
  <2>1. status' = status /\ calls' = calls
    BY <1>8 DEF CancelRequest, vars
  <2>2. QED BY <2>1 DEF Lifecycle!lvars
<1>9. QED BY <1>2, <1>3, <1>4, <1>5, <1>6, <1>7, <1>8 DEF Next

(* The executor starts where the life cycle does. *)
LEMMA InitIsLifecycleInit == Init => Lifecycle!LifecycleInit
BY DEF Init, Lifecycle!LifecycleInit, Phase

(* The executor implements the promised life cycle: every operation is     *)
(* decided once, called at most once, and ends once.                       *)
THEOREM ExecutorImplementsLifecycle == Spec => ImplementsLifecycle
<1>1. IInv /\ [Next]_vars => [Lifecycle!LifecycleNext]_(Lifecycle!lvars)
  BY HandlersFollowLifecycle
<1>2. QED BY <1>1, InitIsLifecycleInit, Invariance, PTL
          DEF Spec, ImplementsLifecycle, Lifecycle!LifecycleSpec

-----------------------------------------------------------------------------
(* With the escalation service: the sweeps keep what the executor alone    *)
(* keeps, and the executor never disturbs what the sweeps rely on.         *)

(* The sweep of CheckTimeouts: the operations that are due, escalated and  *)
(* denied.                                                                 *)
Due == {o \in Pending : age[o] >= Timeout}
Up == {o \in Due : CanEscalate(o)}
Denied == Due \ Up

SweepEntry(o) == LogEntry(IF o \in Up THEN "escalated" ELSE "auto_denied", info[o].user, FALSE)

(* An identifier nobody has proposed has neither a level nor a trail. *)
UnproposedIsUntouched ==
  \A o \in Ops : status[o] = "absent" => escalation_state[o] = 0 /\ audit_trail[o] = <<>>

EscalationIInv == /\ IInv
                  /\ ExecutingIsHeld
                  /\ TrailExplainsStatus
                  /\ EscalationTypeOK
                  /\ UnproposedIsUntouched
                  /\ DenialExhaustsChain

-----------------------------------------------------------------------------
(* A sweep, operation by operation. *)
LEMMA Sweep ==
  ASSUME IInv, EscalationTypeOK, CheckTimeouts
  PROVE  /\ Denied \subseteq Pending /\ Up \subseteq Pending /\ Up \cap Denied = {}
         /\ \A o \in Ops :
              /\ status'[o] = IF o \in Denied THEN "rejected" ELSE status[o]
              /\ audit_trail'[o] = IF o \in Up \cup Denied
                                   THEN Append(audit_trail[o], SweepEntry(o))
                                   ELSE audit_trail[o]
              /\ escalation_state'[o] = IF o \in Up THEN escalation_state[o] + 1
                                        ELSE IF o \in Denied THEN 0 ELSE escalation_state[o]
              /\ o \in Up \cup Denied => SweepEntry(o) \in Entry
         /\ status' \in [Ops -> Statuses]
         /\ DOMAIN audit_trail' = Ops /\ DOMAIN escalation_state' = Ops
         /\ UNCHANGED <<info, approved_by, requests, calls, interrupted, age>>
<1>1. /\ escalation_state' = [o \in Ops |-> IF o \in Up THEN escalation_state[o] + 1
                                            ELSE IF o \in Denied THEN 0
                                            ELSE escalation_state[o]]
      /\ status' = [o \in Ops |-> IF o \in Denied THEN "rejected" ELSE status[o]]
      /\ audit_trail' = [o \in Ops |-> IF o \in Due THEN Append(audit_trail[o], SweepEntry(o))
                                       ELSE audit_trail[o]]
      /\ UNCHANGED <<info, approved_by, requests, calls, interrupted, age>>
  BY DEF CheckTimeouts, Due, Up, Denied, SweepEntry
<1>2. /\ Due = Up \cup Denied /\ Due \subseteq Pending /\ Up \cap Denied = {}
      /\ Pending \subseteq Ops
  BY DEF Due, Up, Denied, Pending
<1>3. ASSUME NEW o \in Due PROVE SweepEntry(o) \in Entry
  <2>1. info[o] \in Info
    BY <1>2 DEF IInv, Proposed, Pending
  <2>2. QED BY <2>1, EntryTyped DEF SweepEntry, Events, Info
<1>4. status' \in [Ops -> Statuses]
  BY <1>1 DEF IInv, TypeOK, Statuses
<1> HIDE DEF Due, Up, Denied, SweepEntry
<1>5. QED BY <1>1, <1>2, <1>3, <1>4

(* A sweep keeps what the executor relies on: it moves nothing but pending *)
(* operations, and adds to their trails.                                   *)
LEMMA SweepKeepsIInv ==
  ASSUME IInv, EscalationTypeOK, CheckTimeouts
  PROVE  IInv'
<1> HIDE DEF Due, Up, Denied, SweepEntry
<1>1. audit_trail \in [Ops -> Seq(Entry)]
  BY DEF IInv, TypeOK
<1>2. audit_trail' \in [Ops -> Seq(Entry)]
  <2>1. ASSUME NEW o \in Ops PROVE audit_trail'[o] \in Seq(Entry)
    <3>1. audit_trail[o] \in Seq(Entry)
      BY <1>1
    <3>2. \A e \in Entry : Append(audit_trail[o], e) \in Seq(Entry)
      BY <3>1, AppendProperties
    <3>3. QED BY <3>1, <3>2, Sweep
  <2>2. audit_trail' = [o \in Ops |-> audit_trail'[o]]
    BY DEF CheckTimeouts
  <2>3. QED BY <2>1, <2>2
<1>3. TypeOK'
  BY <1>2, Sweep DEF IInv, TypeOK
<1>4. TrailGrows
  <2> SUFFICES ASSUME NEW o \in Ops, NEW i \in DOMAIN audit_trail[o]
               PROVE  i \in DOMAIN audit_trail'[o] /\ audit_trail'[o][i] = audit_trail[o][i]
    BY DEF TrailGrows
  <2>1. audit_trail'[o] \in {audit_trail[o], Append(audit_trail[o], SweepEntry(o))}
    BY Sweep
  <2>2. PICK trail, e : /\ trail \in Seq(Entry) /\ trail = audit_trail[o] /\ i \in DOMAIN trail
                        /\ audit_trail'[o] \in {trail, Append(trail, e)}
    BY <1>1, <2>1
  <2>3. i \in DOMAIN Append(trail, e) /\ Append(trail, e)[i] = trail[i]
    BY <2>2, AppendGrows
  <2>4. CASE audit_trail'[o] = trail
    BY <2>2, <2>4
  <2>5. CASE audit_trail'[o] = Append(trail, e)
    BY <2>2, <2>3, <2>5
  <2>6. QED BY <2>2, <2>4, <2>5
<1>5. \A o \in Ops : status'[o] = status[o] \/ (status[o] = "pending_approval"
                                                /\ status'[o] = "rejected")
  BY Sweep DEF Pending
<1>6. UNCHANGED <<info, approved_by, requests, calls>>
  BY Sweep
<1>7. Proposed' /\ ReviewedWithinTenant'
  BY <1>5, <1>6 DEF IInv, Proposed, ReviewedWithinTenant, Tenant
<1>8. PastIsAuthorised'
  BY <1>4, <1>5, <1>6, AuthorisedStable DEF IInv, PastIsAuthorised, Past, TrailGrows
<1>9. CallsFollowStatus'
  BY <1>5, <1>6 DEF IInv, CallsFollowStatus
<1>10. RequestsHoldExecuting' /\ OneHolder'
  BY <1>5, <1>6 DEF IInv, TypeOK, RequestsHoldExecuting, OneHolder
<1>11. QED BY <1>3, <1>7, <1>8, <1>9, <1>10 DEF IInv

(* A sweep changes no operation that executes, and logs what it does. *)
LEMMA SweepKeepsRecords ==
  ASSUME IInv, EscalationTypeOK, ExecutingIsHeld, TrailExplainsStatus, CheckTimeouts
  PROVE  ExecutingIsHeld' /\ TrailExplainsStatus'
<1> HIDE DEF Due, Up, Denied, SweepEntry
<1>1. ExecutingIsHeld'
  <2>1. \A o \in Ops : status'[o] = "executing" => status[o] = "executing"
    BY Sweep
  <2>2. UNCHANGED <<requests, interrupted>>
    BY Sweep
  <2>3. QED BY <2>1, <2>2 DEF ExecutingIsHeld
<1>2. ASSUME NEW o \in Ops
      PROVE  IF audit_trail'[o] = <<>> THEN status'[o] = "absent"
             ELSE status'[o] = StatusAfter(audit_trail'[o][Len(audit_trail'[o])].event)
  <2>1. CASE o \in Up \cup Denied
    <3>1. /\ SweepEntry(o) \in Entry /\ audit_trail[o] \in Seq(Entry)
          /\ audit_trail'[o] = Append(audit_trail[o], SweepEntry(o))
      BY <2>1, Sweep DEF IInv, TypeOK
    <3>2. audit_trail'[o] # <<>> /\ audit_trail'[o][Len(audit_trail'[o])] = SweepEntry(o)
      BY <3>1, LastEntry
    <3>3. SweepEntry(o).event = IF o \in Up THEN "escalated" ELSE "auto_denied"
      BY DEF SweepEntry, LogEntry
    <3>4. status'[o] = IF o \in Up THEN "pending_approval" ELSE "rejected"
      BY <2>1, Sweep DEF Pending
    <3>5. QED BY <3>2, <3>3, <3>4 DEF StatusAfter
  <2>2. CASE o \notin Up \cup Denied
    BY <2>2, Sweep DEF TrailExplainsStatus
  <2>3. QED BY <2>1, <2>2
<1>3. QED BY <1>1, <1>2 DEF TrailExplainsStatus

-----------------------------------------------------------------------------
(* The escalations of a trail can be counted, and one more entry counts if *)
(* it is an escalation.                                                    *)
LEMMA EscalationsFinite ==
  ASSUME NEW trail \in Seq(Entry)
  PROVE  IsFiniteSet(EscalatedAt(trail)) /\ Cardinality(EscalatedAt(trail)) \in Nat
<1>1. Len(trail) \in Nat /\ DOMAIN trail = 1 .. Len(trail)
  BY LenProperties
<1>2. IsFiniteSet(DOMAIN trail)
  BY <1>1, FS_Interval
<1>3. QED BY <1>2, FS_Subset, FS_CardinalityType DEF EscalatedAt

(* The escalations of a trail after an entry is appended to it. *)
LEMMA EscalationsCounted ==
  ASSUME NEW trail \in Seq(Entry), NEW e \in Entry
  PROVE  /\ e.event = "escalated" => Cardinality(EscalatedAt(Append(trail, e))) =
                                      Cardinality(EscalatedAt(trail)) + 1
         /\ e.event # "escalated" => Cardinality(EscalatedAt(Append(trail, e))) =
                                      Cardinality(EscalatedAt(trail))
<1> DEFINE n == Len(trail) + 1
<1>1. /\ n \in Nat /\ DOMAIN trail = 1 .. Len(trail) /\ n \notin DOMAIN trail
      /\ DOMAIN Append(trail, e) = DOMAIN trail \cup {n} /\ Append(trail, e)[n] = e
      /\ \A i \in DOMAIN trail : Append(trail, e)[i] = trail[i]
  BY AppendProperties, LenProperties
<1> HIDE DEF n
<1>2. CASE e.event = "escalated"
  <2>1. EscalatedAt(Append(trail, e)) = EscalatedAt(trail) \cup {n} /\ n \notin EscalatedAt(trail)
    BY <1>1, <1>2 DEF EscalatedAt
  <2>2. QED BY <1>2, <2>1, EscalationsFinite, FS_AddElement
<1>3. CASE e.event # "escalated"
  <2>1. EscalatedAt(Append(trail, e)) = EscalatedAt(trail)
    BY <1>1, <1>3 DEF EscalatedAt
  <2>2. QED BY <1>3, <2>1
<1>4. QED BY <1>2, <1>3

(* Nothing has been escalated on an empty trail. *)
LEMMA NoEscalations == Cardinality(EscalatedAt(<<>>)) = 0
<1>1. EscalatedAt(<<>>) = {}
  BY DEF EscalatedAt
<1>2. QED BY <1>1, FS_EmptySet

(* Two entries at once are one after the other. *)
LEMMA TwoEntries ==
  ASSUME NEW trail \in Seq(Entry), NEW e \in Entry, NEW f \in Entry
  PROVE  trail \o <<e, f>> = Append(Append(trail, e), f)
OBVIOUS

(* The executor logs entries of its own kinds only. *)
LEMMA ExecutorNeverEscalates ==
  ASSUME IInv, [Next]_vars, NEW p \in Ops
  PROVE  Escalations(p)' = Escalations(p)
<1> DEFINE Quiet == Escalations(p)' = Escalations(p)
<1>1. audit_trail \in [Ops -> Seq(Entry)]
  BY DEF IInv, TypeOK
<1>2. ASSUME NEW o \in Ops, NEW e \in Entry, e.event # "escalated",
             audit_trail' = [audit_trail EXCEPT ![o] = Append(@, e)]
      PROVE  Quiet
  <2>1. Cardinality(EscalatedAt(Append(audit_trail[o], e)))
          = Cardinality(EscalatedAt(audit_trail[o]))
    BY <1>1, <1>2, EscalationsCounted
  <2>2. audit_trail'[p] = IF p = o THEN Append(audit_trail[o], e) ELSE audit_trail[p]
    BY <1>1, <1>2
  <2>3. QED BY <2>1, <2>2 DEF Escalations
<1>3. ASSUME NEW o \in Ops, NEW e \in Entry, NEW f \in Entry,
             e.event # "escalated", f.event # "escalated",
             audit_trail' = [audit_trail EXCEPT ![o] = @ \o <<e, f>>]
      PROVE  Quiet
  <2>1. audit_trail[o] \in Seq(Entry) /\ Append(audit_trail[o], e) \in Seq(Entry)
    BY <1>1, AppendProperties
  <2>2. audit_trail[o] \o <<e, f>> = Append(Append(audit_trail[o], e), f)
    BY <2>1, TwoEntries
  <2>3. Cardinality(EscalatedAt(audit_trail[o] \o <<e, f>>))
          = Cardinality(EscalatedAt(audit_trail[o]))
    <3>1. Cardinality(EscalatedAt(Append(audit_trail[o], e)))
            = Cardinality(EscalatedAt(audit_trail[o]))
      BY <1>3, <2>1, EscalationsCounted
    <3>2. Cardinality(EscalatedAt(Append(Append(audit_trail[o], e), f)))
            = Cardinality(EscalatedAt(Append(audit_trail[o], e)))
      BY <1>3, <2>1, EscalationsCounted
    <3>3. QED BY <2>2, <3>1, <3>2
  <2>4. audit_trail'[p] = IF p = o THEN audit_trail[o] \o <<e, f>> ELSE audit_trail[p]
    BY <1>1, <1>3
  <2>5. QED BY <2>3, <2>4 DEF Escalations
<1>4. ASSUME NEW o \in Ops, NEW event \in Events \ {"escalated"}, NEW u \in Users,
             NEW mfa \in BOOLEAN, Record(o, event, u, mfa)
      PROVE  Quiet
  <2>1. LogEntry(event, u, mfa) \in Entry /\ LogEntry(event, u, mfa).event # "escalated"
    BY EntryTyped DEF LogEntry
  <2>2. QED BY <1>2, <1>4, <2>1 DEF Record
<1>5. \A o \in Ops : status[o] # "absent" => info[o].user \in Users
  BY DEF IInv, Proposed, Info
<1>6. ASSUME NEW u \in Users, NEW o \in Ops, NEW c \in Connectors, NEW risk \in RiskLevels,
             Propose(u, o, c, risk)
      PROVE  Quiet
  <2> DEFINE e == LogEntry("proposed", u, FALSE)
             f == LogEntry("auto_approved", u, FALSE)
  <2>1. e \in Entry /\ f \in Entry /\ e.event # "escalated" /\ f.event # "escalated"
    BY DEF LogEntry, Entry, Events
  <2>2. \/ audit_trail' = [audit_trail EXCEPT ![o] = @ \o <<e, f>>]
        \/ audit_trail' = [audit_trail EXCEPT ![o] = Append(@, e)]
    BY <1>6 DEF Propose, Record
  <2> HIDE DEF e, f
  <2>3. QED BY <1>2, <1>3, <2>1, <2>2
<1>7. ASSUME NEW u \in Users, NEW o \in Ops, NEW code \in Codes, Approve(u, o, code)
      PROVE  Quiet
  BY <1>4, <1>7, VerifyMfaBoolean DEF Approve, Events
<1>8. ASSUME NEW u \in Users, NEW o \in Ops, Reject(u, o) PROVE Quiet
  BY <1>4, <1>8 DEF Reject, Events
<1>9. ASSUME NEW r \in Requests, NEW u \in Users, NEW o \in Ops, StartExecute(r, u, o)
      PROVE  Quiet
  BY <1>4, <1>5, <1>9 DEF StartExecute, Events
<1>10. ASSUME NEW u \in Users, NEW o \in Ops, ExecuteUnroutable(u, o) PROVE Quiet
  <2> DEFINE e == LogEntry("execution_started", info[o].user, FALSE)
             f == LogEntry("execution_failed", info[o].user, FALSE)
  <2>1. info[o].user \in Users
    BY <1>5, <1>10 DEF ExecuteUnroutable
  <2>2. e \in Entry /\ f \in Entry /\ e.event # "escalated" /\ f.event # "escalated"
    BY <2>1 DEF LogEntry, Entry, Events
  <2>3. audit_trail' = [audit_trail EXCEPT ![o] = @ \o <<e, f>>]
    BY <1>10 DEF ExecuteUnroutable
  <2> HIDE DEF e, f
  <2>4. QED BY <1>3, <2>2, <2>3
<1>11. ASSUME NEW r \in Requests, NEW success \in BOOLEAN, FinishExecute(r, success)
       PROVE  Quiet
  <2> DEFINE event == IF success THEN "execution_completed" ELSE "execution_failed"
  <2>1. /\ requests[r] \in Ops /\ info[requests[r]].user \in Users
        /\ Record(requests[r], event, info[requests[r]].user, FALSE)
    BY <1>5, <1>11 DEF FinishExecute, IInv, TypeOK, RequestsHoldExecuting
  <2>2. event \in Events \ {"escalated"}
    BY DEF Events
  <2> HIDE DEF event
  <2>3. QED BY <1>4, <2>1, <2>2
<1>12. ASSUME NEW r \in Requests, CancelRequest(r) PROVE Quiet
  BY <1>12 DEF CancelRequest, Escalations
<1>13. CASE UNCHANGED vars
  BY <1>13 DEF vars, Escalations
<1>14. QED BY <1>6, <1>7, <1>8, <1>9, <1>10, <1>11, <1>12, <1>13 DEF Next

(* How the executor moves an operation in and out of the sweeps' sight: it *)
(* comes to be pending by a proposal only, and rejected by a reviewer.     *)
LEMMA ExecutorMoves ==
  ASSUME IInv, [Next]_vars, NEW p \in Ops
  PROVE  /\ status'[p] = "pending_approval" => status[p] \in {"absent", "pending_approval"}
         /\ status'[p] = "absent" => status[p] = "absent" /\ audit_trail'[p] = audit_trail[p]
         /\ status'[p] = "rejected" =>
              \/ status[p] = "rejected" /\ approved_by'[p] = approved_by[p]
              \/ status[p] = "pending_approval" /\ approved_by'[p] \in Users
<1> USE DEF IInv, TypeOK, Record
<1>1. ASSUME NEW u \in Users, NEW o \in Ops, NEW c \in Connectors, NEW risk \in RiskLevels,
             Propose(u, o, c, risk)
      PROVE  status'[p] = IF p = o THEN (IF risk = "low" THEN "approved" ELSE "pending_approval")
                          ELSE status[p]
  BY <1>1 DEF Propose
<1>2. ASSUME NEW u \in Users, NEW o \in Ops, NEW c \in Connectors, NEW risk \in RiskLevels,
             Propose(u, o, c, risk)
      PROVE  /\ status[o] = "absent"
             /\ p # o => approved_by'[p] = approved_by[p] /\ audit_trail'[p] = audit_trail[p]
  BY <1>2 DEF Propose
<1>3. ASSUME NEW u \in Users, NEW o \in Ops, NEW code \in Codes, Approve(u, o, code)
      PROVE  /\ status[o] = "pending_approval"
             /\ status'[p] = IF p = o THEN "approved" ELSE status[p]
             /\ p # o => approved_by'[p] = approved_by[p] /\ audit_trail'[p] = audit_trail[p]
  BY <1>3 DEF Approve
<1>4. ASSUME NEW u \in Users, NEW o \in Ops, Reject(u, o)
      PROVE  /\ status[o] = "pending_approval"
             /\ status'[p] = IF p = o THEN "rejected" ELSE status[p]
             /\ approved_by'[p] = IF p = o THEN u ELSE approved_by[p]
             /\ p # o => audit_trail'[p] = audit_trail[p]
  BY <1>4 DEF Reject
<1>5. ASSUME NEW r \in Requests, NEW u \in Users, NEW o \in Ops, StartExecute(r, u, o)
      PROVE  /\ status'[p] = IF p = o THEN "executing" ELSE status[p]
             /\ approved_by' = approved_by
             /\ p # o => audit_trail'[p] = audit_trail[p]
  BY <1>5 DEF StartExecute
<1>6. ASSUME NEW u \in Users, NEW o \in Ops, ExecuteUnroutable(u, o)
      PROVE  /\ status'[p] = IF p = o THEN "failed" ELSE status[p]
             /\ approved_by' = approved_by
             /\ p # o => audit_trail'[p] = audit_trail[p]
  BY <1>6 DEF ExecuteUnroutable
<1>7. ASSUME NEW r \in Requests, NEW success \in BOOLEAN, FinishExecute(r, success)
      PROVE  /\ status'[p] = IF p = requests[r] THEN (IF success THEN "completed" ELSE "failed")
                             ELSE status[p]
             /\ approved_by' = approved_by
             /\ p # requests[r] => audit_trail'[p] = audit_trail[p]
  BY <1>7 DEF FinishExecute
<1>8. ASSUME (\E r \in Requests : CancelRequest(r)) \/ UNCHANGED vars
      PROVE  UNCHANGED <<status, approved_by, audit_trail>>
  BY <1>8 DEF CancelRequest, vars
<1>9. QED BY <1>1, <1>2, <1>3, <1>4, <1>5, <1>6, <1>7, <1>8 DEF Next
-----------------------------------------------------------------------------
(* The invariant holds at the start. *)
LEMMA EscalationInitIInv == EscalationInit => EscalationIInv
<1> SUFFICES ASSUME EscalationInit PROVE EscalationIInv
  OBVIOUS
<1>1. Init /\ age = [o \in Ops |-> 0] /\ escalation_state = [o \in Ops |-> 0]
  BY DEF EscalationInit
<1>2. IInv
  BY <1>1, InitIInv
<1>3. ExecutingIsHeld /\ TrailExplainsStatus
  BY <1>1 DEF Init, ExecutingIsHeld, TrailExplainsStatus
<1>4. EscalationTypeOK
  BY <1>1, PolicyAssumption DEF EscalationTypeOK
<1>5. UnproposedIsUntouched
  BY <1>1 DEF Init, UnproposedIsUntouched
<1>6. DenialExhaustsChain
  BY <1>1 DEF Init, DenialExhaustsChain
<1>7. QED BY <1>2, <1>3, <1>4, <1>5, <1>6 DEF EscalationIInv

(* A step of the executor starts no level and ends none. *)
LEMMA ExecutorKeepsChain ==
  ASSUME EscalationIInv, [Next]_vars, UNCHANGED <<age, escalation_state>>
  PROVE  EscalationIInv'
<1>1. IInv /\ IInv'
  BY NextIInv DEF EscalationIInv
<1>2. ExecutingIsHeld' /\ TrailExplainsStatus'
  BY HeldStays, TrailStaysExplained DEF EscalationIInv
<1>3. EscalationTypeOK'
  BY DEF EscalationIInv, EscalationTypeOK
<1>4. UnproposedIsUntouched'
  BY <1>1, ExecutorMoves DEF EscalationIInv, UnproposedIsUntouched
<1>5. DenialExhaustsChain'
  <2> SUFFICES ASSUME NEW o \in Ops
               PROVE  /\ status'[o] = "pending_approval" =>
                            escalation_state'[o] = Escalations(o)'
                      /\ status'[o] = "rejected" /\ approved_by'[o] = NoUser =>
                            Escalations(o)' = ChainLength - 1
    BY DEF DenialExhaustsChain
  <2>1. Escalations(o)' = Escalations(o) /\ escalation_state'[o] = escalation_state[o]
    BY <1>1, ExecutorNeverEscalates
  <2>2. status[o] = "absent" => escalation_state[o] = Escalations(o)
    BY NoEscalations DEF EscalationIInv, UnproposedIsUntouched, Escalations
  <2>3. QED BY <1>1, <2>1, <2>2, ExecutorMoves, ConstantsAssumption
            DEF EscalationIInv, DenialExhaustsChain
<1>6. QED BY <1>1, <1>2, <1>3, <1>4, <1>5 DEF EscalationIInv

(* A sweep raises the level together with the record of it, and denies     *)
(* only at the end of the chain.                                           *)
LEMMA SweepKeepsChain ==
  ASSUME EscalationIInv, CheckTimeouts
  PROVE  EscalationIInv'
<1> HIDE DEF Due, Up, Denied, SweepEntry
<1>1. IInv /\ EscalationTypeOK
  BY DEF EscalationIInv
<1>2. IInv' /\ ExecutingIsHeld' /\ TrailExplainsStatus'
  BY SweepKeepsIInv, SweepKeepsRecords DEF EscalationIInv
<1>3. /\ \A o \in Up : escalation_state[o] < ChainLength - 1
      /\ \A o \in Denied : ~(escalation_state[o] < ChainLength - 1)
  BY DEF Due, Up, Denied, CanEscalate
<1>4. EscalationTypeOK'
  <2>1. \A o \in Ops : escalation_state'[o] \in 0 .. ChainLength - 1
    BY <1>1, <1>3, Sweep, PolicyAssumption DEF EscalationTypeOK
  <2>2. escalation_state' = [o \in Ops |-> escalation_state'[o]]
    BY DEF CheckTimeouts
  <2>3. age' = age
    BY <1>1, Sweep
  <2>4. QED BY <1>1, <2>1, <2>2, <2>3 DEF EscalationTypeOK
<1>5. UnproposedIsUntouched'
  <2>1. \A o \in Ops : status'[o] = "absent" => o \notin Up \cup Denied /\ status[o] = "absent"
    BY <1>1, Sweep DEF Pending
  <2>2. QED BY <1>1, <2>1, Sweep DEF EscalationIInv, UnproposedIsUntouched
<1>6. ASSUME NEW o \in Ops
      PROVE  /\ status'[o] = "pending_approval" => escalation_state'[o] = Escalations(o)'
             /\ status'[o] = "rejected" /\ approved_by'[o] = NoUser =>
                  Escalations(o)' = ChainLength - 1
  <2>1. audit_trail[o] \in Seq(Entry) /\ Cardinality(EscalatedAt(audit_trail[o])) \in Nat
    BY <1>1, EscalationsFinite DEF IInv, TypeOK
  <2>2. SweepEntry(o).event = IF o \in Up THEN "escalated" ELSE "auto_denied"
    BY DEF SweepEntry, LogEntry
  <2>3. CASE o \in Up
    <3>1. /\ SweepEntry(o) \in Entry /\ status[o] = "pending_approval"
          /\ status'[o] = status[o] /\ escalation_state'[o] = escalation_state[o] + 1
          /\ audit_trail'[o] = Append(audit_trail[o], SweepEntry(o))
      BY <1>1, <2>3, Sweep DEF Pending
    <3>2. Escalations(o)' = Escalations(o) + 1
      BY <2>1, <2>2, <2>3, <3>1, EscalationsCounted DEF Escalations
    <3>3. QED BY <3>1, <3>2 DEF EscalationIInv, DenialExhaustsChain
  <2>4. CASE o \in Denied
    <3>1. /\ SweepEntry(o) \in Entry /\ status[o] = "pending_approval" /\ o \notin Up
          /\ status'[o] = "rejected"
          /\ audit_trail'[o] = Append(audit_trail[o], SweepEntry(o))
      BY <1>1, <2>4, Sweep DEF Pending
    <3>2. Escalations(o)' = Escalations(o)
      BY <2>1, <2>2, <3>1, EscalationsCounted DEF Escalations
    <3>3. Escalations(o) = ChainLength - 1
      <4>1. escalation_state[o] \in 0 .. ChainLength - 1
        BY <1>1 DEF EscalationTypeOK
      <4>2. escalation_state[o] = ChainLength - 1
        BY <1>3, <2>4, <4>1, PolicyAssumption
      <4>3. QED BY <3>1, <4>2 DEF EscalationIInv, DenialExhaustsChain
    <3>4. QED BY <3>1, <3>2, <3>3
  <2>5. CASE o \notin Up \cup Denied
    <3>1. /\ status'[o] = status[o] /\ escalation_state'[o] = escalation_state[o]
          /\ audit_trail'[o] = audit_trail[o] /\ approved_by'[o] = approved_by[o]
      BY <1>1, <2>5, Sweep
    <3>2. QED BY <3>1 DEF EscalationIInv, DenialExhaustsChain, Escalations
  <2>6. QED BY <2>3, <2>4, <2>5
<1>7. QED BY <1>2, <1>4, <1>5, <1>6 DEF EscalationIInv, DenialExhaustsChain

(* Time only makes pending operations older. *)
LEMMA TickKeepsChain ==
  ASSUME EscalationIInv, Tick
  PROVE  EscalationIInv'
<1>1. UNCHANGED vars /\ escalation_state' = escalation_state
  BY DEF Tick
<1>2. age' \in [Ops -> 0 .. AgeBound]
  BY PolicyAssumption DEF Tick, EscalationIInv, EscalationTypeOK
<1>3. IInv' /\ ExecutingIsHeld' /\ TrailExplainsStatus'
  BY <1>1, NextIInv, HeldStays, TrailStaysExplained DEF EscalationIInv
<1>4. UNCHANGED <<status, approved_by, audit_trail>>
  BY <1>1 DEF vars
<1>5. QED BY <1>1, <1>2, <1>3, <1>4 DEF EscalationIInv, EscalationTypeOK,
        UnproposedIsUntouched, DenialExhaustsChain, Escalations

(* Requests, sweeps and the clock keep the invariant. *)
LEMMA EscalationNextIInv == EscalationIInv /\ [EscalationNext]_evars => EscalationIInv'
<1> SUFFICES ASSUME EscalationIInv, [EscalationNext]_evars PROVE EscalationIInv'
  OBVIOUS
<1>1. CASE ExecutorStep
  BY <1>1, ExecutorKeepsChain DEF ExecutorStep
<1>2. CASE UNCHANGED evars
  BY <1>2, ExecutorKeepsChain DEF evars, vars
<1>3. QED BY <1>1, <1>2, SweepKeepsChain, TickKeepsChain DEF EscalationNext

(* The inductive invariant of the executor under sweeps. *)
LEMMA EscalationInvariance == EscalationSpec => []EscalationIInv
BY EscalationInitIInv, EscalationNextIInv, PTL DEF EscalationSpec

-----------------------------------------------------------------------------
(* The levels the service remembers are those the audit trail records, and *)
(* it denies nothing before the chain of approvers is at its end, whoever  *)
(* reviews meanwhile and whenever the sweeps come.                         *)
THEOREM DenialComesLast == EscalationSpec => []EscalationFollowsChain
<1>1. EscalationIInv => EscalationFollowsChain
  BY DEF EscalationIInv, EscalationFollowsChain
<1>2. QED BY <1>1, EscalationInvariance, PTL

(* What holds of the executor alone holds with the escalation service next *)
(* to it: no call without an authorisation, none twice, no review from     *)
(* another tenant, every execution held, every trail telling its status.   *)
THEOREM SweepsAreHarmless ==
  EscalationSpec => [](TypeOK /\ HumanInTheLoop /\ AtMostOneCall /\ ReviewedWithinTenant
                         /\ ExecutingIsHeld /\ TrailExplainsStatus)
<1>1. IInv => HumanInTheLoop
  BY DEF IInv, HumanInTheLoop, CallsFollowStatus, PastIsAuthorised, Past
<1>2. IInv => AtMostOneCall
  BY DEF IInv, AtMostOneCall, CallsFollowStatus, TypeOK
<1>3. EscalationIInv => TypeOK /\ HumanInTheLoop /\ AtMostOneCall /\ ReviewedWithinTenant
                          /\ ExecutingIsHeld /\ TrailExplainsStatus
  BY <1>1, <1>2 DEF EscalationIInv, IInv
<1>4. QED BY <1>3, EscalationInvariance, PTL

(* A sweep neither denies nor escalates what somebody has decided.         *)
LEMMA DecisionsStay ==
  ASSUME EscalationIInv, [EscalationNext]_evars, NEW o \in Ops, status[o] # "pending_approval"
  PROVE  Escalations(o)' = Escalations(o) /\ (status'[o] = "rejected" => status[o] = "rejected")
<1>1. IInv /\ EscalationTypeOK
  BY DEF EscalationIInv
<1>2. CASE [Next]_vars
  BY <1>1, <1>2, ExecutorNeverEscalates, ExecutorMoves
<1>3. CASE CheckTimeouts
  <2>1. o \notin Up \cup Denied
    BY <1>1, <1>3, Sweep DEF Pending
  <2>2. status'[o] = status[o] /\ audit_trail'[o] = audit_trail[o]
    BY <1>1, <1>3, <2>1, Sweep
  <2>3. QED BY <2>2 DEF Escalations
<1>4. [Next]_vars \/ CheckTimeouts
  BY DEF EscalationNext, ExecutorStep, Tick, evars, vars
<1>5. QED BY <1>2, <1>3, <1>4

(* An operation somebody has approved or rejected is neither denied nor    *)
(* escalated afterwards.                                                   *)
THEOREM DecisionsAreRespected == EscalationSpec => SweepRespectsDecisions
<1>1. EscalationIInv /\ [EscalationNext]_evars =>
        [\A o \in Ops : status[o] # "pending_approval" =>
           Escalations(o)' = Escalations(o) /\ (status'[o] = "rejected" => status[o] = "rejected")]_evars
  BY DecisionsStay
<1>2. QED BY <1>1, EscalationInvariance, PTL DEF EscalationSpec, SweepRespectsDecisions
-----------------------------------------------------------------------------
(* A sweep denies in one step what is due and at the end of the chain, or  *)
(* leaves the life cycle of every operation alone.                         *)
LEMMA SweepFollowsLifecycle ==
  ASSUME IInv, EscalationTypeOK, CheckTimeouts
  PROVE  [Lifecycle!LifecycleNext]_(Lifecycle!lvars)
<1> HIDE DEF Due, Up, Denied, SweepEntry
<1>1. /\ Denied \subseteq Ops /\ \A o \in Denied : status[o] = "pending_approval"
      /\ \A o \in Ops : status'[o] = IF o \in Denied THEN "rejected" ELSE status[o]
      /\ calls' = calls
  BY Sweep DEF Pending
<1>2. /\ \A o \in Denied : PhaseOf[o] = "pending"
      /\ PhaseOf' = [o \in Ops |-> IF o \in Denied THEN "rejected" ELSE PhaseOf[o]]
  BY <1>1, Phases DEF PhaseOf
<1>3. CASE Denied = {}
  <2>1. PhaseOf' = PhaseOf
    BY <1>2, <1>3 DEF PhaseOf
  <2>2. QED BY <1>1, <2>1 DEF Lifecycle!lvars, PhaseOf
<1>4. CASE Denied # {}
  <2>1. Lifecycle!Deny(Denied)
    BY <1>1, <1>2, <1>4 DEF Lifecycle!Deny, PhaseOf
  <2>2. QED BY <1>1, <2>1 DEF Lifecycle!LifecycleNext
<1>5. QED BY <1>3, <1>4

(* With the escalation service next to it the executor still implements    *)
(* the promised life cycle: a sweep is one denial of several operations.   *)
THEOREM SweepsFollowLifecycle == EscalationSpec => ImplementsLifecycle
<1>1. EscalationIInv /\ [EscalationNext]_evars =>
        [Lifecycle!LifecycleNext]_(Lifecycle!lvars)
  <2> SUFFICES ASSUME EscalationIInv, [EscalationNext]_evars
               PROVE  [Lifecycle!LifecycleNext]_(Lifecycle!lvars)
    OBVIOUS
  <2>1. IInv /\ EscalationTypeOK
    BY DEF EscalationIInv
  <2>2. [Next]_vars \/ CheckTimeouts
    BY DEF EscalationNext, ExecutorStep, Tick, evars, vars
  <2>3. QED BY <2>1, <2>2, HandlersFollowLifecycle, SweepFollowsLifecycle
<1>2. EscalationInit => Lifecycle!LifecycleInit
  BY InitIsLifecycleInit DEF EscalationInit
<1>3. QED BY <1>1, <1>2, EscalationInvariance, PTL
          DEF EscalationSpec, ImplementsLifecycle, Lifecycle!LifecycleSpec

(* A sweep leaves everything alone that is over. *)
LEMMA SweepKeepsTheOver ==
  ASSUME IInv, EscalationTypeOK, CheckTimeouts, NEW o \in Ops, status[o] \in Terminal
  PROVE  /\ status'[o] = status[o] /\ approved_by'[o] = approved_by[o]
         /\ audit_trail'[o] = audit_trail[o]
<1> HIDE DEF Due, Up, Denied, SweepEntry
<1>1. o \notin Up \cup Denied
  BY Sweep DEF Pending, Terminal
<1>2. QED BY <1>1, Sweep

(* History is not rewritten by the sweeps either: a rejected, completed or *)
(* failed operation keeps its status, its reviewer and its audit trail.    *)
THEOREM HistoryStays == EscalationSpec => TerminalIsFinal
<1>1. EscalationIInv /\ [EscalationNext]_evars =>
        [\A o \in Ops : status[o] \in Terminal =>
           /\ status'[o] = status[o]
           /\ approved_by'[o] = approved_by[o]
           /\ audit_trail'[o] = audit_trail[o]]_vars
  <2> SUFFICES ASSUME EscalationIInv, [EscalationNext]_evars, NEW o \in Ops,
                      status[o] \in Terminal, vars' # vars
               PROVE  /\ status'[o] = status[o]
                      /\ approved_by'[o] = approved_by[o]
                      /\ audit_trail'[o] = audit_trail[o]
    OBVIOUS
  <2>1. IInv /\ EscalationTypeOK
    BY DEF EscalationIInv
  <2>2. Next \/ CheckTimeouts
    BY DEF EscalationNext, ExecutorStep, Tick, evars, vars
  <2>3. QED BY <2>1, <2>2, TerminalStays, SweepKeepsTheOver DEF OperationStays
<1>2. QED BY <1>1, EscalationInvariance, PTL DEF EscalationSpec, TerminalIsFinal
=============================================================================
