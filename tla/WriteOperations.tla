-------------------------- MODULE WriteOperations --------------------------
(***************************************************************************)
(* The in-memory WriteOperationExecutor and the API routes in front of it. *)
(*                                                                         *)
(* The server is one asyncio event loop: a handler runs without            *)
(* interruption until it awaits something that suspends.  Of all the       *)
(* handlers only execute() does, while the connector talks to the external *)
(* system; so propose, approve and reject are one action each, checks of   *)
(* the route included, and execute is a start, a suspension (the request   *)
(* holds the operation) and an end.                                        *)
(***************************************************************************)
EXTENDS OperationData

CONSTANTS
  Requests,     \* execute requests the server may be serving at a time
  Idle          \* a request slot that is not suspended in execute()

ASSUME IdleAssumption == Idle \notin Ops

VARIABLES
  info,         \* what a proposal fixes: proposer, connector, risk, MFA
  status,       \* operation.status
  approved_by,  \* the reviewer, of an approval and of a rejection alike
  audit_trail,  \* operation.audit_trail
  requests,     \* the operation each suspended execute() is waiting for
  calls,        \* history: connector calls made for each operation
  interrupted   \* history: operations whose execute() was cancelled

vars == <<info, status, approved_by, audit_trail, requests, calls, interrupted>>

-----------------------------------------------------------------------------
Tenant(o) == TenantOf[info[o].user]

(* add_audit_entry on one operation *)
Record(o, event, actor, mfa) ==
  audit_trail' = [audit_trail EXCEPT ![o] = Append(@, LogEntry(event, actor, mfa))]

-----------------------------------------------------------------------------
Init ==
  /\ info = [o \in Ops |-> NoInfo]
  /\ status = [o \in Ops |-> "absent"]
  /\ approved_by = [o \in Ops |-> NoUser]
  /\ audit_trail = [o \in Ops |-> <<>>]
  /\ requests = [r \in Requests |-> Idle]
  /\ calls = [o \in Ops |-> 0]
  /\ interrupted = {}

(* propose(): a low-risk operation is approved in the name of its proposer. *)
Propose(u, o, connector, risk) ==
  /\ u \in Operators
  /\ status[o] = "absent"
  /\ \E mfa \in MfaOfProposal(risk) :
       info' = [info EXCEPT ![o] = [user |-> u, connector |-> connector, risk |-> risk,
                                    requires_mfa |-> mfa]]
  /\ IF risk = "low"
     THEN /\ status' = [status EXCEPT ![o] = "approved"]
          /\ approved_by' = [approved_by EXCEPT ![o] = u]
          /\ audit_trail' = [audit_trail EXCEPT ![o] =
               @ \o <<LogEntry("proposed", u, FALSE), LogEntry("auto_approved", u, FALSE)>>]
     ELSE /\ status' = [status EXCEPT ![o] = "pending_approval"]
          /\ Record(o, "proposed", u, FALSE)
          /\ UNCHANGED approved_by
  /\ UNCHANGED <<requests, calls, interrupted>>

(* Mutant of Visible: the routes forget the tenant. *)
VisibleToEveryTenant(u, o) == u \in Operators /\ status[o] # "absent"

(* What every route checks before it touches an operation. *)
Visible(u, o) == /\ u \in Operators
                 /\ status[o] # "absent"
                 /\ Tenant(o) = TenantOf[u]

(* Mutant of Approve: the verification of the code is recorded, not required. *)
ApproveUnverified(u, o, code) ==
  /\ Visible(u, o)
  /\ status[o] = "pending_approval"
  /\ status' = [status EXCEPT ![o] = "approved"]
  /\ approved_by' = [approved_by EXCEPT ![o] = u]
  /\ Record(o, "approved", u, VerifyMfa(u, code))
  /\ UNCHANGED <<info, requests, calls, interrupted>>

Approve(u, o, code) ==
  /\ Visible(u, o)
  /\ status[o] = "pending_approval"
  /\ info[o].requires_mfa => VerifyMfa(u, code)
  /\ status' = [status EXCEPT ![o] = "approved"]
  /\ approved_by' = [approved_by EXCEPT ![o] = u]
  /\ Record(o, "approved", u, VerifyMfa(u, code))
  /\ UNCHANGED <<info, requests, calls, interrupted>>

(* Mutant of Reject: the status is not looked at. *)
RejectAnyTime(u, o) ==
  /\ Visible(u, o)
  /\ status' = [status EXCEPT ![o] = "rejected"]
  /\ approved_by' = [approved_by EXCEPT ![o] = u]
  /\ Record(o, "rejected", u, FALSE)
  /\ UNCHANGED <<info, requests, calls, interrupted>>

(* Mutant of Reject: the entry is written before the reviewer is known. *)
RejectLogsReviewerEarly(u, o) ==
  /\ Visible(u, o)
  /\ status[o] = "pending_approval"
  /\ status' = [status EXCEPT ![o] = "rejected"]
  /\ Record(o, "rejected", approved_by[o], FALSE)
  /\ approved_by' = [approved_by EXCEPT ![o] = u]
  /\ UNCHANGED <<info, requests, calls, interrupted>>

Reject(u, o) ==
  /\ Visible(u, o)
  /\ status[o] = "pending_approval"
  /\ status' = [status EXCEPT ![o] = "rejected"]
  /\ approved_by' = [approved_by EXCEPT ![o] = u]
  /\ Record(o, "rejected", u, FALSE)
  /\ UNCHANGED <<info, requests, calls, interrupted>>

(* Mutant of StartExecute: an operation that is executing may be executed. *)
StartExecuteAgain(r, u, o) ==
  /\ requests[r] = Idle
  /\ Visible(u, o)
  /\ status[o] \in {"approved", "executing"}
  /\ info[o].connector \in Registered
  /\ status' = [status EXCEPT ![o] = "executing"]
  /\ Record(o, "execution_started", info[o].user, FALSE)
  /\ requests' = [requests EXCEPT ![r] = o]
  /\ calls' = [calls EXCEPT ![o] = @ + 1]
  /\ UNCHANGED <<info, approved_by, interrupted>>

(* execute() up to the await of the connector.  The entries it writes name *)
(* the proposer, whoever sent the request.                                 *)
StartExecute(r, u, o) ==
  /\ requests[r] = Idle
  /\ Visible(u, o)
  /\ status[o] = "approved"
  /\ info[o].connector \in Registered
  /\ status' = [status EXCEPT ![o] = "executing"]
  /\ Record(o, "execution_started", info[o].user, FALSE)
  /\ requests' = [requests EXCEPT ![r] = o]
  /\ calls' = [calls EXCEPT ![o] = @ + 1]
  /\ UNCHANGED <<info, approved_by, interrupted>>

(* Without a registered connector execute() never suspends: it fails the   *)
(* operation in the same step.                                             *)
ExecuteUnroutable(u, o) ==
  /\ Visible(u, o)
  /\ status[o] = "approved"
  /\ info[o].connector \notin Registered
  /\ status' = [status EXCEPT ![o] = "failed"]
  /\ audit_trail' = [audit_trail EXCEPT ![o] =
       @ \o <<LogEntry("execution_started", info[o].user, FALSE),
              LogEntry("execution_failed", info[o].user, FALSE)>>]
  /\ UNCHANGED <<info, approved_by, requests, calls, interrupted>>

(* Mutant of FinishExecute: only a success is logged. *)
FinishLogsSuccess(r, success) ==
  /\ requests[r] # Idle
  /\ LET o == requests[r] IN
       /\ status' = [status EXCEPT ![o] = IF success THEN "completed" ELSE "failed"]
       /\ IF success THEN Record(o, "execution_completed", info[o].user, FALSE)
                     ELSE UNCHANGED audit_trail
  /\ requests' = [requests EXCEPT ![r] = Idle]
  /\ UNCHANGED <<info, approved_by, calls, interrupted>>

(* Mutant of FinishExecute: an exception ends the request, not the operation. *)
FinishLosesFailure(r, success) ==
  /\ requests[r] # Idle
  /\ IF success
     THEN /\ status' = [status EXCEPT ![requests[r]] = "completed"]
          /\ Record(requests[r], "execution_completed", info[requests[r]].user, FALSE)
     ELSE UNCHANGED <<status, audit_trail>>
  /\ requests' = [requests EXCEPT ![r] = Idle]
  /\ UNCHANGED <<info, approved_by, calls, interrupted>>

(* The connector answered, or raised an exception that became an error     *)
(* result: the operation is looked at no further before it is overwritten. *)
FinishExecute(r, success) ==
  /\ requests[r] # Idle
  /\ LET o == requests[r] IN
       /\ status' = [status EXCEPT ![o] = IF success THEN "completed" ELSE "failed"]
       /\ Record(o, IF success THEN "execution_completed" ELSE "execution_failed",
                 info[o].user, FALSE)
  /\ requests' = [requests EXCEPT ![r] = Idle]
  /\ UNCHANGED <<info, approved_by, calls, interrupted>>

(* The task that awaits the connector is cancelled.  CancelledError is not *)
(* an Exception, so nothing after the await runs.                          *)
CancelRequest(r) ==
  /\ requests[r] # Idle
  /\ requests' = [requests EXCEPT ![r] = Idle]
  /\ interrupted' = interrupted \cup {requests[r]}
  /\ UNCHANGED <<info, status, approved_by, audit_trail, calls>>

Next ==
  \/ \E u \in Users, o \in Ops :
       \/ \E c \in Connectors, risk \in RiskLevels : Propose(u, o, c, risk)
       \/ \E code \in Codes : Approve(u, o, code)
       \/ Reject(u, o)
       \/ \E r \in Requests : StartExecute(r, u, o)
       \/ ExecuteUnroutable(u, o)
  \/ \E r \in Requests : CancelRequest(r) \/ \E success \in BOOLEAN : FinishExecute(r, success)

Spec == Init /\ [][Next]_vars

-----------------------------------------------------------------------------
(* Every variable holds values of the shape the code gives it. *)
TypeOK ==
  /\ info \in [Ops -> Info \cup {NoInfo}]
  /\ status \in [Ops -> Statuses]
  /\ approved_by \in [Ops -> Users \cup {NoUser}]
  /\ audit_trail \in [Ops -> Seq(Entry)]
  /\ requests \in [Requests -> Ops \cup {Idle}]
  /\ calls \in [Ops -> Nat]
  /\ interrupted \subseteq Ops

(* Somebody entitled to has approved the operation: its own proposer when  *)
(* the risk is low, otherwise an operator of the same tenant, on record in *)
(* the audit trail, with a verified MFA code when the operation asks one.  *)
Authorised(o) ==
  \/ /\ info[o].risk = "low"
     /\ approved_by[o] = info[o].user
  \/ /\ approved_by[o] \in Operators
     /\ \E i \in DOMAIN audit_trail[o] :
          /\ audit_trail[o][i].event = "approved"
          /\ audit_trail[o][i].actor = approved_by[o]
          /\ info[o].requires_mfa => audit_trail[o][i].mfa

(* Human in the loop: no connector has ever been called for an operation   *)
(* that was not authorised, whatever happened to it since.                 *)
HumanInTheLoop == \A o \in Ops : calls[o] > 0 => Authorised(o)

(* However many execute requests race, the external system is written to   *)
(* at most once per operation, and only by one that went on to run.        *)
AtMostOneCall ==
  \A o \in Ops : calls[o] > 0 => calls[o] = 1 /\ status[o] \in {"executing", "completed", "failed"}

(* A reviewer, of an approval or a rejection, belongs to the tenant of the *)
(* operation and is an operator (tenant isolation of the routes).          *)
ReviewedWithinTenant ==
  \A o \in Ops : approved_by[o] # NoUser =>
    /\ approved_by[o] \in Operators
    /\ TenantOf[approved_by[o]] = Tenant(o)

(* The audit trail explains the status: an auditor who has only the last   *)
(* entry knows where the operation stands, at every moment.                *)
TrailExplainsStatus ==
  \A o \in Ops :
    IF audit_trail[o] = <<>> THEN status[o] = "absent"
    ELSE status[o] = StatusAfter(audit_trail[o][Len(audit_trail[o])].event)

(* An operation that executes is held by exactly one suspended request, or *)
(* its request was cancelled.                                              *)
ExecutingIsHeld ==
  /\ \A o \in Ops : status[o] = "executing" =>
       o \in interrupted \/ \E r \in Requests : requests[r] = o
  /\ \A r1, r2 \in Requests : requests[r1] = requests[r2] /\ requests[r1] # Idle => r1 = r2

(* Once rejected, completed or failed, an operation is history: neither    *)
(* status, reviewer nor audit trail ever changes again.                    *)
TerminalIsFinal ==
  [][\A o \in Ops : status[o] \in Terminal =>
       /\ status'[o] = status[o]
       /\ approved_by'[o] = approved_by[o]
       /\ audit_trail'[o] = audit_trail[o]]_vars

(* An execution that starts is reported, success or failure, unless the    *)
(* request that awaits it is cancelled.                                    *)
ExecutionEnds ==
  \A o \in Ops : status[o] = "executing" ~> (status[o] \in {"completed", "failed"} \/ o \in interrupted)

(* The executor keeps the abstract life of an operation. *)
Lifecycle == INSTANCE OperationLifecycle
               WITH phase <- [o \in Ops |-> Phase(status[o])], writes <- calls

(* The executor implements the promised life cycle, step by step. *)
ImplementsLifecycle == Lifecycle!LifecycleSpec
=============================================================================
