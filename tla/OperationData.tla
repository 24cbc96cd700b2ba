--------------------------- MODULE OperationData ---------------------------
(***************************************************************************)
(* The data of the write framework that both executors share: the          *)
(* WriteOperation with its enumerations, what construction derives from    *)
(* the risk level, the audit entries, and the verification of MFA codes.   *)
(***************************************************************************)
EXTENDS Naturals, Sequences

CONSTANTS
  Ops,          \* identifiers propose() hands out (fresh UUIDs)
  Users,
  Tenants,
  TenantOf,     \* tenant of each authenticated user
  Operators,    \* users whose role passes require_role(OPERATOR)
  Connectors,   \* connector names a proposal may carry
  Registered,   \* the ones the connector registry can build
  MfaEnabled,   \* settings.mfa_enabled
  CanVerify,    \* users with a usable TOTP secret or the static fallback code
  NoUser,       \* Python's None in approved_by
  NoInfo        \* an identifier not handed out yet

ASSUME ConstantsAssumption ==
  /\ TenantOf \in [Users -> Tenants]
  /\ Operators \subseteq Users
  /\ Registered \subseteq Connectors
  /\ MfaEnabled \in BOOLEAN
  /\ CanVerify \subseteq Users
  /\ NoUser \notin Users

-----------------------------------------------------------------------------
RiskLevels == {"low", "medium", "high", "critical"}

Statuses == {"absent", "pending_approval", "approved", "rejected",
             "executing", "completed", "failed"}

Terminal == {"rejected", "completed", "failed"}

Events == {"proposed", "auto_approved", "approved", "rejected", "escalated",
           "auto_denied", "execution_started", "execution_completed",
           "execution_failed"}

Entry == [event : Events, actor : Users, mfa : BOOLEAN]

Info == [user : Users, connector : Connectors, risk : RiskLevels, requires_mfa : BOOLEAN]

(* What __post_init__ derives from the risk level. *)
MfaByRisk(risk) == risk = "critical"

(* The SAP and MES writers raise requires_mfa after construction; they     *)
(* propose medium and high risk only.                                      *)
MfaOfProposal(risk) == {MfaByRisk(risk)} \cup (IF risk \in {"medium", "high"} THEN {TRUE} ELSE {})

(* The outcomes of a code, which is missing, wrong or right: with MFA      *)
(* switched off any code that is present passes.                           *)
Codes == {"missing", "wrong", "right"}

VerifyMfa(u, code) == IF MfaEnabled THEN code = "right" /\ u \in CanVerify
                                    ELSE code # "missing"

LogEntry(event, actor, mfa) == [event |-> event, actor |-> actor, mfa |-> mfa]

(* The status an audit entry leaves its operation in. *)
StatusAfter(event) ==
  CASE event \in {"proposed", "escalated"} -> "pending_approval"
    [] event \in {"auto_approved", "approved"} -> "approved"
    [] event \in {"rejected", "auto_denied"} -> "rejected"
    [] event = "execution_started" -> "executing"
    [] event = "execution_completed" -> "completed"
    [] event = "execution_failed" -> "failed"

(* A status as a phase of the abstract life cycle. *)
Phase(s) == CASE s = "pending_approval" -> "pending"
              [] s \in {"completed", "failed"} -> "finished"
              [] OTHER -> s
=============================================================================
