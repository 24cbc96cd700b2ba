----------------------------- MODULE Escalation -----------------------------
(***************************************************************************)
(* The EscalationService next to the executor it monitors: it ages the     *)
(* pending operations, moves them up the escalation chain and denies the   *)
(* ones the chain has been exhausted for.                                  *)
(*                                                                         *)
(* check_timeouts() awaits only coroutines that never suspend, so a sweep  *)
(* over all pending operations is one step of the event loop.              *)
(***************************************************************************)
EXTENDS WriteOperations, FiniteSets

CONSTANTS
  Timeout,      \* policy.timeout_minutes, in clock ticks
  ChainLength,  \* len(policy.escalation_chain)
  AgeBound      \* ages above it are not told apart

ASSUME PolicyAssumption ==
  /\ Timeout \in Nat \ {0} /\ ChainLength \in Nat \ {0}
  /\ AgeBound \in Nat /\ AgeBound >= Timeout

VARIABLES
  age,              \* time since proposed_at, kept while the operation is pending
  escalation_state  \* _escalation_state; 0 for an operation without an entry

evars == <<info, status, approved_by, audit_trail, requests, calls, interrupted,
           age, escalation_state>>

EscalationInit ==
  /\ Init
  /\ age = [o \in Ops |-> 0]
  /\ escalation_state = [o \in Ops |-> 0]

(* Mutant of Pending: the sweep looks at everything that is not over. *)
Unfinished == {o \in Ops : status[o] \notin Terminal \cup {"absent"}}

(* Mutant of Pending: an operation is escalated once and then forgotten. *)
NeverEscalated == {o \in Ops : status[o] = "pending_approval" /\ escalation_state[o] = 0}

(* get_pending_operations(), in every tenant. *)
Pending == {o \in Ops : status[o] = "pending_approval"}

Tick ==
  /\ \E o \in Pending : age[o] < AgeBound
  /\ age' = [o \in Ops |-> IF o \in Pending /\ age[o] < AgeBound THEN age[o] + 1 ELSE age[o]]
  /\ UNCHANGED <<vars, escalation_state>>

(* Mutant of CanEscalate: off by one at the end of the chain. *)
CanEscalateBeyond(o) == escalation_state[o] < ChainLength

(* Somebody is left on the chain. *)
CanEscalate(o) == escalation_state[o] < ChainLength - 1

(* escalate() and auto_deny() log in the name of the proposer; auto_deny() *)
(* leaves approved_by alone and forgets the escalation level.              *)
CheckTimeouts ==
  LET due == {o \in Pending : age[o] >= Timeout}
      up == {o \in due : CanEscalate(o)}
      denied == due \ up
  IN
  /\ due # {}
  /\ escalation_state' = [o \in Ops |-> IF o \in up THEN escalation_state[o] + 1
                                        ELSE IF o \in denied THEN 0 ELSE escalation_state[o]]
  /\ status' = [o \in Ops |-> IF o \in denied THEN "rejected" ELSE status[o]]
  /\ audit_trail' = [o \in Ops |->
       IF o \in due
       THEN Append(audit_trail[o], LogEntry(IF o \in up THEN "escalated" ELSE "auto_denied",
                                            info[o].user, FALSE))
       ELSE audit_trail[o]]
  /\ UNCHANGED <<info, approved_by, requests, calls, interrupted, age>>

(* approve() and reject() do not tell the service about their decision. *)
ExecutorStep == Next /\ UNCHANGED <<age, escalation_state>>

EscalationNext == ExecutorStep \/ Tick \/ CheckTimeouts

EscalationSpec == EscalationInit /\ [][EscalationNext]_evars

FinishRequest(r) == (\E success \in BOOLEAN : FinishExecute(r, success)) /\ UNCHANGED <<age, escalation_state>>

(* Time passes, a background task calls check_timeouts() periodically, and *)
(* connectors give up after their HTTP timeout.                            *)
FairEscalationSpec ==
  /\ EscalationSpec
  /\ WF_evars(Tick) /\ WF_evars(CheckTimeouts)
  /\ \A r \in Requests : WF_evars(FinishRequest(r))

-----------------------------------------------------------------------------
EscalatedAt(trail) == {i \in DOMAIN trail : trail[i].event = "escalated"}

Escalations(o) == Cardinality(EscalatedAt(audit_trail[o]))

EscalationTypeOK ==
  /\ age \in [Ops -> 0 .. AgeBound]
  /\ escalation_state \in [Ops -> 0 .. ChainLength - 1]

(* The service denies an operation only after everyone on the chain has    *)
(* had it, and the level it remembers for a pending operation is the       *)
(* number of escalations on record.                                        *)
DenialExhaustsChain ==
  \A o \in Ops :
    /\ status[o] = "pending_approval" => escalation_state[o] = Escalations(o)
    /\ status[o] = "rejected" /\ approved_by[o] = NoUser => Escalations(o) = ChainLength - 1

(* Whoever reviews, and whenever the sweeps come, the levels are those the *)
(* audit trail records, and nobody is denied before the chain is at its    *)
(* end.                                                                    *)
EscalationFollowsChain == EscalationTypeOK /\ DenialExhaustsChain

(* A sweep never overrules a reviewer: an operation somebody has approved  *)
(* or rejected is neither denied nor escalated afterwards.                 *)
SweepRespectsDecisions ==
  [][\A o \in Ops : status[o] # "pending_approval" =>
       Escalations(o)' = Escalations(o) /\ (status'[o] = "rejected" => status[o] = "rejected")]_evars

(* No proposal waits for ever: it is approved, rejected or denied. *)
EveryProposalIsDecided ==
  \A o \in Ops : status[o] = "pending_approval" ~> status[o] # "pending_approval"

(* The documented default policy: auto-deny at 60 minutes total, that is   *)
(* after twice the 30-minute timeout.                                      *)
DenyAfterSixtyMinutes ==
  \A o \in Ops : status[o] = "rejected" /\ approved_by[o] = NoUser => age[o] >= 2 * Timeout
=============================================================================
