---------------------------- MODULE ToolApproval ----------------------------
(***************************************************************************)
(* The ToolApprovalWorkflow: requests for tool calls that a human reviews  *)
(* while the agents that asked for them poll the request object.           *)
(***************************************************************************)
EXTENDS Naturals

CONSTANTS
  Approvals,     \* identifiers of requests
  Waiters,       \* coroutines in wait_for_approval()
  ApprovalTenants,
  LongestWait,   \* the timeouts are 1 .. LongestWait ticks
  ClearAfter,    \* older_than_seconds of clear_completed()
  LastTick,      \* bound: the clock stops there, and requests stop coming in time to expire
  NoApproval, Nobody

ASSUME ApprovalAssumption ==
  /\ LongestWait \in Nat \ {0} /\ ClearAfter \in Nat /\ LastTick \in Nat
  /\ NoApproval \notin Approvals

VARIABLES
  clock,
  approval,  \* the ApprovalRequest objects
  listed,    \* the keys of _requests
  waiting,   \* the object each waiter polls
  answers    \* history: the responses waiters got

approvalVars == <<clock, approval, listed, waiting, answers>>

Unrequested == [status |-> "none"]

ApprovalInit ==
  /\ clock = 0
  /\ approval = [a \in Approvals |-> Unrequested]
  /\ listed = {}
  /\ waiting = [w \in Waiters |-> NoApproval]
  /\ answers = {}

(* request_approval(): low risk is approved at once. *)
RequestApproval(a) ==
  /\ approval[a] = Unrequested
  /\ clock + LongestWait < LastTick
  /\ \E t \in ApprovalTenants, timeout \in 1 .. LongestWait, risk \in {"low", "high"} :
       approval' = [approval EXCEPT ![a] =
         [status |-> IF risk = "low" THEN "approved" ELSE "pending",
          tenant |-> t, created |-> clock, timeout |-> timeout, risk |-> risk, reviewer |-> Nobody]]
  /\ listed' = listed \cup {a}
  /\ UNCHANGED <<clock, waiting, answers>>

IsExpired(a) == clock > approval[a].created + approval[a].timeout

Answer(a, status) == answers' = answers \cup {[approval |-> a, status |-> status]}

(* wait_for_approval(): the look-up.  A request that is gone is denied. *)
StartWait(w, a) ==
  /\ waiting[w] = NoApproval
  /\ approval[a] # Unrequested
  /\ IF a \in listed
     THEN waiting' = [waiting EXCEPT ![w] = a] /\ UNCHANGED answers
     ELSE Answer(a, "not found") /\ UNCHANGED waiting
  /\ UNCHANGED <<clock, approval, listed>>

(* Mutant of Poll: a timeout is answered, not written down. *)
PollForgetting(w) ==
  LET a == waiting[w] IN
  /\ a # NoApproval
  /\ IF approval[a].status = "pending"
     THEN IsExpired(a) /\ Answer(a, "timeout")
     ELSE Answer(a, approval[a].status)
  /\ waiting' = [waiting EXCEPT ![w] = NoApproval]
  /\ UNCHANGED <<clock, approval, listed>>

(* One round of the polling loop that ends it: the request was decided, or *)
(* has expired.                                                            *)
Poll(w) ==
  LET a == waiting[w] IN
  /\ a # NoApproval
  /\ IF approval[a].status = "pending"
     THEN /\ IsExpired(a)
          /\ approval' = [approval EXCEPT ![a].status = "timeout"]
          /\ Answer(a, "timeout")
     ELSE Answer(a, approval[a].status) /\ UNCHANGED approval
  /\ waiting' = [waiting EXCEPT ![w] = NoApproval]
  /\ UNCHANGED <<clock, listed>>

(* approve() and deny(), by a reviewer of tenant t: the expiry is not       *)
(* looked at.                                                               *)
Review(a, t, status) ==
  /\ a \in listed
  /\ approval[a].tenant = t
  /\ approval[a].status = "pending"
  /\ approval' = [approval EXCEPT ![a].status = status, ![a].reviewer = t]
  /\ UNCHANGED <<clock, listed, waiting, answers>>

(* clear_completed() *)
ClearCompleted ==
  LET old == {a \in listed : approval[a].status # "pending" /\ clock > approval[a].created + ClearAfter}
  IN
  /\ old # {}
  /\ listed' = listed \ old
  /\ UNCHANGED <<clock, approval, waiting, answers>>

ApprovalTick ==
  /\ clock < LastTick
  /\ clock' = clock + 1
  /\ UNCHANGED <<approval, listed, waiting, answers>>

ApprovalNext ==
  \/ \E a \in Approvals :
       \/ RequestApproval(a)
       \/ \E w \in Waiters : StartWait(w, a)
       \/ \E t \in ApprovalTenants, status \in {"approved", "denied"} : Review(a, t, status)
  \/ \E w \in Waiters : Poll(w)
  \/ ClearCompleted
  \/ ApprovalTick

ApprovalSpec == ApprovalInit /\ [][ApprovalNext]_approvalVars

-----------------------------------------------------------------------------
(* Every waiter gets the one decision of its request: nobody who polls is  *)
(* told something else, whatever is decided, expires or is cleared between *)
(* two polls.  Only a waiter that comes after the clearing is told         *)
(* otherwise.                                                              *)
AnswersAgree ==
  \A r \in answers : r.status \in {approval[r.approval].status, "not found"}

(* What is not low risk is approved by its own tenant; what is pending is  *)
(* never out of its reviewers' sight.                                      *)
ReviewersDecide ==
  \A a \in Approvals : approval[a] # Unrequested =>
    /\ approval[a].status = "approved" /\ approval[a].risk # "low" => approval[a].reviewer = approval[a].tenant
    /\ approval[a].status = "pending" => a \in listed

ApprovalsAreConsistent == AnswersAgree /\ ReviewersDecide

(* Whoever polls is answered: if nobody reviews it, the request expires. *)
WaitersAreAnswered == \A w \in Waiters : waiting[w] # NoApproval ~> waiting[w] = NoApproval
=============================================================================
