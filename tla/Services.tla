------------------------------ MODULE Services ------------------------------
(***************************************************************************)
(* Services that somebody waits for, checked together.  They share no      *)
(* state and no lock, so their interleavings with each other show nothing: *)
(* in a behaviour one of them runs, in all the interleavings of its own    *)
(* requests, sessions and coroutines, and the others rest.                 *)
(***************************************************************************)
EXTENDS TokenBudget, ToolApproval, AgentRouting, EdgePush,
        BackgroundWorker

VARIABLE service  \* the one that runs

servicesVars == <<service, budgetVars, approvalVars, routingVars, pushvars,
                  workerVars>>

ServicesInit ==
  /\ service \in {"budget", "approval", "routing", "push", "worker"}
  /\ BudgetInit
  /\ ApprovalInit
  /\ RoutingInit
  /\ PushInit
  /\ WorkerInit

OthersRest ==
  /\ UNCHANGED service
  /\ IF service = "budget" THEN TRUE ELSE UNCHANGED budgetVars
  /\ IF service = "approval" THEN TRUE ELSE UNCHANGED approvalVars
  /\ IF service = "routing" THEN TRUE ELSE UNCHANGED routingVars
  /\ IF service = "push" THEN TRUE ELSE UNCHANGED pushvars
  /\ IF service = "worker" THEN TRUE ELSE UNCHANGED workerVars

Step(name, Action) == service = name /\ Action /\ OthersRest

ServicesNext ==
  \/ Step("budget", BudgetNext)
  \/ Step("approval", ApprovalNext)
  \/ Step("routing", RoutingStep)
  \/ Step("push", PushNext)
  \/ Step("worker", WorkerNext)

ServicesSpec == ServicesInit /\ [][ServicesNext]_servicesVars

(* Row locks are queues, so a session that waits for one gets it (strong   *)
(* fairness); clocks run on, polls come back, the coroutine of a query is  *)
(* resumed, a push is called periodically, with a timeout; the server      *)
(* starts its worker pool, and the event loop resumes every worker whose   *)
(* wait is over.                                                           *)
FairServicesSpec ==
  /\ ServicesSpec
  /\ \A w \in Workers : SF_servicesVars(Step("budget", Settle(w)))
  /\ WF_servicesVars(Step("approval", ApprovalTick))
  /\ \A w \in Waiters : WF_servicesVars(Step("approval", Poll(w)))
  /\ WF_servicesVars(Step("routing", RoutingStep))
  /\ \A p \in Pushers : WF_servicesVars(Step("push", PushStep(p)))
  /\ WF_servicesVars(Step("worker", EndDrain))
  /\ WF_servicesVars(Step("worker", Start /\ ~shutdown_event))
  /\ \A w \in Slots : WF_servicesVars(Step("worker", WorkerStep(w)))

-----------------------------------------------------------------------------
(* Whoever waits is answered: a budget check for the row lock of another   *)
(* request, an agent for a reviewer, a user for the agents; an entry that  *)
(* an edge node has queued is settled or given up; and a task submitted to *)
(* a worker pool that is not shut down settles, failures included.         *)
EveryWaitEnds ==
  BudgetRequestsEnd /\ WaitersAreAnswered /\ EveryQueryIsAnswered /\ EveryEntrySettles
  /\ EveryTaskSettles
=============================================================================
