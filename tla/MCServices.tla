----------------------------- MODULE MCServices -----------------------------
(* A small instance of the services. *)
EXTENDS Services, TLC

CONSTANTS gen, doc, maint

(* Three agents, as in agent/specialists/: the maintenance specialist is   *)
(* not for every role, and one capability has no agent.                    *)
MCProvides == [summary |-> doc, work_order |-> maint, general |-> NoAgent]
MCRequiredLevel == (gen :> 0) @@ (doc :> 0) @@ (maint :> 1)
=============================================================================
