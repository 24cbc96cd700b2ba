---------------------------- MODULE MCEscalation ----------------------------
(* Finite values for the constants of Escalation. *)
EXTENDS Escalation

CONSTANTS ann, ben, cleo, o1, o2

(* ann is an operator of tenant "a" and can verify a code, ben is a viewer *)
(* of that tenant, cleo the operator of tenant "b".                        *)
MCUsers == {ann, ben, cleo}
MCTenantOf == [u \in MCUsers |-> IF u = cleo THEN "b" ELSE "a"]
MCOps == {o1, o2}
=============================================================================
