------------------------- MODULE OperationLifecycle -------------------------
(***************************************************************************)
(* What the write framework promises to the owner of an external system:   *)
(* an operation is proposed, is decided once, and an approved one is       *)
(* handed to its connector at most once and ends.  A denial may settle     *)
(* several operations in one step, because the escalation service sweeps   *)
(* all of them in one pass.                                                *)
(***************************************************************************)
EXTENDS Naturals

CONSTANT Ops        \* the identifiers propose() hands out

VARIABLES phase,    \* where each operation is in its life
          writes    \* how often its connector has been called

lvars == <<phase, writes>>

Phases == {"absent", "pending", "approved", "rejected", "executing", "finished"}

LifecycleInit == /\ phase = [o \in Ops |-> "absent"]
                 /\ writes = [o \in Ops |-> 0]

(* A proposal waits for a reviewer, or is approved at once (low risk). *)
Submit(o) == /\ phase[o] = "absent"
             /\ \E p \in {"pending", "approved"} : phase' = [phase EXCEPT ![o] = p]
             /\ UNCHANGED writes

Accept(o) == /\ phase[o] = "pending"
             /\ phase' = [phase EXCEPT ![o] = "approved"]
             /\ UNCHANGED writes

Deny(S) == /\ S # {}
           /\ \A o \in S : phase[o] = "pending"
           /\ phase' = [o \in Ops |-> IF o \in S THEN "rejected" ELSE phase[o]]
           /\ UNCHANGED writes

(* The one step that reaches the external system. *)
Begin(o) == /\ phase[o] = "approved"
            /\ phase' = [phase EXCEPT ![o] = "executing"]
            /\ writes' = [writes EXCEPT ![o] = @ + 1]

(* An operation no connector serves fails without reaching anything. *)
FailUnserved(o) == /\ phase[o] = "approved"
                   /\ phase' = [phase EXCEPT ![o] = "finished"]
                   /\ UNCHANGED writes

End(o) == /\ phase[o] = "executing"
          /\ phase' = [phase EXCEPT ![o] = "finished"]
          /\ UNCHANGED writes

LifecycleNext ==
  \/ \E o \in Ops : Submit(o) \/ Accept(o) \/ Begin(o) \/ FailUnserved(o) \/ End(o)
  \/ \E S \in SUBSET Ops : Deny(S)

LifecycleSpec == LifecycleInit /\ [][LifecycleNext]_lvars
=============================================================================
