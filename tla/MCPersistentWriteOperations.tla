-------------------- MODULE MCPersistentWriteOperations --------------------
(* Finite values for the constants of PersistentWriteOperations. *)
EXTENDS PersistentWriteOperations

(* One tenant: the routes that would keep tenants apart are not wired to   *)
(* this executor.                                                          *)
MCTenantOf == [u \in Users |-> "a"]
=============================================================================
