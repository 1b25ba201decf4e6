---------------------------- MODULE MCTenantAdmin ----------------------------
(* Constants of the TLC run of TenantAdmin. *)
EXTENDS TenantAdmin, TLC

Interchangeable == Permutations(Requests)
=============================================================================
