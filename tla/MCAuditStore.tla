----------------------------- MODULE MCAuditStore ------------------------------
(* AuditStore on a small instance. *)
EXTENDS AuditStore, TLC

Symmetry == Permutations(Session)
================================================================================
