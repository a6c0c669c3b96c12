------------------------------ MODULE MCIntegrity ------------------------------
(* Integrity on a small instance. *)
EXTENDS Integrity
================================================================================
