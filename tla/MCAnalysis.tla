------------------------------- MODULE MCAnalysis ------------------------------
(* Analysis on a small instance. *)
EXTENDS Analysis
================================================================================
