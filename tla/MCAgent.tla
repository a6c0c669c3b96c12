-------------------------------- MODULE MCAgent --------------------------------
(* Agent on a small instance, with and without a collector URL and a spool. *)
EXTENDS Agent
================================================================================
