--------------------------------- MODULE MCPty ---------------------------------
(* Pty on a small instance. *)
EXTENDS Pty
================================================================================
