------------------------------- MODULE MCWatcher -------------------------------
(* Watcher on a small instance. *)
EXTENDS Watcher
================================================================================
