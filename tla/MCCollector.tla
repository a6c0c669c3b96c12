------------------------------ MODULE MCCollector ------------------------------
(* Collector on a small instance. *)
EXTENDS Collector, TLC

CONSTANTS s1, s2

\* One session with two kinds of events, one that only begins, and an event
\* outside every session.
MCEvent ==
  { [kind |-> "SessionInit", sid |-> s1], [kind |-> "KeystrokeInput", sid |-> s1],
    [kind |-> "SessionInit", sid |-> s2], [kind |-> "ProcessExec", sid |-> NoSession] }

Symmetry == Permutations(RequestId)
================================================================================
