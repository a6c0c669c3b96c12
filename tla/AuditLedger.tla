----------------------------- MODULE AuditLedger -------------------------------
(***************************************************************************)
(* What the audit store promises: for every stream a list of records that  *)
(* only grows, and grows by whole batches.  All records of a batch become  *)
(* visible in one step, each at the end of its own stream and in the order *)
(* of the batch; a batch that cannot be stored leaves no trace.            *)
(***************************************************************************)
EXTENDS Naturals, Sequences, SequencesExt, Subsequences

CONSTANTS
  Record,           \* what is stored
  Stream,           \* the lists it is stored in
  StreamOf(_),      \* the stream of a record
  MaxBatch          \* bound: records in one batch

VARIABLES
  ledger,           \* the records of each stream
  call              \* the batch the store has been asked to append, if any

Init ==
  /\ ledger = [s \in Stream |-> << >>]
  /\ call = << >>

Ask(b) ==
  /\ call = << >>
  /\ call' = b
  /\ UNCHANGED ledger

OfStream(s) == {r \in Record : StreamOf(r) = s}

AppendBatch ==
  /\ call # << >>
  /\ ledger' = [s \in Stream |-> ledger[s] \o Filter(call, OfStream(s))]
  /\ call' = << >>

Refuse ==
  /\ call' = << >>
  /\ UNCHANGED ledger

Next ==
  \/ \E b \in BoundedSeq(Record, MaxBatch) : Ask(b)
  \/ AppendBatch
  \/ Refuse

Spec == Init /\ [][Next]_<<ledger, call>>
================================================================================
