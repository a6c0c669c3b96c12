------------------------------- MODULE HashChain -------------------------------
(***************************************************************************)
(* The hash chain of argus-common/src/hash_chain.rs.                       *)
(*                                                                         *)
(* SHA-256 is idealised as collision free.  A digest then stands for the   *)
(* only data it can come from, so it is modelled by that data: the list of *)
(* <<seq, event>> pairs it commits to, the genesis hash by the empty list. *)
(* The three inputs of the digest are concatenated in the code, but seq is *)
(* 8 bytes and prev_hash 64 hexadecimal digits, so the concatenation can   *)
(* be split in one way only, as Append can.                                *)
(***************************************************************************)
EXTENDS Naturals, Sequences

CONSTANT Event              \* the values of AuditEvent, with their JSON text

Digest == Seq(Nat \X Event)

GENESIS_HASH == << >>

compute_event_hash(seq, prev_hash, event) == Append(prev_hash, <<seq, event>>)

ChainedAuditEvent ==
  [seq : Nat, prev_hash : Digest, hash : Digest, event : Event]

\* ChainedAuditEvent::new
NewChainedEvent(seq, prev_hash, event) ==
  [ seq       |-> seq,
    prev_hash |-> prev_hash,
    hash      |-> compute_event_hash(seq, prev_hash, event),
    event     |-> event ]

verify_hash(item) ==
  item.hash = compute_event_hash(item.seq, item.prev_hash, item.event)

\* The hash the code expects in prev_hash at index i: the first item is
\* compared with itself, every other one with the item before it.
ExpectedPrevHash(chain, i) ==
  IF i = 1 THEN chain[1].prev_hash ELSE chain[i - 1].hash

\* verify_event_chain that trusts the stored hashes: only the links are compared.
VerifyLinksOnly(chain) ==
  \A i \in 2..Len(chain) :
    /\ chain[i].seq = chain[i - 1].seq + 1
    /\ chain[i].prev_hash = chain[i - 1].hash

\* Ok(()) of verify_event_chain; FALSE is any of its three bail! exits.
verify_event_chain(chain) ==
  \A i \in 1..Len(chain) :
    /\ i > 1 => chain[i].seq = chain[i - 1].seq + 1
    /\ chain[i].prev_hash = ExpectedPrevHash(chain, i)
    /\ verify_hash(chain[i])
================================================================================
