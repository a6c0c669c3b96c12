------------------------------- MODULE Integrity -------------------------------
(***************************************************************************)
(* What verify_event_chain (hash_chain.rs) can tell about the rows of one  *)
(* session when the database file is damaged: a field of a row altered,    *)
(* rows exchanged, rows lost, as by a manual edit or a partial restore.    *)
(* The collector goes on inserting after the row it finds last.            *)
(***************************************************************************)
EXTENDS HashChain, SequencesExt

CONSTANTS
  MaxRows,          \* bound: rows inserted
  MaxDamage         \* bound: damages

ASSUME IntegrityAssumption == MaxRows \in Nat /\ MaxDamage \in Nat

VARIABLES
  rows,      \* the rows of the session in the events table, in id order
  written,   \* history: every row insert_batch wrote
  damage     \* damages so far

tableVars == <<rows, written, damage>>

TableInit ==
  /\ rows = << >>
  /\ written = << >>
  /\ damage = 0

\* SELECT seq, hash ... ORDER BY id DESC LIMIT 1 and the row built on it.
NextRow(e) ==
  IF rows = << >>
  THEN NewChainedEvent(1, GENESIS_HASH, e)
  ELSE NewChainedEvent(Last(rows).seq + 1, Last(rows).hash, e)

Insert(e) ==
  /\ Len(written) < MaxRows
  /\ rows' = Append(rows, NextRow(e))
  /\ written' = Append(written, NextRow(e))
  /\ UNCHANGED damage

Damaged(newRows) ==
  /\ damage < MaxDamage
  /\ rows' = newRows
  /\ damage' = damage + 1
  /\ UNCHANGED written

AlterEvent(i, e) == Damaged([rows EXCEPT ![i].event = e])

AlterSeq(i, n) == Damaged([rows EXCEPT ![i].seq = n])

\* A hash column gets the value of another row.
AlterHash(i, j) ==
  \/ Damaged([rows EXCEPT ![i].hash = rows[j].hash])
  \/ Damaged([rows EXCEPT ![i].prev_hash = rows[j].hash])

ExchangeRows(i, j) == Damaged([rows EXCEPT ![i] = rows[j], ![j] = rows[i]])

LoseRow(i) == Damaged(RemoveAt(rows, i))

Damage ==
  \E i \in DOMAIN rows :
    \/ \E e \in Event : AlterEvent(i, e)
    \/ \E n \in 1..MaxRows : AlterSeq(i, n)
    \/ \E j \in DOMAIN rows : AlterHash(i, j) \/ ExchangeRows(i, j)
    \/ LoseRow(i)

TableNext == (\E e \in Event : Insert(e)) \/ Damage

TableSpec == TableInit /\ [][TableNext]_tableVars
--------------------------------------------------------------------------------
(* Properties *)

Verified == verify_event_chain(rows)

Pairs == [i \in 1..Len(rows) |-> <<rows[i].seq, rows[i].event>>]

\* A session that verifies shows only rows the collector wrote, and the rows it
\* shows are those that stood there, in that order and without a gap, when the
\* last of them was written.
EditsAreDetected ==
  Verified =>
    /\ ToSet(rows) \subseteq ToSet(written)
    /\ rows # << >> => IsSuffix(Pairs, Last(rows).hash)

\* Verification shows that no sequence omissions have occurred
\* (docs/DEPLOYMENT.md:221): a session that verifies has all its rows.
OmissionsAreDetected ==
  Verified /\ rows # << >> => ToSet(written) \subseteq ToSet(rows)
================================================================================
