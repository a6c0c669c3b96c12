---------------------------- MODULE OperatorProofs -----------------------------
(***************************************************************************)
(* What an operator may conclude from a session as it is shown.            *)
(*                                                                         *)
(* The rows (Integrity).  Damage moves hashes between rows but makes none, *)
(* so that every hash in the table is one that insert_batch computed       *)
(* (Computed).  A row that verifies is then the row the hash was computed  *)
(* for, and the links leave no room between the rows.                      *)
(*                                                                         *)
(* What was typed (Analysis).  The bytes decoded so far are always a text  *)
(* and at most the first part of a character, the sanitizer goes through   *)
(* the text one character at a time, and so the line being edited and the  *)
(* lines entered are those of all that was typed (Reading), each begun     *)
(* when it says (Times).                                                   *)
(*                                                                         *)
(* The timeline.  An entry goes by a time between its beginning and its    *)
(* end (Spans), and the sort puts entries in the order of these times, so  *)
(* that one that was over before another began comes first.                *)
(*                                                                         *)
(* The tree.  A level shows the processes of the roots, and then those     *)
(* with an exec below the level before (LevelMembers).  If the recursion   *)
(* ends, the levels are the heights that no circle allows (EndsByHeights); *)
(* with heights, a level is lower than the one before, so that it ends     *)
(* (HeightsEnd).  When every pid has one parent a way down never comes     *)
(* back to a pid (WayShort), and how often a process is shown follows from *)
(* one level to the next.                                                  *)
(***************************************************************************)
EXTENDS Integrity, Analysis, SubsequenceProofs

TableTyped ==
  /\ rows \in Seq(ChainedAuditEvent)
  /\ written \in Seq(ChainedAuditEvent)

\* Every row that insert_batch wrote verified when it was written.
WrittenVerify == \A j \in 1..Len(written) : verify_hash(written[j])

Computed == \A i \in 1..Len(rows) : \E j \in 1..Len(written) : rows[i].hash = written[j].hash

TableIInv == TableTyped /\ WrittenVerify /\ Computed
--------------------------------------------------------------------------------
(* The hash chain: rows *)

\* NewChainedEvent makes a row that verifies.
LEMMA NewRowType ==
  ASSUME NEW seq \in Nat, NEW prev \in Digest, NEW e \in Event
  PROVE  /\ NewChainedEvent(seq, prev, e) \in ChainedAuditEvent
         /\ verify_hash(NewChainedEvent(seq, prev, e))
  <1>1. compute_event_hash(seq, prev, e) \in Digest
    BY AppendProperties DEF compute_event_hash, Digest
  <1> QED BY <1>1 DEF NewChainedEvent, ChainedAuditEvent, verify_hash

\* Two rows that verify and have the same hash are the same row.
LEMMA SameHash ==
  ASSUME NEW a \in ChainedAuditEvent, NEW b \in ChainedAuditEvent,
         verify_hash(a), verify_hash(b), a.hash = b.hash
  PROVE  a = b
  <1>1. /\ a.prev_hash \in Digest /\ a.seq \in Nat /\ a.event \in Event
        /\ b.prev_hash \in Digest /\ b.seq \in Nat /\ b.event \in Event
    BY DEF ChainedAuditEvent
  <1>2. <<a.seq, a.event>> \in Nat \X Event /\ <<b.seq, b.event>> \in Nat \X Event
    BY <1>1
  <1>3. Append(a.prev_hash, <<a.seq, a.event>>) = Append(b.prev_hash, <<b.seq, b.event>>)
    BY DEF verify_hash, compute_event_hash
  <1>4. a.prev_hash = b.prev_hash /\ <<a.seq, a.event>> = <<b.seq, b.event>>
    <2> DEFINE x == <<a.seq, a.event>>
               y == <<b.seq, b.event>>
               p == a.prev_hash
               q == b.prev_hash
    <2>1. p \in Seq(Nat \X Event) /\ q \in Seq(Nat \X Event) /\ x \in Nat \X Event /\ y \in Nat \X Event
      BY <1>1, <1>2 DEF Digest
    <2>2. Append(p, x) = Append(q, y)
      BY <1>3
    <2> HIDE DEF x, y, p, q
    <2>3. p = q /\ x = y
      BY <2>1, <2>2, AppendInjective, SMTT(60)
    <2> QED BY <2>3 DEF x, y, p, q
  <1>5. a.seq = b.seq /\ a.event = b.event
    BY <1>4
  <1> QED BY <1>4, <1>5 DEF ChainedAuditEvent
--------------------------------------------------------------------------------
(* The hash chain: the invariant *)

\* A table without rows shows nothing that was not written.
LEMMA TableInitIInv == TableInit => TableIInv
  <1> SUFFICES ASSUME TableInit PROVE TableIInv
    OBVIOUS
  <1>1. rows = << >> /\ written = << >>
    BY DEF TableInit
  <1> QED BY <1>1 DEF TableIInv, TableTyped, WrittenVerify, Computed

\* The row that Insert adds.
LEMMA NextRowType ==
  ASSUME TableTyped, NEW e \in Event
  PROVE  NextRow(e) \in ChainedAuditEvent /\ verify_hash(NextRow(e))
  <1>1. CASE rows = << >>
    <2>1. GENESIS_HASH \in Digest /\ 1 \in Nat
      BY DEF GENESIS_HASH, Digest
    <2> QED BY <1>1, <2>1, NewRowType DEF NextRow
  <1>2. CASE rows # << >>
    <2>1. rows \in Seq(ChainedAuditEvent)
      BY DEF TableTyped
    <2>2. Len(rows) \in 1..Len(rows)
      BY <1>2, <2>1, EmptySeq, LenProperties
    <2>3. Last(rows) \in ChainedAuditEvent
      BY <2>1, <2>2 DEF Last
    <2>4. Last(rows).seq + 1 \in Nat /\ Last(rows).hash \in Digest
      BY <2>3 DEF ChainedAuditEvent
    <2> QED BY <1>2, <2>4, NewRowType DEF NextRow
  <1> QED BY <1>1, <1>2

\* Damage that leaves rows, each with the hash of a row there was.
LEMMA DamagedKeeps ==
  ASSUME TableIInv, NEW newRows, Damaged(newRows), newRows \in Seq(ChainedAuditEvent),
         \A i \in 1..Len(newRows) : \E k \in 1..Len(rows) : newRows[i].hash = rows[k].hash
  PROVE  TableIInv'
  <1>1. rows' = newRows /\ written' = written
    BY DEF Damaged
  <1> QED BY <1>1 DEF TableIInv, TableTyped, WrittenVerify, Computed

\* A row replaced by one with the hash of some row.
LEMMA ReplacedKeeps ==
  ASSUME TableIInv, NEW i \in 1..Len(rows), NEW row \in ChainedAuditEvent,
         \E k \in 1..Len(rows) : row.hash = rows[k].hash,
         Damaged([rows EXCEPT ![i] = row])
  PROVE  TableIInv'
  <1> DEFINE newRows == [rows EXCEPT ![i] = row]
  <1>1. rows \in Seq(ChainedAuditEvent)
    BY DEF TableIInv, TableTyped
  <1>2. newRows \in Seq(ChainedAuditEvent) /\ Len(newRows) = Len(rows)
    BY <1>1, ExceptSeq
  <1>3. \A k \in 1..Len(rows) : newRows[k] = IF k = i THEN row ELSE rows[k]
    BY <1>1
  <1> HIDE DEF newRows
  <1>4. \A m \in 1..Len(newRows) : \E k \in 1..Len(rows) : newRows[m].hash = rows[k].hash
    BY <1>2, <1>3
  <1> QED BY <1>2, <1>4, DamagedKeeps DEF newRows

\* Every step preserves the invariant.
LEMMA TableStepIInv ==
  ASSUME TableIInv, [TableNext]_tableVars
  PROVE  TableIInv'
  <1>1. rows \in Seq(ChainedAuditEvent) /\ written \in Seq(ChainedAuditEvent) /\ TableTyped
    BY DEF TableIInv, TableTyped
  <1>2. Len(rows) \in Nat /\ Len(written) \in Nat
    BY <1>1, LenProperties
  <1>3. ASSUME NEW e \in Event, Insert(e)
        PROVE  TableIInv'
    <2> DEFINE row == NextRow(e)
    <2>1. row \in ChainedAuditEvent /\ verify_hash(row)
      BY <1>1, NextRowType
    <2>2. rows' = Append(rows, row) /\ written' = Append(written, row)
      BY <1>3 DEF Insert
    <2> HIDE DEF row
    <2>3. /\ rows' \in Seq(ChainedAuditEvent)
          /\ Len(rows') = Len(rows) + 1
          /\ \A i \in 1..Len(rows) : rows'[i] = rows[i]
          /\ rows'[Len(rows) + 1] = row
      BY <1>1, <2>1, <2>2, AppendProperties
    <2>4. /\ written' \in Seq(ChainedAuditEvent)
          /\ Len(written') = Len(written) + 1
          /\ \A i \in 1..Len(written) : written'[i] = written[i]
          /\ written'[Len(written) + 1] = row
      BY <1>1, <2>1, <2>2, AppendProperties
    <2>5. ASSUME NEW j \in 1..Len(written')
          PROVE  verify_hash(written'[j])
      <3>1. j = Len(written) + 1 \/ j \in 1..Len(written)
        BY <1>2, <2>4
      <3> QED BY <2>1, <2>4, <3>1 DEF TableIInv, WrittenVerify
    <2>6. ASSUME NEW i \in 1..Len(rows')
          PROVE  \E j \in 1..Len(written') : rows'[i].hash = written'[j].hash
      <3>1. CASE i = Len(rows) + 1
        <4>1. Len(written) + 1 \in 1..Len(written')
          BY <1>2, <2>4
        <4> QED BY <2>3, <2>4, <3>1, <4>1
      <3>2. CASE i \in 1..Len(rows)
        <4>1. PICK j \in 1..Len(written) : rows[i].hash = written[j].hash
          BY <3>2 DEF TableIInv, Computed
        <4>2. j \in 1..Len(written')
          BY <1>2, <2>4
        <4> QED BY <2>3, <2>4, <3>2, <4>1, <4>2
      <3> QED BY <1>2, <2>3, <3>1, <3>2
    <2>7. (\A j \in 1..Len(written) : verify_hash(written[j]))'
      BY <2>5 DEF verify_hash, compute_event_hash
    <2> QED BY <2>3, <2>4, <2>6, <2>7 DEF TableIInv, TableTyped, WrittenVerify, Computed
  <1>4. ASSUME NEW i \in 1..Len(rows), NEW e \in Event, AlterEvent(i, e)
        PROVE  TableIInv'
    <2> DEFINE row == [rows[i] EXCEPT !.event = e]
    <2>1. rows[i] \in ChainedAuditEvent
      BY <1>1
    <2>2. row \in ChainedAuditEvent /\ row.hash = rows[i].hash
      BY <2>1 DEF ChainedAuditEvent
    <2>3. Damaged([rows EXCEPT ![i] = row])
      BY <1>4 DEF AlterEvent
    <2> HIDE DEF row
    <2> QED BY <2>2, <2>3, ReplacedKeeps
  <1>5. ASSUME NEW i \in 1..Len(rows), NEW n \in 1..MaxRows, AlterSeq(i, n)
        PROVE  TableIInv'
    <2> DEFINE row == [rows[i] EXCEPT !.seq = n]
    <2>1. rows[i] \in ChainedAuditEvent
      BY <1>1
    <2>2. n \in Nat
      BY IntegrityAssumption
    <2>3. row \in ChainedAuditEvent /\ row.hash = rows[i].hash
      BY <2>1, <2>2 DEF ChainedAuditEvent
    <2>4. Damaged([rows EXCEPT ![i] = row])
      BY <1>5 DEF AlterSeq
    <2> HIDE DEF row
    <2> QED BY <2>3, <2>4, ReplacedKeeps
  <1>6. ASSUME NEW i \in 1..Len(rows), NEW j \in 1..Len(rows), AlterHash(i, j)
        PROVE  TableIInv'
    <2>4. rows[i] \in ChainedAuditEvent /\ rows[j] \in ChainedAuditEvent
      BY <1>1
    <2>1. rows[i] \in ChainedAuditEvent /\ rows[j].hash \in Digest
      BY <2>4 DEF ChainedAuditEvent
    <2>2. CASE Damaged([rows EXCEPT ![i].hash = rows[j].hash])
      <3> DEFINE row == [rows[i] EXCEPT !.hash = rows[j].hash]
      <3>1. row \in ChainedAuditEvent /\ row.hash = rows[j].hash
        BY <2>1 DEF ChainedAuditEvent
      <3>2. Damaged([rows EXCEPT ![i] = row])
        BY <2>2
      <3> HIDE DEF row
      <3> QED BY <3>1, <3>2, ReplacedKeeps
    <2>3. CASE Damaged([rows EXCEPT ![i].prev_hash = rows[j].hash])
      <3> DEFINE row == [rows[i] EXCEPT !.prev_hash = rows[j].hash]
      <3>1. row \in ChainedAuditEvent /\ row.hash = rows[i].hash
        BY <2>1 DEF ChainedAuditEvent
      <3>2. Damaged([rows EXCEPT ![i] = row])
        BY <2>3
      <3> HIDE DEF row
      <3> QED BY <3>1, <3>2, ReplacedKeeps
    <2> QED BY <1>6, <2>2, <2>3 DEF AlterHash
  <1>7. ASSUME NEW i \in 1..Len(rows), NEW j \in 1..Len(rows), ExchangeRows(i, j)
        PROVE  TableIInv'
    <2> DEFINE newRows == [rows EXCEPT ![i] = rows[j], ![j] = rows[i]]
    <2>1. newRows \in Seq(ChainedAuditEvent) /\ Len(newRows) = Len(rows)
      BY <1>1
    <2>2. \A m \in 1..Len(rows) : \E k \in 1..Len(rows) : newRows[m] = rows[k]
      BY <1>1
    <2> HIDE DEF newRows
    <2>3. \A m \in 1..Len(newRows) : \E k \in 1..Len(rows) : newRows[m].hash = rows[k].hash
      BY <2>1, <2>2
    <2> QED BY <1>7, <2>1, <2>3, DamagedKeeps DEF ExchangeRows, newRows
  <1>8. ASSUME NEW i \in 1..Len(rows), LoseRow(i)
        PROVE  TableIInv'
    <2> DEFINE newRows == RemoveAt(rows, i)
    <2>1. /\ SubSeq(rows, 1, i - 1) \in Seq(ChainedAuditEvent)
          /\ SubSeq(rows, i + 1, Len(rows)) \in Seq(ChainedAuditEvent)
          /\ Len(SubSeq(rows, 1, i - 1)) = i - 1
          /\ Len(SubSeq(rows, i + 1, Len(rows))) = Len(rows) - i
          /\ \A k \in 1..(i - 1) : SubSeq(rows, 1, i - 1)[k] = rows[k]
          /\ \A k \in 1..(Len(rows) - i) : SubSeq(rows, i + 1, Len(rows))[k] = rows[i + k]
      BY <1>1, <1>2
    <2>2. /\ newRows \in Seq(ChainedAuditEvent)
          /\ Len(newRows) = Len(rows) - 1
          /\ \A m \in 1..Len(newRows) : \E k \in 1..Len(rows) : newRows[m] = rows[k]
      <3> DEFINE a == SubSeq(rows, 1, i - 1)
                 b == SubSeq(rows, i + 1, Len(rows))
      <3>1. newRows = a \o b
        BY DEF RemoveAt
      <3> HIDE DEF newRows, a, b
      <3>2. /\ newRows \in Seq(ChainedAuditEvent)
            /\ Len(newRows) = Len(a) + Len(b)
            /\ \A m \in 1..Len(newRows) : newRows[m] = IF m <= Len(a) THEN a[m] ELSE b[m - Len(a)]
        <4>1. a \in Seq(ChainedAuditEvent) /\ b \in Seq(ChainedAuditEvent)
          BY <2>1 DEF a, b
        <4>2. Len(a) \in Nat /\ Len(b) \in Nat
          BY <4>1, LenProperties
        <4> QED BY <3>1, <4>1, <4>2, ConcatProperties
      <3>3. /\ Len(a) = i - 1 /\ Len(b) = Len(rows) - i
            /\ \A k \in 1..Len(a) : a[k] = rows[k]
            /\ \A k \in 1..Len(b) : b[k] = rows[i + k]
        BY <2>1 DEF a, b
      <3>4. ASSUME NEW m \in 1..Len(newRows)
            PROVE  \E k \in 1..Len(rows) : newRows[m] = rows[k]
        <4>1. CASE m <= Len(a)
          <5>1. m \in 1..Len(a) /\ m \in 1..Len(rows)
            BY <1>2, <3>3, <4>1
          <5> QED BY <3>2, <3>3, <4>1, <5>1
        <4>2. CASE ~(m <= Len(a))
          <5>1. m - Len(a) \in 1..Len(b) /\ m + 1 \in 1..Len(rows) /\ i + (m - Len(a)) = m + 1
            BY <1>2, <3>2, <3>3, <4>2
          <5>2. newRows[m] = rows[m + 1]
            BY <3>2, <3>3, <4>2, <5>1
          <5> QED BY <5>1, <5>2
        <4> QED BY <4>1, <4>2
      <3> QED BY <1>2, <3>2, <3>3, <3>4
    <2> HIDE DEF newRows
    <2>3. \A m \in 1..Len(newRows) : \E k \in 1..Len(rows) : newRows[m].hash = rows[k].hash
      BY <2>2
    <2> QED BY <1>8, <2>2, <2>3, DamagedKeeps DEF LoseRow, newRows
  <1>9. CASE UNCHANGED tableVars
    BY <1>9 DEF tableVars, TableIInv, TableTyped, WrittenVerify, Computed
  <1>10. DOMAIN rows = 1..Len(rows)
    BY <1>1, LenProperties
  <1> QED BY <1>3, <1>4, <1>5, <1>6, <1>7, <1>8, <1>9, <1>10 DEF TableNext, Damage

\* No damage makes a hash that insert_batch did not compute.
THEOREM TableInvariant == TableSpec => []TableIInv
  <1>1. TableInit => TableIInv
    BY TableInitIInv
  <1>2. TableIInv /\ [TableNext]_tableVars => TableIInv'
    BY TableStepIInv
  <1> QED BY <1>1, <1>2, PTL DEF TableSpec
--------------------------------------------------------------------------------
(* The hash chain: what verify_event_chain shows *)

\* Another row in the place of one that has a row after it is noticed, also when the
\* hash of the new row was computed for it: the row after it has the hash of the old one.
THEOREM InnerRowsAreFixed ==
  ASSUME NEW chain \in Seq(ChainedAuditEvent), verify_event_chain(chain),
         NEW i \in 1..(Len(chain) - 1), NEW row \in ChainedAuditEvent, row # chain[i]
  PROVE  ~verify_event_chain([chain EXCEPT ![i] = row])
  <1> DEFINE new == [chain EXCEPT ![i] = row]
  <1>1. Len(chain) \in Nat /\ i \in 1..Len(chain) /\ i + 1 \in 2..Len(chain) /\ (i + 1) - 1 = i
    BY LenProperties
  <1>2. Len(new) = Len(chain) /\ new[i] = row /\ new[i + 1] = chain[i + 1]
    BY <1>1, ExceptSeq
  <1>3. /\ i + 1 # 1 /\ i + 1 \in 1..Len(chain)
        /\ chain[i] \in ChainedAuditEvent
    BY <1>1
  <1>4. chain[i + 1].prev_hash = chain[i].hash /\ verify_hash(chain[i])
    BY <1>1, <1>3 DEF verify_event_chain, ExpectedPrevHash
  <1> SUFFICES ASSUME verify_event_chain(new) PROVE FALSE
    OBVIOUS
  <1> HIDE DEF new
  <1>5. new[i + 1].prev_hash = new[i].hash /\ verify_hash(new[i])
    BY <1>1, <1>2, <1>3 DEF verify_event_chain, ExpectedPrevHash
  <1>6. row.hash = chain[i].hash /\ verify_hash(row)
    BY <1>2, <1>4, <1>5
  <1> QED BY <1>3, <1>4, <1>6, SameHash

\* The rows of a chain that verifies stand in its last hash, one after the other.
LEMMA LastHashHasAll ==
  ASSUME TableTyped, Verified, rows # << >>
  PROVE  \E before \in Digest : Last(rows).hash = before \o Pairs
  <1> DEFINE N == Len(rows)
             Pair == Nat \X Event
             pair(i) == <<rows[i].seq, rows[i].event>>
             before == rows[1].prev_hash
             first(n) == SubSeq(Pairs, 1, n)
             G == {n \in 1..N : rows[n].hash = before \o first(n)} \cup {0}
  <1>1. rows \in Seq(ChainedAuditEvent) /\ N \in Nat /\ N # 0
    BY EmptySeq, LenProperties DEF TableTyped
  <1>2. ASSUME NEW i \in 1..N
        PROVE  /\ rows[i].hash = Append(rows[i].prev_hash, pair(i))
               /\ i > 1 => rows[i].prev_hash = rows[i - 1].hash
               /\ pair(i) \in Pair
    <2>1. rows[i] \in ChainedAuditEvent
      BY <1>1
    <2>2. pair(i) \in Pair
      BY <2>1 DEF ChainedAuditEvent
    <2>3. rows[i].hash = Append(rows[i].prev_hash, pair(i))
      BY DEF Verified, verify_event_chain, verify_hash, compute_event_hash
    <2>4. i > 1 => rows[i].prev_hash = rows[i - 1].hash
      BY DEF Verified, verify_event_chain, ExpectedPrevHash
    <2> QED BY <2>2, <2>3, <2>4
  <1>3. before \in Seq(Pair)
    <2>1. rows[1] \in ChainedAuditEvent
      BY <1>1
    <2> QED BY <2>1 DEF ChainedAuditEvent, Digest
  <1>4. /\ Pairs \in Seq(Pair) /\ Len(Pairs) = N
        /\ \A i \in 1..N : Pairs[i] = pair(i)
    <2>1. Pairs = [i \in 1..N |-> pair(i)]
      BY DEF Pairs
    <2> HIDE DEF pair, Pair, N
    <2> QED BY <1>1, <1>2, <2>1
  <1> HIDE DEF pair, Pair, N, before
  <1>5. ASSUME NEW n \in 1..N
        PROVE  /\ first(n) = Append(first(n - 1), pair(n))
               /\ first(n - 1) \in Seq(Pair)
               /\ before \o first(n) = Append(before \o first(n - 1), pair(n))
    <2>1. first(n - 1) \in Seq(Pair)
      BY <1>1, <1>4
    <2>2. first(n) = Append(first(n - 1), pair(n))
      BY <1>1, <1>4
    <2>3. pair(n) \in Pair
      BY <1>2
    <2> DEFINE f == first(n - 1)
               p == pair(n)
    <2>4. f \in Seq(Pair) /\ p \in Pair
      BY <2>1, <2>3
    <2> HIDE DEF f, p, first
    <2>5. before \o Append(f, p) = Append(before \o f, p)
      BY <1>3, <2>4
    <2> QED BY <2>1, <2>2, <2>5 DEF f, p
  <1>6. \A n \in 1..N : n - 1 \in G => n \in G
    <2>1. ASSUME NEW n \in 1..N, n - 1 \in G
          PROVE  rows[n].hash = before \o first(n)
      <3>1. CASE n = 1
        <4>1. first(0) = << >>
          BY <1>4
        <4>2. before \o << >> = before
          BY <1>3, ConcatEmptySeq
        <4>3. before \o first(1) = Append(before, pair(1))
          <5> HIDE DEF first
          <5> QED BY <1>5, <3>1, <4>1, <4>2
        <4>4. rows[1].hash = Append(before, pair(1))
          BY <1>2, <3>1 DEF before
        <4> QED BY <3>1, <4>3, <4>4
      <3>2. CASE n # 1
        <4>1. n > 1 /\ n - 1 \in 1..N /\ n - 1 # 0
          BY <1>1, <3>2
        <4>2. rows[n - 1].hash = before \o first(n - 1)
          BY <2>1, <4>1
        <4>3. rows[n].hash = Append(rows[n - 1].hash, pair(n))
          BY <1>2, <4>1
        <4> QED BY <1>5, <4>2, <4>3
      <3> QED BY <3>1, <3>2
    <2> QED BY <2>1
  <1>7. \A n \in 0..N : n \in G
    <2>1. 0 \in G
      OBVIOUS
    <2> HIDE DEF G
    <2> QED BY <1>1, <1>6, <2>1, UpTo
  <1>8. rows[N].hash = before \o first(N)
    <2>1. N \in 0..N /\ N # 0
      BY <1>1
    <2> QED BY <1>7, <2>1
  <1>9. first(N) = Pairs
    BY <1>1, <1>4
  <1>10. before \in Digest /\ rows[N].hash = before \o Pairs
    BY <1>3, <1>8, <1>9 DEF Digest, Pair
  <1> QED BY <1>10 DEF Last, N

\* What a sequence ends with is a suffix of it.
LEMMA SuffixOfConcat ==
  ASSUME NEW S, NEW a \in Seq(S), NEW b \in Seq(S)
  PROVE  IsSuffix(b, a \o b)
  <1> DEFINE t == a \o b
  <1>1. /\ t \in Seq(S) /\ Len(t) = Len(a) + Len(b) /\ Len(a) \in Nat /\ Len(b) \in Nat
        /\ \A i \in 1..Len(b) : t[Len(a) + i] = b[i]
    BY ConcatProperties, LenProperties
  <1> HIDE DEF t
  <1>2. /\ Reverse(b) \in Seq(S) /\ Len(Reverse(b)) = Len(b)
        /\ \A i \in 1..Len(b) : Reverse(b)[i] = b[(Len(b) - i) + 1]
    BY <1>1 DEF Reverse
  <1>3. /\ Reverse(t) \in Seq(S) /\ Len(Reverse(t)) = Len(t)
        /\ \A i \in 1..Len(t) : Reverse(t)[i] = t[(Len(t) - i) + 1]
    BY <1>1 DEF Reverse
  <1> DEFINE x == SubSeq(Reverse(b), 1, Len(b))
             y == SubSeq(Reverse(t), 1, Len(b))
  <1>4. /\ x \in Seq(S) /\ y \in Seq(S) /\ Len(x) = Len(b) /\ Len(y) = Len(b)
        /\ \A i \in 1..Len(b) : x[i] = Reverse(b)[i] /\ y[i] = Reverse(t)[i]
    BY <1>1, <1>2, <1>3
  <1>5. ASSUME NEW i \in 1..Len(b)
        PROVE  Reverse(b)[i] = Reverse(t)[i]
    <2>1. /\ i \in 1..Len(t) /\ (Len(b) - i) + 1 \in 1..Len(b)
          /\ (Len(t) - i) + 1 = Len(a) + ((Len(b) - i) + 1)
      BY <1>1
    <2> QED BY <1>1, <1>2, <1>3, <2>1
  <1> HIDE DEF x, y
  <1>6. x = y
    BY <1>4, <1>5, SeqEqual
  <1> QED BY <1>1, <1>2, <1>3, <1>6 DEF IsSuffix, IsPrefix, x, y, t

\* A session that verifies shows only rows the collector wrote, and these without
\* a gap, in the order in which they stood when the last of them was written.
THEOREM EditsShow == TableSpec => []EditsAreDetected
  <1>1. ASSUME TableIInv, Verified
        PROVE  ToSet(rows) \subseteq ToSet(written)
    <2>1. /\ rows \in Seq(ChainedAuditEvent) /\ DOMAIN rows = 1..Len(rows)
          /\ written \in Seq(ChainedAuditEvent) /\ DOMAIN written = 1..Len(written)
      BY <1>1, LenProperties DEF TableIInv, TableTyped
    <2>2. ASSUME NEW i \in 1..Len(rows)
          PROVE  \E j \in 1..Len(written) : rows[i] = written[j]
      <3>1. PICK j \in 1..Len(written) : rows[i].hash = written[j].hash
        BY <1>1 DEF TableIInv, Computed
      <3>2. verify_hash(rows[i])
        BY <1>1 DEF Verified, verify_event_chain
      <3>3. verify_hash(written[j])
        BY <1>1 DEF TableIInv, WrittenVerify
      <3>4. rows[i] \in ChainedAuditEvent /\ written[j] \in ChainedAuditEvent
        BY <2>1
      <3> QED BY <3>1, <3>2, <3>3, <3>4, SameHash
    <2> QED BY <2>1, <2>2 DEF ToSet
  <1>2. ASSUME TableIInv, Verified, rows # << >>
        PROVE  IsSuffix(Pairs, Last(rows).hash)
    <2>1. TableTyped
      BY <1>2 DEF TableIInv
    <2>2. PICK before \in Digest : Last(rows).hash = before \o Pairs
      BY <1>2, <2>1, LastHashHasAll
    <2>3. Pairs \in Seq(Nat \X Event)
      <3>3. rows \in Seq(ChainedAuditEvent)
        BY <2>1 DEF TableTyped
      <3>4. Len(rows) \in Nat /\ \A i \in 1..Len(rows) : rows[i] \in ChainedAuditEvent
        BY <3>3, LenProperties
      <3>1. /\ Len(rows) \in Nat
            /\ \A i \in 1..Len(rows) : rows[i].seq \in Nat /\ rows[i].event \in Event
        BY <3>4 DEF ChainedAuditEvent
      <3>2. \A i \in 1..Len(rows) : <<rows[i].seq, rows[i].event>> \in Nat \X Event
        BY <3>1
      <3> QED BY <3>1, <3>2, IsASeq DEF Pairs
    <2>4. before \in Seq(Nat \X Event)
      BY DEF Digest
    <2> QED BY <2>2, <2>3, <2>4, SuffixOfConcat
  <1>3. TableIInv => EditsAreDetected
    BY <1>1, <1>2 DEF EditsAreDetected
  <1> QED BY <1>3, TableInvariant, PTL
--------------------------------------------------------------------------------
(* Reconstruction: text *)

\* What a byte does to a decoded text.
LEMMA DecodeTurn ==
  ASSUME NEW d \in Decoded, NEW b \in Byte
  PROVE  Decode[d][b] =
           IF d.is = "invalid" THEN [d EXCEPT !.rest = Append(d.rest, b)]
           ELSE IF d.rest # << >>
           THEN IF b = "trail" THEN [d EXCEPT !.text = Append(d.text, "wide"), !.rest = << >>]
                ELSE [d EXCEPT !.rest = <<b>>, !.is = "invalid"]
           ELSE IF b = "lead" THEN [d EXCEPT !.rest = <<b>>]
           ELSE IF b = "trail" THEN [d EXCEPT !.is = "invalid"]
           ELSE [d EXCEPT !.text = Append(d.text, b)]
  BY Zenon DEF Decode

\* A character begins.
LEMMA DecodeLead ==
  ASSUME NEW d \in Decoded, d.is = "valid", d.rest = << >>
  PROVE  /\ Decode[d]["lead"].text = d.text
         /\ Decode[d]["lead"].rest = <<"lead">>
         /\ Decode[d]["lead"].is = "valid"
  <1>1. "lead" \in Byte
    BY DEF Byte
  <1>2. Decode[d]["lead"] = [d EXCEPT !.rest = <<"lead">>]
    BY <1>1, DecodeTurn, Zenon
  <1> QED BY <1>2 DEF Decoded

\* A character is complete.
LEMMA DecodeTrail ==
  ASSUME NEW d \in Decoded, d.is = "valid", d.rest # << >>
  PROVE  /\ Decode[d]["trail"].text = Append(d.text, "wide")
         /\ Decode[d]["trail"].rest = << >>
         /\ Decode[d]["trail"].is = "valid"
  <1>1. "trail" \in Byte
    BY DEF Byte
  <1>2. Decode[d]["trail"] = [d EXCEPT !.text = Append(d.text, "wide"), !.rest = << >>]
    BY <1>1, DecodeTurn, Zenon
  <1> QED BY <1>2 DEF Decoded

\* A character of one byte.
LEMMA DecodeChar ==
  ASSUME NEW d \in Decoded, d.is = "valid", d.rest = << >>,
         NEW b \in Byte, b # "lead", b # "trail"
  PROVE  /\ Decode[d][b].text = Append(d.text, b)
         /\ Decode[d][b].rest = << >>
         /\ Decode[d][b].is = "valid"
  <1>1. Decode[d][b] = [d EXCEPT !.text = Append(d.text, b)]
    BY DecodeTurn, Zenon
  <1> QED BY <1>1 DEF Decoded

\* A text that is decoded one byte further is one.
LEMMA DecodeKeeps ==
  ASSUME NEW d \in Decoded, NEW b \in Byte
  PROVE  Decode[d][b] \in Decoded
  <1>1. d.text \in Seq(Char) /\ d.rest \in Seq(Byte) /\ "wide" \in Char
    BY DEF Decoded, Char
  <1>2. /\ Append(d.text, "wide") \in Seq(Char)
        /\ Append(d.rest, b) \in Seq(Byte)
        /\ <<b>> \in Seq(Byte) /\ << >> \in Seq(Byte)
    BY <1>1
  <1>3. b # "lead" /\ b # "trail" => Append(d.text, b) \in Seq(Char)
    BY <1>1 DEF Char
  <1>4. /\ [d EXCEPT !.rest = Append(d.rest, b)] \in Decoded
        /\ [d EXCEPT !.text = Append(d.text, "wide"), !.rest = << >>] \in Decoded
        /\ [d EXCEPT !.rest = <<b>>, !.is = "invalid"] \in Decoded
        /\ [d EXCEPT !.rest = <<b>>] \in Decoded
        /\ [d EXCEPT !.is = "invalid"] \in Decoded
    BY <1>1, <1>2 DEF Decoded
  <1>5. b # "lead" /\ b # "trail" => [d EXCEPT !.text = Append(d.text, b)] \in Decoded
    BY <1>1, <1>3 DEF Decoded
  <1> QED BY <1>4, <1>5, DecodeTurn, Zenon

\* What from_utf8 makes is a text and what is left.
LEMMA DecodedType ==
  ASSUME NEW bytes \in Seq(Byte)
  PROVE  from_utf8(bytes) \in Decoded
  <1> DEFINE none == [text |-> << >>, rest |-> << >>, is |-> "valid"]
  <1>1. none \in Decoded
    BY DEF Decoded
  <1> HIDE DEF none
  <1>2. \A d \in Decoded : \A b \in Byte : Decode[d][b] \in Decoded
    BY DecodeKeeps
  <1>3. Fold(Decode, none, bytes) \in Decoded
    BY <1>1, <1>2, FoldType
  <1> QED BY <1>3 DEF from_utf8, none

\* One byte more.
LEMMA DecodedAppend ==
  ASSUME NEW bytes \in Seq(Byte), NEW b \in Byte
  PROVE  from_utf8(Append(bytes, b)) = Decode[from_utf8(bytes)][b]
  BY FoldAppend DEF from_utf8

\* No bytes.
LEMMA DecodedEmpty ==
  from_utf8(<< >>) = [text |-> << >>, rest |-> << >>, is |-> "valid"]
  BY FoldEmpty DEF from_utf8

\* bytes are UTF-8, but for a character that may be unfinished.
Utf8(bytes) ==
  \A i \in 1..Len(bytes) : bytes[i] = "trail" <=> i > 1 /\ bytes[i - 1] = "lead"

\* The last byte is b.
Ends(bytes, b) == bytes # << >> /\ bytes[Len(bytes)] = b

\* UTF-8 goes on with the second byte of a character after its first.
LEMMA Utf8Append ==
  ASSUME NEW bytes \in Seq(Byte), NEW b \in Byte
  PROVE  /\ Utf8(Append(bytes, b)) <=> Utf8(bytes) /\ (b = "trail" <=> Ends(bytes, "lead"))
         /\ \A c : Ends(Append(bytes, b), c) <=> b = c
  <1> DEFINE n == Len(bytes)
             more == Append(bytes, b)
  <1>1. /\ n \in Nat /\ Len(more) = n + 1 /\ more[n + 1] = b /\ more # << >>
        /\ \A i \in 1..n : more[i] = bytes[i]
    BY AppendProperties, LenProperties
  <1>2. bytes # << >> <=> n > 0
    BY EmptySeq, <1>1
  <1>3. more[n + 1] = "trail" <=> b = "trail"
    BY <1>1
  <1>4. n + 1 > 1 /\ more[(n + 1) - 1] = "lead" <=> Ends(bytes, "lead")
    <2>1. (n + 1) - 1 = n /\ (n + 1 > 1 <=> n > 0)
      BY <1>1
    <2>2. n > 0 => more[n] = bytes[n]
      BY <1>1
    <2>3. Ends(bytes, "lead") <=> n > 0 /\ bytes[n] = "lead"
      BY <1>2 DEF Ends
    <2> HIDE DEF n, more
    <2> QED BY <2>1, <2>2, <2>3
  <1>5. \A i \in 1..n : i > 1 => more[i - 1] = bytes[i - 1]
    BY <1>1
  <1> HIDE DEF n, more
  <1>6. Utf8(more) <=> Utf8(bytes) /\ (b = "trail" <=> Ends(bytes, "lead"))
    <2>1. Utf8(more) <=> \A i \in 1..(n + 1) : more[i] = "trail" <=> i > 1 /\ more[i - 1] = "lead"
      BY <1>1 DEF Utf8
    <2>2. Utf8(bytes) <=> \A i \in 1..n : more[i] = "trail" <=> i > 1 /\ more[i - 1] = "lead"
      <3>1. ASSUME NEW i \in 1..n
            PROVE  (bytes[i] = "trail" <=> i > 1 /\ bytes[i - 1] = "lead")
                   <=> (more[i] = "trail" <=> i > 1 /\ more[i - 1] = "lead")
        BY <1>1, <1>5
      <3>2. Utf8(bytes) <=> \A i \in 1..n : bytes[i] = "trail" <=> i > 1 /\ bytes[i - 1] = "lead"
        BY DEF Utf8, n
      <3> QED BY <3>1, <3>2, Zenon
    <2> DEFINE R(i) == more[i] = "trail" <=> i > 1 /\ more[i - 1] = "lead"
    <2>3. 1..(n + 1) = 1..n \cup {n + 1}
      BY <1>1
    <2>4. R(n + 1) <=> (b = "trail" <=> Ends(bytes, "lead"))
      BY <1>3, <1>4
    <2> HIDE DEF R
    <2>5. (\A i \in 1..(n + 1) : R(i)) <=> (\A i \in 1..n : R(i)) /\ R(n + 1)
      BY <2>3
    <2> QED BY <2>1, <2>2, <2>4, <2>5, Zenon DEF R
  <1>7. \A c : Ends(more, c) <=> b = c
    BY <1>1 DEF Ends
  <1> QED BY <1>6, <1>7 DEF more

\* UTF-8 is valid, and of it only a first byte at the end is left.
LEMMA DecodeUtf8 ==
  \A bytes \in Seq(Byte) :
    Utf8(bytes) => /\ from_utf8(bytes).is = "valid"
                   /\ from_utf8(bytes).rest = IF Ends(bytes, "lead") THEN <<"lead">> ELSE << >>
  <1> DEFINE P(q) == Utf8(q) => /\ from_utf8(q).is = "valid"
                                /\ from_utf8(q).rest = IF Ends(q, "lead") THEN <<"lead">> ELSE << >>
             G == {q \in Seq(Byte) : P(q)}
  <1>1. << >> \in G
    BY DecodedEmpty DEF Ends
  <1>2. ASSUME NEW q \in Seq(Byte), q \in G, NEW b \in Byte
        PROVE  Append(q, b) \in G
    <2> DEFINE d == from_utf8(q)
    <2>1. Append(q, b) \in Seq(Byte)
      OBVIOUS
    <2> SUFFICES ASSUME Utf8(Append(q, b)) PROVE P(Append(q, b))
      BY <2>1
    <2>2. d.is = "valid" /\ d.rest = (IF Ends(q, "lead") THEN <<"lead">> ELSE << >>)
      BY <1>2, Utf8Append
    <2>3. b = "trail" <=> Ends(q, "lead")
      BY Utf8Append
    <2>4. from_utf8(Append(q, b)) = Decode[d][b] /\ d \in Decoded
      BY DecodedAppend, DecodedType
    <2>5. Ends(Append(q, b), "lead") <=> b = "lead"
      BY Utf8Append
    <2> HIDE DEF d
    <2>6. /\ Decode[d][b].is = "valid"
          /\ Decode[d][b].rest = IF b = "lead" THEN <<"lead">> ELSE << >>
      <3>1. CASE Ends(q, "lead")
        <4>1. <<"lead">> # << >>
          OBVIOUS
        <4> QED BY <2>2, <2>3, <2>4, <3>1, <4>1, DecodeTrail
      <3>2. CASE ~Ends(q, "lead")
        BY <2>2, <2>3, <2>4, <3>2, DecodeLead, DecodeChar
      <3> QED BY <3>1, <3>2
    <2> QED BY <2>4, <2>5, <2>6
  <1> HIDE DEF G
  <1>3. \A q \in Seq(Byte) : q \in G
    BY <1>1, <1>2, EverySequence
  <1> QED BY <1>3 DEF G

\* What is left of a text is decoded by itself as it is.
LEMMA DecodeRest ==
  /\ from_utf8(<< >>).text = << >> /\ from_utf8(<< >>).rest = << >> /\ from_utf8(<< >>).is = "valid"
  /\ from_utf8(<<"lead">>).text = << >>
  /\ from_utf8(<<"lead">>).rest = <<"lead">>
  /\ from_utf8(<<"lead">>).is = "valid"
  <1>1. "lead" \in Byte /\ << >> \in Seq(Byte)
    BY DEF Byte
  <1>2. Append(<< >>, "lead") = <<"lead">>
    OBVIOUS
  <1>3. from_utf8(<<"lead">>) = Decode[from_utf8(<< >>)]["lead"]
    BY <1>1, <1>2, DecodedAppend
  <1>4. from_utf8(<< >>) \in Decoded
    BY <1>1, DecodedType
  <1>5. from_utf8(<< >>).rest = << >> /\ from_utf8(<< >>).is = "valid" /\ from_utf8(<< >>).text = << >>
    BY DecodedEmpty
  <1>6. /\ Decode[from_utf8(<< >>)]["lead"].text = << >>
        /\ Decode[from_utf8(<< >>)]["lead"].rest = <<"lead">>
        /\ Decode[from_utf8(<< >>)]["lead"].is = "valid"
    BY <1>4, <1>5, DecodeLead
  <1> QED BY <1>3, <1>5, <1>6

\* Decoding goes on with what was left as it would have with all of it.
LEMMA DecodeOn ==
  ASSUME NEW old \in Seq(Byte), Utf8(old)
  PROVE  \A q \in Seq(Byte) :
           Utf8(old \o q) =>
             /\ from_utf8(old \o q).text
                  = from_utf8(old).text \o from_utf8(from_utf8(old).rest \o q).text
             /\ from_utf8(old \o q).rest = from_utf8(from_utf8(old).rest \o q).rest
             /\ from_utf8(from_utf8(old).rest \o q).is = "valid"
  <1> DEFINE was == from_utf8(old)
             P(d, e) == /\ d.text = was.text \o e.text
                        /\ d.rest = e.rest
                        /\ e.is = "valid"
             T(q) == Utf8(old \o q) => P(from_utf8(old \o q), from_utf8(was.rest \o q))
             G == {q \in Seq(Byte) : T(q)}
  <1>1. /\ was \in Decoded /\ was.is = "valid"
        /\ was.rest = << >> \/ was.rest = <<"lead">>
    BY DecodedType, DecodeUtf8
  <1>2. was.text \in Seq(Char) /\ was.rest \in Seq(Byte)
    BY <1>1 DEF Decoded
  <1> HIDE DEF was
  <1>3. << >> \in G
    <2>1. old \o << >> = old /\ was.rest \o << >> = was.rest /\ was.text \o << >> = was.text
      BY <1>2, ConcatEmptySeq
    <2>2. P(from_utf8(old), from_utf8(was.rest))
      <3>1. from_utf8(old) = was
        BY DEF was
      <3>2. /\ from_utf8(was.rest).text = << >> /\ from_utf8(was.rest).is = "valid"
            /\ from_utf8(was.rest).rest = was.rest
        BY <1>1, DecodeRest
      <3> QED BY <2>1, <3>1, <3>2
    <2> QED BY <2>1, <2>2, EmptySeq
  <1>6. \A t \in Seq(Char) : \A c \in Char : was.text \o Append(t, c) = Append(was.text \o t, c)
    <2> SUFFICES ASSUME NEW a \in Seq(Char), NEW t \in Seq(Char), NEW c \in Char
                 PROVE  a \o Append(t, c) = Append(a \o t, c)
      BY <1>2
    <2> QED BY ConcatAppend
  <1>4. ASSUME NEW q \in Seq(Byte), q \in G, NEW b \in Byte
        PROVE  Append(q, b) \in G
    <2> DEFINE d == from_utf8(old \o q)
               e == from_utf8(was.rest \o q)
    <2>1. /\ old \o Append(q, b) = Append(old \o q, b)
          /\ was.rest \o Append(q, b) = Append(was.rest \o q, b)
          /\ old \o q \in Seq(Byte) /\ was.rest \o q \in Seq(Byte)
          /\ Append(q, b) \in Seq(Byte)
      <3>1. \A x \in Seq(Byte) : x \o Append(q, b) = Append(x \o q, b) /\ x \o q \in Seq(Byte)
        BY ConcatAppend, ConcatProperties
      <3> QED BY <1>2, <3>1, AppendProperties
    <2> SUFFICES ASSUME Utf8(Append(old \o q, b))
                 PROVE  P(Decode[d][b], Decode[e][b])
      <3>1. /\ from_utf8(Append(old \o q, b)) = Decode[d][b]
            /\ from_utf8(Append(was.rest \o q, b)) = Decode[e][b]
        BY <2>1, DecodedAppend
      <3> HIDE DEF P, d, e
      <3>2. Utf8(old \o Append(q, b)) => P(from_utf8(old \o Append(q, b)), from_utf8(was.rest \o Append(q, b)))
        BY <2>1, <3>1
      <3> QED BY <2>1, <3>2
    <2>2. Utf8(old \o q) /\ (b = "trail" <=> Ends(old \o q, "lead"))
      BY <2>1, Utf8Append
    <2>3. P(d, e) /\ d \in Decoded /\ e \in Decoded
      <3>1. T(q)
        BY <1>4
      <3> QED BY <2>1, <2>2, <3>1, DecodedType
    <2>4. /\ d.is = "valid"
          /\ d.rest = IF b = "trail" THEN <<"lead">> ELSE << >>
      BY <2>1, <2>2, DecodeUtf8
    <2> HIDE DEF d, e
    <2>5. e.text \in Seq(Char) /\ d.text = was.text \o e.text /\ e.rest = d.rest /\ e.is = "valid"
      BY <2>3 DEF Decoded
    <2>6. CASE b = "trail"
      <3>1. "wide" \in Char /\ <<"lead">> # << >>
        BY DEF Char
      <3>2. was.text \o Append(e.text, "wide") = Append(d.text, "wide")
        BY <1>6, <2>5, <3>1
      <3>3. /\ Decode[d][b].text = Append(d.text, "wide") /\ Decode[d][b].rest = << >>
            /\ Decode[e][b].text = Append(e.text, "wide") /\ Decode[e][b].rest = << >>
            /\ Decode[e][b].is = "valid"
        BY <2>3, <2>4, <2>5, <2>6, <3>1, DecodeTrail
      <3> QED BY <3>2, <3>3
    <2>7. CASE b = "lead"
      <3>1. /\ Decode[d][b].text = d.text /\ Decode[d][b].rest = <<"lead">>
            /\ Decode[e][b].text = e.text /\ Decode[e][b].rest = <<"lead">>
            /\ Decode[e][b].is = "valid"
        BY <2>3, <2>4, <2>5, <2>7, DecodeLead
      <3> QED BY <2>5, <3>1
    <2>8. CASE b \notin {"lead", "trail"}
      <3>1. b \in Char
        BY <2>8 DEF Char
      <3>2. was.text \o Append(e.text, b) = Append(d.text, b)
        BY <1>6, <2>5, <3>1
      <3>3. /\ Decode[d][b].text = Append(d.text, b) /\ Decode[d][b].rest = << >>
            /\ Decode[e][b].text = Append(e.text, b) /\ Decode[e][b].rest = << >>
            /\ Decode[e][b].is = "valid"
        BY <2>3, <2>4, <2>5, <2>8, DecodeChar
      <3> QED BY <3>2, <3>3
    <2> QED BY <2>6, <2>7, <2>8
  <1> HIDE DEF G
  <1>5. \A q \in Seq(Byte) : q \in G
    BY <1>3, <1>4, EverySequence
  <1> QED BY <1>5 DEF G, was

\* What a byte does to a text that is decoded with replacements.
LEMMA LossyTurn ==
  ASSUME NEW r \in Replaced, NEW b \in Byte
  PROVE  /\ b = "lead" /\ r.rest = "none" =>
              DecodeLossy[r][b] = [text |-> r.text, rest |-> "open"]
         /\ b = "trail" /\ r.rest = "open" =>
              DecodeLossy[r][b] = [text |-> Append(r.text, "wide"), rest |-> "none"]
         /\ b \notin {"lead", "trail"} /\ r.rest = "none" =>
              DecodeLossy[r][b] = [text |-> Append(r.text, b), rest |-> "none"]
  <1> DEFINE text == IF r.rest = "open" /\ b # "trail" THEN Append(r.text, "bad") ELSE r.text
  <1>1. DecodeLossy[r][b]
          = [text |-> CASE b = "lead"  -> text
                        [] b = "trail" -> Append(text, IF r.rest = "open" THEN "wide" ELSE "bad")
                        [] OTHER       -> Append(text, b),
             rest |-> IF b = "lead" THEN "open" ELSE "none"]
    BY Zenon DEF DecodeLossy
  <1>2. CASE b = "lead" /\ r.rest = "none"
    BY <1>1, <1>2
  <1>3. CASE b = "trail" /\ r.rest = "open"
    BY <1>1, <1>3
  <1>4. CASE b \notin {"lead", "trail"} /\ r.rest = "none"
    BY <1>1, <1>4
  <1> QED BY <1>2, <1>3, <1>4

\* Of UTF-8 only an unfinished character at the end is replaced.
LEMMA LossyUtf8 ==
  \A bytes \in Seq(Byte) :
    Utf8(bytes) => from_utf8_lossy(bytes) = IF Ends(bytes, "lead")
                                            THEN Append(from_utf8(bytes).text, "bad")
                                            ELSE from_utf8(bytes).text
  <1> DEFINE none == [text |-> << >>, rest |-> "none"]
             L(q) == Fold(DecodeLossy, none, q)
             P(q) == Utf8(q) => L(q) = [text |-> from_utf8(q).text,
                                        rest |-> IF Ends(q, "lead") THEN "open" ELSE "none"]
             G == {q \in Seq(Byte) : P(q)}
  <1>1. << >> \in G
    <2>1. L(<< >>) = none /\ ~Ends(<< >>, "lead") /\ from_utf8(<< >>).text = << >>
      BY FoldEmpty, DecodeRest DEF Ends
    <2> QED BY <2>1
  <1>2. ASSUME NEW q \in Seq(Byte), q \in G, NEW b \in Byte
        PROVE  Append(q, b) \in G
    <2> DEFINE d == from_utf8(q)
               r == [text |-> d.text, rest |-> IF Ends(q, "lead") THEN "open" ELSE "none"]
    <2>1. Append(q, b) \in Seq(Byte)
      OBVIOUS
    <2> SUFFICES ASSUME Utf8(Append(q, b)) PROVE P(Append(q, b))
      BY <2>1
    <2>2. Utf8(q) /\ (b = "trail" <=> Ends(q, "lead"))
      BY Utf8Append
    <2>3. P(q)
      BY <1>2
    <2>4. L(Append(q, b)) = DecodeLossy[r][b]
      <3>1. L(q) = r
        BY <2>2, <2>3
      <3>2. L(Append(q, b)) = DecodeLossy[L(q)][b]
        BY FoldAppend
      <3> HIDE DEF L, r
      <3> QED BY <3>1, <3>2
    <2>5. from_utf8(Append(q, b)) = Decode[d][b] /\ d \in Decoded
      BY DecodedAppend, DecodedType
    <2>6. d.is = "valid" /\ d.rest = IF Ends(q, "lead") THEN <<"lead">> ELSE << >>
      BY <2>2, DecodeUtf8
    <2>7. Ends(Append(q, b), "lead") <=> b = "lead"
      BY Utf8Append
    <2>8. d.text \in Seq(Char) /\ <<"lead">> # << >>
      BY <2>5 DEF Decoded
    <2> HIDE DEF d
    <2>9. r \in Replaced /\ r.text = d.text /\ r.rest = IF Ends(q, "lead") THEN "open" ELSE "none"
      BY <2>8 DEF Replaced
    <2> HIDE DEF r, L
    <2>10. DecodeLossy[r][b] = [text |-> Decode[d][b].text, rest |-> IF b = "lead" THEN "open" ELSE "none"]
      <3>1. CASE b = "trail"
        <4>1. DecodeLossy[r][b] = [text |-> Append(r.text, "wide"), rest |-> "none"]
          BY <2>2, <2>9, <3>1, LossyTurn, Zenon
        <4>2. Decode[d][b].text = Append(d.text, "wide")
          BY <2>2, <2>5, <2>6, <2>8, <3>1, DecodeTrail
        <4> QED BY <2>9, <3>1, <4>1, <4>2
      <3>2. CASE b = "lead"
        <4>1. ~Ends(q, "lead") /\ r.rest = "none"
          BY <2>2, <2>9, <3>2
        <4>2. DecodeLossy[r][b] = [text |-> r.text, rest |-> "open"]
          BY <2>9, <3>2, <4>1, LossyTurn, Zenon
        <4>3. Decode[d][b].text = d.text
          BY <2>5, <2>6, <3>2, <4>1, DecodeLead
        <4> QED BY <2>9, <3>2, <4>2, <4>3
      <3>3. CASE b \notin {"lead", "trail"}
        <4>1. ~Ends(q, "lead") /\ r.rest = "none"
          BY <2>2, <2>9, <3>3
        <4>2. DecodeLossy[r][b] = [text |-> Append(r.text, b), rest |-> "none"]
          BY <2>9, <3>3, <4>1, LossyTurn, Zenon
        <4>3. Decode[d][b].text = Append(d.text, b)
          BY <2>5, <2>6, <3>3, <4>1, DecodeChar
        <4> QED BY <2>9, <3>3, <4>2, <4>3
      <3> QED BY <3>1, <3>2, <3>3
    <2> QED BY <2>4, <2>5, <2>7, <2>10
  <1> HIDE DEF G
  <1>3. \A q \in Seq(Byte) : q \in G
    BY <1>1, <1>2, EverySequence
  <1>4. ASSUME NEW q \in Seq(Byte), Utf8(q)
        PROVE  from_utf8_lossy(q) = IF Ends(q, "lead")
                                    THEN Append(from_utf8(q).text, "bad") ELSE from_utf8(q).text
    <2>1. L(q) = [text |-> from_utf8(q).text, rest |-> IF Ends(q, "lead") THEN "open" ELSE "none"]
      BY <1>3, <1>4 DEF G
    <2>2. from_utf8_lossy(q) = IF L(q).rest = "open" THEN Append(L(q).text, "bad") ELSE L(q).text
      BY DEF from_utf8_lossy
    <2> HIDE DEF L
    <2> QED BY <2>1, <2>2
  <1> QED BY <1>4

\* One character more.
LEMMA HasAppend ==
  ASSUME NEW S, NEW q \in Seq(S), NEW x \in S
  PROVE  /\ \A y : Has(Append(q, x), y) <=> Has(q, y) \/ x = y
         /\ \A y : Ends(Append(q, x), y) <=> x = y
  <1>1. /\ Len(q) \in Nat /\ Append(q, x) # << >> /\ Len(Append(q, x)) = Len(q) + 1
        /\ \A i \in 1..Len(q) : Append(q, x)[i] = q[i]
        /\ Append(q, x)[Len(q) + 1] = x
    BY AppendProperties, LenProperties
  <1>2. 1..(Len(q) + 1) = 1..Len(q) \cup {Len(q) + 1}
    BY <1>1
  <1> QED BY <1>1, <1>2 DEF Has, Ends

\* Enter is read where it was typed.
LEMMA DecodeEnter ==
  \A bytes \in Seq(Byte) :
    Utf8(bytes) => /\ Has(bytes, "enter") => Has(from_utf8(bytes).text, "enter")
                   /\ Ends(bytes, "enter") => Ends(from_utf8(bytes).text, "enter")
  <1> DEFINE P(q) == Utf8(q) => /\ Has(q, "enter") => Has(from_utf8(q).text, "enter")
                                /\ Ends(q, "enter") => Ends(from_utf8(q).text, "enter")
             G == {q \in Seq(Byte) : P(q)}
  <1>1. << >> \in G
    <2>1. ~Has(<< >>, "enter") /\ ~Ends(<< >>, "enter")
      BY DEF Has, Ends
    <2> QED BY <2>1
  <1>2. ASSUME NEW q \in Seq(Byte), q \in G, NEW b \in Byte
        PROVE  Append(q, b) \in G
    <2> DEFINE d == from_utf8(q)
    <2>1. Append(q, b) \in Seq(Byte)
      OBVIOUS
    <2> SUFFICES ASSUME Utf8(Append(q, b)) PROVE P(Append(q, b))
      BY <2>1
    <2>2. Utf8(q) /\ (b = "trail" <=> Ends(q, "lead"))
      BY Utf8Append
    <2>3. P(q)
      BY <1>2
    <2>4. from_utf8(Append(q, b)) = Decode[d][b] /\ d \in Decoded
      BY DecodedAppend, DecodedType
    <2>5. d.is = "valid" /\ d.rest = IF Ends(q, "lead") THEN <<"lead">> ELSE << >>
      BY <2>2, DecodeUtf8
    <2>6. d.text \in Seq(Char) /\ <<"lead">> # << >>
      BY <2>4 DEF Decoded
    <2>7. Has(q, "enter") => Has(d.text, "enter")
      BY <2>2, <2>3
    <2>8. /\ Has(Append(q, b), "enter") <=> Has(q, "enter") \/ b = "enter"
          /\ Ends(Append(q, b), "enter") <=> b = "enter"
      BY HasAppend
    <2> HIDE DEF d
    <2>9. /\ Has(q, "enter") \/ b = "enter" => Has(Decode[d][b].text, "enter")
          /\ b = "enter" => Ends(Decode[d][b].text, "enter")
      <3>1. CASE b = "trail"
        <4>1. Decode[d][b].text = Append(d.text, "wide") /\ "wide" \in Char
          BY <2>2, <2>4, <2>5, <2>6, <3>1, DecodeTrail DEF Char
        <4>2. Has(Append(d.text, "wide"), "enter") <=> Has(d.text, "enter") \/ "wide" = "enter"
          BY <2>6, <4>1, HasAppend
        <4> QED BY <2>7, <3>1, <4>1, <4>2
      <3>2. CASE b = "lead"
        <4>1. Decode[d][b].text = d.text
          BY <2>2, <2>4, <2>5, <3>2, DecodeLead
        <4> QED BY <2>7, <3>2, <4>1
      <3>3. CASE b \notin {"lead", "trail"}
        <4>1. Decode[d][b].text = Append(d.text, b) /\ b \in Char
          BY <2>2, <2>4, <2>5, <3>3, DecodeChar DEF Char
        <4>2. /\ Has(Append(d.text, b), "enter") <=> Has(d.text, "enter") \/ b = "enter"
              /\ Ends(Append(d.text, b), "enter") <=> b = "enter"
          BY <2>6, <4>1, HasAppend
        <4> QED BY <2>7, <4>1, <4>2
      <3> QED BY <3>1, <3>2, <3>3
    <2> HIDE DEF P
    <2>10. P(Append(q, b)) <=>
            (/\ Has(Append(q, b), "enter") => Has(Decode[d][b].text, "enter")
             /\ Ends(Append(q, b), "enter") => Ends(Decode[d][b].text, "enter"))
      BY <2>4 DEF P
    <2> QED BY <2>8, <2>9, <2>10
  <1> HIDE DEF G
  <1>3. \A q \in Seq(Byte) : q \in G
    BY <1>1, <1>2, EverySequence
  <1> QED BY <1>3 DEF G
--------------------------------------------------------------------------------
(* Escape sequences *)

Symbol == Byte \cup Char

\* One symbol further.
LEMMA PlaceAppend ==
  /\ Place(<< >>) = "plain"
  /\ \A q \in Seq(Symbol) : Place(q) \in Places
  /\ \A q \in Seq(Symbol) : \A c \in Symbol : Place(Append(q, c)) = After(Place(q), c)
  <1> DEFINE step == [place \in Places |-> [c \in Byte \cup Char |-> After(place, c)]]
  <1>1. \A q : Place(q) = Fold(step, "plain", q)
    BY DEF Place
  <1>2. \A p \in Places : \A c \in Symbol : step[p][c] = After(p, c) /\ After(p, c) \in Places
    BY DEF Symbol, After, Places
  <1>3. "plain" \in Places
    BY DEF Places
  <1> HIDE DEF step
  <1>4. \A q \in Seq(Symbol) : Fold(step, "plain", q) \in Places
    <2>1. \A p \in Places : \A c \in Symbol : step[p][c] \in Places
      BY <1>2
    <2> QED BY <1>3, <2>1, FoldType
  <1>5. \A q \in Seq(Symbol) : \A c \in Symbol :
          Fold(step, "plain", Append(q, c)) = step[Fold(step, "plain", q)][c]
    BY FoldAppend
  <1>6. Fold(step, "plain", << >>) = "plain"
    BY FoldEmpty
  <1> QED BY <1>1, <1>2, <1>4, <1>5, <1>6

\* Sequences of bytes and of characters are sequences of symbols.
LEMMA Symbols ==
  /\ \A q \in Seq(Byte) : q \in Seq(Symbol)
  /\ \A q \in Seq(Char) : q \in Seq(Symbol)
  /\ Byte \subseteq Symbol /\ Char \subseteq Symbol
  <1>1. Byte \subseteq Symbol /\ Char \subseteq Symbol
    BY DEF Symbol
  <1> QED BY <1>1, SeqMonotonic

\* The escape sequences of a text are those of its bytes.
LEMMA PlaceUtf8 ==
  \A bytes \in Seq(Byte) :
    Utf8(bytes) => Place(bytes) = IF Ends(bytes, "lead") THEN "plain" ELSE Place(from_utf8(bytes).text)
  <1> DEFINE P(q) == Utf8(q) =>
                       Place(q) = IF Ends(q, "lead") THEN "plain" ELSE Place(from_utf8(q).text)
             G == {q \in Seq(Byte) : P(q)}
  <1>1. << >> \in G
    <2>1. from_utf8(<< >>).text = << >> /\ ~Ends(<< >>, "lead")
      BY DecodeRest DEF Ends
    <2> QED BY <2>1
  <1>2. ASSUME NEW q \in Seq(Byte), q \in G, NEW b \in Byte
        PROVE  Append(q, b) \in G
    <2> DEFINE d == from_utf8(q)
    <2>1. Append(q, b) \in Seq(Byte)
      OBVIOUS
    <2> SUFFICES ASSUME Utf8(Append(q, b)) PROVE P(Append(q, b))
      BY <2>1
    <2>2. Utf8(q) /\ (b = "trail" <=> Ends(q, "lead"))
      BY Utf8Append
    <2>3. P(q)
      BY <1>2
    <2>4. from_utf8(Append(q, b)) = Decode[d][b] /\ d \in Decoded
      BY DecodedAppend, DecodedType
    <2>5. d.is = "valid" /\ d.rest = IF Ends(q, "lead") THEN <<"lead">> ELSE << >>
      BY <2>2, DecodeUtf8
    <2>6. d.text \in Seq(Symbol) /\ q \in Seq(Symbol) /\ b \in Symbol /\ <<"lead">> # << >>
      BY <2>4, Symbols DEF Decoded
    <2>7. /\ Ends(Append(q, b), "lead") <=> b = "lead"
          /\ Place(Append(q, b)) = After(Place(q), b)
          /\ Place(q) = IF Ends(q, "lead") THEN "plain" ELSE Place(d.text)
      BY <2>2, <2>3, <2>6, PlaceAppend, Utf8Append
    <2> HIDE DEF d
    <2>8. After(Place(q), b) = IF b = "lead" THEN "plain" ELSE Place(Decode[d][b].text)
      <3>1. CASE b = "trail"
        <4>1. Decode[d][b].text = Append(d.text, "wide") /\ "wide" \in Symbol
          BY <2>2, <2>4, <2>5, <2>6, <3>1, DecodeTrail DEF Char, Symbol
        <4>2. Place(Append(d.text, "wide")) = After(Place(d.text), "wide")
          BY <2>6, <4>1, PlaceAppend
        <4> QED BY <3>1, <4>1, <4>2 DEF After
      <3>2. CASE b = "lead"
        BY <3>2 DEF After
      <3>3. CASE b \notin {"lead", "trail"}
        <4>1. Decode[d][b].text = Append(d.text, b)
          BY <2>2, <2>4, <2>5, <3>3, DecodeChar
        <4>2. Place(Append(d.text, b)) = After(Place(d.text), b)
          BY <2>6, PlaceAppend
        <4> QED BY <2>2, <2>7, <3>3, <4>1, <4>2
      <3> QED BY <3>1, <3>2, <3>3
    <2> QED BY <2>4, <2>7, <2>8
  <1> HIDE DEF G
  <1>3. \A q \in Seq(Byte) : q \in G
    BY <1>1, <1>2, EverySequence
  <1> QED BY <1>3 DEF G

NothingRead == [place |-> "plain", out |-> << >>]

\* The sanitizer after a text.
Sanitizer(text) == Fold(Sanitize, NothingRead, text)

\* What a character does to the sanitizer.
LEMMA SanitizeTurn ==
  ASSUME NEW a \in Sanitized, NEW c \in Char
  PROVE  /\ Sanitize[a][c] \in Sanitized
         /\ Sanitize[a][c].place = After(a.place, c)
         /\ Sanitize[a][c].out = IF c = "esc" \/ Continues(a.place, c) THEN a.out ELSE Append(a.out, c)
  <1>1. Sanitize[a][c]
          = [place |-> After(a.place, c),
             out   |-> IF c = "esc" \/ Continues(a.place, c) THEN a.out ELSE Append(a.out, c)]
    BY Zenon DEF Sanitize
  <1>2. a.place \in Places /\ a.out \in Seq(Char)
    BY DEF Sanitized
  <1>3. After(a.place, c) \in Places
    BY <1>2 DEF After, Places
  <1>4. Append(a.out, c) \in Seq(Char)
    BY <1>2
  <1>5. (IF c = "esc" \/ Continues(a.place, c) THEN a.out ELSE Append(a.out, c)) \in Seq(Char)
    BY <1>2, <1>4
  <1> QED BY <1>1, <1>3, <1>5 DEF Sanitized

\* The sanitizer, and one character more.
LEMMA SanitizerAppend ==
  /\ Sanitizer(<< >>) = NothingRead
  /\ \A q \in Seq(Char) : Sanitizer(q) \in Sanitized
  /\ \A q \in Seq(Char) : \A c \in Char : Sanitizer(Append(q, c)) = Sanitize[Sanitizer(q)][c]
  /\ \A q \in Seq(Char) : sanitize_terminal_text(q) = Sanitizer(q).out
  <1>1. NothingRead \in Sanitized
    BY DEF Sanitized, Places, NothingRead
  <1>2. \A a \in Sanitized : \A c \in Char : Sanitize[a][c] \in Sanitized
    BY SanitizeTurn
  <1>3. \A q \in Seq(Char) : Sanitizer(q) \in Sanitized
    BY <1>1, <1>2, FoldType DEF Sanitizer
  <1>4. \A q \in Seq(Char) : \A c \in Char : Sanitizer(Append(q, c)) = Sanitize[Sanitizer(q)][c]
    BY FoldAppend DEF Sanitizer
  <1>5. Sanitizer(<< >>) = NothingRead
    BY FoldEmpty DEF Sanitizer
  <1>6. \A q \in Seq(Char) : sanitize_terminal_text(q) = Sanitizer(q).out
    BY DEF sanitize_terminal_text, Sanitizer, NothingRead
  <1> QED BY <1>3, <1>4, <1>5, <1>6

\* The sanitizer stands where the text does.
LEMMA SanitizerPlace ==
  \A q \in Seq(Char) : Sanitizer(q).place = Place(q)
  <1> DEFINE G == {q \in Seq(Char) : Sanitizer(q).place = Place(q)}
  <1>1. << >> \in G
    BY SanitizerAppend, PlaceAppend DEF NothingRead
  <1>2. ASSUME NEW q \in Seq(Char), q \in G, NEW c \in Char
        PROVE  Append(q, c) \in G
    <2>1. Sanitizer(Append(q, c)).place = After(Sanitizer(q).place, c)
      BY SanitizerAppend, SanitizeTurn
    <2>2. q \in Seq(Symbol) /\ c \in Symbol
      BY Symbols
    <2>3. Place(Append(q, c)) = After(Place(q), c)
      BY <2>2, PlaceAppend
    <2>4. Append(q, c) \in Seq(Char)
      OBVIOUS
    <2> QED BY <1>2, <2>1, <2>3, <2>4
  <1> HIDE DEF G
  <1>3. \A q \in Seq(Char) : q \in G
    BY <1>1, <1>2, EverySequence
  <1> QED BY <1>3 DEF G

\* Two texts are sanitized together as each by itself, unless the second goes on
\* with an escape sequence of the first.
LEMMA SanitizeConcat ==
  ASSUME NEW a \in Seq(Char), NEW b \in Seq(Char),
         b # << >> => ~Continues(Place(a), b[1])
  PROVE  sanitize_terminal_text(a \o b) = sanitize_terminal_text(a) \o sanitize_terminal_text(b)
  <1> DEFINE outA == Sanitizer(a).out
             P(q) == q # << >> /\ ~Continues(Place(a), q[1]) =>
                       /\ Sanitizer(a \o q).place = Sanitizer(q).place
                       /\ Sanitizer(a \o q).out = outA \o Sanitizer(q).out
             G == {q \in Seq(Char) : P(q)}
  <1>1. << >> \in G
    OBVIOUS
  <1>2. /\ Sanitizer(a) \in Sanitized /\ outA \in Seq(Char)
        /\ Sanitizer(a).place = Place(a) /\ Place(a) \in Places
    BY SanitizerAppend, SanitizerPlace DEF Sanitized
  <1>3. \A t \in Seq(Char) : \A c \in Char : outA \o Append(t, c) = Append(outA \o t, c)
    <2> HIDE DEF outA
    <2> SUFFICES ASSUME NEW t \in Seq(Char), NEW c \in Char
                 PROVE  outA \o Append(t, c) = Append(outA \o t, c)
      OBVIOUS
    <2> QED BY <1>2, ConcatAppend
  <1>4. ASSUME NEW q \in Seq(Char), q \in G, NEW c \in Char
        PROVE  Append(q, c) \in G
    <2> DEFINE x == Sanitizer(a \o q)
               y == Sanitizer(q)
    <2>1. /\ a \o Append(q, c) = Append(a \o q, c)
          /\ a \o q \in Seq(Char) /\ Append(q, c) \in Seq(Char)
      BY ConcatAppend, ConcatProperties, AppendProperties
    <2> SUFFICES ASSUME ~Continues(Place(a), Append(q, c)[1]) PROVE P(Append(q, c))
      BY <2>1
    <2>2. /\ Sanitizer(Append(a \o q, c)) = Sanitize[x][c] /\ x \in Sanitized
          /\ Sanitizer(Append(q, c)) = Sanitize[y][c] /\ y \in Sanitized
      BY <2>1, SanitizerAppend
    <2>3. P(q)
      BY <1>4
    <2>4. /\ Sanitize[x][c].place = Sanitize[y][c].place
          /\ Sanitize[x][c].out = outA \o Sanitize[y][c].out
      <3>1. CASE q = << >>
        <4>1. x = Sanitizer(a) /\ y = NothingRead /\ Append(q, c)[1] = c
          <5>1. a \o << >> = a
            BY ConcatEmptySeq
          <5> QED BY <3>1, <5>1, SanitizerAppend
        <4>2. /\ x.place = Place(a) /\ x.out = outA
              /\ y.place = "plain" /\ y.out = << >>
          BY <1>2, <4>1 DEF NothingRead
        <4>3. ~Continues(Place(a), c) /\ ~Continues("plain", c)
          BY <4>1 DEF Continues
        <4>4. After(Place(a), c) = After("plain", c)
          BY <1>2, <4>3 DEF After, Continues, Places
        <4>5. outA \o << >> = outA /\ outA \o Append(<< >>, c) = Append(outA, c)
          BY <1>2, <1>3, ConcatEmptySeq, EmptySeq
        <4> HIDE DEF x, y, outA
        <4>6. /\ Sanitize[x][c].place = After(Place(a), c)
              /\ Sanitize[x][c].out = IF c = "esc" THEN outA ELSE Append(outA, c)
          BY <2>2, <4>2, <4>3, SanitizeTurn
        <4>7. /\ Sanitize[y][c].place = After("plain", c)
              /\ Sanitize[y][c].out = IF c = "esc" THEN << >> ELSE Append(<< >>, c)
          BY <2>2, <4>2, <4>3, SanitizeTurn
        <4> QED BY <4>4, <4>5, <4>6, <4>7
      <3>2. CASE q # << >>
        <4>1. Append(q, c)[1] = q[1]
          <5>1. Len(q) \in Nat \ {0}
            BY <3>2, EmptySeq
          <5> QED BY <5>1, AppendProperties
        <4>2. x.place = y.place /\ x.out = outA \o y.out
          BY <2>3, <3>2, <4>1
        <4>3. y.out \in Seq(Char)
          BY <2>2 DEF Sanitized
        <4>4. outA \o Append(y.out, c) = Append(x.out, c)
          BY <1>3, <4>2, <4>3
        <4> HIDE DEF x, y, outA
        <4>5. /\ Sanitize[x][c].place = After(x.place, c)
              /\ Sanitize[x][c].out = IF c = "esc" \/ Continues(x.place, c) THEN x.out ELSE Append(x.out, c)
          BY <2>2, SanitizeTurn
        <4>6. /\ Sanitize[y][c].place = After(y.place, c)
              /\ Sanitize[y][c].out = IF c = "esc" \/ Continues(y.place, c) THEN y.out ELSE Append(y.out, c)
          BY <2>2, SanitizeTurn
        <4> QED BY <4>2, <4>4, <4>5, <4>6
      <3> QED BY <3>1, <3>2
    <2> HIDE DEF x, y
    <2> QED BY <2>1, <2>2, <2>4
  <1> HIDE DEF G
  <1>5. \A q \in Seq(Char) : q \in G
    BY <1>1, <1>4, EverySequence
  <1>6. CASE b = << >>
    <2>1. a \o b = a
      BY <1>6, ConcatEmptySeq
    <2>2. Sanitizer(b).out = << >>
      BY <1>6, SanitizerAppend DEF NothingRead
    <2>3. /\ sanitize_terminal_text(b) = << >> /\ sanitize_terminal_text(a) = outA
      BY <2>2, SanitizerAppend
    <2> HIDE DEF outA
    <2>4. outA \o << >> = outA
      BY <1>2, ConcatEmptySeq
    <2> QED BY <2>1, <2>3, <2>4
  <1>7. CASE b # << >>
    <2>1. P(b)
      BY <1>5 DEF G
    <2>2. a \o b \in Seq(Char)
      BY ConcatProperties
    <2> QED BY <1>7, <2>1, <2>2, SanitizerAppend
  <1> QED BY <1>6, <1>7
--------------------------------------------------------------------------------
(* Lines *)

AnyActivity == TypedActivity \cup PromptActivity

\* A prompt is not a line that was typed.
LEMMA PromptNotTyped ==
  ASSUME NEW a \in PromptActivity
  PROVE  a \notin TypedActivity
  <1>1. a.line = <<"prompt">>
    BY DEF PromptActivity
  <1>2. <<"prompt">>[1] = "prompt" /\ Len(<<"prompt">>) = 1
    OBVIOUS
  <1>3. "prompt" \notin Char
    BY DEF Char, Byte
  <1>4. <<"prompt">> \notin Seq(Char)
    <2> SUFFICES ASSUME <<"prompt">> \in Seq(Char) PROVE FALSE
      OBVIOUS
    <2>1. <<"prompt">>[1] \in Char
      BY <1>2, ElementOfSeq
    <2> QED BY <2>1, <1>2, <1>3
  <1>5. a \in TypedActivity => a.line \in Seq(Char)
    BY DEF TypedActivity
  <1> QED BY <1>1, <1>4, <1>5

\* The lines of one activity more.
LEMMA LinesAppend ==
  ASSUME NEW acts \in Seq(AnyActivity)
  PROVE  /\ Lines(acts) \in Seq(Seq(Char))
         /\ \A a \in TypedActivity : Lines(Append(acts, a)) = Append(Lines(acts), a.line)
         /\ \A a \in PromptActivity : Lines(Append(acts, a)) = Lines(acts)
  <1> DEFINE typed == Filter(acts, TypedActivity)
  <1>1. typed \in Seq(TypedActivity)
    <2>1. typed \in Seq(AnyActivity \cap TypedActivity)
      BY FilterType
    <2>2. AnyActivity \cap TypedActivity = TypedActivity
      BY DEF AnyActivity
    <2> QED BY <2>1, <2>2
  <1>2. \A a \in TypedActivity : a.line \in Seq(Char)
    BY DEF TypedActivity
  <1>3. \A a \in TypedActivity : a \in AnyActivity
    BY DEF AnyActivity
  <1>4. \A a \in TypedActivity : Filter(Append(acts, a), TypedActivity) = Append(typed, a)
    BY <1>3, FilterAppend
  <1>5. \A a \in PromptActivity : a \notin TypedActivity /\ a \in AnyActivity
    BY PromptNotTyped DEF AnyActivity
  <1>6. \A a \in PromptActivity : Filter(Append(acts, a), TypedActivity) = typed
    BY <1>5, FilterAppend
  <1>7. Lines(acts) = [i \in DOMAIN typed |-> typed[i].line]
    BY DEF Lines
  <1>8. \A a \in PromptActivity : Lines(Append(acts, a)) = Lines(acts)
    BY <1>6 DEF Lines
  <1> HIDE DEF typed
  <1>9. \A seq \in Seq(TypedActivity) :
          /\ [i \in DOMAIN seq |-> seq[i].line] \in Seq(Seq(Char))
          /\ Len([i \in DOMAIN seq |-> seq[i].line]) = Len(seq)
          /\ \A i \in 1..Len(seq) : [k \in DOMAIN seq |-> seq[k].line][i] = seq[i].line
    <2> SUFFICES ASSUME NEW seq \in Seq(TypedActivity)
                 PROVE  /\ [i \in 1..Len(seq) |-> seq[i].line] \in Seq(Seq(Char))
                        /\ Len([i \in 1..Len(seq) |-> seq[i].line]) = Len(seq)
                        /\ \A i \in 1..Len(seq) : [k \in 1..Len(seq) |-> seq[k].line][i] = seq[i].line
      BY LenProperties
    <2>1. Len(seq) \in Nat
      BY LenProperties
    <2>2. \A i \in 1..Len(seq) : seq[i].line \in Seq(Char)
      BY <1>2, ElementOfSeq
    <2> QED BY <2>1, <2>2
  <1>10. ASSUME NEW a \in TypedActivity
         PROVE  Lines(Append(acts, a)) = Append(Lines(acts), a.line)
    <2> DEFINE more == Append(typed, a)
               x == [i \in DOMAIN more |-> more[i].line]
               y == Append(Lines(acts), a.line)
    <2>1. Lines(Append(acts, a)) = x
      BY <1>4 DEF Lines
    <2>2. /\ more \in Seq(TypedActivity) /\ Len(more) = Len(typed) + 1 /\ Len(typed) \in Nat
          /\ more[Len(typed) + 1] = a /\ \A i \in 1..Len(typed) : more[i] = typed[i]
      BY <1>1, AppendProperties, LenProperties
    <2>3. /\ Lines(acts) \in Seq(Seq(Char)) /\ Len(Lines(acts)) = Len(typed)
          /\ \A i \in 1..Len(typed) : Lines(acts)[i] = typed[i].line
      BY <1>1, <1>7, <1>9
    <2>4. a.line \in Seq(Char)
      BY <1>2
    <2> HIDE DEF more
    <2>5. /\ x \in Seq(Seq(Char)) /\ Len(x) = Len(typed) + 1
          /\ \A i \in 1..(Len(typed) + 1) : x[i] = more[i].line
      BY <1>9, <2>2
    <2>6. /\ y \in Seq(Seq(Char)) /\ Len(y) = Len(typed) + 1
          /\ y[Len(typed) + 1] = a.line /\ \A i \in 1..Len(typed) : y[i] = typed[i].line
      BY <2>3, <2>4, AppendProperties
    <2> HIDE DEF x, y
    <2>7. \A i \in 1..Len(x) : x[i] = y[i]
      <3> SUFFICES ASSUME NEW i \in 1..(Len(typed) + 1) PROVE x[i] = y[i]
        BY <2>5
      <3>1. i \in 1..Len(typed) \/ i = Len(typed) + 1
        BY <2>2
      <3> QED BY <3>1, <2>2, <2>5, <2>6
    <2>8. x = y
      BY <2>5, <2>6, <2>7, SeqEqual
    <2> QED BY <2>1, <2>8 DEF y
  <1>11. Lines(acts) \in Seq(Seq(Char))
    BY <1>1, <1>7, <1>9
  <1> QED BY <1>8, <1>10, <1>11

\* A line while it is typed, and the lines before it.
Edited == [line : Seq(Char), lines : Seq(Seq(Char))]

Entered(e) ==
  [line  |-> << >>,
   lines |-> IF e.line = << >> \/ is_terminal_noise_or_navigation(e.line)
             THEN e.lines ELSE Append(e.lines, e.line)]

\* What a character does to them.
Edit ==
  [e \in Edited |-> [c \in Char |->
     IF c = "enter" THEN Entered(e)
     ELSE [line  |-> IF c # "backspace" THEN Append(e.line, c)
                     ELSE IF e.line = << >> THEN << >> ELSE Front(e.line),
           lines |-> e.lines]]]

\* Of a state of the reconstructor, the lines.
Shape(t) == [line |-> t.line, lines |-> Lines(t.activities)]

\* What a character does to a line.
LEMMA EditTurn ==
  ASSUME NEW e \in Edited, NEW c \in Char
  PROVE  Edit[e][c] = IF c = "enter" THEN Entered(e)
                      ELSE [line  |-> IF c # "backspace" THEN Append(e.line, c)
                                      ELSE IF e.line = << >> THEN << >> ELSE Front(e.line),
                            lines |-> e.lines]
  BY Zenon DEF Edit

\* The lines of a state are lines.
LEMMA ShapeType ==
  ASSUME NEW t \in State
  PROVE  /\ Shape(t) \in Edited
         /\ Shape(t).line = t.line /\ Shape(t).lines = Lines(t.activities)
  <1>1. t.line \in Seq(Char) /\ t.activities \in Seq(AnyActivity)
    BY DEF State, AnyActivity
  <1>2. Lines(t.activities) \in Seq(Seq(Char))
    BY <1>1, LinesAppend
  <1> QED BY <1>1, <1>2 DEF Shape, Edited

\* Activities that are new were typed until event m, in a line begun at one of the
\* starts.
Grown(t, r, m, starts) ==
  \A a : Has(r.activities, a) =>
           \/ Has(t.activities, a)
           \/ a \in TypedActivity /\ a.done = m /\ a.at \in starts /\ a.at # 0

\* A line is dated.
Dated(t) == t.line # << >> => t.start # 0

\* r comes from t by what is typed during event m.
Typing(t, r, m) ==
  /\ r \in State
  /\ r.start \in {0, t.start, m}
  /\ Dated(r)
  /\ Grown(t, r, m, {t.start, m})

\* A line that is over becomes an activity, unless it is empty or noise.
LEMMA FlushTurn ==
  ASSUME NEW t \in State, NEW m \in Nat, Dated(t)
  PROVE  LET r == flush_line_buffer(t, m) IN
         /\ Typing(t, r, m)
         /\ Grown(t, r, m, {t.start})
         /\ r.raw = t.raw /\ r.line = << >> /\ r.start = 0
         /\ Shape(r) = Entered(Shape(t))
  <1> DEFINE r == flush_line_buffer(t, m)
             over == t.line = << >> \/ is_terminal_noise_or_navigation(t.line)
             kind == IF t.ai THEN "AiPrompt" ELSE "Command"
             new == Activity(kind, t.line, t.start, m)
  <1>1. /\ t.line \in Seq(Char) /\ t.start \in Nat /\ t.activities \in Seq(AnyActivity)
        /\ << >> \in Seq(Char) /\ 0 \in Nat
    BY DEF State, AnyActivity
  <1>2. new \in TypedActivity /\ new.line = t.line /\ new.at = t.start /\ new.done = m
    <2>1. kind \in ActivityKind
      BY DEF ActivityKind
    <2> HIDE DEF kind
    <2> QED BY <1>1, <2>1 DEF Activity, TypedActivity
  <1>3. new \in AnyActivity
    BY <1>2 DEF AnyActivity
  <1>4. r = [t EXCEPT !.line = << >>, !.start = 0,
                      !.activities = IF over THEN t.activities ELSE Append(t.activities, new)]
    BY DEF flush_line_buffer
  <1> HIDE DEF r, over, new
  <1>5. (IF over THEN t.activities ELSE Append(t.activities, new)) \in Seq(AnyActivity)
    BY <1>1, <1>3, AppendProperties
  <1>6. /\ r \in State /\ r.raw = t.raw /\ r.start = 0 /\ r.line = << >>
        /\ r.activities = IF over THEN t.activities ELSE Append(t.activities, new)
    BY <1>1, <1>4, <1>5 DEF State, AnyActivity
  <1>7. Grown(t, r, m, {t.start})
    <2>1. \A a : Has(Append(t.activities, new), a) <=> Has(t.activities, a) \/ new = a
      BY <1>1, <1>3, HasAppend
    <2>2. ~over => t.line # << >>
      BY DEF over
    <2>3. ~over => new.at # 0
      BY <1>2, <2>2 DEF Dated
    <2> QED BY <1>2, <1>6, <2>1, <2>3 DEF Grown
  <1>8. Lines(r.activities) = IF over THEN Lines(t.activities) ELSE Append(Lines(t.activities), t.line)
    BY <1>1, <1>2, <1>6, LinesAppend
  <1>9. Shape(r) = Entered(Shape(t))
    BY <1>6, <1>8 DEF Shape, Entered, over
  <1>10. Typing(t, r, m)
    BY <1>6, <1>7 DEF Typing, Dated, Grown
  <1> QED BY <1>6, <1>7, <1>9, <1>10 DEF r

\* What a character does to the reconstructor.
LEMMA TypeTurn ==
  ASSUME NEW t \in State, NEW c \in Char, NEW m \in Nat \ {0}, Dated(t)
  PROVE  LET r == TypeChar(m)[t][c] IN
         /\ Typing(t, r, m) /\ r.raw = t.raw
         /\ Shape(r) = Edit[Shape(t)][c]
         /\ c = "enter" => r.start = 0
  <1> DEFINE b == [t EXCEPT !.start = IF t.start = 0 THEN m ELSE t.start]
             r == TypeChar(m)[t][c]
  <1>1. r = CASE c = "enter"     -> flush_line_buffer(b, m)
              [] c = "backspace" -> [b EXCEPT !.line = IF b.line = << >> THEN b.line ELSE Front(b.line)]
              [] OTHER           -> [b EXCEPT !.line = Append(b.line, c)]
    BY Zenon DEF TypeChar
  <1>2. /\ t.line \in Seq(Char) /\ t.start \in Nat /\ t.activities \in Seq(AnyActivity)
        /\ m \in Nat /\ m # 0
    BY DEF State, AnyActivity
  <1>3. /\ b \in State /\ b.raw = t.raw /\ b.line = t.line /\ b.activities = t.activities
        /\ b.start = (IF t.start = 0 THEN m ELSE t.start) /\ b.start # 0 /\ b.start \in {t.start, m}
    BY <1>2 DEF State
  <1>4. Shape(b) = Shape(t)
    BY <1>3 DEF Shape
  <1>5. Shape(t) \in Edited /\ Shape(t).line = t.line /\ Shape(t).lines = Lines(t.activities)
    BY ShapeType
  <1> HIDE DEF b, r
  <1>6. CASE c = "enter"
    <2>1. r = flush_line_buffer(b, m)
      BY <1>1, <1>6
    <2>2. Typing(b, r, m) /\ r.raw = b.raw /\ r.start = 0 /\ Shape(r) = Entered(Shape(b))
      <3>1. Dated(b)
        BY <1>3 DEF Dated
      <3> QED BY <1>2, <1>3, <2>1, <3>1, FlushTurn
    <2>3. Grown(t, r, m, {t.start, m})
      BY <1>3, <2>2 DEF Grown, Typing
    <2>4. Typing(t, r, m)
      BY <1>3, <2>2, <2>3 DEF Typing
    <2>5. Shape(r) = Edit[Shape(t)][c]
      BY <1>4, <1>5, <1>6, <2>2, EditTurn
    <2> QED BY <1>3, <2>2, <2>4, <2>5 DEF r
  <1>7. CASE c # "enter"
    <2> DEFINE line == IF c # "backspace" THEN Append(t.line, c)
                       ELSE IF t.line = << >> THEN << >> ELSE Front(t.line)
    <2>1. r = [b EXCEPT !.line = line]
      BY <1>1, <1>3, <1>7
    <2>2. line \in Seq(Char)
      <3>1. Append(t.line, c) \in Seq(Char)
        BY <1>2
      <3>2. t.line # << >> => Front(t.line) \in Seq(Char)
        BY <1>2 DEF Front
      <3> QED BY <3>1, <3>2
    <2> HIDE DEF line
    <2>3. /\ r \in State /\ r.raw = b.raw /\ r.start = b.start /\ r.activities = b.activities
          /\ r.line = line
      BY <1>3, <2>1, <2>2 DEF State
    <2>4. Typing(t, r, m)
      <3>1. Grown(t, r, m, {t.start, m}) /\ Dated(r)
        BY <1>3, <2>3 DEF Grown, Dated
      <3> QED BY <1>3, <2>3, <3>1 DEF Typing
    <2>5. Shape(r) = [line |-> line, lines |-> Lines(t.activities)]
      BY <1>3, <2>3 DEF Shape
    <2>6. Edit[Shape(t)][c] = [line |-> line, lines |-> Lines(t.activities)]
      BY <1>5, <1>7, EditTurn DEF line
    <2> QED BY <1>3, <1>7, <2>3, <2>4, <2>5, <2>6 DEF r
  <1> QED BY <1>6, <1>7

\* What was typed in two turns was typed in both.
LEMMA TypingTwice ==
  ASSUME NEW t, NEW r, NEW u, NEW m, Typing(t, r, m), Typing(r, u, m)
  PROVE  Typing(t, u, m)
  BY DEF Typing, Grown

\* What a text does to the reconstructor.
LEMMA TypedAll ==
  ASSUME NEW t \in State, NEW m \in Nat \ {0}, Dated(t)
  PROVE  \A q \in Seq(Char) :
           LET r == Fold(TypeChar(m), t, q) IN
           /\ Typing(t, r, m) /\ r.raw = t.raw
           /\ Shape(r) = Fold(Edit, Shape(t), q)
           /\ Has(q, "enter") => r.start \in {0, m}
           /\ Ends(q, "enter") => r.start = 0
  <1> DEFINE R(q) == Fold(TypeChar(m), t, q)
             P(q, r) == /\ Typing(t, r, m) /\ r.raw = t.raw
                        /\ Shape(r) = Fold(Edit, Shape(t), q)
                        /\ Has(q, "enter") => r.start \in {0, m}
                        /\ Ends(q, "enter") => r.start = 0
             G == {q \in Seq(Char) : P(q, R(q))}
  <1>1. << >> \in G
    <2>1. Fold(TypeChar(m), t, << >>) = t /\ Fold(Edit, Shape(t), << >>) = Shape(t)
      BY FoldEmpty
    <2>2. ~Has(<< >>, "enter") /\ ~Ends(<< >>, "enter")
      BY DEF Has, Ends
    <2>3. Typing(t, t, m)
      BY DEF Typing, Grown
    <2> QED BY <2>1, <2>2, <2>3
  <1>2. ASSUME NEW q \in Seq(Char), q \in G, NEW c \in Char
        PROVE  Append(q, c) \in G
    <2> DEFINE r == R(q)
               u == TypeChar(m)[r][c]
    <2>1. R(Append(q, c)) = u /\ Append(q, c) \in Seq(Char)
      BY FoldAppend, AppendProperties
    <2>2. Fold(Edit, Shape(t), Append(q, c)) = Edit[Fold(Edit, Shape(t), q)][c]
      BY FoldAppend
    <2>3. P(q, r)
      BY <1>2
    <2> HIDE DEF r
    <2>4. r \in State /\ Dated(r)
      BY <2>3 DEF Typing
    <2>5. /\ Typing(r, u, m) /\ u.raw = r.raw
          /\ Shape(u) = Edit[Shape(r)][c]
          /\ c = "enter" => u.start = 0
      BY <2>4, TypeTurn
    <2>6. /\ Has(Append(q, c), "enter") <=> Has(q, "enter") \/ c = "enter"
          /\ Ends(Append(q, c), "enter") <=> c = "enter"
      BY HasAppend
    <2> HIDE DEF u
    <2>7. Typing(t, u, m)
      BY <2>3, <2>5, TypingTwice
    <2>8. u.start \in {0, r.start, m}
      BY <2>5 DEF Typing
    <2>9. P(Append(q, c), u)
      BY <2>2, <2>3, <2>5, <2>6, <2>7, <2>8
    <2> HIDE DEF P, R
    <2> QED BY <2>1, <2>9
  <1> HIDE DEF G
  <1>3. \A q \in Seq(Char) : q \in G
    BY <1>1, <1>2, EverySequence
  <1> QED BY <1>3 DEF G
--------------------------------------------------------------------------------
(* What was typed, by position and by line *)

\* Enter is in what the sanitizer leaves, where it was typed.
LEMMA SanitizeEnter ==
  \A q \in Seq(Char) :
    /\ sanitize_terminal_text(q) \in Seq(Char)
    /\ Has(q, "enter") => Has(sanitize_terminal_text(q), "enter")
    /\ Ends(q, "enter") => Ends(sanitize_terminal_text(q), "enter")
  <1> DEFINE P(q, out) == /\ out \in Seq(Char)
                          /\ Has(q, "enter") => Has(out, "enter")
                          /\ Ends(q, "enter") => Ends(out, "enter")
             G == {q \in Seq(Char) : P(q, Sanitizer(q).out)}
  <1>1. << >> \in G
    <2>1. ~Has(<< >>, "enter") /\ ~Ends(<< >>, "enter")
      BY DEF Has, Ends
    <2>2. Sanitizer(<< >>).out = << >>
      BY SanitizerAppend DEF NothingRead
    <2>3. P(<< >>, << >>)
      BY <2>1
    <2> HIDE DEF P
    <2> QED BY <2>2, <2>3
  <1>2. ASSUME NEW q \in Seq(Char), q \in G, NEW c \in Char
        PROVE  Append(q, c) \in G
    <2> DEFINE a == Sanitizer(q)
               d == Sanitize[a][c]
    <2>1. Sanitizer(Append(q, c)) = d /\ a \in Sanitized /\ Append(q, c) \in Seq(Char)
      BY SanitizerAppend, AppendProperties
    <2>2. P(q, a.out)
      BY <1>2
    <2> HIDE DEF a
    <2>3. /\ d \in Sanitized
          /\ d.out = IF c = "esc" \/ Continues(a.place, c) THEN a.out ELSE Append(a.out, c)
      BY <2>1, SanitizeTurn
    <2>4. d.out \in Seq(Char) /\ a.out \in Seq(Char)
      BY <2>1, <2>3 DEF Sanitized
    <2>5. c = "enter" => d.out = Append(a.out, c)
      BY <2>3 DEF Continues
    <2>6. /\ Has(Append(q, c), "enter") <=> Has(q, "enter") \/ c = "enter"
          /\ Ends(Append(q, c), "enter") <=> c = "enter"
      BY HasAppend
    <2>7. /\ Has(Append(a.out, c), "enter") <=> Has(a.out, "enter") \/ c = "enter"
          /\ Ends(Append(a.out, c), "enter") <=> c = "enter"
      BY <2>4, HasAppend
    <2> HIDE DEF d
    <2>8. P(Append(q, c), d.out)
      BY <2>2, <2>3, <2>4, <2>5, <2>6, <2>7
    <2> QED BY <2>1, <2>8
  <1> HIDE DEF G
  <1>3. \A q \in Seq(Char) : q \in G
    BY <1>1, <1>2, EverySequence
  <1>4. \A q \in Seq(Char) : P(q, sanitize_terminal_text(q))
    BY <1>3, SanitizerAppend DEF G
  <1> QED BY <1>4

\* What a text that is sanitized does to the reconstructor.
LEMMA ProcessText ==
  ASSUME NEW t \in State, NEW m \in Nat \ {0}, Dated(t), NEW text \in Seq(Char)
  PROVE  LET r == process_typed_chars(t, text, m) IN
         /\ Typing(t, r, m) /\ r.raw = t.raw
         /\ Shape(r) = Fold(Edit, Shape(t), sanitize_terminal_text(text))
         /\ Has(text, "enter") => r.start \in {0, m}
         /\ Ends(text, "enter") => r.start = 0
  BY SanitizeEnter, TypedAll DEF process_typed_chars

Nothing == [line |-> << >>, lines |-> << >>]

\* The lines of a text.
Written(text) == Fold(Edit, Nothing, sanitize_terminal_text(text))

\* The lines of two texts, unless an escape sequence is cut.
LEMMA WrittenOn ==
  ASSUME NEW a \in Seq(Char), NEW b \in Seq(Char),
         b # << >> => ~Continues(Place(a), b[1])
  PROVE  Fold(Edit, Written(a), sanitize_terminal_text(b)) = Written(a \o b)
  <1>1. sanitize_terminal_text(a) \in Seq(Char) /\ sanitize_terminal_text(b) \in Seq(Char)
    BY SanitizeEnter
  <1>2. sanitize_terminal_text(a \o b) = sanitize_terminal_text(a) \o sanitize_terminal_text(b)
    BY SanitizeConcat
  <1> QED BY <1>1, <1>2, FoldConcat DEF Written

\* An empty text is sanitized to an empty one.
LEMMA WrittenEmpty ==
  sanitize_terminal_text(<< >>) = << >> /\ Written(<< >>) = Nothing
  <1>1. << >> \in Seq(Char)
    OBVIOUS
  <1>2. sanitize_terminal_text(<< >>) = << >>
    <2>1. Sanitizer(<< >>).out = << >>
      BY SanitizerAppend DEF NothingRead
    <2> QED BY <1>1, <2>1, SanitizerAppend
  <1> QED BY <1>2, FoldEmpty DEF Written

\* No byte and the first of two are UTF-8, as far as they go.
LEMMA Utf8Short ==
  /\ Utf8(<< >>) /\ Utf8(<<"lead">>)
  /\ ~Ends(<< >>, "lead") /\ Ends(<<"lead">>, "lead")
  /\ << >> \in Seq(Byte) /\ <<"lead">> \in Seq(Byte) /\ <<"lead">> # << >>
  <1>1. "lead" \in Byte
    BY DEF Byte
  <1> QED BY <1>1 DEF Utf8, Ends

\* UTF-8 is read as a text.
LEMMA LossyType ==
  /\ \A bytes \in Seq(Byte) : Utf8(bytes) => from_utf8_lossy(bytes) \in Seq(Char)
  /\ from_utf8_lossy(<< >>) = << >>
  /\ from_utf8_lossy(<<"lead">>) = <<"bad">>
  <1>1. "bad" \in Char
    BY DEF Char
  <1>2. \A bytes \in Seq(Byte) : from_utf8(bytes).text \in Seq(Char)
    BY DecodedType DEF Decoded
  <1>3. ASSUME NEW bytes \in Seq(Byte), Utf8(bytes)
        PROVE  from_utf8_lossy(bytes) \in Seq(Char)
    <2>1. Append(from_utf8(bytes).text, "bad") \in Seq(Char)
      BY <1>1, <1>2
    <2> QED BY <1>2, <1>3, <2>1, LossyUtf8
  <1>4. Append(<< >>, "bad") = <<"bad">>
    OBVIOUS
  <1>5. from_utf8_lossy(<< >>) = << >>
    BY Utf8Short, LossyUtf8, DecodeRest
  <1>6. from_utf8_lossy(<<"lead">>) = <<"bad">>
    BY <1>4, Utf8Short, LossyUtf8, DecodeRest
  <1> QED BY <1>3, <1>5, <1>6

\* The first character of a text is its first byte, unless that is one of two.
LEMMA DecodeFirst ==
  \A q \in Seq(Byte) :
    Utf8(q) /\ from_utf8(q).text # << >> =>
      /\ q # << >>
      /\ from_utf8(q).text[1] = IF q[1] = "lead" THEN "wide" ELSE q[1]
  <1> DEFINE P(q, text) ==
               Utf8(q) => /\ text = << >> => q = << >> \/ (Len(q) = 1 /\ q[1] = "lead")
                          /\ text # << >> => /\ q # << >>
                                             /\ text[1] = IF q[1] = "lead" THEN "wide" ELSE q[1]
             G == {q \in Seq(Byte) : P(q, from_utf8(q).text)}
  <1>1. << >> \in G
    <2>1. from_utf8(<< >>).text = << >>
      BY DecodeRest
    <2>2. P(<< >>, << >>)
      OBVIOUS
    <2> HIDE DEF P
    <2> QED BY <2>1, <2>2
  <1>2. ASSUME NEW q \in Seq(Byte), q \in G, NEW b \in Byte
        PROVE  Append(q, b) \in G
    <2> DEFINE d == from_utf8(q)
               e == Decode[d][b]
               more == Append(q, b)
    <2>1. /\ more \in Seq(Byte) /\ more # << >> /\ Len(more) = Len(q) + 1 /\ Len(q) \in Nat
          /\ \A i \in 1..Len(q) : more[i] = q[i]
          /\ more[Len(q) + 1] = b
      BY AppendProperties, LenProperties
    <2> SUFFICES ASSUME Utf8(more) PROVE P(more, from_utf8(more).text)
      BY <2>1
    <2>2. Utf8(q) /\ (b = "trail" <=> Ends(q, "lead"))
      BY Utf8Append
    <2>3. P(q, d.text)
      BY <1>2
    <2>4. from_utf8(more) = e /\ d \in Decoded
      BY DecodedAppend, DecodedType
    <2>5. d.is = "valid" /\ d.rest = IF Ends(q, "lead") THEN <<"lead">> ELSE << >>
      BY <2>2, DecodeUtf8
    <2>6. d.text \in Seq(Char) /\ <<"lead">> # << >>
      BY <2>4 DEF Decoded
    <2>7. q # << >> => more[1] = q[1] /\ Len(q) # 0
      <3>1. q # << >> => Len(q) \in Nat \ {0}
        BY EmptySeq
      <3> QED BY <2>1, <3>1
    <2>8. q = << >> => more[1] = b /\ Len(more) = 1
      BY <2>1, EmptySeq
    <2>9. \A c \in Char : /\ Append(d.text, c) # << >>
                          /\ d.text = << >> => Append(d.text, c)[1] = c
                          /\ d.text # << >> => Append(d.text, c)[1] = d.text[1]
      <3> SUFFICES ASSUME NEW text \in Seq(Char), NEW c \in Char
                   PROVE  /\ Append(text, c) # << >>
                          /\ text = << >> => Append(text, c)[1] = c
                          /\ text # << >> => Append(text, c)[1] = text[1]
        BY <2>6
      <3>1. text # << >> => Len(text) \in Nat \ {0}
        BY EmptySeq
      <3> QED BY <3>1, AppendProperties
    <2>10. Len(q) = 1 => (Ends(q, "lead") <=> q[1] = "lead")
      BY EmptySeq DEF Ends
    <2> HIDE DEF d, more
    <2>11. CASE b = "trail"
      <3>1. e.text = Append(d.text, "wide") /\ "wide" \in Char
        BY <2>2, <2>4, <2>5, <2>6, <2>11, DecodeTrail DEF Char
      <3>2. q # << >>
        BY <2>2, <2>11 DEF Ends
      <3> HIDE DEF e
      <3>3. P(more, e.text)
        BY <2>1, <2>2, <2>3, <2>7, <2>9, <3>1, <3>2
      <3> QED BY <2>4, <3>3
    <2>12. CASE b = "lead"
      <3>1. e.text = d.text
        BY <2>2, <2>4, <2>5, <2>12, DecodeLead
      <3>2. ~Ends(q, "lead")
        BY <2>2, <2>12
      <3> HIDE DEF e
      <3>3. P(more, e.text)
        BY <2>1, <2>2, <2>3, <2>7, <2>8, <2>10, <2>12, <3>1, <3>2
      <3> QED BY <2>4, <3>3
    <2>13. CASE b \notin {"lead", "trail"}
      <3>1. e.text = Append(d.text, b) /\ b \in Char
        BY <2>2, <2>4, <2>5, <2>13, DecodeChar DEF Char
      <3>2. ~Ends(q, "lead")
        BY <2>2, <2>13
      <3> HIDE DEF e
      <3>3. P(more, e.text)
        BY <2>1, <2>2, <2>3, <2>7, <2>8, <2>9, <2>10, <2>13, <3>1, <3>2
      <3> QED BY <2>4, <3>3
    <2> QED BY <2>11, <2>12, <2>13
  <1> HIDE DEF G
  <1>3. \A q \in Seq(Byte) : q \in G
    BY <1>1, <1>2, EverySequence
  <1> QED BY <1>3 DEF G
--------------------------------------------------------------------------------
(* Handlers *)

\* t has read bytes, and keeps the first byte of a character that is unfinished.
Reads(t, bytes) ==
  /\ t.raw = from_utf8(bytes).rest
  /\ Shape(t) = Written(from_utf8(bytes).text)

\* t has read bytes to their end.
ReadsAll(t, bytes) ==
  /\ t.raw = << >>
  /\ Shape(t) = Written(from_utf8_lossy(bytes))

\* How start depends on the last of the bytes that were read during event m.
Starts(r, data, m) ==
  /\ Has(data, "enter") => r.start \in {0, m}
  /\ Ends(data, "enter") => r.start = 0

\* At the end of an event, bytes may end within a character.
LEMMA Utf8Parts ==
  ASSUME NEW bytes \in Seq(Byte), Utf8(bytes)
  PROVE  /\ from_utf8(bytes).text \in Seq(Char)
         /\ from_utf8_lossy(bytes) \in Seq(Char)
         /\ from_utf8(bytes).rest = IF Ends(bytes, "lead") THEN <<"lead">> ELSE << >>
         /\ from_utf8_lossy(bytes) = IF Ends(bytes, "lead")
                                     THEN Append(from_utf8(bytes).text, "bad")
                                     ELSE from_utf8(bytes).text
         /\ from_utf8_lossy(bytes) = from_utf8(bytes).text \o from_utf8_lossy(from_utf8(bytes).rest)
  <1> DEFINE text == from_utf8(bytes).text
             rest == from_utf8(bytes).rest
             all == from_utf8_lossy(bytes)
  <1>1. text \in Seq(Char)
    BY DecodedType DEF Decoded
  <1>2. all \in Seq(Char)
    BY LossyType
  <1>3. rest = IF Ends(bytes, "lead") THEN <<"lead">> ELSE << >>
    BY DecodeUtf8
  <1>4. all = IF Ends(bytes, "lead") THEN Append(text, "bad") ELSE text
    BY LossyUtf8
  <1>5. text \o << >> = text /\ text \o <<"bad">> = Append(text, "bad")
    <2> HIDE DEF text
    <2>1. "bad" \in Char
      BY DEF Char
    <2>2. text \o << >> = text
      BY <1>1, ConcatEmptySeq
    <2>3. text \o <<"bad">> = Append(text, "bad")
      BY <1>1, <2>1, AppendIsConcat
    <2> QED BY <2>2, <2>3
  <1>6. all = text \o from_utf8_lossy(rest)
    <2> HIDE DEF text, rest, all
    <2>1. CASE Ends(bytes, "lead")
      BY <1>3, <1>4, <1>5, <2>1, LossyType
    <2>2. CASE ~Ends(bytes, "lead")
      BY <1>3, <1>4, <1>5, <2>2, LossyType
    <2> QED BY <2>1, <2>2
  <1> QED BY <1>1, <1>2, <1>3, <1>4, <1>6

\* More bytes have the enters that they have.
LEMMA HasConcat ==
  ASSUME NEW S, NEW a \in Seq(S), NEW b \in Seq(S), NEW x
  PROVE  /\ Has(b, x) => Has(a \o b, x)
         /\ b # << >> => (Ends(a \o b, x) <=> Ends(b, x))
  <1>1. Len(a) \in Nat /\ Len(b) \in Nat /\ (b # << >> => Len(b) # 0)
    BY LenProperties, EmptySeq
  <1>2. /\ Len(a \o b) = Len(a) + Len(b)
        /\ \A i \in 1..(Len(a) + Len(b)) :
             (a \o b)[i] = IF i <= Len(a) THEN a[i] ELSE b[i - Len(a)]
    BY ConcatProperties
  <1>3. \A i \in 1..Len(b) : (a \o b)[Len(a) + i] = b[i]
    BY <1>1, <1>2
  <1>4. Has(b, x) => Has(a \o b, x)
    <2> SUFFICES ASSUME NEW i \in 1..Len(b), b[i] = x PROVE \E k \in 1..Len(a \o b) : (a \o b)[k] = x
      BY DEF Has
    <2>1. Len(a) + i \in 1..Len(a \o b)
      BY <1>1, <1>2
    <2> QED BY <1>3, <2>1
  <1>5. b # << >> => (Ends(a \o b, x) <=> Ends(b, x))
    <2> SUFFICES ASSUME b # << >> PROVE Ends(a \o b, x) <=> Ends(b, x)
      OBVIOUS
    <2>1. Len(b) \in 1..Len(b) /\ a \o b # << >>
      BY <1>1, <1>2
    <2>2. (a \o b)[Len(a \o b)] = b[Len(b)]
      BY <1>2, <1>3, <2>1
    <2> QED BY <2>1, <2>2 DEF Ends
  <1> QED BY <1>4, <1>5

\* What is left of the bytes is UTF-8 with the bytes that follow.
LEMMA Utf8Rest ==
  ASSUME NEW bytes \in Seq(Byte), NEW data \in Seq(Byte), data # << >>,
         Utf8(bytes), Utf8(data) \/ Ends(bytes, "lead"), Utf8(bytes \o data)
  PROVE  Utf8(from_utf8(bytes).rest \o data)
  <1> DEFINE rest == from_utf8(bytes).rest
             all == bytes \o data
  <1>1. rest = IF Ends(bytes, "lead") THEN <<"lead">> ELSE << >>
    BY DecodeUtf8
  <1>2. CASE ~Ends(bytes, "lead")
    <2>1. rest \o data = data
      BY <1>1, <1>2, ConcatEmptySeq
    <2> QED BY <1>2, <2>1
  <1>3. CASE Ends(bytes, "lead")
    <2> DEFINE n == Len(bytes)
               more == <<"lead">> \o data
    <2>1. rest \o data = more
      BY <1>1, <1>3
    <2>2. /\ n \in Nat /\ Len(data) \in Nat /\ bytes[n] = "lead" /\ n # 0
          /\ Len(all) = n + Len(data)
          /\ \A i \in 1..(n + Len(data)) : all[i] = IF i <= n THEN bytes[i] ELSE data[i - n]
      <3>1. n \in Nat \ {0} /\ Len(data) \in Nat
        BY <1>3, EmptySeq, LenProperties DEF Ends
      <3>2. /\ Len(all) = n + Len(data)
            /\ \A i \in 1..(n + Len(data)) : all[i] = IF i <= n THEN bytes[i] ELSE data[i - n]
        BY ConcatProperties
      <3> QED BY <1>3, <3>1, <3>2 DEF Ends
    <2>3. /\ Len(more) = 1 + Len(data)
          /\ \A i \in 1..(1 + Len(data)) : more[i] = IF i = 1 THEN "lead" ELSE data[i - 1]
      <3>1. "lead" \in Byte
        BY DEF Byte
      <3>2. <<"lead">> \in Seq(Byte) /\ Len(<<"lead">>) = 1 /\ <<"lead">>[1] = "lead"
        BY <3>1
      <3>3. /\ Len(more) = Len(<<"lead">>) + Len(data)
            /\ \A i \in 1..(Len(<<"lead">>) + Len(data)) :
                 more[i] = IF i <= Len(<<"lead">>) THEN <<"lead">>[i] ELSE data[i - Len(<<"lead">>)]
        BY <3>2, ConcatProperties
      <3> HIDE DEF more
      <3>4. \A i \in 1..(1 + Len(data)) : i <= 1 <=> i = 1
        OBVIOUS
      <3> QED BY <2>2, <3>2, <3>3, <3>4
    <2>4. \A i \in 1..(1 + Len(data)) : more[i] = all[i + (n - 1)] /\ i + (n - 1) \in 1..Len(all)
      <3> HIDE DEF more, all, n
      <3> SUFFICES ASSUME NEW i \in 1..(1 + Len(data))
                   PROVE  more[i] = all[i + (n - 1)] /\ i + (n - 1) \in 1..Len(all)
        OBVIOUS
      <3>1. i + (n - 1) \in 1..(n + Len(data)) /\ (i + (n - 1)) - n = i - 1
        BY <2>2
      <3>2. i + (n - 1) <= n <=> i = 1
        BY <2>2
      <3>3. i = 1 => i + (n - 1) = n
        BY <2>2
      <3> QED BY <2>2, <2>3, <3>1, <3>2, <3>3
    <2>5. \A i \in 1..Len(all) : all[i] = "trail" <=> i > 1 /\ all[i - 1] = "lead"
      BY DEF Utf8
    <2> HIDE DEF more, all, n
    <2>6. ASSUME NEW i \in 1..Len(more)
          PROVE  more[i] = "trail" <=> i > 1 /\ more[i - 1] = "lead"
      <3>1. i \in 1..(1 + Len(data))
        BY <2>3
      <3>2. CASE i = 1
        BY <2>3, <3>1, <3>2
      <3>3. CASE i # 1
        <4>1. i - 1 \in 1..(1 + Len(data)) /\ i > 1 /\ i + (n - 1) > 1
              /\ (i - 1) + (n - 1) = (i + (n - 1)) - 1
          BY <2>2, <3>1, <3>3
        <4>2. more[i] = all[i + (n - 1)] /\ more[i - 1] = all[(i + (n - 1)) - 1] /\ i + (n - 1) \in 1..Len(all)
          BY <2>4, <3>1, <4>1
        <4> QED BY <2>5, <4>1, <4>2
      <3> QED BY <3>2, <3>3
    <2>7. Utf8(more)
      BY <2>6 DEF Utf8
    <2> QED BY <2>1, <2>7
  <1> QED BY <1>2, <1>3

\* KeystrokeInput goes on where the bytes end.
LEMMA KeysRead ==
  ASSUME NEW t \in State, NEW m \in Nat \ {0}, Dated(t),
         NEW bytes \in Seq(Byte), NEW data \in Seq(Byte), data # << >>,
         Utf8(bytes), Utf8(bytes \o data), Utf8(data) \/ Ends(bytes, "lead"),
         Reads(t, bytes), ~Continues(Place(bytes), data[1])
  PROVE  LET r == Keys(t, data, m) IN
         /\ Typing(t, r, m) /\ Reads(r, bytes \o data) /\ Starts(r, data, m)
  <1> DEFINE rest == from_utf8(bytes).rest
             text == from_utf8(bytes).text
             next == rest \o data
             more == from_utf8(next).text
             all == bytes \o data
             p == process_typed_chars(t, more, m)
             r == Keys(t, data, m)
  <1>1. /\ text \in Seq(Char) /\ rest = IF Ends(bytes, "lead") THEN <<"lead">> ELSE << >>
    BY Utf8Parts
  <1>2. rest \in Seq(Byte) /\ next \in Seq(Byte) /\ all \in Seq(Byte)
    <2>1. rest \in Seq(Byte)
      BY DecodedType DEF Decoded
    <2> QED BY <2>1, ConcatProperties
  <1>3. Utf8(next)
    BY Utf8Rest
  <1>4. /\ from_utf8(all).text = text \o more
        /\ from_utf8(all).rest = from_utf8(next).rest
    BY DecodeOn
  <1>5. more \in Seq(Char) /\ from_utf8(next).rest \in Seq(Byte)
    BY <1>2, DecodedType DEF Decoded
  <1>6. /\ Typing(t, p, m)
        /\ Shape(p) = Fold(Edit, Shape(t), sanitize_terminal_text(more))
        /\ Has(more, "enter") => p.start \in {0, m}
        /\ Ends(more, "enter") => p.start = 0
    BY <1>5, ProcessText
  <1>7. r = [p EXCEPT !.raw = from_utf8(next).rest]
    BY DEF Keys, Reads
  <1>8. more # << >> => ~Continues(Place(text), more[1])
    <2> SUFFICES ASSUME more # << >>, Continues(Place(text), more[1]) PROVE FALSE
      OBVIOUS
    <2>1. more[1] \in {"letter", "["}
      BY DEF Continues
    <2>2. more[1] = IF next[1] = "lead" THEN "wide" ELSE next[1]
      BY <1>2, <1>3, DecodeFirst
    <2> HIDE DEF more
    <2>3. next[1] = more[1] /\ next[1] # "lead"
      BY <2>1, <2>2
    <2>4. ~Ends(bytes, "lead")
      <3> SUFFICES ASSUME Ends(bytes, "lead") PROVE FALSE
        OBVIOUS
      <3>1. rest = <<"lead">>
        BY <1>1
      <3>2. Len(<<"lead">>) = 1 /\ <<"lead">>[1] = "lead"
        OBVIOUS
      <3>3. 1 \in 1..(Len(rest) + Len(data)) /\ 1 <= Len(rest) /\ rest[1] = "lead"
        <4>1. Len(data) \in Nat
          BY LenProperties
        <4> QED BY <3>1, <3>2, <4>1
      <3>4. next[1] = rest[1]
        BY <1>2, <3>3, ConcatProperties
      <3> QED BY <2>3, <3>3, <3>4
    <2>5. next = data
      BY <1>1, <2>4, ConcatEmptySeq
    <2>6. Place(bytes) = Place(text)
      BY <2>4, PlaceUtf8
    <2> QED BY <2>3, <2>5, <2>6
  <1>9. Shape(p) = Written(text \o more)
    <2>1. Shape(t) = Written(text)
      BY DEF Reads
    <2>2. Fold(Edit, Written(text), sanitize_terminal_text(more)) = Written(text \o more)
      BY <1>1, <1>5, <1>8, WrittenOn
    <2> QED BY <1>6, <2>1, <2>2
  <1>10. /\ Has(data, "enter") => Has(more, "enter")
         /\ Ends(data, "enter") => Ends(more, "enter")
    <2>1. /\ Has(data, "enter") => Has(next, "enter")
          /\ Ends(data, "enter") => Ends(next, "enter")
      BY <1>2, HasConcat
    <2> QED BY <1>2, <1>3, <2>1, DecodeEnter
  <1> HIDE DEF p, r, more, next, all, text
  <1>11. p \in State
    BY <1>6 DEF Typing
  <1>12. /\ r \in State /\ r.raw = from_utf8(next).rest /\ r.line = p.line /\ r.start = p.start
         /\ r.activities = p.activities
    BY <1>5, <1>7, <1>11 DEF State
  <1>13. Typing(t, r, m)
    BY <1>6, <1>12 DEF Typing, Dated, Grown
  <1>14. Reads(r, all)
    BY <1>4, <1>9, <1>12 DEF Reads, Shape
  <1>15. Starts(r, data, m)
    BY <1>6, <1>10, <1>12 DEF Starts
  <1> QED BY <1>13, <1>14, <1>15 DEF r, all
--------------------------------------------------------------------------------
(* The end of the session *)

\* What is left of a character is read as it is, at the end of the bytes.
LEMMA FlushRawReads ==
  ASSUME NEW t \in State, NEW m \in Nat \ {0}, Dated(t),
         NEW bytes \in Seq(Byte), Utf8(bytes), Reads(t, bytes) \/ ReadsAll(t, bytes)
  PROVE  LET r == FlushRaw(t, m) IN
         /\ Typing(t, r, m) /\ ReadsAll(r, bytes)
         /\ t.raw = << >> => r = t
  <1> DEFINE left == from_utf8_lossy(t.raw)
             p == process_typed_chars(t, left, m)
             r == FlushRaw(t, m)
             text == from_utf8(bytes).text
  <1>1. /\ text \in Seq(Char)
        /\ from_utf8(bytes).rest = IF Ends(bytes, "lead") THEN <<"lead">> ELSE << >>
        /\ from_utf8_lossy(bytes) = text \o from_utf8_lossy(from_utf8(bytes).rest)
    BY Utf8Parts
  <1>2. t.raw = << >> \/ t.raw = <<"lead">>
    BY <1>1 DEF Reads, ReadsAll
  <1>3. left = (IF t.raw = << >> THEN << >> ELSE <<"bad">>) /\ <<"lead">> # << >>
    BY <1>2, LossyType, Utf8Short
  <1>4. left \in Seq(Char) /\ << >> \in Seq(Char) /\ (left # << >> => left[1] = "bad")
    <2>1. "bad" \in Char
      BY DEF Char
    <2> QED BY <1>3, <2>1
  <1>5. Typing(t, p, m) /\ p.raw = t.raw
        /\ Shape(p) = Fold(Edit, Shape(t), sanitize_terminal_text(left))
    BY <1>4, ProcessText
  <1>6. r = [p EXCEPT !.raw = << >>]
    BY DEF FlushRaw
  <1>7. ~Continues(Place(text), "bad")
    BY DEF Continues
  <1>8. Shape(p) = Written(from_utf8_lossy(bytes))
    <2>1. CASE Reads(t, bytes)
      <3>1. Fold(Edit, Written(text), sanitize_terminal_text(left)) = Written(text \o left)
        BY <1>1, <1>4, <1>7, WrittenOn
      <3>2. Shape(t) = Written(text) /\ left = from_utf8_lossy(from_utf8(bytes).rest)
        BY <2>1 DEF Reads
      <3> QED BY <1>1, <1>5, <3>1, <3>2
    <2>2. CASE ReadsAll(t, bytes)
      <3>1. left = << >>
        BY <1>3, <2>2 DEF ReadsAll
      <3>2. Shape(p) = Shape(t)
        BY <1>5, <3>1, WrittenEmpty, FoldEmpty
      <3> QED BY <2>2, <3>2 DEF ReadsAll
    <2> QED BY <2>1, <2>2
  <1>9. t.raw = << >> => p = t
    <2> SUFFICES ASSUME t.raw = << >> PROVE p = t
      OBVIOUS
    <2>1. sanitize_terminal_text(left) = << >>
      BY <1>3, WrittenEmpty
    <2> QED BY <2>1, FoldEmpty DEF process_typed_chars
  <1> HIDE DEF p, r, left, text
  <1>10. p \in State
    BY <1>5 DEF Typing
  <1>11. /\ r \in State /\ r.raw = << >> /\ r.line = p.line /\ r.start = p.start
         /\ r.activities = p.activities
    <2>1. << >> \in Seq(Byte)
      BY Utf8Short
    <2> QED BY <1>6, <1>10, <2>1 DEF State
  <1>12. Typing(t, r, m)
    BY <1>5, <1>11 DEF Typing, Dated, Grown
  <1>13. ReadsAll(r, bytes)
    BY <1>8, <1>11 DEF ReadsAll, Shape
  <1>14. t.raw = << >> => r = t
    <2> SUFFICES ASSUME t.raw = << >> PROVE r = t
      OBVIOUS
    <2>1. r = [t EXCEPT !.raw = << >>]
      BY <1>6, <1>9
    <2> QED BY <2>1 DEF State
  <1> QED BY <1>12, <1>13, <1>14 DEF r

\* KeystrokeInput with is_paste goes on where bytes end that end with a character.
LEMMA PasteReads ==
  ASSUME NEW t \in State, NEW m \in Nat \ {0}, Dated(t),
         NEW bytes \in Seq(Byte), NEW data \in Seq(Byte), data # << >>,
         Utf8(bytes), Utf8(bytes \o data), Utf8(data), ~Ends(bytes, "lead"),
         Reads(t, bytes), ~Continues(Place(bytes), data[1])
  PROVE  LET r == Paste(t, data, m) IN
         /\ Typing(t, r, m) /\ Starts(r, data, m)
         /\ IF Ends(data, "lead") THEN ReadsAll(r, bytes \o data) ELSE Reads(r, bytes \o data)
  <1> DEFINE text == from_utf8(bytes).text
             more == from_utf8_lossy(data)
             all == bytes \o data
             r == Paste(t, data, m)
  <1>1. text \in Seq(Char) /\ from_utf8(bytes).rest = << >> /\ t.raw = << >>
    BY Utf8Parts DEF Reads
  <1>2. /\ more \in Seq(Char) /\ from_utf8(data).text \in Seq(Char)
        /\ more = IF Ends(data, "lead") THEN Append(from_utf8(data).text, "bad")
                  ELSE from_utf8(data).text
        /\ from_utf8(data).rest = IF Ends(data, "lead") THEN <<"lead">> ELSE << >>
    BY Utf8Parts
  <1>3. FlushRaw(t, m) = t
    BY <1>1, FlushRawReads
  <1>4. r = process_typed_chars(t, more, m)
    BY <1>3 DEF Paste
  <1> HIDE DEF more, r
  <1>5. /\ Typing(t, r, m) /\ r.raw = << >>
        /\ Shape(r) = Fold(Edit, Shape(t), sanitize_terminal_text(more))
        /\ Has(more, "enter") => r.start \in {0, m}
        /\ Ends(more, "enter") => r.start = 0
    <2>1. /\ Typing(t, r, m) /\ r.raw = t.raw
          /\ Shape(r) = Fold(Edit, Shape(t), sanitize_terminal_text(more))
          /\ Has(more, "enter") => r.start \in {0, m}
          /\ Ends(more, "enter") => r.start = 0
      BY <1>2, <1>4, ProcessText
    <2> QED BY <1>1, <2>1
  <1>6. /\ from_utf8(all).text = text \o from_utf8(data).text
        /\ from_utf8(all).rest = from_utf8(data).rest
    <2>1. from_utf8(bytes).rest \o data = data
      BY <1>1, ConcatEmptySeq
    <2>2. /\ from_utf8(all).text = text \o from_utf8(from_utf8(bytes).rest \o data).text
          /\ from_utf8(all).rest = from_utf8(from_utf8(bytes).rest \o data).rest
      BY DecodeOn
    <2> QED BY <2>1, <2>2
  <1>7. /\ all \in Seq(Byte) /\ (Ends(all, "lead") <=> Ends(data, "lead"))
    BY ConcatProperties, HasConcat
  <1>8. from_utf8_lossy(all) = text \o more
    <2>1. from_utf8_lossy(all) = IF Ends(all, "lead") THEN Append(from_utf8(all).text, "bad")
                                 ELSE from_utf8(all).text
      BY <1>7, Utf8Parts
    <2>2. "bad" \in Char
      BY DEF Char
    <2>3. \A x, y \in Seq(Char) : x \o Append(y, "bad") = Append(x \o y, "bad")
      BY <2>2, ConcatAppend
    <2>4. text \o Append(from_utf8(data).text, "bad") = Append(text \o from_utf8(data).text, "bad")
      BY <1>1, <1>2, <2>3
    <2> QED BY <1>2, <1>6, <1>7, <2>1, <2>4
  <1>9. more # << >> => ~Continues(Place(text), more[1])
    <2> SUFFICES ASSUME more # << >>, Continues(Place(text), more[1]) PROVE FALSE
      OBVIOUS
    <2>1. more[1] \in {"letter", "["}
      BY DEF Continues
    <2> DEFINE first == from_utf8(data).text
    <2>2. first # << >> /\ more[1] = first[1]
      <3>1. CASE Ends(data, "lead")
        <4>1. more = Append(first, "bad")
          BY <1>2, <3>1
        <4>2. "bad" \in Char
          BY DEF Char
        <4>3. first = << >> => more[1] = "bad"
          BY <4>1
        <4>4. first # << >> => more[1] = first[1]
          <5>1. first # << >> => Len(first) \in Nat \ {0}
            BY <1>2, EmptySeq
          <5> QED BY <1>2, <4>1, <4>2, <5>1, AppendProperties
        <4> QED BY <2>1, <4>3, <4>4
      <3>2. CASE ~Ends(data, "lead")
        BY <1>2, <3>2
      <3> QED BY <3>1, <3>2
    <2>3. first[1] = IF data[1] = "lead" THEN "wide" ELSE data[1]
      BY <2>2, DecodeFirst
    <2> HIDE DEF first
    <2>4. data[1] = more[1]
      BY <2>1, <2>2, <2>3
    <2>5. Place(bytes) = Place(text)
      BY PlaceUtf8
    <2> QED BY <2>4, <2>5
  <1>10. Shape(r) = Written(text \o more)
    <2>1. Shape(t) = Written(text)
      BY DEF Reads
    <2>2. Fold(Edit, Written(text), sanitize_terminal_text(more)) = Written(text \o more)
      BY <1>1, <1>2, <1>9, WrittenOn
    <2> QED BY <1>5, <2>1, <2>2
  <1>11. /\ Has(data, "enter") => Has(more, "enter")
         /\ Ends(data, "enter") => Ends(more, "enter")
    <2> DEFINE first == from_utf8(data).text
    <2>1. /\ Has(data, "enter") => Has(first, "enter")
          /\ Ends(data, "enter") => Ends(first, "enter")
      BY DecodeEnter
    <2>2. Ends(data, "enter") => ~Ends(data, "lead")
      BY DEF Ends
    <2>3. Has(first, "enter") => Has(Append(first, "bad"), "enter")
      <3>1. "bad" \in Char
        BY DEF Char
      <3> QED BY <1>2, <3>1, HasAppend
    <2> QED BY <1>2, <2>1, <2>2, <2>3
  <1>12. Starts(r, data, m)
    BY <1>5, <1>11 DEF Starts
  <1>13. IF Ends(data, "lead") THEN ReadsAll(r, all) ELSE Reads(r, all)
    <2>1. CASE Ends(data, "lead")
      BY <1>5, <1>8, <1>10, <2>1 DEF ReadsAll
    <2>2. CASE ~Ends(data, "lead")
      BY <1>2, <1>5, <1>6, <1>10, <2>2 DEF Reads
    <2> QED BY <2>1, <2>2
  <1> QED BY <1>5, <1>12, <1>13 DEF r

\* The lines of bytes that are over.
Typed(bytes) == Entered(Written(from_utf8_lossy(bytes)))

\* At the end of a session the last line is over.
LEMMA FinishReads ==
  ASSUME NEW t \in State, NEW m \in Nat \ {0}, Dated(t),
         NEW bytes \in Seq(Byte), Utf8(bytes), Reads(t, bytes) \/ ReadsAll(t, bytes)
  PROVE  LET r == Finish(t, m) IN
         /\ Typing(t, r, m)
         /\ r.raw = << >> /\ r.line = << >> /\ r.start = 0
         /\ Shape(r) = Typed(bytes)
         /\ t.raw = << >> => Grown(t, r, m, {t.start})
  <1> DEFINE p == FlushRaw(t, m)
             r == Finish(t, m)
  <1>1. Typing(t, p, m) /\ ReadsAll(p, bytes) /\ (t.raw = << >> => p = t)
    BY FlushRawReads
  <1>2. r = flush_line_buffer(p, m)
    BY DEF Finish
  <1> HIDE DEF p, r
  <1>3. p \in State /\ Dated(p)
    BY <1>1 DEF Typing
  <1>4. /\ Typing(p, r, m)
        /\ Grown(p, r, m, {p.start})
        /\ r.raw = p.raw /\ r.line = << >> /\ r.start = 0
        /\ Shape(r) = Entered(Shape(p))
    BY <1>2, <1>3, FlushTurn
  <1>5. Typing(t, r, m)
    BY <1>1, <1>4, TypingTwice
  <1>6. Shape(r) = Typed(bytes) /\ r.raw = << >>
    BY <1>1, <1>4 DEF Typed, ReadsAll
  <1> QED BY <1>1, <1>4, <1>5, <1>6 DEF r

\* A session that is over stays as it is.
LEMMA FinishAgain ==
  ASSUME NEW t \in State, NEW m \in Nat, t.raw = << >>, t.line = << >>
  PROVE  /\ Finish(t, m).activities = t.activities
         /\ Shape(Finish(t, m)) = Shape(t)
  <1>1. from_utf8_lossy(t.raw) = << >>
    BY LossyType
  <1>2. process_typed_chars(t, << >>, m) = t
    BY WrittenEmpty, FoldEmpty DEF process_typed_chars
  <1>3. FlushRaw(t, m) = t
    BY <1>1, <1>2 DEF FlushRaw, State
  <1>4. Finish(t, m) = flush_line_buffer(t, m)
    BY <1>3 DEF Finish
  <1>5. flush_line_buffer(t, m).activities = t.activities /\ flush_line_buffer(t, m).line = t.line
    BY DEF flush_line_buffer, State
  <1> QED BY <1>4, <1>5 DEF Shape
--------------------------------------------------------------------------------
(* The inductive invariant *)

InputByte == [byte : Byte, at : Nat, paste : BOOLEAN]

\* Events are numbered in their order.
Types ==
  /\ now \in Nat \ {0}
  /\ s \in State /\ Dated(s) /\ s.start <= now
  /\ input \in Seq(InputByte)
  /\ \A i \in 1..Len(input) : input[i].at <= now
  /\ \A i, j \in 1..Len(input) : i <= j => input[i].at <= input[j].at
  /\ execs \in Seq(ExecEvent)
  /\ \A i \in 1..Len(execs) : execs[i].at <= now /\ execs[i].pid \in Pid
  /\ ended \in Nat /\ ended <= now
  /\ Utf8(Bytes)

\* The half of a character that was pasted is read as it is.
Half ==
  /\ ReadsAll(s, Bytes)
  /\ Ends(Bytes, "lead") /\ input[Len(input)].paste

Over == s.raw = << >> /\ s.line = << >> /\ s.start = 0 /\ Shape(s) = Typed(Bytes)

Reading == IF ended = 0 THEN Reads(s, Bytes) \/ Half ELSE Over

\* Of what was read, a byte came at an event not after at, and no enter from there
\* on before event done.
Begun(read, at, done) ==
  \E p \in 1..Len(read) :
    /\ read[p].at <= at
    /\ \A i \in p..Len(read) : read[i].byte = "enter" => done <= read[i].at

\* a was begun when it says, and was over with event m at the latest.
Timed(read, a, m) ==
  /\ a.at <= a.done /\ a.done <= m
  /\ IF a \in PromptActivity THEN a.at = a.done ELSE Begun(read, a.at, a.done)

\* So was every activity, and the line that is being typed was begun when it says.
Times(t, read, m) ==
  /\ t.start # 0 => Begun(read, t.start, m + 1)
  /\ \A a : Has(t.activities, a) => Timed(read, a, m)

IInv == Types /\ (WellCut => Reading /\ Times(s, input, now))
--------------------------------------------------------------------------------
(* What one event adds to the input *)

BytesOf(seq) == [i \in DOMAIN seq |-> seq[i].byte]

\* The bytes of what was read.
LEMMA BytesType ==
  ASSUME NEW seq \in Seq(InputByte)
  PROVE  /\ BytesOf(seq) \in Seq(Byte)
         /\ Len(BytesOf(seq)) = Len(seq)
         /\ \A i \in 1..Len(seq) : BytesOf(seq)[i] = seq[i].byte
  <1>1. Len(seq) \in Nat /\ DOMAIN seq = 1..Len(seq)
    BY LenProperties
  <1>2. \A i \in 1..Len(seq) : seq[i].byte \in Byte
    <2>1. \A x \in InputByte : x.byte \in Byte
      BY DEF InputByte
    <2> QED BY <2>1, ElementOfSeq
  <1>3. BytesOf(seq) = [i \in 1..Len(seq) |-> seq[i].byte]
    BY <1>1 DEF BytesOf
  <1>4. BytesOf(seq) \in [1..Len(seq) -> Byte]
    BY <1>2, <1>3
  <1>5. BytesOf(seq) \in Seq(Byte) /\ Len(BytesOf(seq)) = Len(seq)
    BY <1>1, <1>4
  <1> QED BY <1>3, <1>5

\* Of two sequences together, the elements of each.
LEMMA ConcatShift ==
  ASSUME NEW S, NEW a \in Seq(S), NEW b \in Seq(S)
  PROVE  /\ a \o b \in Seq(S)
         /\ Len(a) \in Nat /\ Len(b) \in Nat
         /\ Len(a \o b) = Len(a) + Len(b)
         /\ \A i \in 1..Len(a) : (a \o b)[i] = a[i]
         /\ \A i \in 1..Len(b) : (a \o b)[Len(a) + i] = b[i]
         /\ \A i \in 1..(Len(a) + Len(b)) : i \in 1..Len(a) \/ \E k \in 1..Len(b) : i = Len(a) + k
  <1>1. Len(a) \in Nat /\ Len(b) \in Nat
    BY LenProperties
  <1>2. /\ a \o b \in Seq(S)
        /\ Len(a \o b) = Len(a) + Len(b)
        /\ \A i \in 1..(Len(a) + Len(b)) :
             (a \o b)[i] = IF i <= Len(a) THEN a[i] ELSE b[i - Len(a)]
    BY ConcatProperties
  <1>3. \A i \in 1..Len(a) : (a \o b)[i] = a[i]
    BY <1>1, <1>2
  <1>4. \A i \in 1..Len(b) : (a \o b)[Len(a) + i] = b[i]
    BY <1>1, <1>2
  <1>5. ASSUME NEW i \in 1..(Len(a) + Len(b)), i \notin 1..Len(a)
        PROVE  \E k \in 1..Len(b) : i = Len(a) + k
    <2>1. i - Len(a) \in 1..Len(b) /\ i = Len(a) + (i - Len(a))
      BY <1>1, <1>5
    <2> QED BY <2>1
  <1> QED BY <1>1, <1>2, <1>3, <1>4, <1>5

\* Of bytes, the elements of each part.
LEMMA ByteShift ==
  \A a, b \in Seq(Byte) :
    /\ a \o b \in Seq(Byte)
    /\ Len(a \o b) = Len(a) + Len(b)
    /\ \A i \in 1..Len(a) : (a \o b)[i] = a[i]
    /\ \A i \in 1..Len(b) : (a \o b)[Len(a) + i] = b[i]
  BY ConcatShift

\* The same of the input.
LEMMA InputShift ==
  \A a, b \in Seq(InputByte) :
    /\ a \o b \in Seq(InputByte)
    /\ Len(a) \in Nat /\ Len(b) \in Nat
    /\ Len(a \o b) = Len(a) + Len(b)
    /\ \A i \in 1..Len(a) : (a \o b)[i] = a[i]
    /\ \A i \in 1..Len(b) : (a \o b)[Len(a) + i] = b[i]
    /\ \A i \in 1..(Len(a) + Len(b)) : i \in 1..Len(a) \/ \E k \in 1..Len(b) : i = Len(a) + k
  BY ConcatShift

\* What one event adds to the input.
Chunk(data, m, paste) ==
  [i \in 1..Len(data) |-> [byte |-> data[i], at |-> m, paste |-> paste]]

\* The bytes of a chunk.
LEMMA ChunkType ==
  ASSUME NEW data \in Seq(Byte), NEW m \in Nat, NEW paste \in BOOLEAN
  PROVE  LET chunk == Chunk(data, m, paste) IN
         /\ chunk \in Seq(InputByte) /\ Len(chunk) = Len(data)
         /\ \A i \in 1..Len(data) : chunk[i].byte = data[i] /\ chunk[i].at = m
         /\ BytesOf(chunk) = data
  <1> DEFINE chunk == Chunk(data, m, paste)
  <1>1. Len(data) \in Nat
    BY LenProperties
  <1>2. \A i \in 1..Len(data) : data[i] \in Byte
    BY ElementOfSeq
  <1>3. \A b \in Byte : [byte |-> b, at |-> m, paste |-> paste] \in InputByte
    BY Zenon DEF InputByte
  <1>4. \A i \in 1..Len(data) : chunk[i] = [byte |-> data[i], at |-> m, paste |-> paste]
    BY Zenon DEF Chunk
  <1>5. chunk \in [1..Len(data) -> InputByte]
    BY <1>2, <1>3, Zenon DEF Chunk
  <1> HIDE DEF chunk
  <1>6. \A i \in 1..Len(data) : chunk[i].byte = data[i] /\ chunk[i].at = m
    <2> SUFFICES ASSUME NEW i \in 1..Len(data)
                 PROVE  chunk[i].byte = data[i] /\ chunk[i].at = m
      BY Zenon
    <2>1. [byte |-> data[i], at |-> m, paste |-> paste].byte = data[i]
      OBVIOUS
    <2>2. [byte |-> data[i], at |-> m, paste |-> paste].at = m
      OBVIOUS
    <2>3. chunk[i] = [byte |-> data[i], at |-> m, paste |-> paste]
      BY <1>4, Zenon
    <2> QED BY <2>1, <2>2, <2>3, Zenon
  <1>7. chunk \in Seq(InputByte) /\ Len(chunk) = Len(data)
    <2>1. \A f \in [1..Len(data) -> InputByte] : f \in Seq(InputByte) /\ Len(f) = Len(data)
      BY <1>1
    <2> QED BY <1>5, <2>1, Zenon
  <1>8. BytesOf(chunk) = data
    <2>1. /\ BytesOf(chunk) \in Seq(Byte) /\ Len(BytesOf(chunk)) = Len(chunk)
          /\ \A i \in 1..Len(chunk) : BytesOf(chunk)[i] = chunk[i].byte
      BY <1>7, BytesType, Zenon
    <2>2. Len(BytesOf(chunk)) = Len(data) /\ \A i \in 1..Len(BytesOf(chunk)) : BytesOf(chunk)[i] = data[i]
      BY <1>6, <1>7, <2>1, Zenon
    <2> QED BY <2>1, <2>2, SeqEqual, Zenon
  <1> QED BY <1>6, <1>7, <1>8, Zenon DEF chunk

\* The bytes of what was read before and of a chunk.
LEMMA BytesConcat ==
  ASSUME NEW old \in Seq(InputByte), NEW chunk \in Seq(InputByte)
  PROVE  BytesOf(old \o chunk) = BytesOf(old) \o BytesOf(chunk)
  <1> DEFINE new == old \o chunk
             u == BytesOf(old)
             v == BytesOf(chunk)
             x == BytesOf(new)
             y == u \o v
  <1>1. /\ new \in Seq(InputByte) /\ Len(new) = Len(old) + Len(chunk)
        /\ \A i \in 1..Len(old) : new[i] = old[i]
        /\ \A i \in 1..Len(chunk) : new[Len(old) + i] = chunk[i]
        /\ \A i \in 1..(Len(old) + Len(chunk)) :
             i \in 1..Len(old) \/ \E k \in 1..Len(chunk) : i = Len(old) + k
        /\ Len(old) \in Nat /\ Len(chunk) \in Nat
    BY InputShift
  <1>2. u \in Seq(Byte) /\ Len(u) = Len(old) /\ \A i \in 1..Len(old) : u[i] = old[i].byte
    BY BytesType
  <1>3. v \in Seq(Byte) /\ Len(v) = Len(chunk) /\ \A i \in 1..Len(chunk) : v[i] = chunk[i].byte
    BY BytesType
  <1> HIDE DEF new, u, v
  <1>4. /\ y \in Seq(Byte) /\ Len(y) = Len(u) + Len(v)
        /\ \A i \in 1..Len(u) : y[i] = u[i]
        /\ \A i \in 1..Len(v) : y[Len(u) + i] = v[i]
    BY <1>2, <1>3, ByteShift
  <1>5. /\ x \in Seq(Byte) /\ Len(x) = Len(new)
        /\ \A i \in 1..Len(new) : x[i] = new[i].byte
    BY <1>1, BytesType
  <1> HIDE DEF x, y
  <1>6. ASSUME NEW i \in 1..Len(x) PROVE x[i] = y[i]
    <2>0. i \in 1..(Len(old) + Len(chunk))
      BY <1>1, <1>5
    <2>1. CASE i \in 1..Len(old)
      BY <1>1, <1>2, <1>4, <1>5, <2>0, <2>1
    <2>2. CASE \E k \in 1..Len(chunk) : i = Len(old) + k
      <3>1. PICK k \in 1..Len(chunk) : i = Len(old) + k
        BY <2>2
      <3>2. x[i] = new[i].byte /\ new[i] = chunk[k]
        BY <1>1, <1>5, <2>0, <3>1
      <3>3. y[i] = v[k] /\ v[k] = chunk[k].byte
        BY <1>2, <1>3, <1>4, <3>1
      <3> QED BY <3>2, <3>3
    <2> QED BY <1>1, <2>0, <2>1, <2>2
  <1>7. Len(x) = Len(y)
    BY <1>1, <1>2, <1>3, <1>4, <1>5
  <1>8. x = y
    BY <1>4, <1>5, <1>6, <1>7, SeqEqual
  <1> QED BY <1>8 DEF x, y, u, v, new

\* new is what was read before, and then data during event m.
ReadOn(new, old, data, m) ==
  /\ new \in Seq(InputByte) /\ old \in Seq(InputByte)
  /\ Len(old) \in Nat /\ Len(data) \in Nat /\ Len(data) # 0 /\ Len(new) = Len(old) + Len(data)
  /\ \A i \in 1..Len(old) : new[i] = old[i]
  /\ \A i \in 1..Len(data) : new[Len(old) + i].byte = data[i] /\ new[Len(old) + i].at = m
  /\ \A i \in 1..Len(new) : i \in 1..Len(old) \/ \E k \in 1..Len(data) : i = Len(old) + k
  /\ BytesOf(new) = BytesOf(old) \o data

\* A chunk after what was read before.
LEMMA ChunkReadOn ==
  ASSUME NEW old \in Seq(InputByte), NEW data \in Seq(Byte), data # << >>,
         NEW m \in Nat, NEW paste \in BOOLEAN
  PROVE  ReadOn(old \o Chunk(data, m, paste), old, data, m)
  <1> DEFINE chunk == Chunk(data, m, paste)
             new == old \o chunk
  <1>0. Len(data) # 0
    BY EmptySeq
  <1>1. /\ chunk \in Seq(InputByte) /\ Len(chunk) = Len(data)
        /\ \A i \in 1..Len(data) : chunk[i].byte = data[i] /\ chunk[i].at = m
        /\ BytesOf(chunk) = data
    BY ChunkType
  <1> HIDE DEF chunk
  <1>2. /\ new \in Seq(InputByte) /\ Len(new) = Len(old) + Len(chunk)
        /\ Len(old) \in Nat /\ Len(chunk) \in Nat
        /\ \A i \in 1..Len(old) : new[i] = old[i]
        /\ \A i \in 1..Len(chunk) : new[Len(old) + i] = chunk[i]
        /\ \A i \in 1..(Len(old) + Len(chunk)) :
             i \in 1..Len(old) \/ \E k \in 1..Len(chunk) : i = Len(old) + k
    BY <1>1, InputShift
  <1>3. BytesOf(new) = BytesOf(old) \o data
    BY <1>1, BytesConcat
  <1> HIDE DEF new
  <1>4. ReadOn(new, old, data, m)
    <2>1. \A i \in 1..Len(data) : new[Len(old) + i].byte = data[i] /\ new[Len(old) + i].at = m
      BY <1>1, <1>2
    <2> QED BY <1>0, <1>1, <1>2, <1>3, <2>1 DEF ReadOn
  <1> QED BY <1>4 DEF new, chunk

\* Chunks that reads cut from UTF-8 make it again.
LEMMA Utf8Concat ==
  ASSUME NEW bytes \in Seq(Byte), NEW data \in Seq(Byte), data # << >>, Utf8(bytes),
         data[1] = "trail" <=> Ends(bytes, "lead"),
         \A i \in 1..(Len(data) - 1) : data[i] = "lead" <=> data[i + 1] = "trail"
  PROVE  /\ Utf8(bytes \o data)
         /\ Utf8(data) \/ Ends(bytes, "lead")
  <1> DEFINE n == Len(bytes)
             all == bytes \o data
  <1>1. n \in Nat /\ Len(data) \in Nat \ {0} /\ (bytes # << >> => n # 0) /\ (bytes = << >> => n = 0)
    BY EmptySeq, LenProperties
  <1>2. /\ Len(all) = n + Len(data)
        /\ \A i \in 1..(n + Len(data)) : all[i] = IF i <= n THEN bytes[i] ELSE data[i - n]
    BY ConcatProperties
  <1>3. Ends(bytes, "lead") <=> n # 0 /\ bytes[n] = "lead"
    BY <1>1 DEF Ends
  <1>4. \A i \in 1..n : bytes[i] = "trail" <=> i > 1 /\ bytes[i - 1] = "lead"
    BY DEF Utf8
  <1>5. \A i \in 2..Len(data) : data[i] = "trail" <=> data[i - 1] = "lead"
    <2> SUFFICES ASSUME NEW i \in 2..Len(data) PROVE data[i] = "trail" <=> data[i - 1] = "lead"
      OBVIOUS
    <2>1. i - 1 \in 1..(Len(data) - 1) /\ (i - 1) + 1 = i
      BY <1>1
    <2> QED BY <2>1
  <1> HIDE DEF n, all
  <1>6. ASSUME NEW i \in 1..Len(all)
        PROVE  all[i] = "trail" <=> i > 1 /\ all[i - 1] = "lead"
    <2>1. i \in 1..(n + Len(data))
      BY <1>2
    <2>2. CASE i <= n
      <3>1. i > 1 => all[i - 1] = bytes[i - 1]
        BY <1>1, <1>2, <2>1, <2>2
      <3> QED BY <1>1, <1>2, <1>4, <2>1, <2>2, <3>1
    <2>3. CASE i = n + 1
      <3>1. all[i] = data[1]
        BY <1>1, <1>2, <2>1, <2>3
      <3>2. i > 1 <=> n # 0
        BY <1>1, <2>3
      <3>3. n # 0 => all[i - 1] = bytes[n]
        BY <1>1, <1>2, <2>3
      <3> QED BY <1>3, <3>1, <3>2, <3>3
    <2>4. CASE i > n + 1
      <3>1. i - n \in 2..Len(data) /\ (i - 1) - n = (i - n) - 1 /\ i > 1
            /\ i - 1 \in 1..(n + Len(data)) /\ ~(i - 1 <= n) /\ ~(i <= n)
        BY <1>1, <2>1, <2>4
      <3>2. all[i] = data[i - n] /\ all[i - 1] = data[(i - n) - 1]
        BY <1>2, <2>1, <3>1
      <3> QED BY <1>5, <3>1, <3>2
    <2> QED BY <1>1, <2>1, <2>2, <2>3, <2>4
  <1>7. Utf8(all)
    BY <1>6 DEF Utf8
  <1>8. ~Ends(bytes, "lead") => Utf8(data)
    <2> SUFFICES ASSUME ~Ends(bytes, "lead"), NEW i \in 1..Len(data)
                 PROVE  data[i] = "trail" <=> i > 1 /\ data[i - 1] = "lead"
      BY DEF Utf8
    <2>1. CASE i = 1
      BY <2>1
    <2>2. CASE i # 1
      <3>1. i \in 2..Len(data)
        BY <1>1, <2>2
      <3> QED BY <1>1, <1>5, <3>1
    <2> QED BY <2>1, <2>2
  <1> QED BY <1>7, <1>8 DEF all

\* The kind of what was read last.
LEMMA ChunkPaste ==
  ASSUME NEW old \in Seq(InputByte), NEW data \in Seq(Byte), data # << >>,
         NEW m \in Nat, NEW paste \in BOOLEAN
  PROVE  /\ (old \o Chunk(data, m, paste))[Len(old) + 1].paste <=> paste
         /\ (old \o Chunk(data, m, paste))[Len(old) + Len(data)].paste <=> paste
  <1> DEFINE chunk == Chunk(data, m, paste)
             new == old \o chunk
  <1>1. 1 \in 1..Len(data) /\ Len(data) \in 1..Len(data)
    <2>1. Len(data) \in Nat \ {0}
      BY EmptySeq
    <2> QED BY <2>1
  <1>2. \A i \in 1..Len(data) : chunk[i].paste <=> paste
    <2> SUFFICES ASSUME NEW i \in 1..Len(data) PROVE chunk[i].paste <=> paste
      BY Zenon
    <2>1. chunk[i] = [byte |-> data[i], at |-> m, paste |-> paste]
      BY Zenon DEF Chunk
    <2>2. [byte |-> data[i], at |-> m, paste |-> paste].paste <=> paste
      OBVIOUS
    <2> QED BY <2>1, <2>2, Zenon
  <1>3. \A i \in 1..Len(data) : new[Len(old) + i] = chunk[i]
    <2>1. chunk \in Seq(InputByte) /\ Len(chunk) = Len(data)
      BY ChunkType
    <2> HIDE DEF chunk
    <2> QED BY <2>1, InputShift
  <1> QED BY <1>1, <1>2, <1>3, Zenon

\* What was read goes on.
LEMMA InputNext ==
  ASSUME NEW data \in Seq(Byte), data # << >>, NEW m \in Nat, NEW paste \in BOOLEAN,
         input \in Seq(InputByte), input' = input \o Chunk(data, m, paste)
  PROVE  /\ ReadOn(input', input, data, m)
         /\ Bytes' = Bytes \o data
         /\ input'[Len(input) + 1].paste <=> paste
         /\ input'[Len(input) + Len(data)].paste <=> paste
  <1>1. Bytes = BytesOf(input) /\ Bytes' = BytesOf(input')
    BY DEF Bytes, BytesOf
  <1>2. ReadOn(input', input, data, m)
    BY ChunkReadOn
  <1>3. Bytes' = Bytes \o data
    BY <1>1, <1>2 DEF ReadOn
  <1> QED BY <1>2, <1>3, ChunkPaste, Zenon

\* What was cut stays cut.
LEMMA WellCutBefore ==
  ASSUME NEW data \in Seq(Byte), data # << >>, NEW m \in Nat, NEW paste \in BOOLEAN,
         input \in Seq(InputByte), \A i \in 1..Len(input) : input[i].at < m,
         input' = input \o Chunk(data, m, paste),
         WellCut'
  PROVE  /\ WellCut
         /\ ~Continues(Place(Bytes), data[1])
         /\ Ends(Bytes, "lead") => ~paste /\ ~input[Len(input)].paste
  <1> DEFINE n == Len(input)
  <1>1. /\ input' \in Seq(InputByte) /\ Len(input') = n + Len(data)
        /\ \A i \in 1..n : input'[i] = input[i]
        /\ \A i \in 1..Len(data) : input'[n + i].byte = data[i] /\ input'[n + i].at = m
        /\ Bytes' = Bytes \o data
    <2>1. ReadOn(input', input, data, m) /\ Bytes' = Bytes \o data
      BY InputNext, Zenon
    <2> QED BY <2>1 DEF ReadOn
  <1>2. Bytes \in Seq(Byte) /\ Len(Bytes) = n /\ \A i \in 1..n : Bytes[i] = input[i].byte
    <2>1. Bytes = BytesOf(input)
      BY DEF Bytes, BytesOf
    <2> QED BY <2>1, BytesType
  <1>3. n \in Nat /\ Len(data) \in Nat \ {0}
    BY EmptySeq, LenProperties
  <1>4. \A i \in 1..n : SubSeq(Bytes', 1, i) = SubSeq(Bytes, 1, i)
    <2> SUFFICES ASSUME NEW i \in 1..n PROVE SubSeq(Bytes \o data, 1, i) = SubSeq(Bytes, 1, i)
      BY <1>1
    <2>1. 1 \in 1..Len(Bytes) /\ i \in 1..Len(Bytes)
      BY <1>2, <1>3
    <2> QED BY <1>2, <2>1, SubSeqOfConcat1
  <1>5. \A i \in 1..n : Bytes'[i] = Bytes[i]
    BY <1>1, <1>2, <1>3, ConcatProperties
  <1>6. \A i \in 1..Len(data) : Bytes'[n + i] = data[i]
    <2>1. \A i \in 1..Len(data) : (Bytes \o data)[Len(Bytes) + i] = data[i]
      BY <1>2, ByteShift
    <2> QED BY <1>1, <1>2, <2>1
  <1>7. \A i \in 1..((n + Len(data)) - 1) :
          ~(/\ input'[i].at # input'[i + 1].at
            /\ \/ Continues(Place(SubSeq(Bytes', 1, i)), Bytes'[i + 1])
               \/ Bytes'[i] = "lead" /\ (input'[i].paste \/ input'[i + 1].paste))
    BY <1>1 DEF WellCut, CutAt
  <1> HIDE DEF n
  <1>8. WellCut
    <2> SUFFICES ASSUME NEW i \in 1..(n - 1) PROVE ~CutAt(i)
      BY DEF WellCut, n
    <2>1. i \in 1..n /\ i + 1 \in 1..n /\ i \in 1..((n + Len(data)) - 1)
      BY <1>3
    <2>2. /\ input'[i] = input[i] /\ input'[i + 1] = input[i + 1]
          /\ Bytes'[i] = Bytes[i] /\ Bytes'[i + 1] = Bytes[i + 1]
          /\ SubSeq(Bytes', 1, i) = SubSeq(Bytes, 1, i)
      BY <1>1, <1>4, <1>5, <2>1
    <2>3. ~(/\ input'[i].at # input'[i + 1].at
            /\ \/ Continues(Place(SubSeq(Bytes', 1, i)), Bytes'[i + 1])
               \/ Bytes'[i] = "lead" /\ (input'[i].paste \/ input'[i + 1].paste))
      BY <1>7, <2>1
    <2>4. /\ input'[i].at = input[i].at /\ input'[i + 1].at = input[i + 1].at
          /\ (input'[i].paste <=> input[i].paste)
          /\ (input'[i + 1].paste <=> input[i + 1].paste)
      BY <2>2, Zenon
    <2>5. Continues(Place(SubSeq(Bytes', 1, i)), Bytes'[i + 1])
          <=> Continues(Place(SubSeq(Bytes, 1, i)), Bytes[i + 1])
      BY <2>2, Zenon
    <2>6. Bytes'[i] = "lead" <=> Bytes[i] = "lead"
      BY <2>2, Zenon
    <2> QED BY <2>3, <2>4, <2>5, <2>6, Zenon DEF CutAt
  <1>9. CASE n = 0
    <2>1. Bytes = << >>
      BY <1>2, <1>9, EmptySeq
    <2>2. Place(Bytes) = "plain"
      BY <2>1, PlaceAppend
    <2>3. ~Ends(Bytes, "lead")
      BY <2>1 DEF Ends
    <2> QED BY <1>8, <2>2, <2>3 DEF Continues
  <1>10. CASE n # 0
    <2>1. n \in 1..n /\ n \in 1..((n + Len(data)) - 1) /\ 1 \in 1..Len(data)
      BY <1>3, <1>10
    <2>2. /\ input'[n] = input[n] /\ Bytes'[n] = Bytes[n]
          /\ input'[n + 1].at = m /\ (input'[n + 1].paste <=> paste) /\ Bytes'[n + 1] = data[1]
          /\ SubSeq(Bytes', 1, n) = SubSeq(Bytes, 1, n)
      <3>4. input'[n + 1].paste <=> paste
        BY InputNext DEF n
      <3>5. /\ input'[n] = input[n] /\ Bytes'[n] = Bytes[n]
            /\ input'[n + 1].at = m /\ Bytes'[n + 1] = data[1]
            /\ SubSeq(Bytes', 1, n) = SubSeq(Bytes, 1, n)
        BY <1>1, <1>4, <1>5, <1>6, <2>1
      <3> QED BY <3>4, <3>5, Zenon
    <2>3. SubSeq(Bytes, 1, n) = Bytes
      BY <1>2, SubSeqFull
    <2>4. input[n].at # m
      <3>1. input[n] \in InputByte
        BY <2>1, ElementOfSeq DEF n
      <3>2. input[n].at \in Nat /\ input[n].at < m
        BY <2>1, <3>1 DEF n, InputByte
      <3> QED BY <3>2
    <2>5. ~(/\ input'[n].at # input'[n + 1].at
            /\ \/ Continues(Place(SubSeq(Bytes', 1, n)), Bytes'[n + 1])
               \/ Bytes'[n] = "lead" /\ (input'[n].paste \/ input'[n + 1].paste))
      BY <1>7, <2>1
    <2>6. ~Continues(Place(Bytes), data[1]) /\ ~(Bytes[n] = "lead" /\ (input[n].paste \/ paste))
      BY <2>2, <2>3, <2>4, <2>5, Zenon
    <2>7. Ends(Bytes, "lead") => Bytes[n] = "lead"
      BY <1>2 DEF Ends
    <2> QED BY <1>8, <2>6, <2>7, Zenon DEF n
  <1> QED BY <1>9, <1>10
--------------------------------------------------------------------------------
(* Types *)

\* Whatever the bytes are, they are read as a text.
LEMMA LossyAny ==
  ASSUME NEW bytes \in Seq(Byte)
  PROVE  from_utf8_lossy(bytes) \in Seq(Char)
  <1> DEFINE none == [text |-> << >>, rest |-> "none"]
             all == Fold(DecodeLossy, none, bytes)
  <1>1. none \in Replaced /\ "bad" \in Char /\ "wide" \in Char
    BY DEF Replaced, Char
  <1>2. ASSUME NEW r \in Replaced, NEW b \in Byte
        PROVE  DecodeLossy[r][b] \in Replaced
    <2> DEFINE text == IF r.rest = "open" /\ b # "trail" THEN Append(r.text, "bad") ELSE r.text
               now1 == CASE b = "lead"  -> text
                         [] b = "trail" -> Append(text, IF r.rest = "open" THEN "wide" ELSE "bad")
                         [] OTHER       -> Append(text, b)
               rest == IF b = "lead" THEN "open" ELSE "none"
    <2>1. DecodeLossy[r][b] = [text |-> now1, rest |-> rest]
      BY Zenon DEF DecodeLossy
    <2>2. text \in Seq(Char)
      BY <1>1 DEF Replaced
    <2>3. b \notin {"lead", "trail"} => b \in Char
      BY DEF Char
    <2> HIDE DEF text
    <2>4. /\ Append(text, "wide") \in Seq(Char) /\ Append(text, "bad") \in Seq(Char)
          /\ b \notin {"lead", "trail"} => Append(text, b) \in Seq(Char)
      BY <1>1, <2>2, <2>3
    <2>5. now1 \in Seq(Char) /\ rest \in {"open", "none"}
      BY <2>2, <2>4
    <2> QED BY <2>1, <2>5 DEF Replaced
  <1> HIDE DEF none
  <1>3. all \in Replaced
    BY <1>1, <1>2, FoldType
  <1>4. from_utf8_lossy(bytes) = IF all.rest = "open" THEN Append(all.text, "bad") ELSE all.text
    BY DEF from_utf8_lossy, none
  <1> HIDE DEF all
  <1>5. all.text \in Seq(Char) /\ Append(all.text, "bad") \in Seq(Char)
    BY <1>1, <1>3 DEF Replaced
  <1> QED BY <1>4, <1>5

\* A state is one with other bytes left.
LEMMA RawType ==
  ASSUME NEW t, NEW p, NEW m, Typing(t, p, m), NEW raw \in Seq(Byte)
  PROVE  Typing(t, [p EXCEPT !.raw = raw], m)
  <1> DEFINE r == [p EXCEPT !.raw = raw]
  <1>1. p \in State
    BY DEF Typing
  <1>2. /\ r \in State /\ r.line = p.line /\ r.start = p.start /\ r.activities = p.activities
    BY <1>1 DEF State
  <1> HIDE DEF r
  <1>3. Typing(t, r, m)
    BY <1>2 DEF Typing, Dated, Grown
  <1> QED BY <1>3 DEF r

\* Whatever the bytes are, the handlers keep the types.
LEMMA HandlersType ==
  ASSUME NEW t \in State, Dated(t), NEW m \in Nat \ {0}, NEW data \in Seq(Byte)
  PROVE  /\ Typing(t, Keys(t, data, m), m)
         /\ Typing(t, Paste(t, data, m), m)
         /\ Typing(t, Finish(t, m), m)
  <1>1. t.raw \in Seq(Byte) /\ << >> \in Seq(Byte)
    BY Utf8Short DEF State
  <1>2. Typing(t, Keys(t, data, m), m)
    <2> DEFINE d == from_utf8(t.raw \o data)
    <2>1. t.raw \o data \in Seq(Byte)
      BY <1>1, ConcatProperties
    <2>2. d.text \in Seq(Char) /\ d.rest \in Seq(Byte)
      BY <2>1, DecodedType DEF Decoded
    <2>3. Keys(t, data, m) = [process_typed_chars(t, d.text, m) EXCEPT !.raw = d.rest]
      BY DEF Keys
    <2> HIDE DEF d
    <2>4. Typing(t, process_typed_chars(t, d.text, m), m)
      BY <2>2, ProcessText
    <2> QED BY <2>2, <2>3, <2>4, RawType
  <1> DEFINE p == FlushRaw(t, m)
  <1>3. Typing(t, p, m) /\ p \in State /\ Dated(p)
    <2>1. from_utf8_lossy(t.raw) \in Seq(Char)
      BY <1>1, LossyAny
    <2> DEFINE q == process_typed_chars(t, from_utf8_lossy(t.raw), m)
               none == << >>
    <2>2. Typing(t, q, m) /\ none \in Seq(Byte)
      BY <1>1, <2>1, ProcessText
    <2>3. p = [q EXCEPT !.raw = none]
      BY DEF FlushRaw
    <2> HIDE DEF q, none
    <2>4. Typing(t, p, m)
      BY <2>2, <2>3, RawType
    <2> QED BY <2>4 DEF Typing
  <1> HIDE DEF p
  <1>4. Typing(t, Paste(t, data, m), m)
    <2>1. from_utf8_lossy(data) \in Seq(Char)
      BY LossyAny
    <2>2. Paste(t, data, m) = process_typed_chars(p, from_utf8_lossy(data), m)
      BY DEF Paste, p
    <2>3. Typing(p, Paste(t, data, m), m)
      BY <1>3, <2>1, <2>2, ProcessText
    <2> QED BY <1>3, <2>3, TypingTwice
  <1>5. Typing(t, Finish(t, m), m)
    <2>1. Finish(t, m) = flush_line_buffer(p, m) /\ m \in Nat
      BY DEF Finish, p
    <2>2. Typing(p, Finish(t, m), m)
      BY <1>3, <2>1, FlushTurn
    <2> QED BY <1>3, <2>2, TypingTwice
  <1> QED BY <1>2, <1>4, <1>5

\* No lines.
LEMMA LinesEmpty == Lines(<< >>) = << >>
  <1>1. Filter(<< >>, TypedActivity) = << >>
    <2> DEFINE none == << >>
    <2>1. none \in Seq(AnyActivity) /\ \A i \in 1..Len(none) : none[i] \in TypedActivity
      OBVIOUS
    <2> HIDE DEF none
    <2>2. Filter(none, TypedActivity) = none
      BY <2>1, FilterAll
    <2> QED BY <2>2 DEF none
  <1> DEFINE none == [i \in DOMAIN << >> |-> << >>[i].line]
  <1>2. Lines(<< >>) = none
    BY <1>1 DEF Lines
  <1>3. none \in [1..0 -> {}]
    OBVIOUS
  <1>4. none \in Seq({}) /\ Len(none) = 0
    BY <1>3
  <1> HIDE DEF none
  <1>5. none = << >>
    BY <1>4, EmptySeq
  <1> QED BY <1>2, <1>5

\* The types hold at first.
LEMMA InitIInv == Init => IInv
  <1> SUFFICES ASSUME Init PROVE IInv
    OBVIOUS
  <1>1. /\ now = 1 /\ input = << >> /\ execs = << >> /\ ended = 0
        /\ s = EmptySession
    BY DEF Init
  <1>2. /\ s.raw = << >> /\ s.line = << >> /\ s.start = 0 /\ s.activities = << >>
    BY <1>1 DEF EmptySession
  <1>3. s \in State
    <2>1. /\ << >> \in Seq(Byte) /\ << >> \in Seq(Char) /\ 0 \in Nat
          /\ << >> \in Seq(TypedActivity \cup PromptActivity)
      OBVIOUS
    <2>2. FALSE \in BOOLEAN
      OBVIOUS
    <2> QED BY <1>1, <2>1, <2>2, Zenon DEF EmptySession, State
  <1>4. Bytes = << >>
    <2>1. BytesOf(input) \in Seq(Byte) /\ Len(BytesOf(input)) = 0
      <3>1. input \in Seq(InputByte) /\ Len(input) = 0
        BY <1>1
      <3> QED BY <3>1, BytesType
    <2>2. BytesOf(input) = << >>
      BY <2>1, EmptySeq
    <2> QED BY <2>2 DEF Bytes, BytesOf
  <1>5. Types
    <2>1. Dated(s) /\ Utf8(Bytes)
      BY <1>2, <1>4, Utf8Short DEF Dated
    <2> QED BY <1>1, <1>2, <1>3, <2>1 DEF Types
  <1>6. Reading
    <2>1. Shape(s) = Nothing
      BY <1>2, LinesEmpty DEF Shape, Nothing
    <2>2. Reads(s, Bytes)
      BY <1>2, <1>4, <2>1, DecodeRest, WrittenEmpty DEF Reads
    <2> QED BY <1>1, <2>2 DEF Reading
  <1>7. Times(s, input, now)
    BY <1>2 DEF Times, Has
  <1> QED BY <1>5, <1>6, <1>7 DEF IInv
--------------------------------------------------------------------------------
(* Times *)

\* Activities are dated.
LEMMA ActivityType ==
  ASSUME NEW t \in State
  PROVE  /\ \A a : Has(t.activities, a) => a \in AnyActivity /\ a.at \in Nat /\ a.done \in Nat
         /\ t.start \in Nat
  <1>1. t.activities \in Seq(AnyActivity) /\ t.start \in Nat
    BY DEF State, AnyActivity
  <1>2. \A a \in AnyActivity : a.at \in Nat /\ a.done \in Nat
    BY DEF AnyActivity, TypedActivity, PromptActivity
  <1>3. \A a : Has(t.activities, a) => a \in AnyActivity
    BY <1>1, ElementOfSeq DEF Has
  <1> QED BY <1>1, <1>2, <1>3

\* What was begun before an event was begun before it when more was read.
LEMMA BegunStays ==
  ASSUME NEW new, NEW old, NEW data, NEW m, ReadOn(new, old, data, m), m \in Nat,
         NEW at, NEW done \in Nat, done <= m, Begun(old, at, done)
  PROVE  Begun(new, at, done)
  <1> DEFINE n == Len(old)
  <1>1. PICK p \in 1..n :
          /\ old[p].at <= at
          /\ \A i \in p..n : old[i].byte = "enter" => done <= old[i].at
    BY DEF Begun
  <1>2. /\ n \in Nat /\ Len(data) \in Nat /\ Len(new) = n + Len(data)
        /\ \A i \in 1..n : new[i] = old[i]
        /\ \A i \in 1..Len(data) : new[n + i].at = m
        /\ \A i \in 1..Len(new) : i \in 1..n \/ \E k \in 1..Len(data) : i = n + k
    BY DEF ReadOn
  <1> HIDE DEF n
  <1>3. p \in 1..Len(new) /\ new[p].at <= at
    BY <1>1, <1>2
  <1>4. ASSUME NEW i \in p..Len(new), new[i].byte = "enter"
        PROVE  done <= new[i].at
    <2>1. i \in 1..Len(new)
      BY <1>1, <1>2
    <2>2. CASE i \in 1..n
      <3>1. i \in p..n
        BY <1>1, <1>2, <2>2
      <3> QED BY <1>1, <1>2, <1>4, <2>2, <3>1
    <2>3. CASE \E k \in 1..Len(data) : i = n + k
      BY <1>2, <2>3
    <2> QED BY <1>2, <2>1, <2>2, <2>3
  <1> QED BY <1>3, <1>4 DEF Begun

\* What is read during an event is begun with it.
LEMMA BegunNow ==
  ASSUME NEW new, NEW old, NEW data, NEW m, ReadOn(new, old, data, m), m \in Nat
  PROVE  /\ Begun(new, m, m)
         /\ ~Ends(data, "enter") => Begun(new, m, m + 1)
  <1> DEFINE n == Len(old)
  <1>1. /\ n \in Nat /\ Len(data) \in Nat /\ Len(data) # 0 /\ Len(new) = n + Len(data)
        /\ \A i \in 1..Len(data) : new[n + i].at = m /\ new[n + i].byte = data[i]
        /\ \A i \in 1..Len(new) : i \in 1..n \/ \E k \in 1..Len(data) : i = n + k
    BY DEF ReadOn
  <1>2. data # << >>
    BY <1>1, LenProperties
  <1> HIDE DEF n
  <1>3. Begun(new, m, m)
    <2>0. n + 1 \in 1..Len(new) /\ 1 \in 1..Len(data)
      BY <1>1
    <2>1. new[n + 1].at <= m
      BY <1>1, <2>0
    <2>2. ASSUME NEW i \in (n + 1)..Len(new) PROVE m <= new[i].at
      <3>1. i \in 1..Len(new) /\ i \notin 1..n
        BY <1>1
      <3> QED BY <1>1, <3>1
    <2> QED BY <2>0, <2>1, <2>2 DEF Begun
  <1>4. ASSUME ~Ends(data, "enter") PROVE Begun(new, m, m + 1)
    <2> DEFINE last == n + Len(data)
    <2>1. /\ last \in 1..Len(new) /\ new[last].at <= m
          /\ new[last].byte # "enter"
      <3>1. Len(data) \in 1..Len(data)
        BY <1>1
      <3>2. data[Len(data)] # "enter"
        BY <1>2, <1>4 DEF Ends
      <3>3. new[last].at = m /\ new[last].byte = data[Len(data)]
        BY <1>1, <3>1
      <3> QED BY <1>1, <3>2, <3>3
    <2>2. \A i \in last..Len(new) : i = last
      BY <1>1
    <2> HIDE DEF last
    <2> QED BY <2>1, <2>2 DEF Begun
  <1> QED BY <1>3, <1>4

\* A line without an end so far was begun with the same byte when more is read.
LEMMA BegunOn ==
  ASSUME NEW new, NEW old, NEW data, NEW m, ReadOn(new, old, data, m), m \in Nat,
         \A i \in 1..Len(old) : old[i].at \in Nat /\ old[i].at < m,
         ~Has(data, "enter"), NEW at, Begun(old, at, m)
  PROVE  Begun(new, at, m + 1)
  <1> DEFINE n == Len(old)
  <1>1. PICK p \in 1..n :
          /\ old[p].at <= at
          /\ \A i \in p..n : old[i].byte = "enter" => m <= old[i].at
    BY DEF Begun
  <1>2. /\ n \in Nat /\ Len(data) \in Nat /\ Len(new) = n + Len(data)
        /\ \A i \in 1..n : new[i] = old[i]
        /\ \A i \in 1..Len(data) : new[n + i].byte = data[i]
        /\ \A i \in 1..Len(new) : i \in 1..n \/ \E k \in 1..Len(data) : i = n + k
    BY DEF ReadOn
  <1> HIDE DEF n
  <1>3. \A i \in 1..n : old[i].at \in Nat /\ old[i].at < m
    BY DEF n
  <1>4. ASSUME NEW i \in p..Len(new) PROVE new[i].byte # "enter"
    <2>1. i \in 1..Len(new)
      BY <1>1, <1>2
    <2>2. CASE i \in 1..n
      <3>1. i \in p..n
        BY <1>1, <1>2, <2>2
      <3>2. ~(m <= old[i].at)
        BY <1>3, <2>2
      <3> QED BY <1>1, <1>2, <2>2, <3>1, <3>2
    <2>3. CASE \E k \in 1..Len(data) : i = n + k
      BY <1>2, <2>3 DEF Has
    <2> QED BY <1>2, <2>1, <2>2, <2>3
  <1>5. p \in 1..Len(new) /\ new[p].at <= at
    BY <1>1, <1>2
  <1> QED BY <1>4, <1>5 DEF Begun

\* Every activity has its times.
AllTimed(read, t, m) == \A a : Has(t.activities, a) => Timed(read, a, m)

\* What was begun until event n in old was in new.
Kept(new, old, n) ==
  \A at : \A done \in Nat : done <= n /\ Begun(old, at, done) => Begun(new, at, done)

\* What starts there was begun until event m.
Started(read, starts, m) == \A at \in starts : at # 0 => at <= m /\ Begun(read, at, m)

\* Activities of which t grew by m have their times when those of t have, and what
\* is begun at the starts was.
LEMMA GrownTimed ==
  ASSUME NEW t \in State, NEW r, NEW m \in Nat, NEW n \in Nat, n <= m, NEW starts,
         NEW old, NEW new, Grown(t, r, m, starts),
         AllTimed(old, t, n), Started(new, starts, m), Kept(new, old, n)
  PROVE  AllTimed(new, r, m)
  <1> SUFFICES ASSUME NEW a, Has(r.activities, a) PROVE Timed(new, a, m)
    BY Zenon DEF AllTimed
  <1>1. CASE Has(t.activities, a)
    <2>1. a.at \in Nat /\ a.done \in Nat
      BY <1>1, ActivityType
    <2>2. Timed(old, a, n)
      BY <1>1, Zenon DEF AllTimed
    <2>3. a.at <= a.done /\ a.done <= n
      BY <2>2 DEF Timed
    <2>4. a.done <= m
      BY <2>1, <2>3
    <2>5. IF a \in PromptActivity THEN a.at = a.done ELSE Begun(new, a.at, a.done)
      BY <2>1, <2>2, <2>3, Zenon DEF Timed, Kept
    <2> QED BY <2>3, <2>4, <2>5, Zenon DEF Timed
  <1>2. CASE a \in TypedActivity /\ a.done = m /\ a.at \in starts /\ a.at # 0
    <2>1. a \notin PromptActivity
      BY <1>2, PromptNotTyped
    <2>2. a.at <= m /\ Begun(new, a.at, m)
      BY <1>2 DEF Started
    <2> QED BY <1>2, <2>1, <2>2 DEF Timed
  <1> QED BY <1>1, <1>2, Zenon DEF Grown

\* Input keeps the times.
LEMMA InputTimes ==
  ASSUME NEW t \in State, NEW r \in State, NEW n \in Nat, NEW m, m = n + 1,
         NEW old, NEW new, NEW data, ReadOn(new, old, data, m),
         \A i \in 1..Len(old) : old[i].at \in Nat /\ old[i].at < m,
         t.start <= n, Times(t, old, n), Typing(t, r, m), Starts(r, data, m)
  PROVE  Times(r, new, m)
  <1>1. m \in Nat /\ n <= m /\ m # 0 /\ t.start \in Nat
    BY ActivityType
  <1>2. Begun(new, m, m) /\ (~Ends(data, "enter") => Begun(new, m, m + 1))
    BY <1>1, BegunNow
  <1>3. \A at : \A done \in Nat : done <= m /\ Begun(old, at, done) => Begun(new, at, done)
    BY <1>1, BegunStays
  <1>4. t.start # 0 => Begun(old, t.start, m)
    BY DEF Times
  <1>5. r.start # 0 => Begun(new, r.start, m + 1)
    <2> SUFFICES ASSUME r.start # 0 PROVE Begun(new, r.start, m + 1)
      OBVIOUS
    <2>1. r.start \in {t.start, m}
      BY DEF Typing
    <2>2. CASE r.start = m
      <3>1. ~Ends(data, "enter")
        BY DEF Starts
      <3> QED BY <1>2, <2>2, <3>1
    <2>3. CASE r.start = t.start /\ r.start # m
      <3>1. ~Has(data, "enter")
        BY <2>3 DEF Starts
      <3>2. Begun(old, t.start, m)
        BY <1>4, <2>3
      <3>3. Begun(new, t.start, m + 1)
        BY <1>1, <3>1, <3>2, BegunOn, Zenon
      <3> QED BY <2>3, <3>3
    <2> QED BY <2>1, <2>2, <2>3
  <1>6. AllTimed(new, r, m)
    <2> DEFINE starts == {t.start, m}
    <2>1. Grown(t, r, m, starts)
      BY DEF Typing
    <2>2. AllTimed(old, t, n)
      BY Zenon DEF Times, AllTimed
    <2>3. Started(new, starts, m)
      <3>1. t.start # 0 => t.start <= m /\ Begun(new, t.start, m)
        BY <1>1, <1>3, <1>4
      <3> QED BY <1>1, <1>2, <3>1 DEF Started
    <2>4. Kept(new, old, n)
      BY <1>1, <1>3 DEF Kept
    <2> HIDE DEF starts
    <2> QED BY <1>1, <2>1, <2>2, <2>3, <2>4, GrownTimed, Zenon
  <1> QED BY <1>5, <1>6, Zenon DEF Times, AllTimed

\* What was begun before an event was begun before an earlier one.
LEMMA BegunLess ==
  ASSUME NEW read \in Seq(InputByte), NEW at, NEW m \in Nat, NEW done \in Nat, done <= m,
         Begun(read, at, m)
  PROVE  Begun(read, at, done)
  <1>1. \A x \in InputByte : x.at \in Nat
    BY DEF InputByte
  <1>2. PICK p \in 1..Len(read) :
          /\ read[p].at <= at
          /\ \A i \in p..Len(read) : read[i].byte = "enter" => m <= read[i].at
    BY DEF Begun
  <1>3. ASSUME NEW i \in p..Len(read), read[i].byte = "enter" PROVE done <= read[i].at
    <2>1. i \in 1..Len(read)
      BY <1>2, LenProperties
    <2>2. read[i].at \in Nat /\ m <= read[i].at
      BY <1>1, <1>2, <1>3, <2>1, ElementOfSeq
    <2> QED BY <2>2
  <1> QED BY <1>2, <1>3 DEF Begun

\* So does the end of the events.
LEMMA FinishTimes ==
  ASSUME NEW t \in State, Dated(t), NEW n \in Nat, NEW m \in Nat \ {0}, m \in {n, n + 1},
         NEW read \in Seq(InputByte), \A i \in 1..Len(read) : read[i].at <= n,
         t.start <= n, Times(t, read, n), Utf8(BytesOf(read)),
         Reads(t, BytesOf(read)) \/ ReadsAll(t, BytesOf(read))
  PROVE  AllTimed(read, Finish(t, m), m)
  <1> DEFINE r == Finish(t, m)
             bytes == BytesOf(read)
  <1>1. bytes \in Seq(Byte) /\ Len(bytes) = Len(read) /\ \A i \in 1..Len(read) : bytes[i] = read[i].byte
    BY BytesType
  <1>2. Typing(t, r, m) /\ (t.raw = << >> => Grown(t, r, m, {t.start}))
    BY <1>1, FinishReads
  <1>3. t.start \in Nat /\ n <= m
    BY ActivityType
  <1>4. t.start # 0 => t.start <= m /\ Begun(read, t.start, m)
    <2>1. t.start # 0 => Begun(read, t.start, n + 1)
      BY DEF Times
    <2>2. t.start # 0 => Begun(read, t.start, m)
      BY <2>1, BegunLess
    <2> QED BY <1>3, <2>2
  <1>5. AllTimed(read, t, n) /\ Kept(read, read, n)
    BY Zenon DEF Times, AllTimed, Kept
  <1>6. CASE t.raw = << >>
    <2>1. Grown(t, r, m, {t.start})
      BY <1>2, <1>6
    <2> HIDE DEF r, bytes
    <2>2. Started(read, {t.start}, m)
      BY <1>4 DEF Started
    <2>3. AllTimed(read, r, m)
      BY <1>3, <1>5, <2>1, <2>2, GrownTimed, Zenon
    <2> QED BY <2>3 DEF r
  <1>7. CASE t.raw # << >>
    <2>1. Ends(bytes, "lead")
      <3>1. Reads(t, bytes)
        BY <1>7 DEF ReadsAll
      <3> QED BY <1>1, <1>7, <3>1, Utf8Parts DEF Reads
    <2>2. Begun(read, m, m)
      <3>1. Len(read) \in 1..Len(read)
        <4>1. Len(bytes) \in Nat /\ Len(bytes) # 0
          BY <1>1, <2>1, EmptySeq, LenProperties DEF Ends
        <4> QED BY <1>1, <4>1
      <3>2. read[Len(read)].at <= m
        <4>1. read[Len(read)] \in InputByte
          BY <3>1, ElementOfSeq
        <4> QED BY <1>3, <3>1, <4>1 DEF InputByte
      <3>3. read[Len(read)].byte # "enter"
        BY <1>1, <2>1, <3>1 DEF Ends
      <3>4. \A i \in Len(read)..Len(read) : i = Len(read)
        BY <1>1, LenProperties
      <3> QED BY <3>1, <3>2, <3>3, <3>4 DEF Begun
    <2> DEFINE starts == {t.start, m}
    <2>3. Grown(t, r, m, starts)
      BY <1>2 DEF Typing
    <2> HIDE DEF r, bytes
    <2>4. Started(read, starts, m)
      BY <1>4, <2>2 DEF Started
    <2> HIDE DEF starts
    <2>5. AllTimed(read, r, m)
      BY <1>3, <1>5, <2>3, <2>4, GrownTimed, Zenon
    <2> QED BY <2>5 DEF r
  <1> QED BY <1>6, <1>7
--------------------------------------------------------------------------------
(* Every step that reads keeps the invariant *)

\* What Types says of the bytes.
LEMMA InputType ==
  ASSUME Types
  PROVE  /\ input \in Seq(InputByte) /\ Bytes = BytesOf(input) /\ Bytes \in Seq(Byte)
         /\ Len(Bytes) = Len(input) /\ \A i \in 1..Len(input) : Bytes[i] = input[i].byte
         /\ \A i \in 1..Len(input) : input[i].at \in Nat /\ input[i].at <= now /\ input[i].at < now + 1
         /\ now \in Nat /\ now + 1 \in Nat \ {0} /\ s.start \in Nat
  <1>1. input \in Seq(InputByte) /\ Bytes = BytesOf(input) /\ now \in Nat /\ now + 1 \in Nat \ {0}
    BY DEF Types, Bytes, BytesOf
  <1>2. /\ BytesOf(input) \in Seq(Byte) /\ Len(BytesOf(input)) = Len(input)
        /\ \A i \in 1..Len(input) : BytesOf(input)[i] = input[i].byte
    BY <1>1, BytesType
  <1>3. \A i \in 1..Len(input) : input[i].at \in Nat
    <2>1. \A x \in InputByte : x.at \in Nat
      BY DEF InputByte
    <2> QED BY <1>1, <2>1, ElementOfSeq
  <1>4. \A i \in 1..Len(input) : input[i].at <= now
    BY DEF Types
  <1>5. s.start \in Nat
    BY DEF Types, State
  <1> QED BY <1>1, <1>2, <1>3, <1>4, <1>5

\* Input keeps the types.
LEMMA InputTypes ==
  ASSUME Types, ended = 0, UNCHANGED <<execs, ended>>, NEW paste \in BOOLEAN,
         NEW data \in Seq(Byte), data # << >>,
         data[1] = "trail" <=> Ends(Bytes, "lead"),
         \A i \in 1..(Len(data) - 1) : data[i] = "lead" <=> data[i + 1] = "trail",
         now' = now + 1, Typing(s, s', now + 1),
         input' = input \o Chunk(data, now + 1, paste)
  PROVE  Types'
  <1> DEFINE m == now + 1
             n == Len(input)
  <1>1. /\ input \in Seq(InputByte) /\ Bytes \in Seq(Byte)
        /\ \A i \in 1..n : input[i].at \in Nat /\ input[i].at <= now /\ input[i].at < now + 1
        /\ now \in Nat /\ now + 1 \in Nat \ {0} /\ s.start \in Nat
    BY InputType, Zenon
  <1>2. ReadOn(input', input, data, m) /\ Bytes' = Bytes \o data
    BY <1>1, InputNext, Zenon
  <1>3. /\ input' \in Seq(InputByte) /\ n \in Nat /\ Len(data) \in Nat
        /\ \A i \in 1..n : input'[i] = input[i]
        /\ \A i \in 1..Len(data) : input'[n + i].at = m
        /\ \A i \in 1..Len(input') : i \in 1..n \/ \E k \in 1..Len(data) : i = n + k
    BY <1>2 DEF ReadOn
  <1>4. now' \in Nat \ {0} /\ now' = m /\ m \in Nat
    BY <1>1
  <1>5. s' \in State /\ Dated(s)' /\ s'.start <= m
    <2>1. s' \in State /\ Dated(s') /\ s'.start \in {0, s.start, m}
      BY DEF Typing
    <2>2. s.start <= now
      BY DEF Types
    <2>3. s'.start <= m
      BY <1>1, <2>1, <2>2
    <2> QED BY <2>1, <2>3 DEF Dated
  <1> HIDE DEF n
  <1>6. \A i \in 1..Len(input') : input'[i].at <= m
    <2> SUFFICES ASSUME NEW i \in 1..Len(input') PROVE input'[i].at <= m
      OBVIOUS
    <2>1. CASE i \in 1..n
      BY <1>1, <1>3, <2>1
    <2>2. CASE \E k \in 1..Len(data) : i = n + k
      <3>1. PICK k \in 1..Len(data) : i = n + k
        BY <2>2, Zenon
      <3>2. input'[i].at = m
        BY <1>3, <3>1, Zenon
      <3> QED BY <1>4, <3>2
    <2> QED BY <1>3, <2>1, <2>2
  <1>7. \A i, j \in 1..Len(input') : i <= j => input'[i].at <= input'[j].at
    <2> SUFFICES ASSUME NEW i \in 1..Len(input'), NEW j \in 1..Len(input'), i <= j
                 PROVE  input'[i].at <= input'[j].at
      OBVIOUS
    <2>1. CASE j \in 1..n
      <3>1. i \in 1..n
        BY <1>3, <2>1
      <3>2. input[i].at <= input[j].at
        BY <2>1, <3>1 DEF Types, n
      <3> QED BY <1>3, <2>1, <3>1, <3>2
    <2>2. CASE \E k \in 1..Len(data) : j = n + k
      <3>0. PICK k \in 1..Len(data) : j = n + k
        BY <2>2, Zenon
      <3>1. input'[j].at = m
        BY <1>3, <3>0, Zenon
      <3> QED BY <1>6, <3>1
    <2> QED BY <1>3, <2>1, <2>2
  <1>8. /\ execs' \in Seq(ExecEvent) /\ ended' \in Nat /\ ended' <= m
        /\ \A i \in 1..Len(execs') : execs'[i].at <= m /\ execs'[i].pid \in Pid
    <2>1. execs' = execs /\ ended' = ended
      OBVIOUS
    <2>2. /\ execs \in Seq(ExecEvent) /\ ended \in Nat /\ ended <= now
          /\ \A i \in 1..Len(execs) : execs[i].at <= now /\ execs[i].pid \in Pid
      BY DEF Types
    <2>3. \A i \in 1..Len(execs) : execs[i].at \in Nat
      <3>1. \A x \in ExecEvent : x.at \in Nat
        BY DEF ExecEvent
      <3> QED BY <2>2, <3>1, ElementOfSeq
    <2> QED BY <1>1, <2>1, <2>2, <2>3
  <1>9. Utf8(Bytes)'
    <2>1. Utf8(Bytes)
      BY DEF Types
    <2>2. Utf8(Bytes \o data)
      BY <1>1, <2>1, Utf8Concat
    <2> QED BY <1>2, <2>2 DEF Utf8
  <1> HIDE DEF m
  <1>10. /\ s' \in State /\ Dated(s)' /\ s'.start <= now'
         /\ \A i \in 1..Len(input') : input'[i].at <= now'
         /\ execs' \in Seq(ExecEvent) /\ ended' \in Nat /\ ended' <= now'
         /\ \A i \in 1..Len(execs') : execs'[i].at <= now' /\ execs'[i].pid \in Pid
    BY <1>4, <1>5, <1>6, <1>8, Zenon
  <1> QED BY <1>3, <1>4, <1>7, <1>9, <1>10, Zenon DEF Types

\* Input keeps what was read, and the times.
LEMMA InputReads ==
  ASSUME IInv, ended = 0, ended' = 0, NEW paste \in BOOLEAN,
         NEW data \in Seq(Byte), data # << >>,
         data[1] = "trail" <=> Ends(Bytes, "lead"),
         \A i \in 1..(Len(data) - 1) : data[i] = "lead" <=> data[i + 1] = "trail",
         now' = now + 1, input' = input \o Chunk(data, now + 1, paste),
         s' = IF paste THEN Paste(s, data, now + 1) ELSE Keys(s, data, now + 1),
         WellCut'
  PROVE  Reading' /\ Times(s', input', now')
  <1> DEFINE m == now + 1
  <1>1. /\ input \in Seq(InputByte) /\ Bytes \in Seq(Byte) /\ Bytes = BytesOf(input)
        /\ \A i \in 1..Len(input) : input[i].at \in Nat /\ input[i].at <= now /\ input[i].at < now + 1
        /\ now \in Nat /\ m \in Nat \ {0} /\ s.start \in Nat
    BY InputType, Zenon DEF IInv
  <1>2. /\ ReadOn(input', input, data, m) /\ Bytes' = Bytes \o data
        /\ input'[Len(input) + Len(data)].paste <=> paste
    BY <1>1, InputNext, Zenon
  <1>3. /\ WellCut /\ ~Continues(Place(Bytes), data[1])
        /\ Ends(Bytes, "lead") => ~paste /\ ~input[Len(input)].paste
    BY <1>1, WellCutBefore, Zenon
  <1>4. s \in State /\ Dated(s) /\ s.start <= now /\ Utf8(Bytes)
    BY DEF IInv, Types
  <1>5. Reads(s, Bytes) /\ Times(s, input, now)
    BY <1>3 DEF IInv, Reading, Half
  <1>6. Utf8(Bytes \o data) /\ (Utf8(data) \/ Ends(Bytes, "lead"))
    BY <1>1, <1>4, Utf8Concat
  <1>7. Typing(s, s', m) /\ Starts(s', data, m) /\ (Reads(s', Bytes \o data) \/ Half')
    <2>1. CASE ~paste
      <3>1. s' = Keys(s, data, m)
        BY <2>1
      <3> HIDE DEF m
      <3>2. /\ Typing(s, Keys(s, data, m), m) /\ Reads(Keys(s, data, m), Bytes \o data)
            /\ Starts(Keys(s, data, m), data, m)
        BY <1>1, <1>3, <1>4, <1>5, <1>6, KeysRead, Zenon
      <3> QED BY <3>1, <3>2, Zenon
    <2>2. CASE paste
      <3>1. s' = Paste(s, data, m) /\ ~Ends(Bytes, "lead") /\ Utf8(data)
        BY <1>3, <1>6, <2>2
      <3>2. /\ Typing(s, s', m) /\ Starts(s', data, m)
            /\ IF Ends(data, "lead") THEN ReadsAll(s', Bytes \o data) ELSE Reads(s', Bytes \o data)
        <4> HIDE DEF m
        <4>1. /\ Typing(s, Paste(s, data, m), m) /\ Starts(Paste(s, data, m), data, m)
              /\ IF Ends(data, "lead") THEN ReadsAll(Paste(s, data, m), Bytes \o data)
                                       ELSE Reads(Paste(s, data, m), Bytes \o data)
          BY <1>1, <1>3, <1>4, <1>5, <1>6, <3>1, PasteReads, Zenon
        <4> QED BY <3>1, <4>1, Zenon
      <3>3. ASSUME Ends(data, "lead") PROVE Half'
        <4>1. ReadsAll(s', Bytes')
          BY <1>2, <3>2, <3>3, Zenon
        <4>2. Ends(Bytes', "lead")
          <5>1. Ends(Bytes \o data, "lead")
            BY <1>1, <3>3, HasConcat
          <5> QED BY <1>2, <5>1, Zenon
        <4>3. input'[Len(input')].paste
          <5>1. Len(input') = Len(input) + Len(data)
            BY <1>2 DEF ReadOn
          <5> QED BY <1>2, <2>2, <5>1, Zenon
        <4> QED BY <4>1, <4>2, <4>3, Zenon DEF Half, ReadsAll, Ends
      <3> QED BY <3>2, <3>3, Zenon
    <2> QED BY <2>1, <2>2
  <1>8. Reading'
    <2>1. Reads(s', Bytes') \/ Half'
      BY <1>2, <1>7, Zenon
    <2> QED BY <2>1, Zenon DEF Reading, Reads
  <1>9. Times(s', input', m)
    <2>1. s' \in State
      BY <1>7 DEF Typing
    <2>2. \A i \in 1..Len(input) : input[i].at \in Nat /\ input[i].at < m
      BY <1>1
    <2>3. m = now + 1
      OBVIOUS
    <2> HIDE DEF m
    <2>4. s \in State /\ now \in Nat /\ s.start <= now /\ Times(s, input, now)
      BY <1>1, <1>4, <1>5, Zenon
    <2>5. ReadOn(input', input, data, m) /\ Typing(s, s', m) /\ Starts(s', data, m)
      BY <1>2, <1>7, Zenon
    <2> QED BY <2>1, <2>2, <2>3, <2>4, <2>5, InputTimes, SMTT(60)
  <1> QED BY <1>8, <1>9

\* So an event of input keeps both.
LEMMA InputKeeps ==
  ASSUME IInv, NEW n \in 1..MaxChunk, NEW paste \in BOOLEAN, Input(n, paste)
  PROVE  IInv'
  <1>1. Types /\ ended = 0 /\ now' = now + 1 /\ UNCHANGED <<execs, ended>>
    BY DEF IInv, Input, NextEvent
  <1>2. PICK data \in Seq(Byte) :
          /\ data # << >>
          /\ data[1] = "trail" <=> Ends(Bytes, "lead")
          /\ \A i \in 1..(Len(data) - 1) : data[i] = "lead" <=> data[i + 1] = "trail"
          /\ s' = IF paste THEN Paste(s, data, now') ELSE Keys(s, data, now')
          /\ input' = input \o Chunk(data, now', paste)
    <2>1. n \in Nat \ {0}
      BY AnalysisAssumption
    <2>2. PICK data \in Chunks[n] :
            /\ data[1] = "trail" <=> input # << >> /\ Last(input).byte = "lead"
            /\ s' = IF paste THEN Paste(s, data, now') ELSE Keys(s, data, now')
            /\ input' = input \o [i \in 1..n |-> [byte |-> data[i], at |-> now', paste |-> paste]]
      BY Zenon DEF Input
    <2>3. /\ data \in [1..n -> Byte]
          /\ \A i \in 1..(n - 1) : data[i] = "lead" <=> data[i + 1] = "trail"
      BY DEF Chunks
    <2>4. data \in Seq(Byte) /\ Len(data) = n /\ data # << >>
      <3>1. data \in Seq(Byte) /\ Len(data) = n
        BY <2>1, <2>3
      <3> QED BY <2>1, <3>1, LenProperties
    <2>5. input' = input \o Chunk(data, now', paste)
      BY <2>2, <2>4, Zenon DEF Chunk
    <2>6. Ends(Bytes, "lead") <=> input # << >> /\ Last(input).byte = "lead"
      <3>1. /\ BytesOf(input) \in Seq(Byte) /\ Len(BytesOf(input)) = Len(input)
            /\ \A i \in 1..Len(input) : BytesOf(input)[i] = input[i].byte
        BY <1>1, BytesType DEF Types
      <3>2. Bytes = BytesOf(input) /\ input \in Seq(InputByte)
        BY <1>1 DEF Bytes, BytesOf, Types
      <3>3. CASE input = << >>
        <4>1. BytesOf(input) = << >>
          BY <3>1, <3>3, EmptySeq
        <4> QED BY <3>2, <3>3, <4>1 DEF Ends
      <3>4. CASE input # << >>
        <4>1. Len(input) \in 1..Len(input) /\ Len(input) # 0
          <5>1. Len(input) \in Nat /\ Len(input) # 0
            BY <3>2, <3>4, EmptySeq
          <5> QED BY <5>1
        <4>2. BytesOf(input) # << >>
          BY <3>1, <4>1
        <4> QED BY <3>1, <3>2, <3>4, <4>1, <4>2 DEF Ends, Last
      <3> QED BY <3>3, <3>4
    <2> QED BY <2>2, <2>3, <2>4, <2>5, <2>6, Zenon
  <1>3. /\ s' = IF paste THEN Paste(s, data, now + 1) ELSE Keys(s, data, now + 1)
        /\ input' = input \o Chunk(data, now + 1, paste)
    BY <1>1, <1>2, Zenon
  <1>4. Typing(s, s', now + 1)
    <2>1. s \in State /\ Dated(s) /\ now + 1 \in Nat \ {0}
      BY <1>1 DEF Types
    <2>2. Typing(s, Keys(s, data, now + 1), now + 1) /\ Typing(s, Paste(s, data, now + 1), now + 1)
      BY <2>1, HandlersType, Zenon
    <2> QED BY <1>3, <2>2, Zenon
  <1>5. Types'
    BY <1>1, <1>2, <1>3, <1>4, InputTypes, Zenon
  <1>6. WellCut' => Reading' /\ Times(s', input', now')
    <2>1. ended' = 0
      BY <1>1
    <2> QED BY <1>1, <1>2, <1>3, <2>1, InputReads, Zenon
  <1> QED BY <1>5, <1>6, Zenon DEF IInv, Times
--------------------------------------------------------------------------------
(* The other events, and the invariant *)

\* A line that is not over at an event stays so while nothing is read.
LEMMA BegunStill ==
  ASSUME NEW read, NEW m \in Nat, \A i \in 1..Len(read) : read[i].at \in Nat /\ read[i].at < m,
         NEW at, NEW done, Begun(read, at, m), Len(read) \in Nat
  PROVE  Begun(read, at, done)
  <1>1. PICK p \in 1..Len(read) :
          /\ read[p].at <= at
          /\ \A i \in p..Len(read) : read[i].byte = "enter" => m <= read[i].at
    BY DEF Begun
  <1>2. \A i \in p..Len(read) : i \in 1..Len(read)
    BY <1>1
  <1>3. ASSUME NEW i \in p..Len(read) PROVE read[i].byte # "enter"
    <2>1. read[i].at \in Nat /\ read[i].at < m
      BY <1>2
    <2>2. ~(m <= read[i].at)
      BY <2>1
    <2> QED BY <1>1, <2>2, Zenon
  <1> QED BY <1>1, <1>3, Zenon DEF Begun

\* An event that is none of input, and leaves the line that is being typed.
LEMMA OtherKeeps ==
  ASSUME IInv, now' = now + 1, input' = input, ended = 0, ended' = 0,
         s' \in State, s'.raw = s.raw, s'.line = s.line, s'.start = s.start,
         Shape(s') = Shape(s),
         \A a : Has(s'.activities, a) =>
                  \/ Has(s.activities, a)
                  \/ a \in PromptActivity /\ a.at = now + 1 /\ a.done = now + 1,
         execs' \in Seq(ExecEvent),
         \A i \in 1..Len(execs') : execs'[i].at <= now + 1 /\ execs'[i].pid \in Pid
  PROVE  IInv'
  <1>1. /\ input \in Seq(InputByte) /\ Len(input) \in Nat
        /\ \A i \in 1..Len(input) : input[i].at \in Nat /\ input[i].at <= now /\ input[i].at < now + 1
        /\ now \in Nat /\ now + 1 \in Nat \ {0} /\ s.start \in Nat
    BY InputType, LenProperties DEF IInv
  <1>2. Bytes' = Bytes /\ (WellCut' <=> WellCut)
    BY Zenon DEF Bytes, WellCut, CutAt
  <1>3. Types'
    <2>1. /\ now' \in Nat \ {0} /\ s.start <= now' /\ ended' \in Nat /\ ended' <= now'
          /\ \A i \in 1..Len(execs') : execs'[i].at <= now' /\ execs'[i].pid \in Pid
      BY <1>1 DEF IInv, Types
    <2>2. \A i \in 1..Len(input) : input[i].at <= now'
      BY <1>1
    <2>3. Dated(s)' /\ s'.start <= now'
      BY <2>1 DEF Dated, IInv, Types
    <2>4. Utf8(Bytes)'
      BY <1>2, Zenon DEF Utf8, IInv, Types
    <2>5. \A i, j \in 1..Len(input) : i <= j => input[i].at <= input[j].at
      BY DEF IInv, Types
    <2> QED BY <1>1, <2>1, <2>2, <2>3, <2>4, <2>5, Zenon DEF Types
  <1>4. ASSUME WellCut PROVE Reading'
    <2>1. Reads(s, Bytes) \/ Half
      BY <1>4 DEF IInv, Reading
    <2>2. Reads(s', Bytes') \/ (/\ ReadsAll(s', Bytes') /\ Ends(Bytes', "lead") /\ input'[Len(input')].paste)
      BY <1>2, <2>1, Zenon DEF Reads, ReadsAll, Half
    <2> QED BY <2>2, Zenon DEF Reading, Half, Reads, ReadsAll, Ends
  <1>5. ASSUME WellCut PROVE Times(s', input', now')
    <2>1. Times(s, input, now)
      BY <1>4, <1>5 DEF IInv
    <2>2. s'.start # 0 => Begun(input', s'.start, now' + 1)
      <3>1. s.start # 0 => Begun(input, s.start, now + 1)
        BY <2>1, Zenon DEF Times
      <3>2. s.start # 0 => Begun(input, s.start, now' + 1)
        BY <1>1, <3>1, BegunStill, Zenon
      <3> QED BY <3>2, Zenon
    <2>3. ASSUME NEW a, Has(s'.activities, a) PROVE Timed(input', a, now')
      <3>1. CASE Has(s.activities, a)
        <4>1. Timed(input, a, now)
          BY <2>1, <3>1, Zenon DEF Times
        <4>2. a.done \in Nat
          BY <3>1, ActivityType DEF IInv, Types
        <4>3. a.done <= now'
          <5>1. a.done <= now
            BY <4>1 DEF Timed
          <5> QED BY <1>1, <4>2, <5>1
        <4> QED BY <4>1, <4>3, Zenon DEF Timed
      <3>2. CASE a \in PromptActivity /\ a.at = now + 1 /\ a.done = now + 1
        BY <1>1, <3>2 DEF Timed
      <3> QED BY <2>3, <3>1, <3>2, Zenon
    <2> QED BY <2>2, <2>3, Zenon DEF Times
  <1> QED BY <1>2, <1>3, <1>4, <1>5, Zenon DEF IInv, Times

\* So does an exec.
LEMMA ExecKeeps ==
  ASSUME IInv, NEW pid \in Pid, NEW ppid \in Pid \cup {Outside}, ProcessExec(pid, ppid)
  PROVE  IInv'
  <1> DEFINE e == [pid |-> pid, ppid |-> ppid, at |-> now + 1]
             ai == pid \in AiPid
  <1>1. /\ now' = now + 1 /\ input' = input /\ ended = 0 /\ ended' = 0
        /\ execs' = Append(execs, e) /\ s' = Exec(s, ai)
    BY DEF ProcessExec, NextEvent
  <1>2. /\ s \in State /\ now \in Nat /\ execs \in Seq(ExecEvent)
        /\ \A i \in 1..Len(execs) : execs[i].at <= now /\ execs[i].pid \in Pid
    BY DEF IInv, Types
  <1>3. e \in ExecEvent /\ e.at = now + 1 /\ e.pid = pid
    <2>1. pid \in Nat /\ ppid \in Nat /\ now + 1 \in Nat
      BY <1>2, AnalysisAssumption
    <2> QED BY <2>1 DEF ExecEvent
  <1> HIDE DEF e
  <1>4. /\ execs' \in Seq(ExecEvent)
        /\ \A i \in 1..Len(execs') : execs'[i].at <= now + 1 /\ execs'[i].pid \in Pid
    <2>1. /\ Append(execs, e) \in Seq(ExecEvent) /\ Len(Append(execs, e)) = Len(execs) + 1
          /\ Append(execs, e)[Len(execs) + 1] = e
          /\ \A i \in 1..Len(execs) : Append(execs, e)[i] = execs[i]
          /\ Len(execs) \in Nat
      BY <1>2, <1>3, AppendProperties, LenProperties
    <2>2. \A i \in 1..Len(execs) : execs[i].at \in Nat
      <3>1. \A x \in ExecEvent : x.at \in Nat
        BY DEF ExecEvent
      <3> QED BY <1>2, <3>1, ElementOfSeq
    <2>3. \A i \in 1..(Len(execs) + 1) : i \in 1..Len(execs) \/ i = Len(execs) + 1
      BY <2>1
    <2>4. \A i \in 1..Len(execs) : execs[i].at <= now + 1
      BY <1>2, <2>2
    <2>5. ASSUME NEW i \in 1..(Len(execs) + 1)
          PROVE  Append(execs, e)[i].at <= now + 1 /\ Append(execs, e)[i].pid \in Pid
      <3>1. CASE i \in 1..Len(execs)
        BY <1>2, <2>1, <2>4, <3>1, Zenon
      <3>2. CASE i = Len(execs) + 1
        BY <1>2, <1>3, <2>1, <3>2
      <3> QED BY <2>3, <3>1, <3>2
    <2> QED BY <1>1, <2>1, <2>5, Zenon
  <1>5. /\ s' \in State /\ s'.raw = s.raw /\ s'.line = s.line /\ s'.start = s.start
        /\ s'.activities = s.activities
    <2>1. s' = [s EXCEPT !.ai = s.ai \/ ai]
      BY <1>1, Zenon DEF Exec
    <2>2. (s.ai \/ ai) \in BOOLEAN
      OBVIOUS
    <2> DEFINE new == s.ai \/ ai
    <2>3. s' = [s EXCEPT !.ai = new] /\ new \in BOOLEAN
      BY <2>1, <2>2
    <2> HIDE DEF new
    <2> QED BY <1>2, <2>3 DEF State
  <1>6. Shape(s') = Shape(s)
    BY <1>5 DEF Shape
  <1> QED BY <1>1, <1>4, <1>5, <1>6, OtherKeeps, Zenon

\* So does a prompt.
LEMMA PromptKeeps ==
  ASSUME IInv, PromptTrace
  PROVE  IInv'
  <1> DEFINE m == now + 1
             a == Activity("AiPrompt", <<"prompt">>, m, m)
  <1>1. /\ now' = now + 1 /\ input' = input /\ ended = 0 /\ ended' = 0 /\ execs' = execs
        /\ s' = Prompt(s, m)
    BY DEF PromptTrace, NextEvent
  <1>2. /\ s \in State /\ now \in Nat /\ m \in Nat /\ execs \in Seq(ExecEvent)
        /\ \A i \in 1..Len(execs) : execs[i].at <= now /\ execs[i].pid \in Pid
        /\ s.activities \in Seq(AnyActivity)
    BY DEF IInv, Types, State, AnyActivity
  <1>3. a \in PromptActivity /\ a.at = m /\ a.done = m
    BY <1>2 DEF Activity, PromptActivity, ActivityKind
  <1>4. s' = [s EXCEPT !.ai = TRUE, !.activities = Append(s.activities, a)]
    BY <1>1 DEF Prompt
  <1> HIDE DEF a
  <1>5. a \in AnyActivity
    BY <1>3 DEF AnyActivity
  <1>6. Append(s.activities, a) \in Seq(AnyActivity)
    BY <1>2, <1>5, AppendProperties
  <1>7. /\ s' \in State /\ s'.raw = s.raw /\ s'.line = s.line /\ s'.start = s.start
        /\ s'.activities = Append(s.activities, a)
    BY <1>2, <1>4, <1>6 DEF State, AnyActivity
  <1>8. Shape(s') = Shape(s)
    BY <1>2, <1>3, <1>7, LinesAppend DEF Shape
  <1>9. \A b : Has(s'.activities, b) => Has(s.activities, b) \/ b = a
    BY <1>2, <1>5, <1>7, HasAppend
  <1>10. \A i \in 1..Len(execs') : execs'[i].at <= now + 1 /\ execs'[i].pid \in Pid
    <2>1. \A i \in 1..Len(execs) : execs[i].at \in Nat
      <3>1. \A x \in ExecEvent : x.at \in Nat
        BY DEF ExecEvent
      <3> QED BY <1>2, <3>1, ElementOfSeq
    <2> QED BY <1>1, <1>2, <2>1
  <1>11. \A b : Has(s'.activities, b) =>
                  \/ Has(s.activities, b)
                  \/ b \in PromptActivity /\ b.at = now + 1 /\ b.done = now + 1
    BY <1>3, <1>9, Zenon
  <1> QED BY <1>1, <1>2, <1>7, <1>8, <1>10, <1>11, OtherKeeps, Zenon

\* So does the end of the session.
LEMMA EndKeeps ==
  ASSUME IInv, SessionEnd
  PROVE  IInv'
  <1> DEFINE m == now + 1
             r == Finish(s, m)
  <1>1. now' = m /\ input' = input /\ ended = 0 /\ ended' = m /\ execs' = execs /\ s' = r
    BY DEF SessionEnd, NextEvent
  <1>2. /\ input \in Seq(InputByte) /\ Bytes \in Seq(Byte) /\ Bytes = BytesOf(input)
        /\ \A i \in 1..Len(input) : input[i].at \in Nat /\ input[i].at <= now /\ input[i].at < now + 1
        /\ now \in Nat /\ now + 1 \in Nat \ {0} /\ s.start \in Nat
    BY InputType, Zenon DEF IInv
  <1>3. /\ s \in State /\ Dated(s) /\ s.start <= now /\ Utf8(Bytes)
        /\ execs \in Seq(ExecEvent)
        /\ \A i \in 1..Len(execs) : execs[i].at <= now /\ execs[i].pid \in Pid
    BY DEF IInv, Types
  <1>4. Bytes' = Bytes /\ (WellCut' <=> WellCut)
    BY <1>1, Zenon DEF Bytes, WellCut, CutAt
  <1>5. Typing(s, r, m)
    BY <1>2, <1>3, HandlersType, Zenon
  <1> HIDE DEF r
  <1>6. Types'
    <2>1. r \in State /\ Dated(r) /\ r.start <= m
      <3>1. r \in State /\ Dated(r) /\ r.start \in {0, s.start, m}
        BY <1>5 DEF Typing
      <3> QED BY <1>2, <1>3, <3>1
    <2>2. \A i \in 1..Len(execs) : execs[i].at <= m
      <3>1. \A i \in 1..Len(execs) : execs[i].at \in Nat
        <4>1. \A x \in ExecEvent : x.at \in Nat
          BY DEF ExecEvent
        <4> QED BY <1>3, <4>1, ElementOfSeq
      <3> QED BY <1>2, <1>3, <3>1
    <2>3. Utf8(Bytes)'
      BY <1>3, <1>4, Zenon DEF Utf8
    <2>4. \A i, j \in 1..Len(input) : i <= j => input[i].at <= input[j].at
      BY DEF IInv, Types
    <2>5. Dated(s)' /\ s' \in State /\ s'.start <= now'
      BY <1>1, <2>1, Zenon DEF Dated
    <2>6. ended' \in Nat /\ ended' <= now' /\ now' \in Nat \ {0}
      BY <1>1, <1>2
    <2>7. \A i \in 1..Len(input) : input[i].at <= m
      BY <1>2
    <2> HIDE DEF m
    <2> QED BY <1>1, <1>2, <1>3, <2>2, <2>3, <2>4, <2>5, <2>6, <2>7, Zenon DEF Types
  <1>7. ASSUME WellCut PROVE Reading' /\ Times(s', input', now')
    <2>1. (Reads(s, Bytes) \/ ReadsAll(s, Bytes)) /\ Times(s, input, now)
      BY <1>1, <1>7 DEF IInv, Reading, Half
    <2>2. r.raw = << >> /\ r.line = << >> /\ r.start = 0 /\ Shape(r) = Typed(Bytes)
      BY <1>2, <1>3, <2>1, FinishReads, Zenon DEF r
    <2>3. Reading'
      <3>1. s'.raw = << >> /\ s'.line = << >> /\ s'.start = 0 /\ Shape(s') = Typed(Bytes')
        BY <1>1, <1>4, <2>2, Zenon
      <3>2. ended' # 0
        BY <1>1, <1>2
      <3> QED BY <3>1, <3>2, Zenon DEF Reading, Over, Shape, Typed
    <2>4. AllTimed(input, r, m)
      <3>1. \A i \in 1..Len(input) : input[i].at <= now
        BY <1>2
      <3>2. m \in {now, now + 1} /\ m \in Nat \ {0}
        BY <1>2
      <3> HIDE DEF m
      <3> QED BY <1>2, <1>3, <2>1, <3>1, <3>2, FinishTimes, SMTT(60) DEF r
    <2> QED BY <1>1, <2>2, <2>3, <2>4, Zenon DEF Times, AllTimed
  <1> QED BY <1>4, <1>6, <1>7, Zenon DEF IInv, Times

\* What the analysis has read, it has read as it was typed, and dated.
THEOREM Invariant == Spec => []IInv
  <1>1. Init => IInv
    BY InitIInv
  <1>2. IInv /\ [Next]_vars => IInv'
    <2> SUFFICES ASSUME IInv, [Next]_vars PROVE IInv'
      OBVIOUS
    <2>1. ASSUME NEW n \in 1..MaxChunk, NEW paste \in BOOLEAN, Input(n, paste) PROVE IInv'
      BY <2>1, InputKeeps, Zenon
    <2>2. ASSUME NEW pid \in Pid, NEW ppid \in Pid \cup {Outside}, ProcessExec(pid, ppid) PROVE IInv'
      BY <2>2, ExecKeeps, Zenon
    <2>3. CASE PromptTrace
      BY <2>3, PromptKeeps, Zenon
    <2>4. CASE SessionEnd
      BY <2>4, EndKeeps, Zenon
    <2>5. CASE UNCHANGED vars
      <3>1. now' = now /\ s' = s /\ input' = input /\ execs' = execs /\ ended' = ended
        BY <2>5 DEF vars
      <3>2. Bytes' = Bytes
        BY <3>1 DEF Bytes
      <3>3. Types'
        BY <3>1, <3>2, Zenon DEF IInv, Types, Dated, Utf8
      <3>4. WellCut' <=> WellCut
        BY <3>1, Zenon DEF Bytes, WellCut, CutAt
      <3>5. Reading => Reading'
        BY <3>1, <3>2, Zenon DEF Reading, Reads, Half, ReadsAll, Ends, Over, Typed, Shape
      <3>6. Times(s, input, now) => Times(s', input', now')
        BY <3>1, Zenon
      <3> QED BY <3>3, <3>4, <3>5, <3>6, Zenon DEF IInv, Times
    <2> QED BY <2>1, <2>2, <2>3, <2>4, <2>5, Zenon DEF Next
  <1> QED BY <1>1, <1>2, PTL DEF Spec
--------------------------------------------------------------------------------
(* ReadAsTyped *)

\* A session in which nothing was read.
LEMMA EmptyReads ==
  /\ EmptySession \in State /\ Dated(EmptySession)
  /\ EmptySession.raw = << >> /\ EmptySession.activities = << >>
  /\ Reads(EmptySession, << >>)
  <1> DEFINE t == EmptySession
  <1>1. /\ t.raw = << >> /\ t.line = << >> /\ t.start = 0 /\ t.activities = << >>
    BY DEF EmptySession
  <1>2. t \in State
    <2>1. /\ << >> \in Seq(Byte) /\ << >> \in Seq(Char) /\ 0 \in Nat
          /\ << >> \in Seq(TypedActivity \cup PromptActivity)
      OBVIOUS
    <2>2. FALSE \in BOOLEAN
      OBVIOUS
    <2> QED BY <2>1, <2>2, Zenon DEF EmptySession, State
  <1>3. Shape(t) = Nothing
    BY <1>1, LinesEmpty DEF Shape, Nothing
  <1>4. Reads(t, << >>)
    BY <1>1, <1>3, DecodeRest, WrittenEmpty DEF Reads
  <1> QED BY <1>1, <1>2, <1>4 DEF Dated

\* Bytes that are read at once.
LEMMA AtOnce ==
  ASSUME NEW bytes \in Seq(Byte), Utf8(bytes)
  PROVE  Shape(Finish(Keys(EmptySession, bytes, 1), 1)) = Typed(bytes)
  <1> DEFINE t == EmptySession
             k == Keys(t, bytes, 1)
  <1>1. t \in State /\ Dated(t) /\ t.raw = << >> /\ Reads(t, << >>)
    BY EmptyReads
  <1>2. 1 \in Nat \ {0}
    OBVIOUS
  <1>3. k \in State /\ Dated(k) /\ Reads(k, bytes)
    <2>1. CASE bytes = << >>
      <3>1. t.raw \o bytes = << >>
        BY <1>1, <2>1
      <3>2. from_utf8(<< >>).text = << >> /\ from_utf8(<< >>).rest = << >>
        BY DecodeRest
      <3>3. process_typed_chars(t, << >>, 1) = t
        <4>1. sanitize_terminal_text(<< >>) = << >>
          BY WrittenEmpty
        <4> QED BY <4>1, FoldEmpty DEF process_typed_chars
      <3>4. k = [t EXCEPT !.raw = << >>]
        BY <3>1, <3>2, <3>3, Zenon DEF Keys
      <3>5. k = t
        BY <3>4 DEF EmptySession
      <3> QED BY <1>1, <2>1, <3>5
    <2>2. CASE bytes # << >>
      <3>1. << >> \in Seq(Byte) /\ Utf8(<< >>) /\ << >> \o bytes = bytes
        BY Utf8Short, ConcatEmptySeq
      <3>2. ~Continues(Place(<< >>), bytes[1])
        BY PlaceAppend DEF Continues
      <3> DEFINE none == << >>
      <3>3. /\ none \in Seq(Byte) /\ Utf8(none) /\ none \o bytes = bytes
            /\ ~Continues(Place(none), bytes[1]) /\ Reads(t, none)
        BY <1>1, <3>1, <3>2
      <3>4. Utf8(none \o bytes)
        BY <3>3
      <3> HIDE DEF none, t
      <3>5. Typing(t, Keys(t, bytes, 1), 1) /\ Reads(Keys(t, bytes, 1), none \o bytes)
        BY <1>1, <1>2, <2>2, <3>3, <3>4, KeysRead, Zenon
      <3> QED BY <3>3, <3>5 DEF Typing, k
    <2> QED BY <2>1, <2>2
  <1> HIDE DEF k
  <1>4. Shape(Finish(k, 1)) = Typed(bytes)
    BY <1>2, <1>3, FinishReads, Zenon
  <1> QED BY <1>4 DEF k

\* What reconstruct finds so far.
LEMMA Reconstructed ==
  ASSUME IInv, WellCut
  PROVE  /\ reconstruct \in State
         /\ Shape(reconstruct) = Typed(Bytes)
         /\ AllTimed(input, reconstruct, now)
  <1>1. /\ input \in Seq(InputByte) /\ Bytes \in Seq(Byte) /\ Bytes = BytesOf(input)
        /\ now \in Nat \ {0} /\ s \in State /\ Dated(s) /\ s.start <= now /\ Utf8(Bytes)
        /\ \A i \in 1..Len(input) : input[i].at <= now
    BY InputType, Zenon DEF IInv, Types
  <1>2. Reading /\ Times(s, input, now)
    BY DEF IInv
  <1>3. CASE ended = 0
    <2>1. Reads(s, Bytes) \/ ReadsAll(s, Bytes)
      BY <1>2, <1>3 DEF Reading, Half
    <2>2. Typing(s, Finish(s, now), now) /\ Shape(Finish(s, now)) = Typed(Bytes)
      BY <1>1, <2>1, FinishReads, Zenon
    <2>3. AllTimed(input, Finish(s, now), now)
      BY <1>1, <1>2, <2>1, FinishTimes, SMTT(60)
    <2> QED BY <2>2, <2>3, Zenon DEF reconstruct, Typing
  <1>4. CASE ended # 0
    <2>1. s.raw = << >> /\ s.line = << >> /\ Shape(s) = Typed(Bytes)
      BY <1>2, <1>4 DEF Reading, Over
    <2>2. /\ Finish(s, now).activities = s.activities
          /\ Shape(Finish(s, now)) = Shape(s)
      BY <1>1, <2>1, FinishAgain
    <2>3. AllTimed(input, Finish(s, now), now)
      BY <1>2, <2>2, Zenon DEF Times, AllTimed
    <2>4. Finish(s, now) \in State
      BY <1>1, HandlersType DEF Typing
    <2> QED BY <2>1, <2>2, <2>3, <2>4, Zenon DEF reconstruct
  <1> QED BY <1>3, <1>4

\* Read in any events, the input makes the lines that it makes when it is read at once.
THEOREM LinesAsTyped == Spec => []ReadAsTyped
  <1>1. IInv => ReadAsTyped
    <2> SUFFICES ASSUME IInv, WellCut
                 PROVE  Lines(reconstruct.activities)
                        = Lines(Finish(Keys(EmptySession, Bytes, 1), 1).activities)
      BY DEF ReadAsTyped
    <2>1. Bytes \in Seq(Byte) /\ Utf8(Bytes)
      BY InputType DEF IInv, Types
    <2>2. Shape(reconstruct) = Shape(Finish(Keys(EmptySession, Bytes, 1), 1))
      BY <2>1, AtOnce, Reconstructed
    <2>3. \A t : Shape(t).lines = Lines(t.activities)
      BY DEF Shape
    <2> QED BY <2>2, <2>3, Zenon
  <1> QED BY <1>1, Invariant, PTL
--------------------------------------------------------------------------------
(* TimelineInOrder *)

\* Of numbers that are not more than n there is a largest.
LEMMA Largest ==
  ASSUME NEW T, T \subseteq Nat, T # {}, NEW n \in Nat, \A m \in T : m <= n
  PROVE  Max(T) \in T /\ \A m \in T : m <= Max(T)
  <1> DEFINE U == {k \in Nat : \A m \in T : m <= k}
  <1>1. U \subseteq Nat /\ n \in U
    OBVIOUS
  <1>2. PICK k \in U : \A j \in U : k <= j
    BY <1>1, Smallest
  <1>3. k \in Nat /\ \A m \in T : m <= k
    OBVIOUS
  <1>4. k \in T
    <2> SUFFICES ASSUME k \notin T PROVE FALSE
      OBVIOUS
    <2>1. \A m \in T : m <= k - 1
      BY <1>3
    <2>2. k - 1 \in Nat
      <3>1. k # 0
        <4> SUFFICES ASSUME k = 0 PROVE FALSE
          OBVIOUS
        <4>1. PICK m \in T : TRUE
          OBVIOUS
        <4> QED BY <1>3, <4>1
      <3> QED BY <1>3, <3>1
    <2>3. k - 1 \in U
      BY <2>1, <2>2
    <2>4. k <= k - 1
      BY <1>2, <2>3
    <2> QED BY <1>3, <2>4
  <1>5. \E x \in T : \A y \in T : x >= y
    <2>1. \A y \in T : k >= y
      BY <1>3
    <2> QED BY <1>4, <2>1
  <1>6. Max(T) \in T /\ \A y \in T : Max(T) >= y
    BY <1>5, Zenon DEF Max
  <1>7. Max(T) \in Nat
    BY <1>6
  <1> QED BY <1>6, <1>7

\* r has one element more than seq, e after the first k.
Inserted(r, S, seq, e, k) ==
  /\ r \in Seq(S) /\ Len(r) = Len(seq) + 1
  /\ \A i \in 1..(Len(seq) + 1) :
       r[i] = IF i <= k THEN seq[i] ELSE IF i = k + 1 THEN e ELSE seq[i - 1]

\* That is what InsertAt makes.
LEMMA InsertType ==
  ASSUME NEW S, NEW seq \in Seq(S), NEW e \in S, NEW k \in 0..Len(seq)
  PROVE  Inserted(InsertAt(seq, k + 1, e), S, seq, e, k)
  <1> DEFINE n == Len(seq)
             a == SubSeq(seq, 1, k)
             b == SubSeq(seq, k + 1, n)
             one == <<e>>
             c == a \o one
             r == c \o b
  <1>1. n \in Nat /\ k \in Nat /\ k <= n
    BY LenProperties
  <1>2. /\ a \in Seq(S) /\ Len(a) = k /\ \A i \in 1..k : a[i] = seq[i]
    BY <1>1
  <1>3. /\ b \in Seq(S) /\ Len(b) = n - k /\ \A i \in 1..(n - k) : b[i] = seq[k + i]
    BY <1>1
  <1>4. one \in Seq(S) /\ Len(one) = 1 /\ one[1] = e
    OBVIOUS
  <1>5. InsertAt(seq, k + 1, e) = r
    <2>1. (k + 1) - 1 = k
      BY <1>1
    <2> QED BY <2>1 DEF InsertAt
  <1> HIDE DEF a, b, one, n
  <1>6. /\ c \in Seq(S) /\ Len(c) = k + 1
        /\ \A i \in 1..(k + 1) : c[i] = IF i <= k THEN a[i] ELSE one[i - k]
    <2>1. /\ a \o one \in Seq(S) /\ Len(a \o one) = Len(a) + Len(one)
          /\ \A i \in 1..(Len(a) + Len(one)) :
               (a \o one)[i] = IF i <= Len(a) THEN a[i] ELSE one[i - Len(a)]
      BY <1>2, <1>4, ConcatProperties, Zenon
    <2> QED BY <1>2, <1>4, <2>1
  <1> HIDE DEF c
  <1>7. /\ r \in Seq(S) /\ Len(r) = (k + 1) + (n - k)
        /\ \A i \in 1..((k + 1) + (n - k)) : r[i] = IF i <= k + 1 THEN c[i] ELSE b[i - (k + 1)]
    <2>1. /\ c \o b \in Seq(S) /\ Len(c \o b) = Len(c) + Len(b)
          /\ \A i \in 1..(Len(c) + Len(b)) :
               (c \o b)[i] = IF i <= Len(c) THEN c[i] ELSE b[i - Len(c)]
      BY <1>3, <1>6, ConcatProperties, Zenon
    <2> QED BY <1>3, <1>6, <2>1
  <1> HIDE DEF r
  <1>8. Len(r) = n + 1
    BY <1>1, <1>7
  <1>9. ASSUME NEW i \in 1..(n + 1)
        PROVE  r[i] = IF i <= k THEN seq[i] ELSE IF i = k + 1 THEN e ELSE seq[i - 1]
    <2>1. r[i] = IF i <= k + 1 THEN c[i] ELSE b[i - (k + 1)]
      BY <1>1, <1>7
    <2>2. CASE i <= k
      BY <1>1, <1>2, <1>6, <2>1, <2>2
    <2>3. CASE i = k + 1
      <3>1. i - k = 1 /\ ~(i <= k) /\ i <= k + 1
        BY <1>1, <2>3
      <3>2. c[i] = one[i - k]
        BY <1>1, <1>6, <3>1
      <3> QED BY <1>4, <2>1, <2>3, <3>1, <3>2
    <2>4. CASE i > k + 1
      <3>1. i - (k + 1) \in 1..(n - k) /\ k + (i - (k + 1)) = i - 1 /\ ~(i <= k + 1) /\ ~(i <= k) /\ i # k + 1
        BY <1>1, <2>4
      <3>2. b[i - (k + 1)] = seq[i - 1]
        BY <1>3, <3>1
      <3> QED BY <2>1, <3>1, <3>2
    <2> QED BY <1>1, <2>2, <2>3, <2>4
  <1> QED BY <1>5, <1>7, <1>8, <1>9 DEF Inserted, n

\* An entry begins before the time it goes by, which is before it is over.
Spans == {e \in TimelineEntry : e.began <= e.at /\ e.at <= e.done}

\* Entries in the order of their times.
Ordered == {t \in Seq(Spans) : \A i, j \in 1..Len(t) : i <= j => t[i].at <= t[j].at}

\* Sorting keeps them in this order.
LEMMA SortedKeeps ==
  ASSUME NEW t \in Ordered, NEW e \in Spans
  PROVE  Sorted[t][e] \in Ordered
  <1> DEFINE n == Len(t)
             T == {0} \cup {i \in 1..n : t[i].at <= e.at}
             Cut(k) == \A i \in DOMAIN t : t[i].at <= e.at <=> i <= k
             k0 == CHOOSE k \in 0..n : Cut(k)
             r == InsertAt(t, k0 + 1, e)
  <1>1. /\ t \in Seq(Spans) /\ n \in Nat /\ DOMAIN t = 1..n
        /\ \A i, j \in 1..n : i <= j => t[i].at <= t[j].at
    BY LenProperties DEF Ordered
  <1>2. \A i \in 1..n : t[i] \in Spans
    BY <1>1, ElementOfSeq
  <1>3. \A x \in Spans : x.at \in Nat
    BY DEF Spans, TimelineEntry
  <1>4. \A i \in 1..n : t[i].at \in Nat
    BY <1>2, <1>3
  <1>5. e.at \in Nat
    BY <1>3
  <1>6. t \in Seq(TimelineEntry) /\ e \in TimelineEntry
    <2>1. \A x \in Spans : x \in TimelineEntry
      BY DEF Spans
    <2>2. \A i \in 1..n : t[i] \in TimelineEntry
      BY <1>2, <2>1
    <2> QED BY <1>1, <2>1, <2>2
  <1> HIDE DEF n
  <1>7. \E k \in 0..n : Cut(k)
    <2>1. T \subseteq Nat /\ T # {} /\ \A m \in T : m <= n
      BY <1>1
    <2>2. Max(T) \in T /\ \A m \in T : m <= Max(T)
      BY <1>1, <2>1, Largest
    <2> DEFINE m == Max(T)
    <2>3. m \in 0..n
      <3> HIDE DEF T
      <3>1. Max(T) \in Nat /\ Max(T) <= n
        BY <2>1, <2>2, Zenon
      <3> QED BY <1>1, <3>1
    <2>4. ASSUME NEW i \in 1..n PROVE t[i].at <= e.at <=> i <= m
      <3>1. t[i].at <= e.at => i <= m
        BY <2>2
      <3>2. ASSUME i <= m PROVE t[i].at <= e.at
        <4>1. m \in 1..n /\ t[m].at <= e.at
          BY <2>2, <2>3, <3>2
        <4> HIDE DEF m
        <4>2. t[i].at <= t[m].at
          BY <1>1, <3>2, <4>1
        <4> QED BY <1>4, <1>5, <4>1, <4>2
      <3> QED BY <3>1, <3>2
    <2> HIDE DEF m
    <2>5. Cut(m)
      BY <1>1, <2>4
    <2> QED BY <2>3, <2>5
  <1>8. k0 \in 0..n /\ \A i \in 1..n : t[i].at <= e.at <=> i <= k0
    <2>1. k0 \in 0..n /\ Cut(k0)
      BY <1>7, Zenon
    <2> QED BY <1>1, <2>1
  <1>9. Sorted[t][e] = r
    BY <1>6, Zenon DEF Sorted, n
  <1> HIDE DEF k0
  <1>10. /\ r \in Seq(Spans) /\ Len(r) = n + 1
         /\ \A i \in 1..(n + 1) :
              r[i] = IF i <= k0 THEN t[i] ELSE IF i = k0 + 1 THEN e ELSE t[i - 1]
    <2>1. k0 \in 0..Len(t)
      BY <1>8 DEF n
    <2>2. Inserted(InsertAt(t, k0 + 1, e), Spans, t, e, k0)
      BY <1>1, <2>1, InsertType, Zenon
    <2> QED BY <2>2 DEF Inserted, n, r
  <1> HIDE DEF r
  <1>11. ASSUME NEW i \in 1..(n + 1), NEW j \in 1..(n + 1), i < j
         PROVE  r[i].at <= r[j].at
    <2>1. CASE j <= k0
      <3>1. r[i] = t[i] /\ r[j] = t[j] /\ i \in 1..n /\ j \in 1..n
        BY <1>1, <1>8, <1>10, <1>11, <2>1
      <3> QED BY <1>1, <1>11, <3>1
    <2>2. CASE j = k0 + 1
      <3>1. r[i] = t[i] /\ r[j] = e /\ i \in 1..n /\ i <= k0
        BY <1>1, <1>8, <1>10, <1>11, <2>2
      <3> QED BY <1>8, <3>1
    <2>3. CASE j > k0 + 1
      <3>1. r[j] = t[j - 1] /\ j - 1 \in 1..n /\ ~(j - 1 <= k0)
        BY <1>1, <1>8, <1>10, <2>3
      <3>2. e.at <= t[j - 1].at
        BY <1>4, <1>5, <1>8, <3>1
      <3>3. CASE i <= k0
        <4>1. r[i] = t[i] /\ i \in 1..n /\ i <= j - 1
          BY <1>1, <1>8, <1>10, <1>11, <3>3
        <4> QED BY <1>1, <3>1, <4>1
      <3>4. CASE i = k0 + 1
        <4>1. r[i] = e
          BY <1>1, <1>8, <1>10, <3>4
        <4> QED BY <3>1, <3>2, <4>1
      <3>5. CASE i > k0 + 1
        <4>1. r[i] = t[i - 1] /\ i - 1 \in 1..n /\ i - 1 <= j - 1
          BY <1>1, <1>8, <1>10, <1>11, <3>5
        <4> QED BY <1>1, <3>1, <4>1
      <3> QED BY <1>8, <3>3, <3>4, <3>5
    <2> QED BY <1>8, <2>1, <2>2, <2>3
  <1>12. \A i, j \in 1..(n + 1) : i <= j => r[i].at <= r[j].at
    <2> SUFFICES ASSUME NEW i \in 1..(n + 1), NEW j \in 1..(n + 1), i <= j
                 PROVE  r[i].at <= r[j].at
      OBVIOUS
    <2>1. CASE i < j
      BY <1>11, <2>1
    <2>2. CASE i = j
      <3>1. r[i] \in Spans
        BY <1>10, ElementOfSeq
      <3>2. r[i].at \in Nat
        BY <1>3, <3>1
      <3> QED BY <2>2, <3>2
    <2> QED BY <2>1, <2>2
  <1> QED BY <1>9, <1>10, <1>12 DEF Ordered

\* The entries are collected with times that they span.
LEMMA CollectedSpans ==
  ASSUME IInv, WellCut
  PROVE  Collected \in Seq(Spans)
  <1> DEFINE Of(a) == Entry(a.at, IF a \in PromptActivity THEN a.at ELSE Since(a.done), a.done)
             acts == reconstruct.activities
             login == <<Entry(1, 1, 1)>>
             ran == [i \in DOMAIN execs |-> Entry(execs[i].at, execs[i].at, execs[i].at)]
             logout == IF ended = 0 THEN << >> ELSE <<Entry(ended, ended, ended)>>
             typed == [i \in DOMAIN acts |-> Of(acts[i])]
  <1>1. \A at \in Nat : Entry(at, at, at) \in Spans
    BY DEF Entry, Spans, TimelineEntry
  <1>2. /\ input \in Seq(InputByte) /\ Len(input) \in Nat
        /\ \A i \in 1..Len(input) : input[i].at \in Nat
        /\ \A i, j \in 1..Len(input) : i <= j => input[i].at <= input[j].at
        /\ ended \in Nat /\ execs \in Seq(ExecEvent) /\ now \in Nat
    BY InputType, LenProperties DEF IInv, Types
  <1>3. login \in Seq(Spans) /\ logout \in Seq(Spans)
    <2>1. Entry(1, 1, 1) \in Spans /\ Entry(ended, ended, ended) \in Spans
      BY <1>1, <1>2
    <2> QED BY <2>1
  <1>4. ran \in Seq(Spans)
    <2>1. \A x \in ExecEvent : x.at \in Nat
      BY DEF ExecEvent
    <2>2. \A i \in 1..Len(execs) : Entry(execs[i].at, execs[i].at, execs[i].at) \in Spans
      BY <1>1, <1>2, <2>1, ElementOfSeq
    <2>3. DOMAIN execs = 1..Len(execs) /\ Len(execs) \in Nat
      BY <1>2, LenProperties
    <2> QED BY <2>2, <2>3
  <1>5. acts \in Seq(AnyActivity) /\ AllTimed(input, reconstruct, now)
    BY Reconstructed DEF State, AnyActivity
  <1>6. ASSUME NEW done \in Nat, NEW at \in Nat, Begun(input, at, done)
        PROVE  Since(done) \in Nat /\ Since(done) <= at
    <2> DEFINE earlier == { i \in DOMAIN input : input[i].byte = "enter" /\ input[i].at < done }
               T == {0} \cup earlier
    <2>1. PICK p \in 1..Len(input) :
            /\ input[p].at <= at
            /\ \A i \in p..Len(input) : input[i].byte = "enter" => done <= input[i].at
      BY <1>6 DEF Begun
    <2>2. \A i \in earlier : i \in Nat /\ i <= p - 1
      <3> SUFFICES ASSUME NEW i \in earlier PROVE i \in Nat /\ i <= p - 1
        OBVIOUS
      <3>1. i \in 1..Len(input) /\ input[i].byte = "enter" /\ input[i].at < done
        BY <1>2, LenProperties
      <3>2. ~(done <= input[i].at)
        BY <1>2, <3>1
      <3>3. i \notin p..Len(input)
        BY <2>1, <3>1, <3>2
      <3> QED BY <1>2, <3>1, <3>3
    <2>3. T \subseteq Nat /\ T # {} /\ \A m \in T : m <= p - 1
      BY <2>2
    <2>4. Max(T) \in T
      <3>1. p - 1 \in Nat
        BY <1>2
      <3> HIDE DEF T
      <3> QED BY <2>3, <3>1, Largest
    <2>5. Since(done) = input[1 + Max(T)].at
      BY DEF Since
    <2> HIDE DEF T, earlier
    <2>6. 1 + Max(T) \in 1..Len(input) /\ 1 + Max(T) <= p
      <3>1. Max(T) \in Nat /\ Max(T) <= p - 1
        BY <2>3, <2>4, Zenon
      <3> QED BY <1>2, <3>1
    <2>7. input[1 + Max(T)].at <= input[p].at
      BY <1>2, <2>6
    <2>8. input[1 + Max(T)].at \in Nat /\ input[p].at \in Nat
      BY <1>2, <2>6
    <2> QED BY <2>1, <2>5, <2>7, <2>8
  <1>7. typed \in Seq(Spans)
    <2>1. DOMAIN acts = 1..Len(acts) /\ Len(acts) \in Nat
      BY <1>5, LenProperties
    <2>2. ASSUME NEW i \in 1..Len(acts) PROVE Of(acts[i]) \in Spans
      <3> DEFINE a == acts[i]
      <3>1. Has(acts, a)
        BY <2>2 DEF Has
      <3>2. Timed(input, a, now)
        BY <1>5, <3>1, Zenon DEF AllTimed
      <3>3. a.at \in Nat /\ a.done \in Nat
        BY <3>1, Reconstructed, ActivityType
      <3> HIDE DEF a
      <3>4. CASE a \in PromptActivity
        <4>1. Of(a) = Entry(a.at, a.at, a.done) /\ a.at = a.done
          BY <3>2, <3>4 DEF Timed
        <4> QED BY <1>1, <3>3, <4>1 DEF a
      <3>5. CASE a \notin PromptActivity
        <4>1. Of(a) = Entry(a.at, Since(a.done), a.done) /\ a.at <= a.done
              /\ Begun(input, a.at, a.done)
          BY <3>2, <3>5 DEF Timed
        <4>2. Since(a.done) \in Nat /\ Since(a.done) <= a.at
          BY <1>6, <3>3, <4>1
        <4>3. Of(a) \in Spans
          BY <3>3, <4>1, <4>2 DEF Entry, Spans, TimelineEntry
        <4> QED BY <4>3 DEF a
      <3> QED BY <3>4, <3>5
    <2> HIDE DEF acts, Of
    <2> QED BY <2>1, <2>2
  <1>8. Collected = login \o ran \o logout \o typed
    BY DEF Collected
  <1> HIDE DEF login, ran, logout, typed
  <1>9. \A a, b \in Seq(Spans) : a \o b \in Seq(Spans)
    OBVIOUS
  <1> QED BY <1>3, <1>4, <1>7, <1>8, <1>9, Zenon

\* What was over before something else began stands before it.
THEOREM TimelineOrdered == Spec => []TimelineInOrder
  <1>1. IInv => TimelineInOrder
    <2> SUFFICES ASSUME IInv, WellCut
                 PROVE  \A i, j \in DOMAIN timeline : timeline[i].done < timeline[j].began => i < j
      BY DEF TimelineInOrder
    <2> DEFINE t == timeline
    <2>1. << >> \in Ordered
      BY DEF Ordered
    <2>2. \A seq \in Seq(Spans) : Fold(Sorted, << >>, seq) \in Ordered
      BY <2>1, SortedKeeps, FoldType
    <2>3. t \in Ordered
      BY <2>2, CollectedSpans DEF timeline
    <2> HIDE DEF t
    <2>4. /\ t \in Seq(Spans) /\ DOMAIN t = 1..Len(t) /\ Len(t) \in Nat
          /\ \A i, j \in 1..Len(t) : i <= j => t[i].at <= t[j].at
      BY <2>3, LenProperties DEF Ordered
    <2>5. \A x \in Spans : /\ x.at \in Nat /\ x.began \in Nat /\ x.done \in Nat
                           /\ x.began <= x.at /\ x.at <= x.done
      BY DEF Spans, TimelineEntry
    <2>6. ASSUME NEW i \in 1..Len(t), NEW j \in 1..Len(t), t[i].done < t[j].began PROVE i < j
      <3>1. /\ t[i].at \in Nat /\ t[i].done \in Nat /\ t[i].at <= t[i].done
            /\ t[j].at \in Nat /\ t[j].began \in Nat /\ t[j].began <= t[j].at
        BY <2>4, <2>5, ElementOfSeq
      <3>2. ~(t[j].at <= t[i].at)
        BY <2>6, <3>1
      <3>3. ~(j <= i)
        BY <2>4, <3>2
      <3> QED BY <2>4, <3>3
    <2> QED BY <2>4, <2>6 DEF t
  <1> QED BY <1>1, Invariant, PTL
--------------------------------------------------------------------------------
(* TreeShowsEveryProcess *)

ExecsOf(pid) == {e \in ExecEvent : e.pid = pid}

ExecsBelow(pid) == {e \in ExecEvent : e.ppid = pid}

NodesOf(pid) == {path \in ProcessNode : Last(path) = pid}

\* The pids of a list of execs.
LEMMA PidsType ==
  ASSUME NEW seq \in Seq(ExecEvent)
  PROVE  /\ Pids(seq) \in Seq(Nat) /\ Len(Pids(seq)) = Len(seq) /\ Len(seq) \in Nat
         /\ \A i \in 1..Len(seq) : Pids(seq)[i] = seq[i].pid /\ seq[i] \in ExecEvent
         /\ \A pid : Number(Pids(seq), {pid}) = Number(seq, ExecsOf(pid))
  <1>1. Len(seq) \in Nat /\ DOMAIN seq = 1..Len(seq)
    BY LenProperties
  <1>2. \A i \in 1..Len(seq) : seq[i] \in ExecEvent
    BY ElementOfSeq
  <1>3. \A i \in 1..Len(seq) : seq[i].pid \in Nat
    BY <1>2 DEF ExecEvent
  <1>4. Pids(seq) = [i \in 1..Len(seq) |-> seq[i].pid]
    BY <1>1 DEF Pids
  <1>5. Pids(seq) \in Seq(Nat) /\ Len(Pids(seq)) = Len(seq)
    BY <1>1, <1>3, <1>4
  <1>6. \A i \in 1..Len(seq) : Pids(seq)[i] = seq[i].pid
    BY <1>4
  <1>7. ASSUME NEW pid PROVE Number(Pids(seq), {pid}) = Number(seq, ExecsOf(pid))
    <2>1. Positions(Pids(seq), {pid}) = Positions(seq, ExecsOf(pid))
      BY <1>2, <1>5, <1>6 DEF Positions, ExecsOf
    <2> QED BY <2>1 DEF Number
  <1> QED BY <1>1, <1>2, <1>5, <1>6, <1>7

\* What is known of the processes.
LEMMA PidsKnown ==
  ASSUME execs \in Seq(ExecEvent)
  PROVE  /\ all_pids(execs) \subseteq Nat /\ IsFiniteSet(all_pids(execs))
         /\ \A i \in 1..Len(execs) : execs[i].pid \in all_pids(execs)
         /\ \A pid \in all_pids(execs) : \E i \in 1..Len(execs) : execs[i].pid = pid
         /\ \A pid : Number(execs, ExecsOf(pid)) \in Nat
         /\ \A pid : Number(execs, ExecsOf(pid)) # 0 <=> pid \in all_pids(execs)
  <1>1. /\ Len(execs) \in Nat /\ DOMAIN execs = 1..Len(execs)
        /\ \A i \in 1..Len(execs) : execs[i] \in ExecEvent /\ execs[i].pid \in Nat
    <2>1. \A e \in ExecEvent : e.pid \in Nat
      BY DEF ExecEvent
    <2> QED BY <2>1, ElementOfSeq, LenProperties
  <1>2. all_pids(execs) = {execs[i].pid : i \in 1..Len(execs)}
    BY <1>1 DEF all_pids
  <1>3. IsFiniteSet(all_pids(execs))
    <2>1. IsFiniteSet(1..Len(execs))
      BY <1>1, UpToFinite
    <2> DEFINE f == [i \in 1..Len(execs) |-> execs[i].pid]
    <2>2. f \in Surjection(1..Len(execs), all_pids(execs))
      BY <1>2 DEF Surjection
    <2> QED BY <2>1, <2>2, FS_Surjection
  <1>4. \A pid : Number(execs, ExecsOf(pid)) \in Nat
    BY <1>1, NumberType
  <1>5. ASSUME NEW pid
        PROVE  Number(execs, ExecsOf(pid)) # 0 <=> pid \in all_pids(execs)
    <2>1. Number(execs, ExecsOf(pid)) # 0 <=> \E i \in 1..Len(execs) : execs[i] \in ExecsOf(pid)
      BY <1>1, NumberZero
    <2> QED BY <1>1, <1>2, <2>1 DEF ExecsOf
  <1> QED BY <1>1, <1>2, <1>3, <1>4, <1>5

\* A process that never changed its parent has the one of any of its execs.
LEMMA ParentKnown ==
  ASSUME execs \in Seq(ExecEvent), OneParent
  PROVE  /\ \A i \in 1..Len(execs) : nodes_ppid(execs, execs[i].pid) = execs[i].ppid
         /\ \A pid \in all_pids(execs) : nodes_ppid(execs, pid) \in Nat
  <1>1. /\ Len(execs) \in Nat /\ DOMAIN execs = 1..Len(execs)
        /\ \A i \in 1..Len(execs) : execs[i] \in ExecEvent /\ execs[i].ppid \in Nat
    <2>1. \A e \in ExecEvent : e.ppid \in Nat
      BY DEF ExecEvent
    <2> QED BY <2>1, ElementOfSeq, LenProperties
  <1>2. ASSUME NEW i \in 1..Len(execs)
        PROVE  nodes_ppid(execs, execs[i].pid) = execs[i].ppid
    <2> DEFINE pid == execs[i].pid
               own == Filter(execs, ExecsOf(pid))
               n == Len(own)
    <2>1. own \in Seq(ExecEvent \cap ExecsOf(pid)) /\ n \in Nat /\ DOMAIN own = 1..n
      BY FilterType, LenProperties
    <2>2. \A x : (\E k \in 1..n : own[k] = x)
                   <=> x \in ExecsOf(pid) /\ \E k \in 1..Len(execs) : execs[k] = x
      BY FilterMembers, SMTT(60)
    <2>3. execs[i] \in ExecsOf(pid)
      BY <1>1 DEF ExecsOf
    <2>4. nodes_ppid(execs, pid) = own[n].ppid
      BY DEF nodes_ppid, ExecsOf, Last
    <2> HIDE DEF own, n
    <2>5. n \in 1..n
      BY <2>1, <2>2, <2>3
    <2>6. own[n] \in ExecsOf(pid) /\ \E k \in 1..Len(execs) : execs[k] = own[n]
      BY <2>2, <2>5
    <2>7. PICK k \in 1..Len(execs) : execs[k] = own[n]
      BY <2>6
    <2>8. execs[k].pid = execs[i].pid
      BY <2>6, <2>7 DEF ExecsOf
    <2>9. execs[k].ppid = execs[i].ppid
      BY <1>1, <2>8 DEF OneParent
    <2> QED BY <2>4, <2>7, <2>9
  <1>3. ASSUME NEW pid \in all_pids(execs) PROVE nodes_ppid(execs, pid) \in Nat
    <2>1. PICK i \in 1..Len(execs) : execs[i].pid = pid
      BY PidsKnown
    <2> QED BY <1>1, <1>2, <2>1
  <1> QED BY <1>2, <1>3

\* A process is a child of its parent once for each of its execs.
LEMMA ChildrenNumber ==
  ASSUME execs \in Seq(ExecEvent), OneParent, NEW ppid, NEW pid
  PROVE  /\ ppid_map(execs, ppid) \in Seq(Nat)
         /\ Number(ppid_map(execs, ppid), {pid})
            = IF pid \in all_pids(execs) /\ nodes_ppid(execs, pid) = ppid
              THEN Number(execs, ExecsOf(pid)) ELSE 0
  <1> DEFINE kept == Filter(execs, ExecsBelow(ppid))
             both == ExecsBelow(ppid) \cap ExecsOf(pid)
  <1>1. kept \in Seq(ExecEvent)
    <2>1. kept \in Seq(ExecEvent \cap ExecsBelow(ppid))
      BY FilterType
    <2>2. ExecEvent \cap ExecsBelow(ppid) = ExecsBelow(ppid) /\ \A e \in ExecsBelow(ppid) : e \in ExecEvent
      BY DEF ExecsBelow
    <2> DEFINE below == ExecsBelow(ppid)
    <2>3. kept \in Seq(below) /\ \A e \in below : e \in ExecEvent
      BY <2>1, <2>2
    <2> HIDE DEF kept, below
    <2> QED BY <2>3, SeqMonotonic
  <1>2. ppid_map(execs, ppid) = Pids(kept)
    BY DEF ppid_map, ExecsBelow
  <1>3. Number(kept, ExecsOf(pid)) = Number(execs, both)
    BY FilterNumber
  <1> HIDE DEF kept
  <1>4. /\ Pids(kept) \in Seq(Nat)
        /\ Number(Pids(kept), {pid}) = Number(kept, ExecsOf(pid))
    BY <1>1, PidsType
  <1>5. /\ Len(execs) \in Nat
        /\ \A i \in 1..Len(execs) : execs[i] \in ExecEvent /\ nodes_ppid(execs, execs[i].pid) = execs[i].ppid
        /\ \A i \in 1..Len(execs) : execs[i].pid \in all_pids(execs)
    BY PidsType, ParentKnown, PidsKnown
  <1>6. CASE pid \in all_pids(execs) /\ nodes_ppid(execs, pid) = ppid
    <2>1. \A i \in 1..Len(execs) : execs[i] \in both <=> execs[i] \in ExecsOf(pid)
      BY <1>5, <1>6 DEF ExecsOf, ExecsBelow
    <2> HIDE DEF both
    <2>2. Positions(execs, both) = Positions(execs, ExecsOf(pid))
      BY <2>1 DEF Positions
    <2> QED BY <1>2, <1>3, <1>4, <1>6, <2>2 DEF Number
  <1>7. CASE ~(pid \in all_pids(execs) /\ nodes_ppid(execs, pid) = ppid)
    <2>1. \A i \in 1..Len(execs) : execs[i] \notin both
      BY <1>5, <1>7 DEF ExecsOf, ExecsBelow
    <2> HIDE DEF both
    <2>2. Number(execs, both) = 0
      BY <1>5, <2>1, NumberZero
    <2> QED BY <1>2, <1>3, <1>4, <1>7, <2>2
  <1> QED BY <1>6, <1>7

\* The nodes below a node.
LEMMA AssembleNumber ==
  ASSUME execs \in Seq(ExecEvent), OneParent, NEW path \in ProcessNode
  PROVE  /\ assemble(execs, path) \in Seq(ProcessNode)
         /\ \A i \in DOMAIN assemble(execs, path) :
              \E pid \in all_pids(execs) :
                assemble(execs, path)[i] = Append(path, pid) /\ nodes_ppid(execs, pid) = Last(path)
         /\ \A pid : Number(assemble(execs, path), NodesOf(pid))
                     = IF pid \in all_pids(execs) /\ nodes_ppid(execs, pid) = Last(path)
                       THEN Number(execs, ExecsOf(pid)) ELSE 0
  <1> DEFINE children == ppid_map(execs, Last(path))
             n == Len(children)
             r == assemble(execs, path)
  <1>1. children \in Seq(Nat) /\ n \in Nat /\ DOMAIN children = 1..n
    BY ChildrenNumber, LenProperties
  <1>2. r = [i \in 1..n |-> Append(path, children[i])]
    BY <1>1 DEF assemble
  <1>3. \A i \in 1..n : children[i] \in Nat
    BY <1>1, ElementOfSeq
  <1>4. \A pid \in Nat : Append(path, pid) \in ProcessNode /\ Last(Append(path, pid)) = pid
    BY DEF ProcessNode, Last
  <1>5. ASSUME NEW i \in 1..n
        PROVE  children[i] \in all_pids(execs) /\ nodes_ppid(execs, children[i]) = Last(path)
    <2>1. Number(children, {children[i]}) # 0
      BY <1>1, NumberZero
    <2> QED BY <2>1, ChildrenNumber
  <1> HIDE DEF children, n
  <1>6. r \in Seq(ProcessNode) /\ DOMAIN r = 1..n /\ Len(r) = n
    BY <1>1, <1>2, <1>3, <1>4
  <1>7. \A i \in 1..n : r[i] = Append(path, children[i])
    BY <1>2
  <1> HIDE DEF r
  <1>8. ASSUME NEW pid
        PROVE  Number(r, NodesOf(pid))
               = IF pid \in all_pids(execs) /\ nodes_ppid(execs, pid) = Last(path)
                 THEN Number(execs, ExecsOf(pid)) ELSE 0
    <2>1. \A i \in 1..n : r[i] \in NodesOf(pid) <=> children[i] \in {pid}
      BY <1>3, <1>4, <1>7 DEF NodesOf
    <2>2. Positions(r, NodesOf(pid)) = Positions(children, {pid})
      BY <1>6, <2>1 DEF Positions, n
    <2>3. Number(r, NodesOf(pid)) = Number(children, {pid})
      BY <2>2 DEF Number
    <2> QED BY <2>3, ChildrenNumber DEF children
  <1>9. \A i \in DOMAIN r :
          \E pid \in all_pids(execs) : r[i] = Append(path, pid) /\ nodes_ppid(execs, pid) = Last(path)
    BY <1>5, <1>6, <1>7
  <1> QED BY <1>6, <1>8, <1>9 DEF r

\* The nodes below those of a level.
LEMMA BelowNumber ==
  ASSUME execs \in Seq(ExecEvent), OneParent
  PROVE  \A level \in Seq(ProcessNode) :
           /\ Fold(Children(execs), << >>, level) \in Seq(ProcessNode)
           /\ \A pid : Number(Fold(Children(execs), << >>, level), NodesOf(pid))
                       = IF pid \in all_pids(execs)
                         THEN Number(execs, ExecsOf(pid)) * Number(level, NodesOf(nodes_ppid(execs, pid)))
                         ELSE 0
  <1> DEFINE F(level) == Fold(Children(execs), << >>, level)
             size(pid) == Number(execs, ExecsOf(pid))
             parent(pid) == nodes_ppid(execs, pid)
             N(level, pid) == Number(level, NodesOf(pid))
             P(level) == /\ F(level) \in Seq(ProcessNode)
                         /\ \A pid : N(F(level), pid)
                                     = IF pid \in all_pids(execs) THEN size(pid) * N(level, parent(pid)) ELSE 0
             G == {level \in Seq(ProcessNode) : P(level)}
  <1>1. \A pid : size(pid) \in Nat
    BY PidsKnown
  <1>2. \A a, b, c \in Nat : a * (b + c) = a * b + a * c
    OBVIOUS
  <1>3. \A a \in Nat : a * 0 = 0 /\ a * 1 = a
    OBVIOUS
  <1> DEFINE none == << >>
  <1>4. none \in G
    <2>1. F(none) = none
      BY FoldEmpty
    <2>2. \A pid : N(none, pid) = 0
      BY NumberEmpty
    <2>3. none \in Seq(ProcessNode)
      OBVIOUS
    <2> HIDE DEF none, F, N, size, parent
    <2>4. P(none)
      BY <1>1, <1>3, <2>1, <2>2, <2>3
    <2> QED BY <2>3, <2>4
  <1>5. ASSUME NEW level \in Seq(ProcessNode), level \in G, NEW path \in ProcessNode
        PROVE  Append(level, path) \in G
    <2> DEFINE more == Append(level, path)
               below == assemble(execs, path)
    <2>1. P(level)
      BY <1>5
    <2>2. more \in Seq(ProcessNode)
      BY AppendProperties
    <2>3. F(more) = Children(execs)[F(level)][path]
      BY FoldAppend
    <2>4. Children(execs)[F(level)][path] = F(level) \o below
      <3> DEFINE all == F(level)
      <3>1. all \in Seq(ProcessNode)
        BY <2>1
      <3> HIDE DEF F, all
      <3>2. Children(execs)[all][path] = all \o below
        BY <3>1, Zenon DEF Children
      <3> QED BY <3>2 DEF all
    <2>5. /\ below \in Seq(ProcessNode)
          /\ \A pid : N(below, pid) = IF pid \in all_pids(execs) /\ parent(pid) = Last(path)
                                      THEN size(pid) ELSE 0
      BY AssembleNumber
    <2> HIDE DEF below, more
    <2>6. F(more) \in Seq(ProcessNode)
      <3> DEFINE all == F(level)
      <3>1. all \in Seq(ProcessNode)
        BY <2>1
      <3> HIDE DEF F, all
      <3>2. all \o below \in Seq(ProcessNode)
        BY <2>5, <3>1, ConcatProperties, Zenon
      <3> QED BY <2>3, <2>4, <3>2 DEF all
    <2>7. ASSUME NEW pid
          PROVE  N(F(more), pid) = IF pid \in all_pids(execs) THEN size(pid) * N(more, parent(pid)) ELSE 0
      <3>1. N(F(more), pid) = N(F(level), pid) + N(below, pid)
        <4> DEFINE all == F(level)
        <4>1. all \in Seq(ProcessNode)
          BY <2>1
        <4> HIDE DEF F, all
        <4>2. Number(all \o below, NodesOf(pid)) = Number(all, NodesOf(pid)) + Number(below, NodesOf(pid))
          BY <2>5, <4>1, NumberConcat, ZenonT(60)
        <4> QED BY <2>3, <2>4, <4>2 DEF all
      <3>2. N(more, parent(pid)) = N(level, parent(pid)) + (IF path \in NodesOf(parent(pid)) THEN 1 ELSE 0)
        BY NumberAppend DEF more
      <3>3. path \in NodesOf(parent(pid)) <=> parent(pid) = Last(path)
        BY DEF NodesOf
      <3>4. N(level, parent(pid)) \in Nat
        BY NumberType, LenProperties
      <3>5. N(F(level), pid) = IF pid \in all_pids(execs) THEN size(pid) * N(level, parent(pid)) ELSE 0
        BY <2>1
      <3>6. N(below, pid) = IF pid \in all_pids(execs) /\ parent(pid) = Last(path) THEN size(pid) ELSE 0
        BY <2>5
      <3> HIDE DEF N, F, size, parent
      <3>7. /\ size(pid) * (N(level, parent(pid)) + 1) = size(pid) * N(level, parent(pid)) + size(pid)
            /\ size(pid) * (N(level, parent(pid)) + 0) = size(pid) * N(level, parent(pid))
            /\ size(pid) * N(level, parent(pid)) \in Nat
        BY <1>1, <1>2, <1>3, <3>4
      <3> QED BY <1>1, <3>1, <3>2, <3>3, <3>4, <3>5, <3>6, <3>7
    <2>8. P(more)
      BY <2>6, <2>7
    <2> QED BY <2>2, <2>8 DEF more
  <1>6. << >> \in G
    BY <1>4 DEF none
  <1> HIDE DEF G
  <1>7. \A level \in Seq(ProcessNode) : level \in G
    BY <1>5, <1>6, EverySequence
  <1> QED BY <1>7 DEF G
--------------------------------------------------------------------------------
(* The processes of a level, whatever parents they had *)

\* The level has a node of the process.
Holds(level, pid) == \E k \in 1..Len(level) : Last(level[k]) = pid

\* An exec of the process by that parent.
StartedBy(ppid, pid) == \E i \in 1..Len(execs) : execs[i].pid = pid /\ execs[i].ppid = ppid

\* The children of a process.
LEMMA ChildrenMembers ==
  ASSUME execs \in Seq(ExecEvent), NEW ppid
  PROVE  /\ ppid_map(execs, ppid) \in Seq(Nat)
         /\ \A pid : Has(ppid_map(execs, ppid), pid) <=> StartedBy(ppid, pid)
  <1> DEFINE kept == Filter(execs, ExecsBelow(ppid))
  <1>1. kept \in Seq(ExecEvent)
    <2>1. kept \in Seq(ExecEvent \cap ExecsBelow(ppid))
      BY FilterType
    <2> DEFINE below == ExecEvent \cap ExecsBelow(ppid)
    <2>2. \A e \in below : e \in ExecEvent
      OBVIOUS
    <2> HIDE DEF kept
    <2>3. kept \in Seq(below)
      BY <2>1
    <2> HIDE DEF below
    <2> QED BY <2>2, <2>3, SeqMonotonic
  <1>2. \A x : (\E k \in 1..Len(kept) : kept[k] = x)
                 <=> x \in ExecsBelow(ppid) /\ \E k \in 1..Len(execs) : execs[k] = x
    BY FilterMembers
  <1>3. ppid_map(execs, ppid) = Pids(kept)
    BY DEF ppid_map, ExecsBelow
  <1> HIDE DEF kept
  <1>4. /\ Pids(kept) \in Seq(Nat) /\ Len(Pids(kept)) = Len(kept)
        /\ \A k \in 1..Len(kept) : Pids(kept)[k] = kept[k].pid
    BY <1>1, PidsType
  <1>5. \A i \in 1..Len(execs) : execs[i] \in ExecEvent
    BY PidsType
  <1>6. ASSUME NEW pid, Has(Pids(kept), pid) PROVE StartedBy(ppid, pid)
    <2>1. PICK k \in 1..Len(kept) : kept[k].pid = pid
      BY <1>4, <1>6 DEF Has
    <2>2. kept[k] \in ExecsBelow(ppid) /\ \E i \in 1..Len(execs) : execs[i] = kept[k]
      BY <1>2
    <2> QED BY <2>1, <2>2 DEF StartedBy, ExecsBelow
  <1>7. ASSUME NEW pid, StartedBy(ppid, pid) PROVE Has(Pids(kept), pid)
    <2>1. PICK i \in 1..Len(execs) : execs[i].pid = pid /\ execs[i].ppid = ppid
      BY <1>7 DEF StartedBy
    <2>2. execs[i] \in ExecsBelow(ppid)
      BY <1>5, <2>1 DEF ExecsBelow
    <2>3. PICK k \in 1..Len(kept) : kept[k] = execs[i]
      BY <1>2, <2>2
    <2> QED BY <1>4, <2>1, <2>3 DEF Has
  <1> QED BY <1>3, <1>4, <1>6, <1>7

\* The processes below a node.
LEMMA AssembleMembers ==
  ASSUME execs \in Seq(ExecEvent), NEW path \in ProcessNode
  PROVE  /\ assemble(execs, path) \in Seq(ProcessNode)
         /\ \A pid : Holds(assemble(execs, path), pid) <=> StartedBy(Last(path), pid)
  <1> DEFINE children == ppid_map(execs, Last(path))
             n == Len(children)
             r == assemble(execs, path)
  <1>1. children \in Seq(Nat) /\ n \in Nat /\ DOMAIN children = 1..n
    BY ChildrenMembers, LenProperties
  <1>2. r = [i \in 1..n |-> Append(path, children[i])]
    BY <1>1 DEF assemble
  <1>3. \A i \in 1..n : children[i] \in Nat
    BY <1>1, ElementOfSeq
  <1>4. \A pid \in Nat : Append(path, pid) \in ProcessNode /\ Last(Append(path, pid)) = pid
    BY DEF ProcessNode, Last
  <1>5. \A pid : Has(children, pid) <=> StartedBy(Last(path), pid)
    BY ChildrenMembers
  <1> HIDE DEF children, n
  <1>6. r \in Seq(ProcessNode) /\ Len(r) = n
    BY <1>1, <1>2, <1>3, <1>4
  <1>7. \A i \in 1..n : Last(r[i]) = children[i]
    BY <1>2, <1>3, <1>4
  <1> HIDE DEF r
  <1>8. \A pid : Holds(r, pid) <=> Has(children, pid)
    BY <1>6, <1>7 DEF Holds, Has, n
  <1> QED BY <1>5, <1>6, <1>8 DEF r

\* The processes of two levels, and of none.
LEMMA HoldsConcat ==
  /\ \A pid : ~Holds(<< >>, pid)
  /\ \A a, b \in Seq(ProcessNode) : \A pid : Holds(a \o b, pid) <=> Holds(a, pid) \/ Holds(b, pid)
  /\ \A a \in Seq(ProcessNode) : \A path \in ProcessNode :
       \A pid : Holds(Append(a, path), pid) <=> Holds(a, pid) \/ pid = Last(path)
  <1>1. \A pid : ~Holds(<< >>, pid)
    BY DEF Holds
  <1>2. ASSUME NEW a \in Seq(ProcessNode), NEW b \in Seq(ProcessNode), NEW pid
        PROVE  Holds(a \o b, pid) <=> Holds(a, pid) \/ Holds(b, pid)
    <2> DEFINE m == Len(a)
               n == Len(b)
               both == a \o b
    <2>1. /\ m \in Nat /\ n \in Nat /\ Len(both) = m + n
          /\ \A i \in 1..(m + n) : both[i] = IF i <= m THEN a[i] ELSE b[i - m]
      BY ConcatProperties, LenProperties
    <2> HIDE DEF both
    <2>2. Holds(both, pid) => Holds(a, pid) \/ Holds(b, pid)
      <3> SUFFICES ASSUME NEW k \in 1..Len(both), Last(both[k]) = pid
                   PROVE  Holds(a, pid) \/ Holds(b, pid)
        BY DEF Holds
      <3>1. CASE k <= m
        <4>1. k \in 1..Len(a) /\ both[k] = a[k]
          BY <2>1, <3>1
        <4> QED BY <4>1 DEF Holds
      <3>2. CASE ~(k <= m)
        <4>1. k - m \in 1..Len(b) /\ both[k] = b[k - m]
          BY <2>1, <3>2
        <4> QED BY <4>1 DEF Holds
      <3> QED BY <3>1, <3>2
    <2>3. ASSUME NEW k \in 1..Len(a), Last(a[k]) = pid PROVE Holds(both, pid)
      <3>1. k \in 1..Len(both) /\ both[k] = a[k]
        BY <2>1
      <3> QED BY <2>3, <3>1 DEF Holds
    <2>4. ASSUME NEW k \in 1..Len(b), Last(b[k]) = pid PROVE Holds(both, pid)
      <3>1. k + m \in 1..Len(both) /\ ~(k + m <= m) /\ (k + m) - m = k
        BY <2>1
      <3>2. both[k + m] = b[k]
        BY <2>1, <3>1
      <3> QED BY <2>4, <3>1, <3>2 DEF Holds
    <2> QED BY <2>2, <2>3, <2>4 DEF Holds, both
  <1>3. ASSUME NEW a \in Seq(ProcessNode), NEW path \in ProcessNode, NEW pid
        PROVE  Holds(Append(a, path), pid) <=> Holds(a, pid) \/ pid = Last(path)
    <2>1. /\ Len(a) \in Nat /\ Len(Append(a, path)) = Len(a) + 1
          /\ Append(a, path)[Len(a) + 1] = path
          /\ \A i \in 1..Len(a) : Append(a, path)[i] = a[i]
      BY AppendProperties, LenProperties
    <2> DEFINE more == Append(a, path)
    <2> HIDE DEF more
    <2>2. \A k \in 1..Len(more) : k \in 1..Len(a) \/ k = Len(a) + 1
      BY <2>1 DEF more
    <2>3. Len(a) + 1 \in 1..Len(more) /\ \A k \in 1..Len(a) : k \in 1..Len(more)
      BY <2>1 DEF more
    <2> QED BY <2>1, <2>2, <2>3 DEF Holds, more
  <1> QED BY <1>1, <1>2, <1>3

\* The processes below those of a level.
LEMMA BelowMembers ==
  ASSUME execs \in Seq(ExecEvent)
  PROVE  \A level \in Seq(ProcessNode) :
           /\ Fold(Children(execs), << >>, level) \in Seq(ProcessNode)
           /\ \A pid : Holds(Fold(Children(execs), << >>, level), pid)
                         <=> \E ppid : Holds(level, ppid) /\ StartedBy(ppid, pid)
  <1> DEFINE F(level) == Fold(Children(execs), << >>, level)
             P(level) == /\ F(level) \in Seq(ProcessNode)
                         /\ \A pid : Holds(F(level), pid)
                                       <=> \E ppid : Holds(level, ppid) /\ StartedBy(ppid, pid)
             G == {level \in Seq(ProcessNode) : P(level)}
             none == << >>
  <1>1. none \in G
    <2>1. F(none) = none
      BY FoldEmpty
    <2>2. \A pid : ~Holds(none, pid)
      BY HoldsConcat
    <2>3. none \in Seq(ProcessNode)
      OBVIOUS
    <2> HIDE DEF none, F
    <2>4. P(none)
      BY <2>1, <2>2, <2>3
    <2> QED BY <2>3, <2>4
  <1>2. ASSUME NEW level \in Seq(ProcessNode), level \in G, NEW path \in ProcessNode
        PROVE  Append(level, path) \in G
    <2> DEFINE more == Append(level, path)
               below == assemble(execs, path)
               all == F(level)
    <2>1. P(level)
      BY <1>2
    <2>2. more \in Seq(ProcessNode)
      BY AppendProperties
    <2>3. F(more) = Children(execs)[all][path]
      BY FoldAppend
    <2>4. all \in Seq(ProcessNode)
      BY <2>1
    <2>5. below \in Seq(ProcessNode) /\ \A pid : Holds(below, pid) <=> StartedBy(Last(path), pid)
      BY AssembleMembers
    <2>6. \A pid : Holds(more, pid) <=> Holds(level, pid) \/ pid = Last(path)
      BY HoldsConcat
    <2>7. \A pid : Holds(all, pid) <=> \E ppid : Holds(level, ppid) /\ StartedBy(ppid, pid)
      BY <2>1
    <2> HIDE DEF below, more, F, all
    <2>8. Children(execs)[all][path] = all \o assemble(execs, path)
      BY <2>4, Zenon DEF Children
    <2>9. F(more) = all \o below
      BY <2>3, <2>8 DEF below
    <2>10. all \o below \in Seq(ProcessNode)
      BY <2>4, <2>5, ConcatProperties, Zenon
    <2>11. \A pid : Holds(all \o below, pid) <=> Holds(all, pid) \/ Holds(below, pid)
      BY <2>4, <2>5, HoldsConcat
    <2>12. \A pid : Holds(F(more), pid) <=> \E ppid : Holds(more, ppid) /\ StartedBy(ppid, pid)
      BY <2>5, <2>6, <2>7, <2>9, <2>11, Zenon
    <2>13. P(more)
      BY <2>9, <2>10, <2>12, Zenon
    <2> QED BY <2>2, <2>13 DEF more
  <1>3. << >> \in G
    BY <1>1 DEF none
  <1> HIDE DEF G
  <1>4. \A level \in Seq(ProcessNode) : level \in G
    BY <1>2, <1>3, EverySequence
  <1> QED BY <1>4 DEF G
--------------------------------------------------------------------------------
(* The nodes, one level after the other *)

\* The levels of the forest, one below the other.
LEMMA LevelTurn ==
  ASSUME execs \in Seq(ExecEvent)
  PROVE  /\ build_tree(execs, 0) = [i \in DOMAIN root_pids(execs) |-> <<root_pids(execs)[i]>>]
         /\ \A d \in Nat :
              /\ build_tree(execs, d) \in Seq(ProcessNode)
              /\ build_tree(execs, d + 1) = Fold(Children(execs), << >>, build_tree(execs, d))
  <1> DEFINE roots == root_pids(execs)
             first == [i \in DOMAIN roots |-> <<roots[i]>>]
             T(d) == Repeat(Below(execs), first, d)
  <1>1. \A d : build_tree(execs, d) = T(d)
    BY DEF build_tree
  <1>2. T(0) = first /\ \A d \in Nat : T(d + 1) = Below(execs)[T(d)][d + 1]
    BY RepeatTurn
  <1>3. first \in Seq(ProcessNode)
    <2>1. roots \in Seq(Nat)
      <3> DEFINE set == { pid \in all_pids(execs) : nodes_ppid(execs, pid) \notin all_pids(execs) }
      <3>1. Filter(Pids(execs), set) \in Seq(Nat \cap set)
        BY PidsType, FilterType, Zenon
      <3>2. \A x \in Nat \cap set : x \in Nat
        OBVIOUS
      <3>3. roots = Filter(Pids(execs), set)
        BY DEF root_pids
      <3> HIDE DEF set, roots
      <3> DEFINE some == Nat \cap set
      <3>4. roots \in Seq(some) /\ \A x \in some : x \in Nat
        BY <3>1, <3>2, <3>3
      <3> HIDE DEF some
      <3> QED BY <3>4, SeqMonotonic
    <2> HIDE DEF roots
    <2>2. DOMAIN roots = 1..Len(roots) /\ Len(roots) \in Nat /\ \A i \in 1..Len(roots) : roots[i] \in Nat
      BY <2>1, ElementOfSeq, LenProperties
    <2>3. \A pid \in Nat : <<pid>> \in ProcessNode
      BY DEF ProcessNode
    <2> QED BY <2>2, <2>3
  <1> HIDE DEF first
  <1>4. ASSUME NEW d \in Nat, T(d) \in Seq(ProcessNode)
        PROVE  T(d + 1) = Fold(Children(execs), << >>, T(d)) /\ T(d + 1) \in Seq(ProcessNode)
    <2> DEFINE level == T(d)
    <2>1. level \in Seq(ProcessNode) /\ d + 1 \in Nat
      BY <1>4
    <2> HIDE DEF level
    <2>2. Below(execs)[level][d + 1] = Fold(Children(execs), << >>, level)
      BY <2>1, Zenon DEF Below
    <2>3. Fold(Children(execs), << >>, level) \in Seq(ProcessNode)
      BY <2>1, BelowMembers
    <2> QED BY <1>2, <2>2, <2>3 DEF level
  <1> DEFINE G == {d \in Nat : T(d) \in Seq(ProcessNode)}
  <1> HIDE DEF T
  <1>5. ASSUME NEW d \in Nat PROVE T(d) \in Seq(ProcessNode)
    <2>1. 0 \in G
      BY <1>2, <1>3
    <2>2. \A n \in 1..d : n - 1 \in G => n \in G
      <3> SUFFICES ASSUME NEW n \in 1..d, n - 1 \in G PROVE n \in G
        OBVIOUS
      <3>1. n - 1 \in Nat /\ (n - 1) + 1 = n /\ T(n - 1) \in Seq(ProcessNode)
        OBVIOUS
      <3>2. T((n - 1) + 1) \in Seq(ProcessNode)
        BY <1>4, <3>1
      <3> QED BY <3>1, <3>2
    <2> HIDE DEF G
    <2>3. \A n \in 0..d : n \in G
      BY <2>1, <2>2, UpTo
    <2>4. d \in 0..d
      OBVIOUS
    <2> QED BY <2>3, <2>4 DEF G
  <1> QED BY <1>1, <1>2, <1>4, <1>5 DEF first

\* How many nodes of each process a level has.
LEMMA LevelNumber ==
  ASSUME execs \in Seq(ExecEvent), OneParent, NEW pid \in all_pids(execs)
  PROVE  /\ Number(build_tree(execs, 0), NodesOf(pid))
            = IF nodes_ppid(execs, pid) \in all_pids(execs) THEN 0 ELSE Number(execs, ExecsOf(pid))
         /\ \A d \in Nat :
              Number(build_tree(execs, d + 1), NodesOf(pid))
              = Number(execs, ExecsOf(pid)) * Number(build_tree(execs, d), NodesOf(nodes_ppid(execs, pid)))
  <1> DEFINE set == { q \in all_pids(execs) : nodes_ppid(execs, q) \notin all_pids(execs) }
             roots == Filter(Pids(execs), set)
             first == build_tree(execs, 0)
  <1>1. roots \in Seq(Nat \cap set) /\ Number(roots, {pid}) = Number(Pids(execs), set \cap {pid})
    <2> HIDE DEF set
    <2>1. Pids(execs) \in Seq(Nat)
      BY PidsType
    <2>2. Filter(Pids(execs), set) \in Seq(Nat \cap set)
      BY <2>1, FilterType, Zenon
    <2> DEFINE one == {pid}
    <2> HIDE DEF one
    <2>3. Number(Filter(Pids(execs), set), one) = Number(Pids(execs), set \cap one)
      BY <2>1, FilterNumber
    <2> QED BY <2>2, <2>3, Zenon DEF one
  <1>2. first = [i \in DOMAIN roots |-> <<roots[i]>>]
    BY LevelTurn DEF root_pids
  <1>3. DOMAIN roots = 1..Len(roots) /\ Len(roots) \in Nat /\ \A i \in 1..Len(roots) : roots[i] \in Nat
    <2> HIDE DEF roots, set
    <2> QED BY <1>1, ElementOfSeq, LenProperties
  <1>4. Number(first, NodesOf(pid)) = Number(roots, {pid})
    <2> HIDE DEF roots
    <2>1. Len(first) = Len(roots) /\ \A i \in 1..Len(roots) : first[i] = <<roots[i]>>
      BY <1>2, <1>3
    <2>2. \A q \in Nat : <<q>> \in ProcessNode /\ Last(<<q>>) = q
      BY DEF ProcessNode, Last
    <2>3. Positions(first, NodesOf(pid)) = Positions(roots, {pid})
      BY <1>3, <2>1, <2>2 DEF Positions, NodesOf
    <2> QED BY <2>3 DEF Number
  <1>5. Number(Pids(execs), {pid}) = Number(execs, ExecsOf(pid))
    BY PidsType
  <1>6. CASE nodes_ppid(execs, pid) \in all_pids(execs)
    <2>1. set \cap {pid} = {}
      BY <1>6
    <2>2. Number(Pids(execs), {}) = 0
      BY PidsType, NumberZero
    <2> QED BY <1>1, <1>4, <1>6, <2>1, <2>2, LevelTurn, BelowNumber
  <1>7. CASE nodes_ppid(execs, pid) \notin all_pids(execs)
    <2>1. set \cap {pid} = {pid}
      BY <1>7
    <2> QED BY <1>1, <1>4, <1>5, <1>7, <2>1, LevelTurn, BelowNumber
  <1> QED BY <1>6, <1>7

\* The nodes above a depth, and those above the next.
LEMMA NodesTurn ==
  ASSUME execs \in Seq(ExecEvent)
  PROVE  \A d \in Nat :
           /\ Nodes(d) \in Seq(ProcessNode)
           /\ Nodes(0) = << >>
           /\ Nodes(d + 1) = Nodes(d) \o build_tree(execs, d)
  <1> DEFINE step == [above \in Seq(ProcessNode) |-> [n \in Nat |-> above \o build_tree(execs, n - 1)]]
             G == {d \in Nat : Nodes(d) \in Seq(ProcessNode)}
  <1>1. \A d : Nodes(d) = Repeat(step, << >>, d)
    BY DEF Nodes
  <1>2. Nodes(0) = << >> /\ \A d \in Nat : Nodes(d + 1) = step[Nodes(d)][d + 1]
    <2> HIDE DEF step
    <2> QED BY <1>1, RepeatTurn
  <1>3. ASSUME NEW d \in Nat, Nodes(d) \in Seq(ProcessNode)
        PROVE  Nodes(d + 1) = Nodes(d) \o build_tree(execs, d) /\ Nodes(d + 1) \in Seq(ProcessNode)
    <2> DEFINE above == Nodes(d)
    <2>1. above \in Seq(ProcessNode) /\ d + 1 \in Nat /\ (d + 1) - 1 = d
      BY <1>3
    <2> HIDE DEF above
    <2>2. step[above][d + 1] = above \o build_tree(execs, (d + 1) - 1)
      BY <2>1, Zenon
    <2>3. build_tree(execs, d) \in Seq(ProcessNode)
      BY LevelTurn
    <2>4. above \o build_tree(execs, d) \in Seq(ProcessNode)
      BY <2>1, <2>3, ConcatProperties, Zenon
    <2> HIDE DEF step
    <2>5. Nodes(d + 1) = step[above][d + 1]
      BY <1>2 DEF above
    <2>6. build_tree(execs, (d + 1) - 1) = build_tree(execs, d)
      BY <2>1, Zenon
    <2>7. Nodes(d + 1) = above \o build_tree(execs, d)
      <3> HIDE DEF step
      <3>1. step[above][d + 1] = above \o build_tree(execs, d)
        BY <2>2, <2>6
      <3> QED BY <2>5, <3>1
    <2> QED BY <2>4, <2>7 DEF above
  <1>4. ASSUME NEW d \in Nat PROVE Nodes(d) \in Seq(ProcessNode)
    <2>1. 0 \in G
      <3>1. << >> \in Seq(ProcessNode) /\ 0 \in Nat
        OBVIOUS
      <3> QED BY <1>2, <3>1, Zenon
    <2>2. \A n \in 1..d : n - 1 \in G => n \in G
      <3> SUFFICES ASSUME NEW n \in 1..d, n - 1 \in G PROVE n \in G
        OBVIOUS
      <3>1. n - 1 \in Nat /\ (n - 1) + 1 = n /\ Nodes(n - 1) \in Seq(ProcessNode)
        OBVIOUS
      <3>2. Nodes((n - 1) + 1) \in Seq(ProcessNode)
        BY <1>3, <3>1
      <3> QED BY <3>1, <3>2
    <2> HIDE DEF G
    <2>3. \A n \in 0..d : n \in G
      BY <2>1, <2>2, UpTo
    <2>4. d \in 0..d
      OBVIOUS
    <2> QED BY <2>3, <2>4 DEF G
  <1> QED BY <1>2, <1>3, <1>4

\* Above a depth, a process is shown below each node of its parent that is shown
\* above the depth before.
LEMMA ShownTurn ==
  ASSUME execs \in Seq(ExecEvent), OneParent
  PROVE  \A d \in Nat : \A pid \in all_pids(execs) :
           /\ Shown(pid, d) \in Nat
           /\ Shown(pid, d + 1) = Shown(pid, d) + Number(build_tree(execs, d), NodesOf(pid))
           /\ Shown(pid, d + 1)
              = Number(execs, ExecsOf(pid))
                * (IF nodes_ppid(execs, pid) \in all_pids(execs) THEN Shown(nodes_ppid(execs, pid), d) ELSE 1)
  <1> DEFINE S(pid, d) == Number(Nodes(d), NodesOf(pid))
             N(pid, d) == Number(build_tree(execs, d), NodesOf(pid))
             size(pid) == Number(execs, ExecsOf(pid))
             parent(pid) == nodes_ppid(execs, pid)
             A == all_pids(execs)
             P(d) == \A pid \in A : S(pid, d + 1) = size(pid) * (IF parent(pid) \in A THEN S(parent(pid), d) ELSE 1)
             G == {d \in Nat : P(d)}
  <1>1. \A pid, d : Shown(pid, d) = S(pid, d)
    BY DEF Shown, NodesOf
  <1>2. \A d \in Nat : \A pid : S(pid, d + 1) = S(pid, d) + N(pid, d)
    <2> SUFFICES ASSUME NEW d \in Nat, NEW pid PROVE S(pid, d + 1) = S(pid, d) + N(pid, d)
      OBVIOUS
    <2>1. Nodes(d) \in Seq(ProcessNode) /\ Nodes(d + 1) = Nodes(d) \o build_tree(execs, d)
      BY NodesTurn
    <2>2. build_tree(execs, d) \in Seq(ProcessNode)
      BY LevelTurn
    <2>3. Number(Nodes(d) \o build_tree(execs, d), NodesOf(pid))
          = Number(Nodes(d), NodesOf(pid)) + Number(build_tree(execs, d), NodesOf(pid))
      BY <2>1, <2>2, NumberConcat, ZenonT(60)
    <2> QED BY <2>1, <2>3
  <1>3. \A pid : S(pid, 0) = 0
    BY NodesTurn, NumberEmpty
  <1>4. \A d \in Nat : \A pid : S(pid, d) \in Nat /\ N(pid, d) \in Nat
    BY NodesTurn, LevelTurn, NumberType, LenProperties
  <1>5. \A pid \in A : N(pid, 0) = IF parent(pid) \in A THEN 0 ELSE size(pid)
    BY LevelNumber
  <1>6. \A d \in Nat : \A pid \in A : N(pid, d + 1) = size(pid) * N(parent(pid), d)
    BY LevelNumber
  <1>7. ASSUME NEW pid, pid \notin A, NEW d \in Nat PROVE N(pid, d) = 0
    <2>1. CASE d = 0
      <3>1. \A i \in 1..Len(build_tree(execs, 0)) : build_tree(execs, 0)[i] \notin NodesOf(pid)
        <4> DEFINE roots == root_pids(execs)
                   set == { q \in A : parent(q) \notin A }
        <4>1. roots \in Seq(Nat \cap set)
          BY PidsType, FilterType, Zenon DEF root_pids
        <4>2. build_tree(execs, 0) = [i \in DOMAIN roots |-> <<roots[i]>>]
          BY LevelTurn
        <4> HIDE DEF roots
        <4>3. /\ DOMAIN roots = 1..Len(roots) /\ Len(roots) \in Nat
              /\ \A i \in 1..Len(roots) : roots[i] \in A
          <5>1. \A x \in Nat \cap set : x \in A
            OBVIOUS
          <5> HIDE DEF set, A
          <5> QED BY <4>1, <5>1, ElementOfSeq, LenProperties
        <4>4. /\ Len(build_tree(execs, 0)) = Len(roots)
              /\ \A i \in 1..Len(roots) : build_tree(execs, 0)[i] = <<roots[i]>>
          BY <4>2, <4>3
        <4>5. \A q : Last(<<q>>) = q
          BY DEF Last
        <4> HIDE DEF A
        <4>6. ASSUME NEW i \in 1..Len(roots), build_tree(execs, 0)[i] \in NodesOf(pid) PROVE FALSE
          <5>1. Last(build_tree(execs, 0)[i]) = pid
            BY <4>6 DEF NodesOf
          <5>2. Last(build_tree(execs, 0)[i]) = roots[i]
            BY <4>4, <4>5, Zenon
          <5> QED BY <1>7, <4>3, <5>1, <5>2
        <4> QED BY <4>4, <4>6, Zenon
      <3>2. Len(build_tree(execs, 0)) \in Nat
        BY LevelTurn, LenProperties
      <3> QED BY <2>1, <3>1, <3>2, NumberZero
    <2>2. CASE d # 0
      <3>1. d - 1 \in Nat /\ (d - 1) + 1 = d
        BY <2>2
      <3>2. /\ build_tree(execs, d - 1) \in Seq(ProcessNode)
            /\ build_tree(execs, (d - 1) + 1) = Fold(Children(execs), << >>, build_tree(execs, d - 1))
        BY <3>1, LevelTurn
      <3>3. Number(Fold(Children(execs), << >>, build_tree(execs, d - 1)), NodesOf(pid)) = 0
        BY <1>7, <3>2, BelowNumber
      <3> QED BY <3>1, <3>2, <3>3
    <2> QED BY <2>1, <2>2
  <1>8. \A pid : size(pid) \in Nat
    BY PidsKnown
  <1>9. \A a, b, c \in Nat : a * (b + c) = a * b + a * c /\ a * 0 = 0 /\ a * 1 = a
    OBVIOUS
  <1> HIDE DEF S, N, size, parent, A
  <1>10. P(0)
    <2> SUFFICES ASSUME NEW pid \in A
                 PROVE  S(pid, 0 + 1) = size(pid) * (IF parent(pid) \in A THEN S(parent(pid), 0) ELSE 1)
      OBVIOUS
    <2>1. S(pid, 0 + 1) = N(pid, 0)
      BY <1>2, <1>3, <1>4
    <2> QED BY <1>3, <1>5, <1>8, <1>9, <2>1
  <1>11. ASSUME NEW d \in Nat, P(d) PROVE P(d + 1)
    <2> SUFFICES ASSUME NEW pid \in A
                 PROVE  S(pid, (d + 1) + 1)
                        = size(pid) * (IF parent(pid) \in A THEN S(parent(pid), d + 1) ELSE 1)
      OBVIOUS
    <2>0. d + 1 \in Nat
      OBVIOUS
    <2>1. S(pid, (d + 1) + 1) = S(pid, d + 1) + N(pid, d + 1)
      BY <1>2, <2>0
    <2>2. N(pid, d + 1) = size(pid) * N(parent(pid), d)
      BY <1>6
    <2>3. CASE parent(pid) \in A
      <3>1. S(parent(pid), d + 1) = S(parent(pid), d) + N(parent(pid), d)
        BY <1>2
      <3>2. size(pid) * (S(parent(pid), d) + N(parent(pid), d))
            = size(pid) * S(parent(pid), d) + size(pid) * N(parent(pid), d)
        BY <1>4, <1>8, <1>9
      <3>3. S(pid, d + 1) = size(pid) * S(parent(pid), d)
        BY <1>11, <2>3
      <3> QED BY <2>1, <2>2, <2>3, <3>1, <3>2, <3>3
    <2>4. CASE parent(pid) \notin A
      <3>1. N(parent(pid), d) = 0
        BY <1>7, <2>4
      <3>2. S(pid, d + 1) = size(pid) * 1
        BY <1>11, <2>4
      <3> QED BY <1>8, <1>9, <2>1, <2>2, <2>4, <3>1, <3>2
    <2> QED BY <2>3, <2>4
  <1>12. ASSUME NEW d \in Nat PROVE P(d)
    <2>1. 0 \in G
      BY <1>10
    <2>2. \A n \in 1..d : n - 1 \in G => n \in G
      <3> SUFFICES ASSUME NEW n \in 1..d, n - 1 \in G PROVE n \in G
        OBVIOUS
      <3>1. n - 1 \in Nat /\ (n - 1) + 1 = n /\ n \in Nat /\ P(n - 1)
        OBVIOUS
      <3> HIDE DEF P
      <3>2. P((n - 1) + 1)
        BY <1>11, <3>1
      <3> QED BY <3>1, <3>2
    <2> HIDE DEF G, P
    <2>3. \A n \in 0..d : n \in G
      BY <2>1, <2>2, UpTo
    <2>4. d \in 0..d
      OBVIOUS
    <2> QED BY <2>3, <2>4 DEF G
  <1> QED BY <1>1, <1>2, <1>4, <1>12 DEF A, N, size, parent
--------------------------------------------------------------------------------
(* Every process has a way up to a root *)

\* A way from a root down, of which every process was started by the one before.
Way(d) ==
  {path \in Seq(all_pids(execs)) :
     /\ Len(path) = d + 1
     /\ nodes_ppid(execs, path[1]) \notin all_pids(execs)
     /\ \A k \in 1..d : nodes_ppid(execs, path[k + 1]) = path[k]}

\* A level holds ways.
LEMMA LevelWays ==
  ASSUME execs \in Seq(ExecEvent), OneParent
  PROVE  \A d \in Nat : build_tree(execs, d) \in Seq(Way(d))
  <1> DEFINE A == all_pids(execs)
             parent(pid) == nodes_ppid(execs, pid)
             G == {d \in Nat : build_tree(execs, d) \in Seq(Way(d))}
  <1>0. A \subseteq Nat
    BY PidsKnown
  <1>1. 0 \in G
    <2> DEFINE roots == root_pids(execs)
               set == { q \in A : parent(q) \notin A }
    <2>1. roots \in Seq(Nat \cap set)
      BY PidsType, FilterType, Zenon DEF root_pids
    <2>2. build_tree(execs, 0) = [i \in DOMAIN roots |-> <<roots[i]>>]
      BY LevelTurn
    <2> HIDE DEF roots
    <2>3. /\ DOMAIN roots = 1..Len(roots) /\ Len(roots) \in Nat
          /\ \A i \in 1..Len(roots) : roots[i] \in set
      <3>1. \A x \in Nat \cap set : x \in set
        OBVIOUS
      <3> HIDE DEF set, A
      <3> QED BY <2>1, <3>1, ElementOfSeq, LenProperties
    <2>4. ASSUME NEW q \in set PROVE <<q>> \in Way(0)
      <3>1. q \in A /\ parent(q) \notin A
        OBVIOUS
      <3>2. <<q>> \in Seq(A) /\ Len(<<q>>) = 0 + 1 /\ <<q>>[1] = q
        BY <3>1
      <3> QED BY <3>1, <3>2 DEF Way
    <2> HIDE DEF set
    <2>5. build_tree(execs, 0) \in Seq(Way(0))
      BY <2>2, <2>3, <2>4
    <2> QED BY <2>5
  <1>2. ASSUME NEW d \in Nat, build_tree(execs, d) \in Seq(Way(d))
        PROVE  build_tree(execs, d + 1) \in Seq(Way(d + 1))
    <2> DEFINE S == Way(d)
               V == Seq(Way(d + 1))
    <2>1. \A path \in S : path \in ProcessNode
      <3> SUFFICES ASSUME NEW path \in S PROVE path \in Seq(Nat)
        BY DEF ProcessNode
      <3>1. path \in Seq(A)
        BY DEF Way
      <3> HIDE DEF A, S
      <3> QED BY <1>0, <3>1, SeqMonotonic
    <2>2. \A path \in Way(d + 1) : path \in ProcessNode
      <3> SUFFICES ASSUME NEW path \in Way(d + 1) PROVE path \in Seq(Nat)
        BY DEF ProcessNode
      <3>1. path \in Seq(A)
        BY DEF Way
      <3> HIDE DEF A
      <3> QED BY <1>0, <3>1, SeqMonotonic
    <2>3. ASSUME NEW path \in S, NEW pid \in A, parent(pid) = Last(path)
          PROVE  Append(path, pid) \in Way(d + 1)
      <3>1. /\ path \in Seq(A) /\ Len(path) = d + 1 /\ parent(path[1]) \notin A
            /\ \A k \in 1..d : parent(path[k + 1]) = path[k]
        BY DEF Way
      <3> DEFINE more == Append(path, pid)
      <3>2. /\ more \in Seq(A) /\ Len(more) = (d + 1) + 1 /\ more[(d + 1) + 1] = pid
            /\ \A k \in 1..(d + 1) : more[k] = path[k]
        BY <3>1, AppendProperties
      <3>3. Last(path) = path[d + 1]
        BY <3>1 DEF Last
      <3> HIDE DEF more
      <3>4. parent(more[1]) \notin A
        BY <3>1, <3>2
      <3>5. ASSUME NEW k \in 1..(d + 1) PROVE parent(more[k + 1]) = more[k]
        <4>1. CASE k = d + 1
          BY <2>3, <3>2, <3>3, <4>1
        <4>2. CASE k # d + 1
          <5>1. k \in 1..d /\ k + 1 \in 1..(d + 1)
            BY <4>2
          <5> QED BY <3>1, <3>2, <5>1
        <4> QED BY <4>1, <4>2
      <3>6. more \in Way(d + 1)
        BY <3>2, <3>4, <3>5 DEF Way
      <3> QED BY <3>6 DEF more
    <2>4. ASSUME NEW v \in V, NEW path \in S PROVE Children(execs)[v][path] \in V
      <3> DEFINE below == assemble(execs, path)
      <3>1. path \in ProcessNode
        BY <2>1
      <3>2. v \in Seq(ProcessNode)
        BY <2>2, <2>4, SeqMonotonic
      <3>3. Children(execs)[v][path] = v \o below
        BY <3>1, <3>2, Zenon DEF Children
      <3>4. /\ below \in Seq(ProcessNode)
            /\ \A i \in DOMAIN below :
                 \E pid \in A : below[i] = Append(path, pid) /\ parent(pid) = Last(path)
        BY <3>1, AssembleNumber
      <3> HIDE DEF below, A, parent, S
      <3>5. DOMAIN below = 1..Len(below) /\ Len(below) \in Nat
        BY <3>4, LenProperties
      <3>6. \A i \in 1..Len(below) : below[i] \in Way(d + 1)
        BY <2>3, <3>4, <3>5
      <3>7. below \in V
        BY <3>4, <3>5, <3>6
      <3>8. v \o below \in V
        BY <3>7, ConcatProperties, Zenon
      <3> QED BY <3>3, <3>8
    <2>5. << >> \in V
      OBVIOUS
    <2> DEFINE none == << >>
    <2>6. none \in V /\ build_tree(execs, d) \in Seq(S)
      BY <1>2, <2>5
    <2> HIDE DEF S, V, none
    <2>7. \A seq \in Seq(S) : Fold(Children(execs), none, seq) \in V
      BY <2>4, <2>6, FoldType
    <2>8. build_tree(execs, d + 1) = Fold(Children(execs), none, build_tree(execs, d))
      BY LevelTurn DEF none
    <2> QED BY <2>6, <2>7, <2>8 DEF V
  <1>3. ASSUME NEW d \in Nat PROVE build_tree(execs, d) \in Seq(Way(d))
    <2>1. \A n \in 1..d : n - 1 \in G => n \in G
      <3> SUFFICES ASSUME NEW n \in 1..d, n - 1 \in G PROVE n \in G
        OBVIOUS
      <3>1. n - 1 \in Nat /\ (n - 1) + 1 = n /\ build_tree(execs, n - 1) \in Seq(Way(n - 1))
        OBVIOUS
      <3>2. build_tree(execs, (n - 1) + 1) \in Seq(Way((n - 1) + 1))
        BY <1>2, <3>1
      <3> QED BY <3>1, <3>2
    <2> HIDE DEF G
    <2>2. \A n \in 0..d : n \in G
      BY <1>1, <2>1, UpTo
    <2>3. d \in 0..d
      OBVIOUS
    <2> QED BY <2>2, <2>3 DEF G
  <1> QED BY <1>3

\* No way comes back to where it was, so that there are no more steps than processes.
LEMMA WayShort ==
  ASSUME execs \in Seq(ExecEvent), NEW d \in Nat, NEW path \in Way(d)
  PROVE  d + 1 <= Depth
  <1> DEFINE A == all_pids(execs)
             parent(pid) == nodes_ppid(execs, pid)
             n == d + 1
             G == {i \in 0..n : i = 0 \/ \A j \in (i + 1)..n : path[i] # path[j]}
  <1>1. /\ path \in Seq(A) /\ Len(path) = n /\ parent(path[1]) \notin A
        /\ \A k \in 1..d : parent(path[k + 1]) = path[k]
    BY DEF Way
  <1>2. \A i \in 1..n : path[i] \in A
    BY <1>1, ElementOfSeq
  <1> HIDE DEF A, parent
  <1>3. 0 \in G
    OBVIOUS
  <1>4. ASSUME NEW i \in 1..n, i - 1 \in G PROVE i \in G
    <2> SUFFICES ASSUME NEW j \in (i + 1)..n, path[i] = path[j] PROVE FALSE
      OBVIOUS
    <2>1. j - 1 \in 1..d /\ (j - 1) + 1 = j /\ j - 1 \in 1..n
      OBVIOUS
    <2>2. parent(path[j]) = path[j - 1]
      BY <1>1, <2>1
    <2>3. CASE i = 1
      BY <1>1, <1>2, <2>1, <2>2, <2>3
    <2>4. CASE i # 1
      <3>1. i - 1 \in 1..d /\ (i - 1) + 1 = i /\ j - 1 \in ((i - 1) + 1)..n
        BY <2>4
      <3>2. parent(path[i]) = path[i - 1]
        BY <1>1, <3>1
      <3>3. path[i - 1] # path[j - 1]
        BY <1>4, <3>1
      <3> QED BY <2>2, <3>2, <3>3
    <2> QED BY <2>3, <2>4
  <1>5. \A i \in 0..n : i \in G
    <2>1. n \in Nat
      OBVIOUS
    <2> HIDE DEF G, n
    <2> QED BY <1>3, <1>4, <2>1, UpTo
  <1>6. \A i, j \in 1..n : path[i] = path[j] => i = j
    <2> SUFFICES ASSUME NEW i \in 1..n, NEW j \in 1..n, path[i] = path[j] PROVE i = j
      OBVIOUS
    <2>1. ~(i < j)
      <3> SUFFICES ASSUME i < j PROVE FALSE
        OBVIOUS
      <3>1. i \in G /\ i # 0 /\ j \in (i + 1)..n
        BY <1>5
      <3> QED BY <3>1
    <2>2. ~(j < i)
      <3> SUFFICES ASSUME j < i PROVE FALSE
        OBVIOUS
      <3>1. j \in G /\ j # 0 /\ i \in (j + 1)..n
        BY <1>5
      <3> QED BY <3>1
    <2> QED BY <2>1, <2>2
  <1>7. IsFiniteSet(1..n) /\ Cardinality(1..n) = n
    <2>1. n \in Nat
      OBVIOUS
    <2> QED BY <2>1, UpToFinite
  <1>8. IsFiniteSet(A)
    BY PidsKnown DEF A
  <1> DEFINE f == [i \in 1..n |-> path[i]]
  <1>9. f \in Injection(1..n, A)
    <2>1. f \in [1..n -> A]
      BY <1>2
    <2>2. \A i, j \in 1..n : f[i] = f[j] => i = j
      BY <1>6
    <2> HIDE DEF f, n
    <2> QED BY <2>1, <2>2 DEF Injection, IsInjective
  <1> HIDE DEF f, n
  <1>10. Cardinality(1..n) <= Cardinality(A)
    BY <1>8, <1>9, FS_Injection
  <1> QED BY <1>7, <1>10 DEF Depth, A, n

\* Where the ancestors lead.
LEMMA AncestorTurn ==
  ASSUME execs \in Seq(ExecEvent), NEW pid \in all_pids(execs)
  PROVE  /\ Ancestor(pid, 0) = pid
         /\ \A k \in Nat : Ancestor(pid, k) \in all_pids(execs) =>
              Ancestor(pid, k + 1) = nodes_ppid(execs, Ancestor(pid, k))
  <1> DEFINE step == [child \in Nat |-> [n \in Nat |->
                        IF child \in all_pids(execs) THEN nodes_ppid(execs, child) ELSE Outside]]
  <1>1. \A k : Ancestor(pid, k) = Repeat(step, pid, k)
    BY DEF Ancestor
  <1>2. Ancestor(pid, 0) = pid /\ \A k \in Nat : Ancestor(pid, k + 1) = step[Ancestor(pid, k)][k + 1]
    <2> HIDE DEF step
    <2>1. /\ Repeat(step, pid, 0) = pid
          /\ \A k \in Nat : Repeat(step, pid, k + 1) = step[Repeat(step, pid, k)][k + 1]
      BY RepeatTurn, Zenon
    <2> QED BY <1>1, <2>1
  <1>3. ASSUME NEW k \in Nat, Ancestor(pid, k) \in all_pids(execs)
        PROVE  Ancestor(pid, k + 1) = nodes_ppid(execs, Ancestor(pid, k))
    <2> DEFINE child == Ancestor(pid, k)
    <2>1. child \in Nat /\ child \in all_pids(execs) /\ k + 1 \in Nat
      BY <1>3, PidsKnown
    <2>2. Ancestor(pid, k + 1) = step[child][k + 1]
      BY <1>2
    <2> HIDE DEF child
    <2>3. step[child][k + 1] = IF child \in all_pids(execs) THEN nodes_ppid(execs, child) ELSE Outside
      BY <2>1, Zenon
    <2> HIDE DEF step
    <2> QED BY <2>1, <2>2, <2>3 DEF child
  <1> QED BY <1>2, <1>3

--------------------------------------------------------------------------------
(* Circles, and the end of the recursion *)

\* kept has the elements of seq that are in the set, and no others.
HasExactly(kept, seq, set) ==
  \A x : (\E k \in 1..Len(kept) : kept[k] = x) <=> x \in set /\ \E i \in 1..Len(seq) : seq[i] = x

\* What Filter keeps.
LEMMA KeptElements ==
  ASSUME NEW S, NEW seq \in Seq(S), NEW set
  PROVE  HasExactly(Filter(seq, set), seq, set)
  <1> SUFFICES ASSUME NEW x
               PROVE  (\E k \in 1..Len(Filter(seq, set)) : Filter(seq, set)[k] = x)
                        <=> x \in set /\ \E i \in 1..Len(seq) : seq[i] = x
    BY DEF HasExactly
  <1> QED BY FilterMembers, SMTT(60)

\* The processes of the first level are the roots; those of the next have an exec
\* by one of the level.
LEMMA LevelMembers ==
  ASSUME execs \in Seq(ExecEvent)
  PROVE  /\ \A pid : Holds(build_tree(execs, 0), pid) <=> pid \in ToSet(root_pids(execs))
         /\ \A pid : pid \in ToSet(root_pids(execs)) <=>
              pid \in all_pids(execs) /\ nodes_ppid(execs, pid) \notin all_pids(execs)
         /\ \A d \in Nat : \A pid :
              Holds(build_tree(execs, d + 1), pid)
                <=> \E ppid : Holds(build_tree(execs, d), ppid) /\ StartedBy(ppid, pid)
  <1> DEFINE set == { q \in all_pids(execs) : nodes_ppid(execs, q) \notin all_pids(execs) }
             roots == root_pids(execs)
             n == Len(roots)
  <1>1. /\ Pids(execs) \in Seq(Nat) /\ Len(Pids(execs)) = Len(execs)
        /\ \A i \in 1..Len(execs) : Pids(execs)[i] = execs[i].pid
    BY PidsType
  <1>2. roots = Filter(Pids(execs), set)
    BY DEF root_pids
  <1>3. \A q \in all_pids(execs) : \E i \in 1..Len(execs) : execs[i].pid = q
    BY PidsKnown
  <1>4. \A q : q \in set <=> q \in all_pids(execs) /\ nodes_ppid(execs, q) \notin all_pids(execs)
    OBVIOUS
  <1> HIDE DEF set
  <1>5. roots \in Seq(Nat \cap set) /\ n \in Nat /\ DOMAIN roots = 1..n
    <2>1. Filter(Pids(execs), set) \in Seq(Nat \cap set)
      BY <1>1, FilterType
    <2> QED BY <1>2, <2>1, LenProperties
  <1>6. \A q : (\E k \in 1..n : roots[k] = q)
                 <=> q \in set /\ \E i \in 1..Len(Pids(execs)) : Pids(execs)[i] = q
    <2> DEFINE pids == Pids(execs)
               numbers == Nat
    <2>1. pids \in Seq(numbers)
      BY <1>1
    <2> HIDE DEF pids, numbers
    <2>2. HasExactly(Filter(pids, set), pids, set)
      BY <2>1, KeptElements
    <2>3. roots = Filter(pids, set)
      BY <1>2 DEF pids
    <2> HIDE DEF roots
    <2>4. HasExactly(roots, pids, set)
      BY <2>2, <2>3
    <2> QED BY <2>4 DEF HasExactly, pids, n
  <1>7. build_tree(execs, 0) = [i \in 1..n |-> <<roots[i]>>]
    BY <1>5, LevelTurn
  <1> HIDE DEF roots, n
  <1>8. ASSUME NEW q PROVE (\E k \in 1..n : roots[k] = q) <=> q \in set
    BY <1>1, <1>3, <1>4, <1>6
  <1>9. \A q : q \in ToSet(roots) <=> \E k \in 1..n : roots[k] = q
    BY <1>5 DEF ToSet
  <1>10. /\ Len(build_tree(execs, 0)) = n
         /\ \A i \in 1..n : build_tree(execs, 0)[i] = <<roots[i]>>
    BY <1>5, <1>7
  <1>11. \A q : Last(<<q>>) = q
    BY DEF Last
  <1>12. \A pid : Holds(build_tree(execs, 0), pid) <=> \E k \in 1..n : roots[k] = pid
    BY <1>10, <1>11 DEF Holds
  <1>13. \A d \in Nat : \A pid :
           Holds(build_tree(execs, d + 1), pid)
             <=> \E ppid : Holds(build_tree(execs, d), ppid) /\ StartedBy(ppid, pid)
    <2> SUFFICES ASSUME NEW d \in Nat
                 PROVE  \A pid : Holds(build_tree(execs, d + 1), pid)
                          <=> \E ppid : Holds(build_tree(execs, d), ppid) /\ StartedBy(ppid, pid)
      OBVIOUS
    <2> DEFINE level == build_tree(execs, d)
               next == build_tree(execs, d + 1)
               fold == Fold(Children(execs), << >>, level)
    <2>1. level \in Seq(ProcessNode) /\ next = fold
      BY LevelTurn
    <2>2. \A pid : Holds(fold, pid) <=> \E ppid : Holds(level, ppid) /\ StartedBy(ppid, pid)
      BY <2>1, BelowMembers
    <2> HIDE DEF level, next, fold
    <2>3. \A pid : Holds(next, pid) <=> \E ppid : Holds(level, ppid) /\ StartedBy(ppid, pid)
      BY <2>1, <2>2
    <2> QED BY <2>3 DEF level, next
  <1> QED BY <1>4, <1>8, <1>9, <1>12, <1>13 DEF roots

\* A level without processes is empty.
LEMMA LevelEmpty ==
  ASSUME execs \in Seq(ExecEvent), NEW d \in Nat
  PROVE  build_tree(execs, d) = << >> <=> \A pid : ~Holds(build_tree(execs, d), pid)
  <1> DEFINE level == build_tree(execs, d)
  <1>1. level \in Seq(ProcessNode) /\ Len(level) \in Nat
    BY LevelTurn, LenProperties
  <1> HIDE DEF level
  <1>2. ASSUME level # << >> PROVE \E pid : Holds(level, pid)
    <2>1. 1 \in 1..Len(level)
      BY <1>1, <1>2
    <2>2. Holds(level, Last(level[1]))
      BY <2>1 DEF Holds
    <2> QED BY <2>2
  <1>3. \A pid : ~Holds(<< >>, pid)
    BY HoldsConcat
  <1> QED BY <1>2, <1>3 DEF level

\* The number of processes.
LEMMA DepthType == ASSUME execs \in Seq(ExecEvent) PROVE Depth \in Nat
  BY PidsKnown, FS_CardinalityType DEF Depth

\* With heights, a level is lower than the one before, and there is none at Depth.
LEMMA HeightsEnd ==
  ASSUME execs \in Seq(ExecEvent), NoCircle
  PROVE  build_tree(execs, Depth) = << >>
  <1>1. Depth \in Nat
    BY DepthType
  <1>2. PICK below \in SUBSET all_pids(execs) : \E height \in [below -> 0..(Depth - 1)] :
          /\ ToSet(root_pids(execs)) \subseteq below
          /\ \A i \in DOMAIN execs :
               execs[i].ppid \in below =>
                 execs[i].pid \in below /\ height[execs[i].pid] < height[execs[i].ppid]
    BY DEF NoCircle
  <1>3. PICK height \in [below -> 0..(Depth - 1)] :
          /\ ToSet(root_pids(execs)) \subseteq below
          /\ \A i \in DOMAIN execs :
               execs[i].ppid \in below =>
                 execs[i].pid \in below /\ height[execs[i].pid] < height[execs[i].ppid]
    BY <1>2
  <1>4. \A pid \in below : height[pid] \in 0..(Depth - 1)
    BY <1>3
  <1>5. \A ppid \in below : \A pid : StartedBy(ppid, pid) =>
          pid \in below /\ height[pid] < height[ppid]
    <2>1. DOMAIN execs = 1..Len(execs)
      BY LenProperties
    <2> QED BY <1>3, <2>1 DEF StartedBy
  <1> DEFINE P(d) == \A pid : Holds(build_tree(execs, d), pid) =>
                        pid \in below /\ height[pid] + d <= Depth - 1
             G == {d \in Nat : P(d)}
  <1>6. 0 \in G
    <2>1. \A pid : Holds(build_tree(execs, 0), pid) => pid \in below
      BY <1>3, LevelMembers
    <2>2. \A pid \in below : height[pid] + 0 <= Depth - 1
      BY <1>1, <1>4
    <2> QED BY <2>1, <2>2
  <1>7. ASSUME NEW d \in Nat, P(d) PROVE P(d + 1)
    <2> SUFFICES ASSUME NEW pid, Holds(build_tree(execs, d + 1), pid)
                 PROVE  pid \in below /\ height[pid] + (d + 1) <= Depth - 1
      OBVIOUS
    <2>1. PICK ppid : Holds(build_tree(execs, d), ppid) /\ StartedBy(ppid, pid)
      BY LevelMembers
    <2>2. ppid \in below /\ height[ppid] + d <= Depth - 1
      BY <1>7, <2>1
    <2>3. pid \in below /\ height[pid] < height[ppid]
      BY <1>5, <2>1, <2>2
    <2>4. height[pid] \in Int /\ height[ppid] \in Int
      BY <1>4, <2>2, <2>3
    <2> QED BY <1>1, <2>2, <2>3, <2>4
  <1> HIDE DEF P
  <1>8. \A n \in 1..Depth : n - 1 \in G => n \in G
    <2> SUFFICES ASSUME NEW n \in 1..Depth, n - 1 \in G PROVE n \in G
      OBVIOUS
    <2>1. n - 1 \in Nat /\ (n - 1) + 1 = n /\ n \in Nat /\ P(n - 1)
      BY <1>1
    <2>2. P((n - 1) + 1)
      BY <1>7, <2>1
    <2> QED BY <2>1, <2>2
  <1>9. P(Depth)
    <2> HIDE DEF G
    <2>1. \A n \in 0..Depth : n \in G
      BY <1>1, <1>6, <1>8, UpTo
    <2>2. Depth \in 0..Depth
      BY <1>1
    <2> QED BY <2>1, <2>2 DEF G
  <1>10. ASSUME NEW pid PROVE ~Holds(build_tree(execs, Depth), pid)
    <2> SUFFICES ASSUME Holds(build_tree(execs, Depth), pid) PROVE FALSE
      OBVIOUS
    <2>1. pid \in below /\ height[pid] + Depth <= Depth - 1
      BY <1>9 DEF P
    <2>2. height[pid] \in 0..(Depth - 1)
      BY <1>4, <2>1
    <2> QED BY <1>1, <2>1, <2>2
  <1> QED BY <1>1, <1>10, LevelEmpty

\* When the recursion ends, a process is as high as its lowest level is above the end.
LEMMA EndsByHeights ==
  ASSUME execs \in Seq(ExecEvent), build_tree(execs, Depth) = << >>
  PROVE  NoCircle
  <1> DEFINE In(d, pid) == Holds(build_tree(execs, d), pid)
             heights == 0..(Depth - 1)
             below == {pid \in all_pids(execs) : \E h \in heights : In(Depth - 1 - h, pid)}
             Lowest(pid, h) == /\ In(Depth - 1 - h, pid)
                               /\ \A k \in heights : In(Depth - 1 - k, pid) => h <= k
             height == [pid \in below |-> CHOOSE h \in heights : Lowest(pid, h)]
  <1>1. Depth \in Nat /\ \A h \in heights : h \in Nat /\ Depth - 1 - h \in Nat
    BY DepthType
  <1>2. \A pid : ~In(Depth, pid)
    BY <1>1, LevelEmpty
  <1>3. \A pid : In(0, pid) <=> pid \in ToSet(root_pids(execs))
    BY LevelMembers
  <1>4. \A d \in Nat : \A ppid, pid : In(d, ppid) /\ StartedBy(ppid, pid) => In(d + 1, pid)
    BY LevelMembers
  <1>5. \A ppid, pid : StartedBy(ppid, pid) => pid \in all_pids(execs)
    BY PidsKnown DEF StartedBy
  <1>6. \A pid : pid \in ToSet(root_pids(execs)) => pid \in all_pids(execs)
    BY LevelMembers
  <1> HIDE DEF In
  <1>7. ASSUME NEW pid \in below PROVE \E h \in heights : Lowest(pid, h)
    <2> DEFINE T == {h \in heights : In(Depth - 1 - h, pid)}
    <2>1. T \subseteq Nat /\ T # {}
      BY <1>1
    <2>2. PICK h \in T : \A k \in T : h <= k
      BY <2>1, Smallest
    <2> QED BY <2>2
  <1>8. \A pid \in below : height[pid] \in heights /\ Lowest(pid, height[pid])
    <2> SUFFICES ASSUME NEW pid \in below PROVE height[pid] \in heights /\ Lowest(pid, height[pid])
      OBVIOUS
    <2>1. height[pid] = CHOOSE h \in heights : Lowest(pid, h)
      OBVIOUS
    <2> HIDE DEF height, Lowest, below, heights
    <2> QED BY <1>7, <2>1
  <1>9. ToSet(root_pids(execs)) \subseteq below
    <2> SUFFICES ASSUME NEW pid \in ToSet(root_pids(execs)) PROVE pid \in below
      OBVIOUS
    <2>1. In(0, pid) /\ pid \in all_pids(execs)
      BY <1>3, <1>6
    <2>2. Depth # 0
      BY <1>2, <2>1
    <2>3. Depth - 1 \in heights /\ Depth - 1 - (Depth - 1) = 0
      BY <1>1, <2>2
    <2> QED BY <2>1, <2>3
  <1>10. ASSUME NEW ppid \in below, NEW pid, StartedBy(ppid, pid)
         PROVE  pid \in below /\ height[pid] < height[ppid]
    <2> DEFINE h == height[ppid]
    <2>1. h \in heights /\ In(Depth - 1 - h, ppid)
      BY <1>8
    <2>2. In((Depth - 1 - h) + 1, pid) /\ pid \in all_pids(execs)
      BY <1>1, <1>4, <1>5, <1>10, <2>1
    <2> HIDE DEF h, height
    <2>3. h # 0
      <3> SUFFICES ASSUME h = 0 PROVE FALSE
        OBVIOUS
      <3>1. (Depth - 1 - h) + 1 = Depth
        BY <1>1
      <3> QED BY <1>2, <2>2, <3>1
    <2>4. h - 1 \in heights /\ (Depth - 1 - h) + 1 = Depth - 1 - (h - 1)
      BY <1>1, <2>1, <2>3
    <2>5. In(Depth - 1 - (h - 1), pid)
      BY <2>2, <2>4
    <2>6. pid \in below
      BY <2>2, <2>4, <2>5
    <2>7. height[pid] \in heights /\ height[pid] <= h - 1
      BY <1>8, <2>4, <2>5, <2>6
    <2>8. height[pid] < h
      BY <1>1, <2>1, <2>7
    <2> QED BY <2>6, <2>8 DEF h
  <1>11. height \in [below -> heights]
    BY <1>8
  <1>12. \A i \in DOMAIN execs :
           execs[i].ppid \in below =>
             execs[i].pid \in below /\ height[execs[i].pid] < height[execs[i].ppid]
    <2>1. DOMAIN execs = 1..Len(execs)
      BY LenProperties
    <2>2. \A i \in DOMAIN execs : StartedBy(execs[i].ppid, execs[i].pid)
      BY <2>1 DEF StartedBy
    <2> HIDE DEF below, height
    <2> QED BY <1>10, <2>2
  <1>13. below \in SUBSET all_pids(execs)
    OBVIOUS
  <1> HIDE DEF below, height
  <1> QED BY <1>9, <1>11, <1>12, <1>13 DEF NoCircle

\* The parent that is shown for a process is that of one of its execs.
LEMMA StartedByParent ==
  ASSUME execs \in Seq(ExecEvent), NEW pid \in all_pids(execs)
  PROVE  StartedBy(nodes_ppid(execs, pid), pid)
  <1> DEFINE own == Filter(execs, ExecsOf(pid))
             n == Len(own)
  <1>1. own \in Seq(ExecEvent \cap ExecsOf(pid)) /\ n \in Nat
    BY FilterType, LenProperties
  <1>2. \A x : (\E k \in 1..n : own[k] = x)
                 <=> x \in ExecsOf(pid) /\ \E k \in 1..Len(execs) : execs[k] = x
    BY FilterMembers
  <1>3. PICK i \in 1..Len(execs) : execs[i].pid = pid
    BY PidsKnown
  <1>4. execs[i] \in ExecsOf(pid)
    BY <1>3, PidsType DEF ExecsOf
  <1>5. nodes_ppid(execs, pid) = own[n].ppid
    BY DEF nodes_ppid, ExecsOf, Last
  <1> HIDE DEF own, n
  <1>6. n \in 1..n
    BY <1>1, <1>2, <1>4
  <1>7. own[n] \in ExecsOf(pid) /\ \E k \in 1..Len(execs) : execs[k] = own[n]
    BY <1>2, <1>6
  <1>8. PICK k \in 1..Len(execs) : execs[k] = own[n]
    BY <1>7
  <1>9. execs[k].pid = pid /\ execs[k].ppid = nodes_ppid(execs, pid)
    BY <1>5, <1>7, <1>8 DEF ExecsOf
  <1> QED BY <1>9 DEF StartedBy

\* A process that is not shown is in no level above the depth.
LEMMA ShownByLevels ==
  ASSUME execs \in Seq(ExecEvent), NEW pid
  PROVE  \A d \in Nat : Shown(pid, d) = 0 => \A k \in 0..(d - 1) : ~Holds(build_tree(execs, k), pid)
  <1> DEFINE N(k) == Number(build_tree(execs, k), NodesOf(pid))
             P(d) == Shown(pid, d) = 0 => \A k \in 0..(d - 1) : ~Holds(build_tree(execs, k), pid)
             G == {d \in Nat : P(d)}
  <1>1. \A d \in Nat : Shown(pid, d) \in Nat /\ N(d) \in Nat /\ Shown(pid, d + 1) = Shown(pid, d) + N(d)
    <2> SUFFICES ASSUME NEW d \in Nat
                 PROVE  Shown(pid, d) \in Nat /\ N(d) \in Nat /\ Shown(pid, d + 1) = Shown(pid, d) + N(d)
      OBVIOUS
    <2>1. Nodes(d) \in Seq(ProcessNode) /\ Nodes(d + 1) = Nodes(d) \o build_tree(execs, d)
      BY NodesTurn
    <2>2. build_tree(execs, d) \in Seq(ProcessNode)
      BY LevelTurn
    <2>3. Number(Nodes(d) \o build_tree(execs, d), NodesOf(pid))
          = Number(Nodes(d), NodesOf(pid)) + Number(build_tree(execs, d), NodesOf(pid))
      BY <2>1, <2>2, NumberConcat, ZenonT(60)
    <2>4. Number(Nodes(d), NodesOf(pid)) \in Nat /\ N(d) \in Nat
      BY <2>1, <2>2, NumberType, LenProperties
    <2> QED BY <2>1, <2>3, <2>4 DEF Shown, NodesOf
  <1>2. ASSUME NEW d \in Nat, N(d) = 0 PROVE ~Holds(build_tree(execs, d), pid)
    <2> DEFINE level == build_tree(execs, d)
    <2>1. level \in Seq(ProcessNode) /\ Len(level) \in Nat
      BY LevelTurn, LenProperties
    <2>2. Number(level, NodesOf(pid)) = 0
      BY <1>2
    <2> HIDE DEF level
    <2>3. \A k \in 1..Len(level) : level[k] \notin NodesOf(pid)
      BY <2>1, <2>2, NumberZero
    <2>4. \A k \in 1..Len(level) : level[k] \in ProcessNode
      BY <2>1, ElementOfSeq
    <2> QED BY <2>3, <2>4 DEF Holds, NodesOf, level
  <1> HIDE DEF N
  <1>3. 0 \in G
    OBVIOUS
  <1>4. ASSUME NEW d \in Nat, P(d) PROVE P(d + 1)
    <2> SUFFICES ASSUME Shown(pid, d + 1) = 0, NEW k \in 0..((d + 1) - 1)
                 PROVE  ~Holds(build_tree(execs, k), pid)
      OBVIOUS
    <2>1. Shown(pid, d) = 0 /\ N(d) = 0
      <3> DEFINE a == Shown(pid, d)
                 b == N(d)
                 c == Shown(pid, d + 1)
      <3>1. a \in Nat /\ b \in Nat /\ c = a + b /\ c = 0
        BY <1>1
      <3> HIDE DEF a, b, c
      <3>2. a = 0 /\ b = 0
        BY <3>1
      <3> QED BY <3>2 DEF a, b
    <2>2. k = d \/ k \in 0..(d - 1)
      OBVIOUS
    <2> QED BY <1>2, <1>4, <2>1, <2>2
  <1> HIDE DEF P
  <1>5. ASSUME NEW d \in Nat PROVE d \in G
    <2>1. \A n \in 1..d : n - 1 \in G => n \in G
      <3> SUFFICES ASSUME NEW n \in 1..d, n - 1 \in G PROVE n \in G
        OBVIOUS
      <3>1. n - 1 \in Nat /\ (n - 1) + 1 = n /\ n \in Nat /\ P(n - 1)
        OBVIOUS
      <3>2. P((n - 1) + 1)
        BY <1>4, <3>1
      <3> QED BY <3>1, <3>2
    <2> HIDE DEF G
    <2>2. \A n \in 0..d : n \in G
      BY <1>3, <2>1, UpTo
    <2>3. d \in 0..d
      OBVIOUS
    <2> QED BY <2>2, <2>3
  <1> QED BY <1>5 DEF P

\* A process that is not shown is not in a level, nor is its parent in the level
\* before; its ancestors never leave the session.
LEMMA HiddenByCircle ==
  ASSUME execs \in Seq(ExecEvent), NEW pid \in all_pids(execs), Shown(pid, Depth) = 0
  PROVE  Ancestor(pid, Depth) \in all_pids(execs)
  <1> DEFINE In(d, q) == Holds(build_tree(execs, d), q)
             A == all_pids(execs)
             parent(q) == nodes_ppid(execs, q)
             Up(k) == Ancestor(pid, k)
             G == {k \in Nat : Up(k) \in A /\ \A d \in Nat : d + k < Depth => ~In(d, Up(k))}
  <1>1. Depth \in Nat
    BY DepthType
  <1>2. Up(0) = pid /\ \A k \in Nat : Up(k) \in A => Up(k + 1) = parent(Up(k))
    BY AncestorTurn
  <1>3. \A d \in 0..(Depth - 1) : ~In(d, pid)
    BY <1>1, ShownByLevels
  <1>4. \A q \in A : parent(q) \notin A => In(0, q)
    BY LevelMembers
  <1>5. \A q \in A : \A d \in Nat : In(d, parent(q)) => In(d + 1, q)
    BY LevelMembers, StartedByParent
  <1> HIDE DEF In, A, parent, Up
  <1>6. 0 \in G
    <2>1. \A d \in Nat : d + 0 < Depth => d \in 0..(Depth - 1)
      BY <1>1
    <2>2. pid \in A
      BY DEF A
    <2> QED BY <1>2, <1>3, <2>1, <2>2
  <1>7. ASSUME NEW k \in 1..Depth, k - 1 \in G PROVE k \in G
    <2> DEFINE q == Up(k - 1)
    <2>1. k - 1 \in Nat /\ (k - 1) + 1 = k /\ k \in Nat /\ 0 + (k - 1) < Depth
      BY <1>1
    <2>2. q \in A /\ \A d \in Nat : d + (k - 1) < Depth => ~In(d, q)
      BY <1>7
    <2>3. Up(k) = parent(q)
      BY <1>2, <2>1, <2>2
    <2> HIDE DEF q
    <2>4. parent(q) \in A
      BY <1>4, <2>1, <2>2
    <2>5. ASSUME NEW d \in Nat, d + k < Depth PROVE ~In(d, parent(q))
      <3>1. d + 1 \in Nat /\ (d + 1) + (k - 1) < Depth
        BY <1>1, <2>5
      <3> QED BY <1>5, <2>2, <3>1
    <2> QED BY <2>1, <2>3, <2>4, <2>5
  <1> HIDE DEF G
  <1>8. \A k \in 0..Depth : k \in G
    BY <1>1, <1>6, <1>7, UpTo
  <1>9. Depth \in 0..Depth
    BY <1>1
  <1> QED BY <1>8, <1>9 DEF G, Up, A

\* When no pid changes its parent, a process is shown for each of its execs below
\* each node of its parent.
LEMMA ShownByExecs ==
  ASSUME execs \in Seq(ExecEvent), OneParent
  PROVE  \A pid \in all_pids(execs) :
           LET parent == nodes_ppid(execs, pid) IN
             Shown(pid, Depth)
             = Execs(pid) * (IF parent \in all_pids(execs) THEN Shown(parent, Depth) ELSE 1)
  <1> DEFINE A == all_pids(execs)
             parent(pid) == nodes_ppid(execs, pid)
             size(pid) == Number(execs, ExecsOf(pid))
  <1>1. execs \in Seq(ExecEvent)
    OBVIOUS
  <1>2. Depth \in Nat
    BY <1>1, PidsKnown, FS_CardinalityType DEF Depth
  <1>3. build_tree(execs, Depth) = << >>
    <2>1. build_tree(execs, Depth) \in Seq(Way(Depth))
      BY <1>1, <1>2, LevelWays
    <2>2. Way(Depth) = {}
      <3> SUFFICES ASSUME NEW path \in Way(Depth) PROVE FALSE
        OBVIOUS
      <3>1. Depth + 1 <= Depth
        BY <1>1, <1>2, WayShort
      <3> QED BY <1>2, <3>1
    <2> DEFINE level == build_tree(execs, Depth)
    <2>3. level \in Seq({})
      BY <2>1, <2>2
    <2> HIDE DEF level
    <2>4. level = << >>
      BY <2>3
    <2> QED BY <2>4 DEF level
  <1>4. \A pid : Execs(pid) = size(pid)
    BY DEF Execs, ExecsOf
  <1>5. ASSUME NEW pid \in A
        PROVE  /\ Shown(pid, Depth) \in Nat
               /\ Shown(pid, Depth) = size(pid) * (IF parent(pid) \in A THEN Shown(parent(pid), Depth) ELSE 1)
    <2>1. /\ Shown(pid, Depth) \in Nat
          /\ Shown(pid, Depth + 1) = Shown(pid, Depth) + Number(build_tree(execs, Depth), NodesOf(pid))
          /\ Shown(pid, Depth + 1) = size(pid) * (IF parent(pid) \in A THEN Shown(parent(pid), Depth) ELSE 1)
      BY <1>1, <1>2, ShownTurn
    <2>2. Number(build_tree(execs, Depth), NodesOf(pid)) = 0
      BY <1>3, NumberEmpty
    <2> HIDE DEF A, parent, size
    <2> QED BY <2>1, <2>2
  <1> QED BY <1>4, <1>5

\* The tree is finite exactly when no process below a root is below itself; it
\* leaves out no process with a way up to a root, and shows one as often as its
\* execs and the nodes of its parent have it: for any number of execs, of pids that
\* are used again or not.
THEOREM TreeComplete == Spec => []TreeShowsEveryProcess
  <1>1. IInv => TreeShowsEveryProcess
    <2> SUFFICES ASSUME IInv PROVE TreeShowsEveryProcess
      OBVIOUS
    <2>1. execs \in Seq(ExecEvent)
      BY DEF IInv, Types
    <2>2. build_tree(execs, Depth) = << >> <=> NoCircle
      BY <2>1, HeightsEnd, EndsByHeights
    <2>3. \A pid \in all_pids(execs) : Shown(pid, Depth) = 0 => Ancestor(pid, Depth) \in all_pids(execs)
      BY <2>1, HiddenByCircle
    <2> QED BY <2>1, <2>2, <2>3, ShownByExecs DEF TreeShowsEveryProcess
  <1> QED BY <1>1, Invariant, PTL
================================================================================
