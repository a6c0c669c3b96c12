--------------------------- MODULE AuditStoreProofs ----------------------------
(***************************************************************************)
(* Proofs about AuditStore, for every set of sessions and payloads and     *)
(* every bound.                                                            *)
(*                                                                         *)
(* The argument: a database is Consistent when the rows of each session    *)
(* form a chain numbered from 1 and agree with its sessions row.  One      *)
(* event inserted after the row its SELECT returned keeps a database       *)
(* Consistent (InsertKeepsConsistent).  What has to be shown of the        *)
(* transaction is then that the pair it holds is the last row of the view  *)
(* it writes to, and that the view it commits still contains everything    *)
(* committed meanwhile: TxInv.                                             *)
(*                                                                         *)
(* For the refinement of AuditLedger it is enough to know, besides, that   *)
(* the view is the committed database and the part of the batch that has   *)
(* been written: Parts.                                                    *)
(*                                                                         *)
(* Last, the foreign key: it asks for a sessions row, Collector for an     *)
(* earlier SessionInit, and a session has both or neither: ViewRow.        *)
(***************************************************************************)
EXTENDS AuditStore, SubsequenceProofs

\* The rows of a session hash correctly.  They count from 1 and link to each other,
\* unless one of them, not the first, has started to count again.
Chained(rows, misread) ==
  /\ \A i \in 1..Len(rows) : rows[i].seq \in 1..i /\ verify_hash(rows[i])
  /\ ~misread => \A i \in 1..Len(rows) :
       /\ rows[i].seq = i
       /\ rows[i].prev_hash = IF i = 1 THEN GENESIS_HASH ELSE rows[i - 1].hash
  /\ misread => /\ \E i \in 2..Len(rows) : rows[i].seq = 1
                /\ rows[Len(rows)].seq < Len(rows)

\* What a SELECT may leave: the last row of the session, or the default.
Pairs(d, sid) == {LastSeqAndHash(d, sid), NoRow}

\* The sessions row of a session agrees with its events.
RowMatches(row, rows) ==
  /\ row = "absent" <=> rows = << >>
  /\ rows # << >> => rows[1].event.kind = "SessionInit"
  /\ row = "ended" <=> \E i \in 1..Len(rows) : rows[i].event.kind = "SessionEnd"

Consistent(d) ==
  \A s \in Session : /\ Chained(d.events[s], s \in d.misread)
                     /\ RowMatches(d.sessions[s], d.events[s])

\* What holds of an open transaction, by the lock it has.
TxInv ==
  /\ Consistent(db)
  /\ lock # "none" => Consistent(work)
  /\ lock = "read" => pc = "write"
  /\ lock = "write" => /\ \A s \in Stream : IsPrefix(db.events[s], work.events[s])
                       /\ work.notified = db.notified
  /\ pc = "idle" => lock = "none"
  /\ pc = "commit" => lock = "write"
  /\ pc \in {"select", "write"} => batch # << >>
  /\ pc = "write" => last \in Pairs(Snapshot, Head(batch).sid)

--------------------------------------------------------------------------------
(* Lemmas about sequences and about one row *)

\* A sequence is a prefix of itself and of what is appended to it, and prefixes
\* chain.
LEMMA PrefixAppend ==
  ASSUME NEW S, NEW p \in Seq(S), NEW q \in Seq(S), NEW x \in S, IsPrefix(p, q)
  PROVE  IsPrefix(p, Append(q, x))
<1>1. /\ Len(p) <= Len(q)
      /\ SubSeq(p, 1, Len(p)) = SubSeq(q, 1, Len(p))
  BY DEF IsPrefix
<1>2. Len(Append(q, x)) = Len(q) + 1
  OBVIOUS
<1>3. SubSeq(Append(q, x), 1, Len(p)) = SubSeq(q, 1, Len(p))
  BY <1>1
<1> QED
  BY <1>1, <1>2, <1>3 DEF IsPrefix

\* A sequence is a prefix of itself.
LEMMA PrefixRefl ==
  ASSUME NEW S, NEW p \in Seq(S)
  PROVE  IsPrefix(p, p)
BY DEF IsPrefix

\* A prefix of a prefix is a prefix.
LEMMA PrefixTrans ==
  ASSUME NEW S, NEW p \in Seq(S), NEW q \in Seq(S), NEW r \in Seq(S),
         IsPrefix(p, q), IsPrefix(q, r)
  PROVE  IsPrefix(p, r)
<1>1. /\ Len(p) <= Len(q) /\ SubSeq(p, 1, Len(p)) = SubSeq(q, 1, Len(p))
      /\ Len(q) <= Len(r) /\ SubSeq(q, 1, Len(q)) = SubSeq(r, 1, Len(q))
  BY DEF IsPrefix
<1>2. ASSUME NEW i \in 1..Len(p)
      PROVE  p[i] = r[i]
  <2>1. SubSeq(p, 1, Len(p))[i] = p[i] /\ SubSeq(q, 1, Len(p))[i] = q[i]
    BY <1>1
  <2>2. SubSeq(q, 1, Len(q))[i] = q[i] /\ SubSeq(r, 1, Len(q))[i] = r[i]
    BY <1>1
  <2> QED
    BY <1>1, <2>1, <2>2
<1>3. SubSeq(p, 1, Len(p)) = SubSeq(r, 1, Len(p))
  BY <1>1, <1>2
<1> QED
  BY <1>1, <1>3 DEF IsPrefix

\* The digest of a row is a digest.
LEMMA DigestType ==
  ASSUME NEW seq \in Nat, NEW h \in Digest, NEW e \in Event
  PROVE  compute_event_hash(seq, h, e) \in Digest
BY DEF compute_event_hash, Digest

\* A row made from an event, a number and a digest is a row.
LEMMA NewRowType ==
  ASSUME NEW seq \in Nat, NEW h \in Digest, NEW e \in Event
  PROVE  NewChainedEvent(seq, h, e) \in ChainedAuditEvent
BY DigestType DEF NewChainedEvent, ChainedAuditEvent

\* The fields of an event: only an exec may come without a session.
LEMMA EventType ==
  ASSUME NEW e \in Event
  PROVE  /\ e.sid \in Stream
         /\ e.kind \in {"SessionInit", "KeystrokeInput", "SessionEnd", "ProcessExec"}
         /\ e.kind \in {"SessionInit", "KeystrokeInput", "SessionEnd"} => e.sid \in Session
BY DEF Event, Stream

\* What SelectLast finds is a number and a digest, also where there is no row.
LEMMA LastType ==
  ASSUME NEW d \in Database, NEW sid \in Stream
  PROVE  LastSeqAndHash(d, sid) \in [seq : Nat, hash : Digest]
<1>1. CASE sid = NoSession \/ d.events[sid] = << >>
  BY <1>1 DEF LastSeqAndHash, NoRow, GENESIS_HASH, Digest
<1>2. CASE ~(sid = NoSession \/ d.events[sid] = << >>)
  <2>1. d.events[sid] \in Seq(ChainedAuditEvent) /\ d.events[sid] # << >>
    BY <1>2 DEF Database
  <2>2. d.events[sid][Len(d.events[sid])] \in ChainedAuditEvent
    BY <2>1
  <2> QED
    BY <1>2, <2>2 DEF LastSeqAndHash, ChainedAuditEvent
<1> QED
  BY <1>1, <1>2

\* One row appended to a chain, numbered and linked after the chain's last row,
\* leaves a chain; numbered from 1 again, it leaves one that has been misread.
LEMMA ChainAppend ==
  ASSUME NEW rows \in Seq(ChainedAuditEvent), NEW old \in BOOLEAN, Chained(rows, old),
         NEW e \in Event,
         NEW found \in [seq : Nat, hash : Digest],
         \/ found = NoRow
         \/ rows # << >> /\ found = [seq  |-> rows[Len(rows)].seq,
                                     hash |-> rows[Len(rows)].hash]
  PROVE  Chained(Append(rows, NewChainedEvent(found.seq + 1, found.hash, e)),
                 old \/ (rows # << >> /\ found = NoRow))
<1> DEFINE row == NewChainedEvent(found.seq + 1, found.hash, e)
           new == Append(rows, row)
           n   == Len(rows)
           now == old \/ (rows # << >> /\ found = NoRow)
<1>1. row \in ChainedAuditEvent
  BY NewRowType
<1>2. /\ Len(new) = n + 1 /\ n \in Nat
      /\ \A i \in 1..n : new[i] = rows[i]
      /\ new[n + 1] = row
      /\ rows # << >> <=> n \in 1..n
      /\ rows = << >> <=> n = 0
  BY <1>1
<1>3. /\ row.seq = found.seq + 1
      /\ row.prev_hash = found.hash
      /\ verify_hash(row)
  BY DEF NewChainedEvent, verify_hash
<1>4. rows # << >> => rows[n].seq \in 1..n
  BY <1>2 DEF Chained
<1>5. /\ found = NoRow => found.seq = 0 /\ found.hash = GENESIS_HASH
      /\ rows # << >> /\ found # NoRow => /\ found.seq = rows[n].seq
                                          /\ found.hash = rows[n].hash
      /\ rows = << >> => found = NoRow
  BY DEF NoRow
<1> HIDE DEF row, new
<1>6. ASSUME NEW i \in 1..Len(new)
      PROVE  new[i].seq \in 1..i /\ verify_hash(new[i])
  <2>1. CASE i \in 1..n
    BY <1>2, <2>1 DEF Chained
  <2>2. CASE i = n + 1
    <3>1. found.seq \in 0..n
      BY <1>2, <1>4, <1>5
    <3>2. new[i].seq = found.seq + 1 /\ verify_hash(new[i])
      BY <1>2, <1>3, <2>2
    <3> QED
      BY <1>2, <2>2, <3>1, <3>2
  <2> QED
    BY <1>2, <2>1, <2>2
<1>7. ASSUME ~now, NEW i \in 1..Len(new)
      PROVE  /\ new[i].seq = i
             /\ new[i].prev_hash = IF i = 1 THEN GENESIS_HASH ELSE new[i - 1].hash
  <2>1. CASE i \in 1..n
    <3>1. i # 1 => i - 1 \in 1..n
      BY <1>2, <2>1
    <3> QED
      BY <1>2, <1>7, <2>1, <3>1 DEF Chained
  <2>2. CASE i = n + 1
    <3>1. CASE rows = << >>
      BY <1>2, <1>3, <1>5, <2>2, <3>1
    <3>2. CASE rows # << >>
      <4>1. found.seq = rows[n].seq /\ found.hash = rows[n].hash
        BY <1>5, <1>7, <3>2
      <4>2. rows[n].seq = n
        BY <1>2, <1>7, <3>2 DEF Chained
      <4>3. i # 1 /\ i - 1 = n /\ new[i - 1] = rows[n]
        BY <1>2, <2>2, <3>2
      <4> QED
        BY <1>2, <1>3, <2>2, <4>1, <4>2, <4>3
    <3> QED
      BY <3>1, <3>2
  <2> QED
    BY <1>2, <2>1, <2>2
<1>8. ASSUME now
      PROVE  /\ \E i \in 2..Len(new) : new[i].seq = 1
             /\ new[Len(new)].seq < Len(new)
  <2>1. CASE found = NoRow /\ rows # << >>
    <3>1. n >= 1 /\ new[n + 1].seq = 1
      BY <1>2, <1>3, <1>5, <2>1
    <3> QED
      BY <1>2, <3>1
  <2>2. CASE ~(found = NoRow /\ rows # << >>)
    <3>1. /\ \E i \in 2..n : rows[i].seq = 1
          /\ rows[n].seq < n
      BY <1>8, <2>2 DEF Chained
    <3>2. rows # << >> /\ found.seq = rows[n].seq
      BY <1>2, <1>5, <2>2, <3>1
    <3>3. PICK i \in 2..n : rows[i].seq = 1
      BY <3>1
    <3>4. i \in 2..Len(new) /\ new[i].seq = 1
      BY <1>2, <3>3
    <3>5. new[n + 1].seq = rows[n].seq + 1
      BY <1>2, <1>3, <3>2
    <3> QED
      BY <1>2, <1>4, <3>1, <3>2, <3>4, <3>5
  <2> QED
    BY <2>1, <2>2
<1>9. Chained(new, now)
  <2> HIDE DEF now
  <2> QED
    BY <1>6, <1>7, <1>8 DEF Chained
<1> QED
  BY <1>9 DEF new, row

\* The sessions row and the events rows of a session still match after one of
\* its events was stored.
LEMMA RowMatchesAppend ==
  ASSUME NEW rows \in Seq(ChainedAuditEvent), NEW row \in SessionRow,
         RowMatches(row, rows), NEW x \in ChainedAuditEvent,
         SessionRowAfter(row, x.event.kind) # "absent"
  PROVE  RowMatches(SessionRowAfter(row, x.event.kind), Append(rows, x))
<1> DEFINE new == Append(rows, x)
           kind == x.event.kind
<1>1. /\ Len(new) = Len(rows) + 1
      /\ new # << >>
      /\ \A i \in 1..Len(rows) : new[i] = rows[i]
      /\ new[Len(rows) + 1] = x
  OBVIOUS
<1>2. new[1].event.kind = "SessionInit"
  <2>1. CASE rows = << >>
    BY <1>1, <2>1 DEF RowMatches, SessionRowAfter
  <2>2. CASE rows # << >>
    <3>1. 1 \in 1..Len(rows)
      BY <2>2
    <3> QED
      BY <1>1, <2>2, <3>1 DEF RowMatches
  <2> QED
    BY <2>1, <2>2
<1>3. (\E i \in 1..Len(new) : new[i].event.kind = "SessionEnd")
        <=> \/ \E i \in 1..Len(rows) : rows[i].event.kind = "SessionEnd"
            \/ kind = "SessionEnd"
  <2>1. 1..Len(new) = (1..Len(rows)) \cup {Len(rows) + 1}
    BY <1>1
  <2> QED
    BY <1>1, <2>1
<1>4. SessionRowAfter(row, kind) = "ended" <=> row = "ended" \/ kind = "SessionEnd"
  BY DEF SessionRowAfter, SessionRow
<1> QED
  BY <1>1, <1>2, <1>3, <1>4 DEF RowMatches

\* Storing one event after the row that a SELECT on the same view returned, or after
\* a SELECT that failed, keeps the view well typed and consistent.
LEMMA InsertKeepsConsistent ==
  ASSUME NEW d \in Database, Consistent(d), NEW e \in Event, ForeignKeyHolds(d, e),
         NEW found \in Pairs(d, e.sid)
  PROVE  LET new == InsertEvent(d, e, found)
         IN  /\ new \in Database
             /\ Consistent(new)
             /\ new.notified = d.notified
             /\ \A s \in Stream : \E x \in ChainedAuditEvent :
                  new.events[s] \in {d.events[s], Append(d.events[s], x)}
<1> DEFINE x    == NewChainedEvent(found.seq + 1, found.hash, e)
           new  == InsertEvent(d, e, found)
<1>1. e.sid \in Stream
  BY EventType
<1>2. found \in [seq : Nat, hash : Digest]
  <2>1. NoRow \in [seq : Nat, hash : Digest]
    BY DEF NoRow, GENESIS_HASH, Digest
  <2> QED
    BY <1>1, <2>1, LastType DEF Pairs
<1>3. x \in ChainedAuditEvent
  BY <1>2, NewRowType
<1>4. SessionsAfter(d, e) \in [Session -> SessionRow]
  BY DEF SessionsAfter, SessionRowAfter, SessionRow, Database
<1>5. d.events \in [Stream -> Seq(ChainedAuditEvent)]
  BY DEF Database
<1>6. /\ new.sessions = SessionsAfter(d, e)
      /\ new.events = [d.events EXCEPT ![e.sid] = Append(@, x)]
      /\ new.notified = d.notified
      /\ new.misread = d.misread \cup {s \in Session : s = e.sid /\ Misreads(d, e, found)}
      /\ new \in Database
  BY <1>1, <1>3, <1>4, <1>5 DEF InsertEvent, Database
<1>7. \A s \in Stream : new.events[s] = IF s = e.sid THEN Append(d.events[s], x)
                                                     ELSE d.events[s]
  BY <1>5, <1>6
<1>8. ASSUME NEW s \in Session
      PROVE  /\ Chained(new.events[s], s \in new.misread)
             /\ RowMatches(new.sessions[s], new.events[s])
  <2>1. s \in Stream /\ s # NoSession
    BY NoSessionAssumption DEF Stream
  <2>2. /\ d.events[s] \in Seq(ChainedAuditEvent)
        /\ Chained(d.events[s], s \in d.misread)
        /\ d.sessions[s] \in SessionRow
        /\ RowMatches(d.sessions[s], d.events[s])
    BY <2>1 DEF Consistent, Database
  <2>3. CASE s # e.sid
    BY <1>6, <1>7, <2>1, <2>2, <2>3 DEF SessionsAfter
  <2>4. CASE s = e.sid
    <3>1. new.events[s] = Append(d.events[s], x)
      BY <1>7, <2>1, <2>4
    <3>2. \/ found = NoRow
          \/ /\ d.events[s] # << >>
             /\ found = [seq  |-> d.events[s][Len(d.events[s])].seq,
                         hash |-> d.events[s][Len(d.events[s])].hash]
      BY <2>4 DEF Pairs, LastSeqAndHash
    <3>3. Chained(new.events[s], s \in new.misread)
      <4>1. (s \in new.misread) = (s \in d.misread \/ (d.events[s] # << >> /\ found = NoRow))
        BY <1>6, <2>1, <2>4 DEF Misreads
      <4> DEFINE old  == s \in d.misread
                 rows == d.events[s]
      <4>2. old \in BOOLEAN /\ rows \in Seq(ChainedAuditEvent) /\ Chained(rows, old)
        BY <2>2
      <4>3. \/ found = NoRow
            \/ rows # << >> /\ found = [seq  |-> rows[Len(rows)].seq,
                                        hash |-> rows[Len(rows)].hash]
        BY <3>2
      <4> HIDE DEF new, old, rows
      <4>4. Chained(Append(rows, x), old \/ (rows # << >> /\ found = NoRow))
        BY <1>2, <4>2, <4>3, ChainAppend
      <4> QED
        BY <3>1, <4>1, <4>4 DEF old, rows
    <3>4. new.sessions[s] = SessionRowAfter(d.sessions[s], x.event.kind)
      BY <1>6, <2>4 DEF SessionsAfter, NewChainedEvent
    <3>5. new.sessions[s] # "absent"
      BY <1>6, <2>1, <2>4 DEF ForeignKeyHolds
    <3>6. RowMatches(new.sessions[s], new.events[s])
      BY <1>3, <2>2, <3>1, <3>4, <3>5, RowMatchesAppend
    <3> QED
      BY <3>3, <3>6
  <2> QED
    BY <2>3, <2>4
<1> QED
  BY <1>3, <1>6, <1>7, <1>8 DEF Consistent

\* The same for one step of the transaction: written to the view the last pair
\* was read from, an event keeps the view typed and consistent, and every stream
\* of the old view is a prefix of the new one.
LEMMA WriteEventView ==
  ASSUME TypeOK, TxInv, WriteEvent
  PROVE  /\ Snapshot \in Database
         /\ work' \in Database
         /\ Consistent(work')
         /\ work'.notified = Snapshot.notified
         /\ \A s \in Stream : IsPrefix(Snapshot.events[s], work'.events[s])
<1> DEFINE e == Head(batch)
<1>1. batch # << >> /\ e \in Event
  BY DEF WriteEvent, TxInv, TypeOK
<1>2. Snapshot \in Database /\ Consistent(Snapshot)
  BY DEF TypeOK, TxInv, Snapshot
<1>3. work' = InsertEvent(Snapshot, e, last) /\ last \in Pairs(Snapshot, e.sid)
  BY DEF WriteEvent, TxInv
<1>4. /\ work' \in Database
      /\ Consistent(work')
      /\ work'.notified = Snapshot.notified
      /\ \A s \in Stream : \E x \in ChainedAuditEvent :
           work'.events[s] \in {Snapshot.events[s], Append(Snapshot.events[s], x)}
  BY <1>1, <1>2, <1>3, InsertKeepsConsistent DEF WriteEvent
<1>5. ASSUME NEW s \in Stream
      PROVE  IsPrefix(Snapshot.events[s], work'.events[s])
  <2>1. Snapshot.events[s] \in Seq(ChainedAuditEvent)
    BY <1>2 DEF Database
  <2>2. IsPrefix(Snapshot.events[s], Snapshot.events[s])
    BY <2>1, PrefixRefl
  <2>3. PICK x \in ChainedAuditEvent :
          work'.events[s] \in {Snapshot.events[s], Append(Snapshot.events[s], x)}
    BY <1>4
  <2>4. IsPrefix(Snapshot.events[s], Append(Snapshot.events[s], x))
    BY <2>1, <2>2, PrefixAppend
  <2> QED
    BY <2>2, <2>3, <2>4
<1> QED
  BY <1>2, <1>4, <1>5

\* A checkpoint leaves the rest of the database alone.
LEMMA NotificationView ==
  ASSUME TypeOK, NEW sid \in Session, NEW seq \in Nat, record_notification(sid, seq)
  PROVE  /\ db' \in Database
         /\ db'.events = db.events
         /\ db'.sessions = db.sessions
         /\ db'.misread = db.misread
         /\ db'.notified = [db.notified EXCEPT ![sid] = Append(@, seq)]
         /\ Consistent(db) => Consistent(db')
<1>1. db \in Database
  BY DEF TypeOK
<1>2. db' = InsertNotification(db, sid, seq)
  BY DEF record_notification
<1>3. db.notified \in [Session -> Seq(Nat)]
  BY <1>1 DEF Database
<1>4. [db.notified EXCEPT ![sid] = Append(@, seq)] \in [Session -> Seq(Nat)]
  BY <1>3
<1>5. /\ db' \in Database
      /\ db'.events = db.events
      /\ db'.sessions = db.sessions
      /\ db'.misread = db.misread
      /\ db'.notified = [db.notified EXCEPT ![sid] = Append(@, seq)]
  BY <1>1, <1>2, <1>4 DEF Database, InsertNotification
<1> QED
  BY <1>5 DEF Consistent

--------------------------------------------------------------------------------
(* The inductive invariant *)

IInv == TypeOK /\ TxInv

\* The empty database is consistent, and there is no transaction.
LEMMA InitInvariant == Init => IInv
<1> SUFFICES ASSUME Init PROVE TypeOK /\ TxInv
  BY DEF IInv
<1>1. EmptyDatabase \in Database
  BY DEF EmptyDatabase, Database, SessionRow
<1>2. Consistent(EmptyDatabase)
  <2>1. \A s \in Session : /\ EmptyDatabase.events[s] = << >>
                          /\ EmptyDatabase.sessions[s] = "absent"
    BY DEF EmptyDatabase, Stream
  <2>2. Chained(<< >>, FALSE) /\ RowMatches("absent", << >>)
    BY DEF Chained, RowMatches
  <2>3. \A s \in Session : (s \in EmptyDatabase.misread) = FALSE
    BY DEF EmptyDatabase
  <2> QED
    BY <2>1, <2>2, <2>3 DEF Consistent
<1>3. TypeOK
  BY <1>1 DEF Init, TypeOK, NoRow, GENESIS_HASH, Digest
<1>4. TxInv
  BY <1>2 DEF Init, TxInv
<1> QED
  BY <1>3, <1>4

\* Every statement of a transaction, and every way it ends, keeps the invariant.
LEMMA StepInvariant == IInv /\ [Next]_vars => IInv'
<1> SUFFICES ASSUME TypeOK, TxInv, [Next]_vars
             PROVE  TypeOK' /\ TxInv'
  BY DEF IInv
<1>1. ASSUME NEW b \in BoundedSeq(Event, MaxBatch), BeginBatch(b)
      PROVE  TypeOK' /\ TxInv'
  <2>1. b \in Seq(Event)
    BY BoundAssumption, SeqDef DEF BoundedSeq, SeqOf
  <2>2. TypeOK'
    BY <1>1, <2>1 DEF TypeOK, BeginBatch
  <2>3. TxInv'
    BY <1>1 DEF TxInv, BeginBatch
  <2> QED
    BY <2>2, <2>3
<1>2. CASE SelectLast
  <2>1. batch # << >> /\ Head(batch) \in Event /\ Head(batch).sid \in Stream
    BY <1>2, EventType DEF SelectLast, TxInv, TypeOK
  <2>2. Snapshot \in Database /\ Consistent(Snapshot)
    BY DEF TypeOK, TxInv, Snapshot
  <2>3. last' \in [seq : Nat, hash : Digest]
    BY <1>2, <2>1, <2>2, LastType DEF SelectLast
  <2>4. CASE Head(batch).sid = NoSession
    <3>1. /\ pc' = "write"
          /\ last' = LastSeqAndHash(Snapshot, Head(batch).sid)
          /\ UNCHANGED <<db, call, batch, lock, work>>
      BY <1>2, <2>4 DEF SelectLast
    <3>2. lock # "read"
      BY <1>2 DEF SelectLast, TxInv
    <3>3. TypeOK'
      BY <2>3, <3>1 DEF TypeOK
    <3>4. Snapshot' = Snapshot
      BY <3>1 DEF Snapshot
    <3>5. TxInv'
      BY <3>1, <3>2, <3>4, <2>1 DEF TxInv, Pairs
    <3> QED
      BY <3>3, <3>5
  <2>5. CASE Head(batch).sid # NoSession
    <3>1. /\ pc' = "write"
          /\ last' = LastSeqAndHash(Snapshot, Head(batch).sid)
          /\ lock' = IF lock = "none" THEN "read" ELSE lock
          /\ work' = Snapshot
          /\ UNCHANGED <<db, call, batch>>
      BY <1>2, <2>5 DEF SelectLast, TakeSnapshot
    <3>2. lock \in {"none", "write"} /\ lock' \in {"read", "write"}
      BY <1>2, <3>1 DEF SelectLast, TxInv, TypeOK
    <3>3. TypeOK'
      BY <2>2, <2>3, <3>1, <3>2 DEF TypeOK
    <3>4. Snapshot' = Snapshot
      BY <3>1, <3>2 DEF Snapshot
    <3>5. lock = "write" => Snapshot = work
      BY DEF Snapshot
    <3>6. lock' = "write" => lock = "write"
      BY <3>1, <3>2
    <3>7. TxInv'
      BY <2>1, <2>2, <3>1, <3>2, <3>4, <3>5, <3>6 DEF TxInv, Pairs
    <3> QED
      BY <3>3, <3>7
  <2> QED
    BY <2>4, <2>5
<1>3. CASE WriteEvent
  <2>1. batch # << >> /\ Tail(batch) \in Seq(Event)
    BY <1>3 DEF WriteEvent, TxInv, TypeOK
  <2>2. /\ work' \in Database
        /\ Consistent(work')
        /\ work'.notified = Snapshot.notified
        /\ \A s \in Stream : IsPrefix(Snapshot.events[s], work'.events[s])
    BY <1>3, WriteEventView
  <2>3. /\ lock' = "write"
        /\ pc' \in {"commit", "select"}
        /\ pc' = "select" => batch' # << >>
        /\ batch' = Tail(batch)
        /\ UNCHANGED <<db, call, last>>
    BY <1>3 DEF WriteEvent
  <2>4. TypeOK'
    BY <2>1, <2>2, <2>3 DEF TypeOK
  <2>5. /\ \A s \in Stream : IsPrefix(db.events[s], work'.events[s])
        /\ work'.notified = db.notified
    <3>1. CASE lock = "none"
      BY <2>2, <3>1 DEF Snapshot
    <3>2. CASE lock = "read"
      BY <1>3, <2>2, <3>2 DEF Snapshot, WriteEvent, SnapshotIsStale
    <3>3. CASE lock = "write"
      <4>1. ASSUME NEW s \in Stream
            PROVE  IsPrefix(db.events[s], work'.events[s])
        <5>1. /\ db.events[s] \in Seq(ChainedAuditEvent)
              /\ work.events[s] \in Seq(ChainedAuditEvent)
              /\ work'.events[s] \in Seq(ChainedAuditEvent)
          BY <2>2 DEF TypeOK, Database
        <5>2. IsPrefix(db.events[s], work.events[s]) /\ IsPrefix(work.events[s], work'.events[s])
          BY <2>2, <3>3 DEF TxInv, Snapshot
        <5> QED
          BY <5>1, <5>2, PrefixTrans
      <4> QED
        BY <2>2, <3>3, <4>1 DEF TxInv, Snapshot
    <3> QED
      BY <3>1, <3>2, <3>3 DEF TypeOK
  <2>6. TxInv'
    BY <2>2, <2>3, <2>5 DEF TxInv
  <2> QED
    BY <2>4, <2>6
<1>4. CASE Rollback
  <2>1. TypeOK'
    BY <1>4 DEF Rollback, TypeOK
  <2>2. TxInv'
    BY <1>4 DEF Rollback, TxInv
  <2> QED
    BY <2>1, <2>2
<1>5. CASE Commit
  <2>1. lock = "write"
    BY <1>5 DEF Commit, TxInv
  <2>2. TypeOK'
    BY <1>5 DEF Commit, TypeOK
  <2>3. TxInv'
    BY <1>5, <2>1 DEF Commit, TxInv
  <2> QED
    BY <2>2, <2>3
<1>6. ASSUME NEW sid \in Session, NEW seq \in 1..Len(db.events[sid]),
             record_notification(sid, seq)
      PROVE  TypeOK' /\ TxInv'
  <2>1. seq \in Nat
    BY <1>6
  <2>2. db' \in Database /\ Consistent(db')
    BY <1>6, <2>1, NotificationView DEF TxInv
  <2>3. lock # "write" /\ UNCHANGED <<pc, call, batch, lock, work, last>>
    BY <1>6 DEF record_notification, txVars
  <2>4. TypeOK'
    BY <2>2, <2>3 DEF TypeOK
  <2>5. pc = "write" => last \in Pairs(Snapshot', Head(batch).sid)
    <3>1. CASE lock = "none"
      <4>1. db'.events = db.events
        BY <1>6, <2>1, NotificationView
      <4> QED
        BY <2>3, <3>1, <4>1 DEF TxInv, Snapshot, Pairs, LastSeqAndHash
    <3>2. CASE lock = "read"
      BY <2>3, <3>2 DEF TxInv, Snapshot
    <3> QED
      BY <2>3, <3>1, <3>2 DEF TypeOK
  <2>6. TxInv'
    BY <2>2, <2>3, <2>5 DEF TxInv
  <2> QED
    BY <2>4, <2>6
<1>7. CASE UNCHANGED vars
  BY <1>7 DEF vars, txVars, TypeOK, TxInv, Snapshot
<1>8. CASE SelectFails
  <2>1. Snapshot \in Database /\ Consistent(Snapshot) /\ NoRow \in [seq : Nat, hash : Digest]
    BY DEF TypeOK, TxInv, Snapshot, NoRow, GENESIS_HASH, Digest
  <2>2. /\ pc = "select" /\ pc' = "write" /\ last' = NoRow
        /\ \/ UNCHANGED <<lock, work>>
           \/ lock' = (IF lock = "none" THEN "read" ELSE lock) /\ work' = Snapshot
        /\ UNCHANGED <<db, call, batch>>
    BY <1>8 DEF SelectFails, TakeSnapshot
  <2>3. lock \in {"none", "write"}
    BY <2>2 DEF TypeOK, TxInv
  <2>4. TypeOK'
    BY <2>1, <2>2, <2>3 DEF TypeOK
  <2>5. last' \in Pairs(Snapshot', Head(batch').sid)
    BY <2>2 DEF Pairs
  <2>6. lock' = "write" => lock = "write" /\ work' = work
    BY <2>2, <2>3 DEF Snapshot
  <2>7. TxInv'
    BY <2>1, <2>2, <2>3, <2>5, <2>6 DEF TxInv
  <2> QED
    BY <2>4, <2>7
<1> QED
  BY <1>1, <1>2, <1>3, <1>4, <1>5, <1>6, <1>7, <1>8
  DEF Next, insert_batch, FailStale, FailForeignKey, FailOrCrash

\* The store and its open transaction satisfy the inductive invariant.
THEOREM Invariant == Spec => []IInv
BY InitInvariant, StepInvariant, PTL DEF Spec

\* Every reachable state of the store and its transaction is well typed.
THEOREM TypeCorrect == Spec => []TypeOK
<1>1. IInv => TypeOK
  BY DEF IInv
<1> QED
  BY <1>1, Invariant, PTL

\* A chain that counts from 1 and is linked from the genesis hash passes the check.
LEMMA ChainVerifies ==
  ASSUME NEW rows, Len(rows) \in Nat, Chained(rows, FALSE)
  PROVE  verify_event_chain(rows)
<1>1. ASSUME NEW i \in 1..Len(rows)
      PROVE  /\ i > 1 => rows[i].seq = rows[i - 1].seq + 1
             /\ rows[i].prev_hash = ExpectedPrevHash(rows, i)
             /\ verify_hash(rows[i])
  <2>1. CASE i = 1
    BY <2>1 DEF Chained, ExpectedPrevHash
  <2>2. CASE i # 1
    <3>1. i - 1 \in 1..Len(rows)
      BY <2>2
    <3> QED
      BY <2>2, <3>1 DEF Chained, ExpectedPrevHash
  <2> QED
    BY <2>1, <2>2
<1> QED
  BY <1>1 DEF verify_event_chain

\* A row that counts from 1 again in the middle of a session does not.
LEMMA MisreadIsNoticed ==
  ASSUME NEW rows, Len(rows) \in Nat, Chained(rows, TRUE)
  PROVE  ~verify_event_chain(rows)
<1>1. PICK i \in 2..Len(rows) : rows[i].seq = 1
  BY DEF Chained
<1>2. i - 1 \in 1..Len(rows) /\ i \in 1..Len(rows) /\ i > 1
  BY <1>1
<1>3. rows[i - 1].seq \in 1..(i - 1)
  BY <1>2 DEF Chained
<1>4. rows[i].seq # rows[i - 1].seq + 1
  BY <1>1, <1>2, <1>3
<1> QED
  BY <1>2, <1>4 DEF verify_event_chain

\* verify_session_integrity finds a session of the committed database intact exactly
\* when every SELECT whose pair went into it has succeeded.
THEOREM StoreVerifies == Spec => []SessionsVerify
<1>1. ASSUME IInv, NEW s \in Session
      PROVE  verify_session_integrity(db, s) <=> s \notin db.misread
  <2>1. Len(db.events[s]) \in Nat
    BY <1>1 DEF IInv, TypeOK, Database, Stream
  <2>2. Chained(db.events[s], s \in db.misread)
    BY <1>1 DEF IInv, TxInv, Consistent
  <2>3. CASE s \in db.misread
    <3>1. Chained(db.events[s], TRUE)
      BY <2>2, <2>3 DEF Chained
    <3> QED
      BY <2>1, <2>3, <3>1, MisreadIsNoticed
      DEF verify_session_integrity, get_chained_session_events
  <2>4. CASE s \notin db.misread
    <3>1. Chained(db.events[s], FALSE)
      BY <2>2, <2>4 DEF Chained
    <3> QED
      BY <2>1, <2>4, <3>1, ChainVerifies
      DEF verify_session_integrity, get_chained_session_events
  <2> QED
    BY <2>3, <2>4
<1>2. IInv => SessionsVerify
  BY <1>1 DEF SessionsVerify
<1> QED
  BY <1>2, Invariant, PTL

\* The seq of a stored event is its position in the session, and the latest seq
\* is the number of events, as long as no failed SELECT has gone into the session;
\* afterwards seq stays behind.
THEOREM SeqCountsRows == Spec => []SeqIsPosition
<1>1. ASSUME IInv, NEW s \in Session
      PROVE  /\ \A i \in 1..Len(db.events[s]) : db.events[s][i].seq \in 1..i
             /\ IF s \notin db.misread
                THEN /\ get_latest_event_seq(db, s) = Len(get_session_events(db, s))
                     /\ \A i \in 1..Len(db.events[s]) : db.events[s][i].seq = i
                ELSE get_latest_event_seq(db, s) < Len(get_session_events(db, s))
  <2>1. s # NoSession
    BY NoSessionAssumption
  <2>2. db.events[s] \in Seq(ChainedAuditEvent)
    BY <1>1 DEF IInv, TypeOK, Database, Stream
  <2>3. Chained(db.events[s], s \in db.misread)
    BY <1>1 DEF IInv, TxInv, Consistent
  <2>4. Len(get_session_events(db, s)) = Len(db.events[s])
    BY <2>2 DEF get_session_events
  <2>5. CASE db.events[s] = << >>
    BY <2>2, <2>3, <2>4, <2>5 DEF Chained, get_latest_event_seq, LastSeqAndHash, NoRow
  <2>6. CASE db.events[s] # << >>
    <3>1. Len(db.events[s]) \in 1..Len(db.events[s])
      BY <2>2, <2>6
    <3>2. get_latest_event_seq(db, s) = db.events[s][Len(db.events[s])].seq
      BY <2>1, <2>6 DEF get_latest_event_seq, LastSeqAndHash
    <3> QED
      BY <2>3, <2>4, <3>1, <3>2 DEF Chained
  <2> QED
    BY <2>5, <2>6
<1>2. IInv => SeqIsPosition
  BY <1>1 DEF SeqIsPosition
<1> QED
  BY <1>2, Invariant, PTL

\* A stored session begins with its SessionInit.
THEOREM InitComesFirst == Spec => []SessionStartsWithInit
<1>1. IInv => SessionStartsWithInit
  BY DEF IInv, TxInv, Consistent, RowMatches, SessionStartsWithInit
<1> QED
  BY <1>1, Invariant, PTL

\* A session is marked as ended exactly when its SessionEnd is stored.
THEOREM EndIsMarked == Spec => []EndedIffEndStored
<1>1. IInv => EndedIffEndStored
  BY DEF IInv, TxInv, Consistent, RowMatches, EndedIffEndStored
<1> QED
  BY <1>1, Invariant, PTL

\* Committed rows are never changed, reordered or lost.
THEOREM StoreIsAppendOnly == Spec => AppendOnly
<1> DEFINE Grows == /\ \A s \in Stream : IsPrefix(db.events[s], db'.events[s])
                    /\ \A s \in Session : IsPrefix(db.notified[s], db'.notified[s])
<1>1. ASSUME IInv, [Next]_vars
      PROVE  [Grows]_vars
  <2>1. /\ \A s \in Stream : db.events[s] \in Seq(ChainedAuditEvent)
        /\ \A s \in Session : db.notified[s] \in Seq(Nat)
    BY <1>1 DEF IInv, TypeOK, Database
  <2>2. CASE UNCHANGED db
    BY <2>1, <2>2, PrefixRefl
  <2>3. CASE Commit
    <3>1. lock = "write" /\ db' = work
      BY <1>1, <2>3 DEF Commit, IInv, TxInv
    <3> QED
      BY <1>1, <2>1, <3>1, PrefixRefl DEF IInv, TxInv
  <2>4. ASSUME NEW sid \in Session, NEW seq \in 1..Len(db.events[sid]),
               record_notification(sid, seq)
        PROVE  Grows
    <3>1. seq \in Nat
      BY <2>4
    <3>2. /\ db'.events = db.events
          /\ db'.notified = [db.notified EXCEPT ![sid] = Append(@, seq)]
      BY <1>1, <2>4, <3>1, NotificationView DEF IInv
    <3>3. db.notified \in [Session -> Seq(Nat)]
      BY <1>1 DEF IInv, TypeOK, Database
    <3>4. ASSUME NEW s \in Session
          PROVE  IsPrefix(db.notified[s], db'.notified[s])
      <4>1. IsPrefix(db.notified[s], db.notified[s])
        BY <2>1, PrefixRefl
      <4>2. IsPrefix(db.notified[s], Append(db.notified[s], seq))
        BY <2>1, <3>1, <4>1, PrefixAppend
      <4> QED
        BY <3>2, <3>3, <4>1, <4>2
    <3> QED
      BY <2>1, <3>2, <3>4, PrefixRefl
  <2> QED
    BY <1>1, <2>2, <2>3, <2>4
    DEF Next, insert_batch, BeginBatch, SelectLast, SelectFails, WriteEvent, FailStale,
        FailForeignKey, FailOrCrash, Rollback, vars, txVars
<1>2. IInv /\ [Next]_vars => [Grows]_vars
  BY <1>1
<1> QED
  BY <1>2, Invariant, PTL DEF Spec, AppendOnly
--------------------------------------------------------------------------------
(* The store implements the ledger *)

OfSession(s) == {e \in Event : e.sid = s}

\* What the transaction has written of its batch.
Inserted == SubSeq(call, 1, Len(call) - Len(batch))

\* The batch of a call is the part that is written, which the view has beyond the
\* committed database and nobody else sees, and the part still to be written.
Parts ==
  /\ pc = "idle" <=> call = << >>
  /\ pc \in {"idle", "commit"} => batch = << >>
  /\ Len(batch) <= Len(call)
  /\ \A i \in 1..Len(batch) : batch[i] = call[Len(call) - Len(batch) + i]
  /\ lock # "write" => Len(batch) = Len(call)
  /\ lock = "write" => \A s \in Stream :
       get_session_events(work, s) = get_session_events(db, s) \o Filter(Inserted, OfSession(s))

\* The event of a row is an event.
LEMMA RowEvent == \A x \in ChainedAuditEvent : x.event \in Event
BY DEF ChainedAuditEvent

\* A row appended to the rows of a session is its event appended to its events.
LEMMA EventsAppend ==
  ASSUME NEW d \in Database, NEW f \in Database, NEW s \in Stream, NEW x \in ChainedAuditEvent,
         f.events[s] = Append(d.events[s], x)
  PROVE  get_session_events(f, s) = Append(get_session_events(d, s), x.event)
<1> DEFINE rows == d.events[s]
           more == f.events[s]
<1>1. rows \in Seq(ChainedAuditEvent) /\ more = Append(rows, x)
  BY DEF Database
<1>2. get_session_events(d, s) = [i \in 1..Len(rows) |-> rows[i].event]
  BY DEF get_session_events
<1>3. get_session_events(f, s) = [i \in 1..Len(more) |-> more[i].event]
  BY DEF get_session_events
<1> HIDE DEF rows, more
<1>4. /\ Len(rows) \in Nat /\ Len(more) = Len(rows) + 1
      /\ more[Len(rows) + 1] = x
      /\ \A i \in 1..Len(rows) : more[i] = rows[i]
  BY <1>1
<1>5. \A i \in 1..Len(rows) : rows[i].event \in Event
  BY <1>1, RowEvent
<1>6. x.event \in Event
  BY RowEvent
<1> DEFINE old == [i \in 1..Len(rows) |-> rows[i].event]
           new == [i \in 1..Len(more) |-> more[i].event]
<1>7. old \in Seq(Event) /\ Len(old) = Len(rows)
  BY <1>4, <1>5
<1>8. /\ Len(Append(old, x.event)) = Len(rows) + 1
      /\ \A i \in 1..Len(rows) : Append(old, x.event)[i] = old[i]
      /\ Append(old, x.event)[Len(rows) + 1] = x.event
      /\ Append(old, x.event) \in Seq(Event)
  BY <1>4, <1>6, <1>7
<1>9. new \in Seq(Event) /\ Len(new) = Len(rows) + 1
  BY <1>4, <1>5, <1>6
<1>10. ASSUME NEW i \in 1..(Len(rows) + 1)
       PROVE  new[i] = Append(old, x.event)[i]
  <2>1. CASE i = Len(rows) + 1
    BY <1>4, <1>8, <2>1
  <2>2. CASE i # Len(rows) + 1
    <3>1. i \in 1..Len(rows)
      BY <1>4, <2>2
    <3> QED
      BY <1>4, <1>8, <3>1
  <2> QED
    BY <2>1, <2>2
<1>11. new = Append(old, x.event)
  <2> HIDE DEF old, new
  <2> QED
    BY <1>8, <1>9, <1>10, SeqEqual
<1> QED
  BY <1>2, <1>3, <1>11

\* The events of a session are events.
LEMMA EventsType ==
  ASSUME NEW d \in Database, NEW s \in Stream
  PROVE  get_session_events(d, s) \in Seq(Event)
<1>1. d.events[s] \in Seq(ChainedAuditEvent)
  BY DEF Database
<1>2. \A i \in 1..Len(d.events[s]) : d.events[s][i].event \in Event
  BY <1>1, RowEvent
<1> QED
  BY <1>1, <1>2 DEF get_session_events

\* One statement of the transaction adds its event to the events of its session.
LEMMA WriteEventAppends ==
  ASSUME TypeOK, TxInv, WriteEvent, NEW s \in Stream
  PROVE  get_session_events(work', s)
           = IF Head(batch) \in OfSession(s)
             THEN Append(get_session_events(Snapshot, s), Head(batch))
             ELSE get_session_events(Snapshot, s)
<1> DEFINE e == Head(batch)
           x == NewChainedEvent(last.seq + 1, last.hash, e)
<1>1. batch # << >> /\ e \in Event /\ e.sid \in Stream
  BY EventType DEF WriteEvent, TxInv, TypeOK
<1>2. Snapshot \in Database /\ work' \in Database
  BY WriteEventView
<1>3. last.seq + 1 \in Nat /\ last.hash \in Digest
  BY DEF TypeOK
<1>4. x \in ChainedAuditEvent /\ x.event = e
  BY <1>1, <1>3, NewRowType DEF NewChainedEvent
<1>5. work'.events = [Snapshot.events EXCEPT ![e.sid] = Append(@, x)]
  BY DEF WriteEvent, InsertEvent
<1>6. Snapshot.events \in [Stream -> Seq(ChainedAuditEvent)]
  BY <1>2 DEF Database
<1> HIDE DEF x
<1>7. work'.events[s] = IF s = e.sid THEN Append(Snapshot.events[s], x) ELSE Snapshot.events[s]
  BY <1>5, <1>6
<1>8. e \in OfSession(s) <=> e.sid = s
  BY <1>1 DEF OfSession
<1>9. CASE e.sid = s
  <2>1. work'.events[s] = Append(Snapshot.events[s], x)
    BY <1>7, <1>9
  <2>2. get_session_events(work', s) = Append(get_session_events(Snapshot, s), x.event)
    BY <1>2, <1>4, <2>1, EventsAppend
  <2> QED
    BY <1>4, <1>8, <1>9, <2>2
<1>10. CASE e.sid # s
  <2>1. work'.events[s] = Snapshot.events[s]
    BY <1>7, <1>10
  <2> QED
    BY <1>8, <1>10, <2>1 DEF get_session_events
<1> QED
  BY <1>9, <1>10

\* What the transaction sees is what is committed and the part it has written.
LEMMA SnapshotEvents ==
  ASSUME TypeOK, Parts, ~SnapshotIsStale, NEW s \in Stream
  PROVE  get_session_events(Snapshot, s)
           = get_session_events(db, s) \o Filter(Inserted, OfSession(s))
<1>1. CASE lock = "write"
  BY <1>1 DEF Parts, Snapshot
<1>2. CASE lock # "write"
  <2>1. Snapshot = db
    BY <1>2 DEF Snapshot, SnapshotIsStale, TypeOK
  <2>2. call \in Seq(Event) /\ Len(call) - Len(batch) = 0
    BY <1>2 DEF Parts, TypeOK
  <2>3. Inserted = << >>
    BY <2>2 DEF Inserted
  <2>4. Filter(<< >>, OfSession(s)) = << >>
    <3>1. << >> \in Seq(Event) /\ Len(<< >>) = 0
      OBVIOUS
    <3>2. \A i \in 1..Len(<< >>) : << >>[i] \in OfSession(s)
      BY <3>1
    <3> QED
      BY <3>1, <3>2, FilterAll
  <2>5. get_session_events(db, s) \in Seq(Event)
    BY EventsType DEF TypeOK
  <2> QED
    BY <2>1, <2>3, <2>4, <2>5, ConcatEmptySeq
<1> QED
  BY <1>1, <1>2

\* The event that is written is the next one of the call.
LEMMA NextPart ==
  ASSUME TypeOK, TxInv, Parts, WriteEvent
  PROVE  /\ Inserted \in Seq(Event)
         /\ Inserted' = Append(Inserted, Head(batch))
         /\ Len(batch') = Len(batch) - 1
         /\ \A i \in 1..Len(batch') : batch'[i] = call[Len(call) - Len(batch') + i]
<1> DEFINE k == Len(call) - Len(batch)
<1>1. /\ batch \in Seq(Event) /\ call \in Seq(Event) /\ batch # << >>
      /\ batch' = Tail(batch) /\ call' = call
  BY DEF WriteEvent, TxInv, TypeOK
<1>2. /\ Len(batch) \in Nat \ {0} /\ Len(call) \in Nat
      /\ Head(batch) = batch[1]
      /\ Len(batch') = Len(batch) - 1
      /\ \A i \in 1..Len(batch') : batch'[i] = batch[i + 1]
  BY <1>1
<1>3. k \in 0..(Len(call) - 1) /\ 1 \in 1..Len(batch)
  BY <1>2 DEF Parts
<1>4. Head(batch) = call[k + 1]
  BY <1>2, <1>3 DEF Parts
<1>5. Inserted = SubSeq(call, 1, k)
  BY DEF Inserted
<1>6. Inserted' = SubSeq(call, 1, k + 1)
  <2>1. Len(call) - Len(batch') = k + 1
    BY <1>2
  <2> QED
    BY <1>1, <2>1 DEF Inserted
<1> HIDE DEF k
<1>7. SubSeq(call, 1, k + 1) = Append(SubSeq(call, 1, k), call[k + 1])
  BY <1>1, <1>2, <1>3
<1>8. Inserted \in Seq(Event)
  BY <1>1, <1>2, <1>3, <1>5, SubSeqProperties
<1>9. ASSUME NEW i \in 1..Len(batch')
      PROVE  batch'[i] = call[Len(call) - Len(batch') + i]
  <2>1. i + 1 \in 1..Len(batch)
    BY <1>2
  <2>2. batch[i + 1] = call[Len(call) - Len(batch) + (i + 1)]
    BY <2>1 DEF Parts
  <2>3. Len(call) - Len(batch') + i = Len(call) - Len(batch) + (i + 1)
    BY <1>2
  <2> QED
    BY <1>2, <2>2, <2>3
<1> QED
  BY <1>2, <1>4, <1>5, <1>6, <1>7, <1>8, <1>9

\* Every step keeps the parts together: WriteEvent moves one event from the one
\* part to the other, and nothing is committed while something is written.
LEMMA StepParts ==
  ASSUME IInv, Parts, [Next]_vars
  PROVE  Parts'
<1>0. TypeOK /\ TxInv
  BY DEF IInv
<1>1. ASSUME NEW b \in BoundedSeq(Event, MaxBatch), BeginBatch(b)
      PROVE  Parts'
  <2>1. b \in Seq(Event) /\ b # << >>
    BY <1>1, BoundAssumption, SeqDef DEF BoundedSeq, SeqOf, BeginBatch
  <2>2. /\ lock = "none" /\ lock' = "none" /\ pc' = "select" /\ call' = b /\ batch' = b
    BY <1>0, <1>1 DEF BeginBatch, TxInv
  <2>3. Len(b) \in Nat
    BY <2>1
  <2> QED
    BY <2>1, <2>2, <2>3 DEF Parts
<1>2. CASE SelectLast \/ SelectFails
  <2>1. /\ pc = "select" /\ pc' = "write" /\ UNCHANGED <<db, call, batch>>
        /\ lock' = "write" <=> lock = "write"
        /\ lock = "write" => work' = work
    BY <1>0, <1>2 DEF SelectLast, SelectFails, TakeSnapshot, Snapshot, TypeOK
  <2>2. Inserted' = Inserted
    BY <2>1 DEF Inserted
  <2> QED
    BY <2>1, <2>2 DEF Parts, get_session_events
<1>3. CASE WriteEvent
  <2>1. /\ Inserted \in Seq(Event)
        /\ Inserted' = Append(Inserted, Head(batch))
        /\ Len(batch') = Len(batch) - 1
        /\ \A i \in 1..Len(batch') : batch'[i] = call[Len(call) - Len(batch') + i]
    BY <1>0, <1>3, NextPart
  <2>2. /\ pc = "write" /\ pc' \in {"commit", "select"}
        /\ pc' = "commit" => batch' = << >>
        /\ lock' = "write" /\ UNCHANGED <<db, call>> /\ ~SnapshotIsStale
        /\ Head(batch) \in Event
    BY <1>0, <1>3 DEF WriteEvent, TxInv, TypeOK
  <2>3. ASSUME NEW s \in Stream
        PROVE  get_session_events(work', s)
                 = get_session_events(db, s) \o Filter(Inserted', OfSession(s))
    <3> DEFINE kind == OfSession(s)
               stored == get_session_events(db, s)
               kept == Filter(Inserted, kind)
               e == Head(batch)
    <3>1. get_session_events(Snapshot, s) = stored \o kept
      BY <1>0, <2>2, SnapshotEvents
    <3>2. get_session_events(work', s) = IF e \in kind THEN Append(stored \o kept, e)
                                                      ELSE stored \o kept
      BY <1>0, <1>3, <3>1, WriteEventAppends
    <3>3. Filter(Inserted', kind) = IF e \in kind THEN Append(kept, e) ELSE kept
      BY <2>1, <2>2, FilterAppend
    <3>4. stored \in Seq(Event) /\ kept \in Seq(Event) /\ e \in Event
      <4>1. kept \in Seq(Event \cap kind)
        BY <2>1, FilterType
      <4>2. Event \cap kind \subseteq Event
        OBVIOUS
      <4>3. kept \in Seq(Event)
        <5> HIDE DEF kept, kind
        <5> QED
          BY <4>1, <4>2
      <4> QED
        BY <1>0, <2>2, <4>3, EventsType DEF TypeOK
    <3> HIDE DEF kind, stored, kept, e
    <3>5. Append(stored \o kept, e) = stored \o Append(kept, e)
      BY <3>4, SMTT(60)
    <3> QED
      BY <3>2, <3>3, <3>5 DEF kind, stored
  <2>4. Len(batch') <= Len(call')
    BY <1>0, <2>1, <2>2 DEF Parts, TypeOK
  <2>5. call' # << >>
    BY <2>2 DEF Parts
  <2>6. ASSUME NEW s \in Stream
        PROVE  get_session_events(db', s) = get_session_events(db, s)
    BY <2>2
  <2> QED
    BY <2>1, <2>2, <2>3, <2>4, <2>5, <2>6 DEF Parts
<1>4. CASE Rollback
  <2>1. pc' = "idle" /\ call' = << >> /\ batch' = << >> /\ lock' = "none"
    BY <1>4 DEF Rollback
  <2>2. Len(<< >>) = 0
    OBVIOUS
  <2> QED
    BY <2>1, <2>2 DEF Parts
<1>5. CASE Commit
  <2>1. pc' = "idle" /\ call' = << >> /\ batch' = << >> /\ lock' = "none"
    BY <1>5 DEF Commit, Parts
  <2>2. Len(<< >>) = 0
    OBVIOUS
  <2> QED
    BY <2>1, <2>2 DEF Parts
<1>6. ASSUME NEW sid \in Session, NEW seq \in 1..Len(db.events[sid]),
             record_notification(sid, seq)
      PROVE  Parts'
  <2>1. lock # "write" /\ UNCHANGED <<pc, call, batch, lock, work, last>>
    BY <1>6 DEF record_notification, txVars
  <2> QED
    BY <2>1 DEF Parts
<1>7. CASE UNCHANGED vars
  <2>1. UNCHANGED <<db, pc, call, batch, lock, work>>
    BY <1>7 DEF vars, txVars
  <2>2. Inserted' = Inserted
    BY <2>1 DEF Inserted
  <2> QED
    BY <2>1, <2>2 DEF Parts, get_session_events
<1> QED
  BY <1>1, <1>2, <1>3, <1>4, <1>5, <1>6, <1>7
  DEF Next, insert_batch, FailStale, FailForeignKey, FailOrCrash

\* The step of AuditLedger that a step of the store is: BeginBatch asks, Commit
\* appends the whole batch, an error refuses it, and the rest is not seen.
LEMMA StepLedger ==
  ASSUME IInv, Parts, [Next]_vars
  PROVE  [Ledger!Next]_<<[s \in Stream |-> get_session_events(db, s)], call>>
<1>0. TypeOK /\ TxInv
  BY DEF IInv
<1> DEFINE shown == [s \in Stream |-> get_session_events(db, s)]
<1>1. ASSUME UNCHANGED <<call, db>>
      PROVE  UNCHANGED <<shown, call>>
  BY <1>1
<1>2. ASSUME NEW b \in BoundedSeq(Event, MaxBatch), BeginBatch(b)
      PROVE  Ledger!Next
  <2>1. call = << >> /\ call' = b /\ db' = db
    BY <1>2 DEF BeginBatch, Parts
  <2>2. shown' = shown
    BY <2>1
  <2>3. Ledger!Ask(b)
    BY <2>1, <2>2 DEF Ledger!Ask
  <2> QED
    BY <2>3 DEF Ledger!Next, Ledger!BoundedSeq, BoundedSeq, Ledger!SeqOf, SeqOf
<1>3. CASE Commit
  <2>1. /\ lock = "write" /\ call # << >> /\ call' = << >> /\ db' = work /\ batch = << >>
    BY <1>0, <1>3 DEF Commit, TxInv, Parts
  <2>2. Inserted = call
    <3>1. Len(call) - Len(batch) = Len(call) /\ call \in Seq(Event)
      BY <1>0, <2>1 DEF TypeOK
    <3> QED
      BY <3>1 DEF Inserted
  <2>3. ASSUME NEW s \in Stream
        PROVE  Filter(call, OfSession(s)) = Ledger!Filter(call, Ledger!OfStream(s))
    BY DEF Filter, Ledger!Filter, OfSession, Ledger!OfStream, SessionOf
  <2>4. \A s \in Stream : get_session_events(db', s)
                            = shown[s] \o Ledger!Filter(call, Ledger!OfStream(s))
    BY <2>1, <2>2, <2>3 DEF Parts
  <2>5. shown' = [s \in Stream |-> shown[s] \o Ledger!Filter(call, Ledger!OfStream(s))]
    BY <2>4
  <2>6. Ledger!AppendBatch
    BY <2>1, <2>5 DEF Ledger!AppendBatch
  <2> QED
    BY <2>6 DEF Ledger!Next
<1>4. CASE Rollback
  <2>1. call' = << >> /\ db' = db
    BY <1>4 DEF Rollback
  <2>2. shown' = shown
    BY <2>1
  <2> QED
    BY <2>1, <2>2 DEF Ledger!Next, Ledger!Refuse
<1>5. ASSUME NEW sid \in Session, NEW seq \in 1..Len(db.events[sid]),
             record_notification(sid, seq)
      PROVE  UNCHANGED <<shown, call>>
  <2>1. seq \in Nat
    BY <1>5
  <2>2. db'.events = db.events
    BY <1>0, <1>5, <2>1, NotificationView
  <2>3. call' = call
    BY <1>5 DEF record_notification, txVars
  <2>4. \A s \in Stream : get_session_events(db', s) = get_session_events(db, s)
    BY <2>2 DEF get_session_events
  <2> QED
    BY <2>3, <2>4
<1>6. CASE SelectLast \/ SelectFails \/ WriteEvent \/ UNCHANGED vars
  BY <1>1, <1>6 DEF SelectLast, SelectFails, WriteEvent, vars, txVars
<1> QED
  BY <1>2, <1>3, <1>4, <1>5, <1>6
  DEF Next, insert_batch, FailStale, FailForeignKey, FailOrCrash

\* The batch of a call becomes visible whole and in order, or leaves no trace:
\* the store implements AuditLedger.
THEOREM BatchesAreAtomic == Spec => AppendsWholeBatches
<1>1. Init => Parts
  <2> SUFFICES ASSUME Init PROVE Parts
    OBVIOUS
  <2>1. pc = "idle" /\ call = << >> /\ batch = << >> /\ lock = "none"
    BY DEF Init
  <2>2. Len(<< >>) = 0
    OBVIOUS
  <2> QED
    BY <2>1, <2>2 DEF Parts
<1>2. Init => Ledger!Init
  <2> SUFFICES ASSUME Init PROVE Ledger!Init
    OBVIOUS
  <2>1. call = << >> /\ db = EmptyDatabase
    BY DEF Init
  <2>2. \A s \in Stream : get_session_events(EmptyDatabase, s) = << >>
    <3>1. \A s \in Stream : EmptyDatabase.events[s] = << >>
      BY DEF EmptyDatabase
    <3> QED
      BY <3>1 DEF get_session_events
  <2> QED
    BY <2>1, <2>2 DEF Ledger!Init
<1>3. IInv /\ Parts /\ [Next]_vars => Parts'
  BY StepParts
<1>4. IInv /\ Parts /\ [Next]_vars
        => [Ledger!Next]_<<[s \in Stream |-> get_session_events(db, s)], call>>
  BY StepLedger
<1>5. Spec => []Parts
  BY <1>1, <1>3, Invariant, PTL DEF Spec
<1> QED
  BY <1>2, <1>4, <1>5, Invariant, PTL DEF Spec, AppendsWholeBatches, Ledger!Spec
--------------------------------------------------------------------------------
(* The store as Collector takes it *)

\* The rows of Collector, as the committed database has them.
Rows == [s \in Stream |-> get_session_events(db, s)]

\* Of Collector only what a batch does to its rows is used.
Server == INSTANCE Collector WITH
  RequestId <- {}, Viewer <- {}, Capacity <- 1,
  rows <- Rows, reqs <- << >>, killed <- {}, bus <- << >>, origin <- << >>,
  views <- << >>

\* The i-th event of the call follows the SessionInit of its session.
FollowsInit(i) ==
  call[i].sid \in Session =>
    \/ get_session_events(db, call[i].sid) # << >>
    \/ \E j \in 1..i : call[j].sid = call[i].sid /\ call[j].kind = "SessionInit"

\* So does every event that has been written.
WrittenFollow == \A i \in 1..(Len(call) - Len(batch)) : FollowsInit(i)

\* A session has events in the view exactly when it has committed ones or one of those
\* written so far, and then it has its row.
LEMMA ViewRow ==
  ASSUME TypeOK, TxInv, Parts, ~SnapshotIsStale, NEW s \in Session
  PROVE  Snapshot.sessions[s] = "absent"
           <=> /\ get_session_events(db, s) = << >>
               /\ \A j \in 1..(Len(call) - Len(batch)) : call[j].sid # s
<1> DEFINE k == Len(call) - Len(batch)
           old == get_session_events(db, s)
           kept == Filter(Inserted, OfSession(s))
<1>1. /\ call \in Seq(Event) /\ batch \in Seq(Event)
      /\ Len(call) \in Nat /\ Len(batch) \in Nat /\ k \in 0..Len(call)
  <2>1. call \in Seq(Event) /\ batch \in Seq(Event)
    BY DEF TypeOK
  <2>2. Len(call) \in Nat /\ Len(batch) \in Nat
    BY <2>1, LenProperties
  <2> QED
    BY <2>1, <2>2 DEF Parts
<1>2. /\ Inserted \in Seq(Event) /\ Len(Inserted) = k
      /\ \A j \in 1..k : Inserted[j] = call[j]
  BY <1>1, SubSeqProperties DEF Inserted
<1>3. s \in Stream /\ get_session_events(Snapshot, s) = old \o kept
  BY SnapshotEvents DEF Stream
<1>4. Consistent(Snapshot) /\ Snapshot \in Database
  BY DEF TxInv, Snapshot, TypeOK
<1>5. Snapshot.sessions[s] = "absent" <=> Snapshot.events[s] = << >>
  BY <1>4 DEF Consistent, RowMatches
<1>6. Snapshot.events[s] = << >> <=> get_session_events(Snapshot, s) = << >>
  <2> DEFINE rows == Snapshot.events[s]
             events == get_session_events(Snapshot, s)
  <2>1. rows \in Seq(ChainedAuditEvent) /\ events \in Seq(Event)
    BY <1>3, <1>4, EventsType DEF Database
  <2>2. events = [i \in 1..Len(rows) |-> rows[i].event]
    BY DEF get_session_events
  <2> HIDE DEF rows, events
  <2>3. Len(rows) \in Nat /\ Len(events) = Len(rows)
    BY <2>1, <2>2, LenProperties
  <2>4. (rows = << >> <=> Len(rows) = 0) /\ (events = << >> <=> Len(events) = 0)
    BY <2>1, EmptySeq
  <2> QED
    BY <2>3, <2>4 DEF rows, events
<1>7. old \in Seq(Event) /\ kept \in Seq(Event)
  <2>1. old \in Seq(Event)
    BY <1>3, EventsType DEF TypeOK
  <2>2. kept \in Seq(Event \cap OfSession(s))
    BY <1>2, FilterType
  <2>3. Event \cap OfSession(s) \subseteq Event
    OBVIOUS
  <2> HIDE DEF kept
  <2> QED
    BY <2>1, <2>2, <2>3
<1>8. kept = << >> <=> \A j \in 1..k : call[j].sid # s
  <2>1. Len(kept) \in Nat /\ (kept = << >> <=> Len(kept) = 0)
    BY <1>7, LenProperties, EmptySeq
  <2>2. \A x : (\E i \in 1..Len(kept) : kept[i] = x)
                <=> x \in OfSession(s) /\ \E j \in 1..Len(Inserted) : Inserted[j] = x
    BY <1>2, FilterMembers, SMTT(60)
  <2>3. \A j \in 1..k : call[j] \in OfSession(s) <=> call[j].sid = s
    BY <1>1 DEF OfSession
  <2> HIDE DEF kept, k
  <2>4. ASSUME kept = << >>, NEW j \in 1..k
        PROVE  call[j].sid # s
    BY <1>2, <2>1, <2>2, <2>3, <2>4
  <2>5. ASSUME kept # << >>
        PROVE  \E j \in 1..k : call[j].sid = s
    <3>1. 1 \in 1..Len(kept)
      BY <2>1, <2>5
    <3>2. PICK j \in 1..Len(Inserted) : Inserted[j] = kept[1] /\ kept[1] \in OfSession(s)
      BY <2>2, <3>1
    <3> QED
      BY <1>2, <2>3, <3>2
  <2> QED
    BY <2>4, <2>5
<1>9. old \o kept = << >> <=> old = << >> /\ kept = << >>
  <2> HIDE DEF old, kept
  <2>1. /\ Len(old) \in Nat /\ Len(kept) \in Nat
        /\ old \o kept \in Seq(Event) /\ Len(old \o kept) = Len(old) + Len(kept)
    BY <1>7, LenProperties, ConcatProperties
  <2>2. /\ old = << >> <=> Len(old) = 0
        /\ kept = << >> <=> Len(kept) = 0
        /\ old \o kept = << >> <=> Len(old \o kept) = 0
    BY <1>7, <2>1, EmptySeq
  <2> QED
    BY <2>1, <2>2
<1> HIDE DEF old, kept, k
<1>10. Snapshot.sessions[s] = "absent" <=> old = << >> /\ \A j \in 1..k : call[j].sid # s
  BY <1>3, <1>5, <1>6, <1>8, <1>9
<1> QED
  BY <1>10 DEF old, k

\* The foreign key of the next event holds exactly when it follows a SessionInit.
LEMMA NextFollows ==
  ASSUME TypeOK, TxInv, Parts, WrittenFollow, pc = "write", ~SnapshotIsStale
  PROVE  /\ Len(call) - Len(batch) + 1 \in 1..Len(call)
         /\ Len(batch) \in Nat /\ Len(Tail(batch)) = Len(batch) - 1
         /\ ForeignKeyHolds(Snapshot, Head(batch)) <=> FollowsInit(Len(call) - Len(batch) + 1)
<1> DEFINE k == Len(call) - Len(batch)
           e == Head(batch)
<1>1. batch \in Seq(Event) /\ batch # << >> /\ call \in Seq(Event)
  BY DEF TypeOK, TxInv
<1>2. /\ Len(batch) \in Nat \ {0} /\ Len(call) \in Nat
      /\ Len(Tail(batch)) = Len(batch) - 1
      /\ e = batch[1] /\ e \in Event
  BY <1>1
<1>3. k \in 0..(Len(call) - 1) /\ e = call[k + 1]
  <2>1. 1 \in 1..Len(batch) /\ Len(batch) <= Len(call)
    BY <1>2 DEF Parts
  <2>2. batch[1] = call[Len(call) - Len(batch) + 1]
    BY <2>1 DEF Parts
  <2> QED
    BY <1>2, <2>1, <2>2
<1>4. e.sid \in Stream
  BY <1>2, EventType
<1>5. CASE e.sid = NoSession
  <2>1. NoSession \notin Session
    BY NoSessionAssumption
  <2> QED
    BY <1>2, <1>3, <1>5, <2>1 DEF ForeignKeyHolds, FollowsInit
<1>6. CASE e.sid # NoSession
  <2> DEFINE s == e.sid
             row == Snapshot.sessions[s]
  <2>1. s \in Session
    BY <1>4, <1>6 DEF Stream
  <2>2. ForeignKeyHolds(Snapshot, e) <=> row # "absent" \/ e.kind = "SessionInit"
    <3>1. ForeignKeyHolds(Snapshot, e) <=> SessionRowAfter(row, e.kind) # "absent"
      BY <1>6, <2>1 DEF ForeignKeyHolds, SessionsAfter
    <3>2. e.kind = "SessionInit" => e.kind # "SessionEnd"
      OBVIOUS
    <3> HIDE DEF row, e
    <3> QED
      BY <3>1, <3>2 DEF SessionRowAfter
  <2>3. row = "absent" <=> /\ get_session_events(db, s) = << >>
                           /\ \A j \in 1..k : call[j].sid # s
    BY <2>1, ViewRow
  <2>4. FollowsInit(k + 1) <=>
          \/ get_session_events(db, s) # << >>
          \/ \E j \in 1..(k + 1) : call[j].sid = s /\ call[j].kind = "SessionInit"
    BY <1>3, <2>1 DEF FollowsInit
  <2>5. \A j \in 1..k : FollowsInit(j) /\ call[j].sid = s =>
          \/ get_session_events(db, s) # << >>
          \/ \E i \in 1..(k + 1) : call[i].sid = s /\ call[i].kind = "SessionInit"
    <3> SUFFICES ASSUME NEW j \in 1..k, FollowsInit(j), call[j].sid = s,
                        get_session_events(db, s) = << >>
                 PROVE  \E i \in 1..(k + 1) : call[i].sid = s /\ call[i].kind = "SessionInit"
      OBVIOUS
    <3>1. PICK i \in 1..j : call[i].sid = s /\ call[i].kind = "SessionInit"
      BY <2>1 DEF FollowsInit
    <3>2. i \in 1..(k + 1)
      BY <1>3
    <3> QED
      BY <3>1, <3>2
  <2>6. \A j \in 1..k : FollowsInit(j)
    BY DEF WrittenFollow
  <2>7. e = call[k + 1] /\ k + 1 \in 1..(k + 1) /\ \A j \in 1..(k + 1) : j = k + 1 \/ j \in 1..k
    BY <1>3
  <2>8. call[k + 1].sid = s
    BY <1>3
  <2> HIDE DEF k, row, s
  <2>9. ASSUME row # "absent" \/ e.kind = "SessionInit"
        PROVE  FollowsInit(k + 1)
    <3>1. CASE e.kind = "SessionInit"
      BY <2>4, <2>7, <2>8, <3>1
    <3>2. CASE row # "absent"
      BY <2>3, <2>4, <2>5, <2>6, <3>2
    <3> QED
      BY <2>9, <3>1, <3>2
  <2>10. ASSUME FollowsInit(k + 1)
         PROVE  row # "absent" \/ e.kind = "SessionInit"
    BY <2>3, <2>4, <2>7, <2>10
  <2> QED
    BY <1>2, <1>3, <2>2, <2>9, <2>10 DEF k
<1> QED
  BY <1>5, <1>6

\* Whatever is written follows its SessionInit.
LEMMA StepFollows ==
  ASSUME IInv, Parts, WrittenFollow, [Next]_vars
  PROVE  WrittenFollow'
<1>0. TypeOK /\ TxInv
  BY DEF IInv
<1>1. ASSUME UNCHANGED <<call, batch>>,
             \A s \in Stream : get_session_events(db', s) = get_session_events(db, s)
      PROVE  WrittenFollow'
  <2>1. Session \subseteq Stream
    BY DEF Stream
  <2> QED
    BY <1>1, <2>1 DEF WrittenFollow, FollowsInit
<1>2. ASSUME Len(call') = Len(batch'), Len(call') \in Nat
      PROVE  WrittenFollow'
  <2>1. Len(call') - Len(batch') = 0
    BY <1>2
  <2> QED
    BY <2>1 DEF WrittenFollow
<1>3. ASSUME NEW b \in BoundedSeq(Event, MaxBatch), BeginBatch(b)
      PROVE  WrittenFollow'
  <2>1. b \in Seq(Event) /\ call' = b /\ batch' = b
    BY <1>3 DEF BeginBatch, BoundedSeq, SeqOf
  <2> QED
    BY <1>2, <2>1, LenProperties
<1>4. CASE SelectLast \/ SelectFails
  BY <1>1, <1>4 DEF SelectLast, SelectFails
<1>5. CASE WriteEvent
  <2> DEFINE k == Len(call) - Len(batch)
  <2>1. /\ k + 1 \in 1..Len(call) /\ Len(batch) \in Nat /\ Len(Tail(batch)) = Len(batch) - 1
        /\ FollowsInit(k + 1)
    BY <1>0, <1>5, NextFollows DEF WriteEvent
  <2>2. call' = call /\ batch' = Tail(batch) /\ db' = db
    BY <1>5 DEF WriteEvent
  <2>3. Len(call) \in Nat
    BY <1>0, LenProperties DEF TypeOK
  <2>4. Len(call') - Len(batch') = k + 1
    <3>1. Len(call') = Len(call) /\ Len(batch') = Len(batch) - 1
      BY <2>1, <2>2
    <3>2. \A m, n \in Nat : m - (n - 1) = (m - n) + 1
      OBVIOUS
    <3>3. Len(call) - (Len(batch) - 1) = (Len(call) - Len(batch)) + 1
      BY <2>1, <2>3, <3>2
    <3> QED
      BY <3>1, <3>3
  <2>5. ASSUME NEW i \in 1..(k + 1)
        PROVE  FollowsInit(i)
    <3>1. i = k + 1 \/ i \in 1..k
      BY <2>1, <2>3
    <3> QED
      BY <2>1, <3>1 DEF WrittenFollow
  <2>6. \A i \in 1..(k + 1) : FollowsInit(i)'
    BY <2>2, <2>5 DEF FollowsInit
  <2> HIDE DEF k
  <2> QED
    BY <2>4, <2>6 DEF WrittenFollow
<1>6. CASE Rollback \/ Commit
  <2>1. call' = << >> /\ batch' = << >>
    BY <1>6 DEF Rollback, Commit, Parts
  <2>2. Len(<< >>) = 0
    OBVIOUS
  <2> QED
    BY <1>2, <2>1, <2>2
<1>7. ASSUME NEW sid \in Session, NEW seq \in 1..Len(db.events[sid]),
             record_notification(sid, seq)
      PROVE  WrittenFollow'
  <2>1. seq \in Nat
    BY <1>7
  <2>2. db'.events = db.events
    BY <1>0, <1>7, <2>1, NotificationView
  <2>3. UNCHANGED <<call, batch>>
    BY <1>7 DEF record_notification, txVars
  <2> QED
    BY <1>1, <2>2, <2>3 DEF get_session_events
<1>8. CASE UNCHANGED vars
  BY <1>1, <1>8 DEF vars, txVars
<1> QED
  BY <1>3, <1>4, <1>5, <1>6, <1>7, <1>8
  DEF Next, insert_batch, FailStale, FailForeignKey, FailOrCrash

\* What Collector asks of a batch is that all its events follow their SessionInit.
LEMMA FollowsAll ==
  ASSUME TypeOK
  PROVE  Server!ForeignKeysHold(call) <=> \A i \in 1..Len(call) : FollowsInit(i)
<1>1. \A s \in Session : Rows[s] = get_session_events(db, s)
  BY DEF Rows, Stream
<1> QED
  BY <1>1 DEF Server!ForeignKeysHold, FollowsInit

\* Commit is the Persist of Collector, whose guard holds and whose rows it makes, and a
\* foreign key fails only in a batch that Collector would refuse.
CommitIsPersist ==
  /\ Commit => Server!ForeignKeysHold(call) /\ Rows' = Server!Inserted(call)
  /\ FailForeignKey => ~Server!ForeignKeysHold(call)

\* The store is the one Collector assumes: insert_batch stores all of a batch whose
\* events follow their SessionInit, as Collector does, and no other.
THEOREM CollectorsStore == Spec => [][CommitIsPersist]_vars
<1>1. ASSUME IInv, Parts, WrittenFollow, Commit
      PROVE  Server!ForeignKeysHold(call) /\ Rows' = Server!Inserted(call)
  <2>1. TypeOK /\ TxInv
    BY <1>1 DEF IInv
  <2>2. /\ lock = "write" /\ db' = work /\ batch = << >>
    BY <1>1, <2>1 DEF Commit, TxInv, Parts
  <2>3. Len(call) - Len(batch) = Len(call) /\ call \in Seq(Event)
    BY <2>1, <2>2, LenProperties DEF TypeOK
  <2>4. Inserted = call
    BY <2>3 DEF Inserted
  <2>5. Server!ForeignKeysHold(call)
    BY <1>1, <2>1, <2>3, FollowsAll DEF WrittenFollow
  <2>6. ASSUME NEW s \in Stream
        PROVE  Filter(call, OfSession(s)) = Server!Filter(call, Server!OfSession(s))
    BY DEF Filter, Server!Filter, OfSession, Server!OfSession
  <2>7. \A s \in Stream : get_session_events(db', s) = Rows[s] \o Server!Filter(call, Server!OfSession(s))
    BY <1>1, <2>2, <2>4, <2>6 DEF Parts, Rows
  <2>8. Rows' = Server!Inserted(call)
    BY <2>7 DEF Rows, Server!Inserted, Server!Stream, Stream
  <2> QED
    BY <2>5, <2>8
<1>2. ASSUME IInv, Parts, WrittenFollow, FailForeignKey
      PROVE  ~Server!ForeignKeysHold(call)
  <2>1. TypeOK /\ TxInv
    BY <1>2 DEF IInv
  <2>2. pc = "write" /\ ~SnapshotIsStale /\ ~ForeignKeyHolds(Snapshot, Head(batch))
    BY <1>2 DEF FailForeignKey
  <2>3. /\ Len(call) - Len(batch) + 1 \in 1..Len(call)
        /\ ~FollowsInit(Len(call) - Len(batch) + 1)
    BY <1>2, <2>1, <2>2, NextFollows
  <2> QED
    BY <2>1, <2>3, FollowsAll
<1>3. IInv /\ Parts /\ WrittenFollow /\ [Next]_vars => [CommitIsPersist]_vars
  BY <1>1, <1>2 DEF CommitIsPersist
<1>4. Init => Parts /\ WrittenFollow
  <2> SUFFICES ASSUME Init PROVE Parts /\ WrittenFollow
    OBVIOUS
  <2>1. pc = "idle" /\ call = << >> /\ batch = << >> /\ lock = "none" /\ Len(<< >>) = 0
    BY DEF Init
  <2>2. Len(call) - Len(batch) = 0
    BY <2>1
  <2> QED
    BY <2>1, <2>2 DEF Parts, WrittenFollow
<1>5. IInv /\ Parts /\ WrittenFollow /\ [Next]_vars => Parts' /\ WrittenFollow'
  BY StepParts, StepFollows
<1>6. Spec => [](Parts /\ WrittenFollow)
  BY <1>4, <1>5, Invariant, PTL DEF Spec
<1> QED
  BY <1>3, <1>6, Invariant, PTL DEF Spec
================================================================================
