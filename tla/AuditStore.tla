------------------------------ MODULE AuditStore -------------------------------
(***************************************************************************)
(* The event store of argus-collector/src/storage.rs.                      *)
(*                                                                         *)
(* One SQLite database in WAL mode is opened by two processes: the         *)
(* collector, whose only writer is insert_batch, and the notifier, whose   *)
(* only writer is record_notification.  Within a process a Mutex around    *)
(* the connection serialises every call, so at most one insert_batch runs; *)
(* the notifier's statement may come between any two statements of the     *)
(* transaction.  The transaction is DEFERRED: it takes its snapshot at the *)
(* first SELECT and asks for the write lock at the first INSERT.           *)
(*                                                                         *)
(* Rows of the events table are kept per session, in id order, because     *)
(* every query of the code selects one session and orders by id.           *)
(***************************************************************************)
EXTENDS Naturals, Sequences, SequencesExt, FiniteSetsExt

CONSTANTS
  Session,          \* session ids
  NoSession,        \* the NULL session_id of an event outside every session
  Input,            \* payloads the properties tell apart
  MaxBatch,         \* bound: events in one batch
  MaxRows,          \* bound: rows in the events table
  MaxNotified       \* bound: checkpoints per session

ASSUME NoSessionAssumption == NoSession \notin Session
ASSUME BoundAssumption == MaxBatch \in Nat /\ MaxRows \in Nat /\ MaxNotified \in Nat

\* AuditEvent: the session variants always carry a session_id; ProcessExec
\* stands for the three variants whose session_id may be None.
Event ==
  [kind : {"SessionInit", "KeystrokeInput", "SessionEnd"}, sid : Session, n : Input]
  \cup [kind : {"ProcessExec"}, sid : Session \cup {NoSession}, n : Input]

INSTANCE HashChain

Stream == Session \cup {NoSession}

\* A row of sessions is absent, or present without or with the columns that
\* SessionEnd fills in.
SessionRow == {"absent", "open", "ended"}

Database ==
  [ sessions : [Session -> SessionRow],
    events   : [Stream -> Seq(ChainedAuditEvent)],
    notified : [Session -> Seq(Nat)],
    misread  : SUBSET Session ]      \* history, see Misreads

EmptyDatabase ==
  [ sessions |-> [s \in Session |-> "absent"],
    events   |-> [s \in Stream |-> << >>],
    notified |-> [s \in Session |-> << >>],
    misread  |-> {} ]
--------------------------------------------------------------------------------
(* Faulty variants of the statements below.  No action uses them: each one,   *)
(* put in the place of the definition it varies, makes a property fail.      *)

\* LastSeqAndHash without the hash: every row starts a chain of its own.
LastSeqOnly(d, sid) ==
  [seq |-> IF sid = NoSession THEN 0 ELSE Len(d.events[sid]), hash |-> GENESIS_HASH]

\* LastSeqAndHash without WHERE session_id: seq counts the rows of the table.
LastSeqOfTable(d, sid) ==
  [ seq  |-> MapThenSumSet(LAMBDA s : Len(d.events[s]), Stream),
    hash |-> IF d.events[sid] = << >> THEN GENESIS_HASH
                                      ELSE d.events[sid][Len(d.events[sid])].hash ]

\* LastSeqAndHash whose default makes the first seq 0.
LastSeqFromMinusOne(d, sid) ==
  [seq |-> Len(d.events[sid]) - 1, hash |-> GENESIS_HASH]

\* SessionRowAfter with INSERT OR REPLACE: a repeated SessionInit clears the
\* columns SessionEnd has filled in.
SessionRowReplaced(old, kind) ==
  CASE kind = "SessionInit"                   -> "open"
    [] kind = "SessionEnd" /\ old # "absent"  -> "ended"
    [] OTHER                                  -> old

\* ForeignKeyHolds without PRAGMA foreign_keys = ON.
ForeignKeysOff(d, e) == TRUE
--------------------------------------------------------------------------------
(* The statements of insert_batch, on the database they run against. *)

\* The default of unwrap_or: no row before, the chain begins.
NoRow == [seq |-> 0, hash |-> GENESIS_HASH]

\* SELECT seq, hash ... ORDER BY id DESC LIMIT 1, when the query succeeds or finds
\* no row; an event without a session is not looked up.
LastSeqAndHash(d, sid) ==
  IF sid = NoSession \/ d.events[sid] = << >>
  THEN NoRow
  ELSE LET row == d.events[sid][Len(d.events[sid])]
       IN  [seq |-> row.seq, hash |-> row.hash]

\* INSERT OR IGNORE INTO sessions / UPDATE sessions
SessionRowAfter(old, kind) ==
  CASE kind = "SessionInit" /\ old = "absent" -> "open"
    [] kind = "SessionEnd" /\ old # "absent"  -> "ended"
    [] OTHER                                  -> old

SessionsAfter(d, e) ==
  [s \in Session |-> IF s = e.sid THEN SessionRowAfter(d.sessions[s], e.kind)
                                  ELSE d.sessions[s]]

\* FOREIGN KEY (session_id) REFERENCES sessions(session_id); NULL passes.
ForeignKeyHolds(d, e) ==
  e.sid # NoSession => SessionsAfter(d, e)[e.sid] # "absent"

\* The pair is the default although the session has rows: its SELECT has failed, and
\* the event begins a second chain in the middle of the session.  Database keeps
\* the sessions this has happened to, with the rows it has happened in.
Misreads(d, e, last) == e.sid # NoSession /\ d.events[e.sid] # << >> /\ last = NoRow

\* The database after the statements of one event, last being the pair read.
InsertEvent(d, e, last) ==
  [ sessions |-> SessionsAfter(d, e),
    events   |-> [d.events EXCEPT ![e.sid] =
                    Append(@, NewChainedEvent(last.seq + 1, last.hash, e))],
    notified |-> d.notified,
    misread  |-> d.misread \cup {s \in Session : s = e.sid /\ Misreads(d, e, last)} ]

\* INSERT INTO session_notifications
InsertNotification(d, sid, seq) ==
  [ sessions |-> d.sessions,
    events   |-> d.events,
    notified |-> [d.notified EXCEPT ![sid] = Append(@, seq)],
    misread  |-> d.misread ]

get_chained_session_events(d, sid) == d.events[sid]

verify_session_integrity(d, sid) ==
  verify_event_chain(get_chained_session_events(d, sid))

get_session_events(d, sid) ==
  [i \in 1..Len(d.events[sid]) |-> d.events[sid][i].event]

get_latest_event_seq(d, sid) == LastSeqAndHash(d, sid).seq

get_last_notified_seq(d, sid) ==
  IF d.notified[sid] = << >> THEN 0 ELSE d.notified[sid][Len(d.notified[sid])]
--------------------------------------------------------------------------------
VARIABLES
  db,        \* the committed database, what every other reader sees
  pc,        \* where insert_batch stands: idle, select, write or commit
  call,      \* the batch insert_batch was called with
  batch,     \* the events of it still to be inserted
  lock,      \* what the transaction holds: none, read (a snapshot) or write
  work,      \* its view of the database, once it holds a lock
  last       \* the seq and hash it goes on from, after its last SELECT

txVars == <<pc, call, batch, lock, work, last>>
vars == <<db, txVars>>

RowCount(d) == MapThenSumSet(LAMBDA s : Len(d.events[s]), Stream)

Init ==
  /\ db = EmptyDatabase
  /\ pc = "idle"
  /\ call = << >>
  /\ batch = << >>
  /\ lock = "none"
  /\ work = EmptyDatabase
  /\ last = NoRow

\* What a statement of the transaction reads: its own view, which is taken
\* from the committed database when it has none yet.
Snapshot == IF lock = "none" THEN db ELSE work

\* SnapshotIsStale of a store that lets the old snapshot write.
StaleSnapshotWrites == FALSE

\* SQLITE_BUSY_SNAPSHOT: another connection committed after the snapshot was
\* taken, so the transaction may not become a writer.
SnapshotIsStale == lock = "read" /\ work # db

\* insert_batch is called: take the Mutex, open the transaction.  An empty
\* batch returns Ok before that.
BeginBatch(b) ==
  /\ pc = "idle"
  /\ b # << >>
  /\ RowCount(db) + Len(b) <= MaxRows
  /\ pc' = "select"
  /\ call' = b
  /\ batch' = b
  /\ UNCHANGED <<db, lock, work, last>>

TakeSnapshot ==
  /\ lock' = IF lock = "none" THEN "read" ELSE lock
  /\ work' = Snapshot

SelectLast ==
  /\ pc = "select"
  /\ last' = LastSeqAndHash(Snapshot, Head(batch).sid)
  /\ IF Head(batch).sid = NoSession THEN UNCHANGED <<lock, work>> ELSE TakeSnapshot
  /\ pc' = "write"
  /\ UNCHANGED <<db, call, batch>>

\* The SELECT returns an error, before it has a snapshot (the database is busy) or
\* with one (a column of another type, a page it cannot read).  unwrap_or takes
\* every error for the missing row, and the statements after it go on.
SelectFails ==
  /\ pc = "select"
  /\ Head(batch).sid # NoSession
  /\ last' = NoRow
  /\ UNCHANGED <<lock, work>> \/ TakeSnapshot
  /\ pc' = "write"
  /\ UNCHANGED <<db, call, batch>>

WriteEvent ==
  /\ pc = "write"
  /\ ~SnapshotIsStale
  /\ ForeignKeyHolds(Snapshot, Head(batch))
  /\ work' = InsertEvent(Snapshot, Head(batch), last)
  /\ lock' = "write"
  /\ batch' = Tail(batch)
  /\ pc' = IF Tail(batch) = << >> THEN "commit" ELSE "select"
  /\ UNCHANGED <<db, call, last>>

\* Rollback of a batch inserted without a transaction: what was written stays.
RollbackKeepsWork ==
  /\ pc' = "idle"
  /\ call' = << >>
  /\ batch' = << >>
  /\ lock' = "none"
  /\ db' = IF lock = "write" THEN work ELSE db
  /\ UNCHANGED <<work, last>>

\* The Transaction is dropped without a commit: SQLite rolls it back.
Rollback ==
  /\ pc' = "idle"
  /\ call' = << >>
  /\ batch' = << >>
  /\ lock' = "none"
  /\ UNCHANGED <<db, work, last>>

\* A statement returns SQLITE_BUSY_SNAPSHOT and ? leaves insert_batch.
FailStale ==
  /\ pc = "write"
  /\ SnapshotIsStale
  /\ Rollback

\* The INSERT INTO events violates the foreign key and ? leaves insert_batch.
FailForeignKey ==
  /\ pc = "write"
  /\ ~SnapshotIsStale
  /\ ~ForeignKeyHolds(Snapshot, Head(batch))
  /\ Rollback

\* Any other error of a statement with a ? (BEGIN, INSERT, UPDATE or COMMIT: disk
\* full, an I/O error, the busy timeout of a writer that waits too long) or of
\* serde_json, or the end of the collector process.
FailOrCrash ==
  /\ pc # "idle"
  /\ Rollback

Commit ==
  /\ pc = "commit"
  /\ db' = work
  /\ pc' = "idle"
  /\ call' = << >>
  /\ lock' = "none"
  /\ UNCHANGED <<batch, work, last>>

\* record_notification on the notifier's connection: one autocommitted INSERT.
\* While the transaction holds the write lock it waits (busy_timeout), and
\* fails without a change when the wait is too long.  The sequence recorded is
\* one the watcher has counted among the stored events of the session.
record_notification(sid, seq) ==
  /\ lock # "write"
  /\ db.sessions[sid] # "absent"
  /\ seq \in 1..Len(db.events[sid])
  /\ Len(db.notified[sid]) < MaxNotified
  /\ db' = InsertNotification(db, sid, seq)
  /\ UNCHANGED txVars

insert_batch ==
  \/ \E b \in BoundedSeq(Event, MaxBatch) : BeginBatch(b)
  \/ SelectLast
  \/ SelectFails
  \/ WriteEvent
  \/ FailStale
  \/ FailForeignKey
  \/ FailOrCrash
  \/ Commit

Next ==
  \/ insert_batch
  \/ \E sid \in Session : \E seq \in 1..Len(db.events[sid]) : record_notification(sid, seq)

Spec == Init /\ [][Next]_vars
--------------------------------------------------------------------------------
(* Properties *)

\* Types of the store and of the transaction.
TypeOK ==
  /\ db \in Database
  /\ pc \in {"idle", "select", "write", "commit"}
  /\ call \in Seq(Event)
  /\ batch \in Seq(Event)
  /\ lock \in {"none", "read", "write"}
  /\ work \in Database
  /\ last \in [seq : Nat, hash : Digest]

\* Whatever transactions were begun, aborted by an error or overtaken by a
\* checkpoint, the verify endpoint finds a session of the committed database intact
\* exactly when no row of it was committed after a failed SELECT: there is no other
\* false alarm, and a chain that such a row breaks is always reported.
SessionsVerify ==
  \A s \in Session : verify_session_integrity(db, s) <=> s \notin db.misread

\* The seq column of a session counts its rows from 1, unless a row was committed
\* after a failed SELECT; then the count restarts at 1 there, and from that row on
\* seq falls short of the position but is never ahead of it.
SeqIsPosition ==
  \A s \in Session :
    /\ \A i \in 1..Len(db.events[s]) : db.events[s][i].seq \in 1..i
    /\ IF s \notin db.misread
       THEN /\ get_latest_event_seq(db, s) = Len(get_session_events(db, s))
            /\ \A i \in 1..Len(db.events[s]) : db.events[s][i].seq = i
       ELSE get_latest_event_seq(db, s) < Len(get_session_events(db, s))

\* The first row of a stored session is its SessionInit, although the database
\* only demands that the sessions row exists: the report of the watcher takes
\* host and user from that event.
SessionStartsWithInit ==
  \A s \in Session :
    db.events[s] # << >> => db.events[s][1].event.kind = "SessionInit"

\* The columns SessionEnd fills in and its row in events are written together:
\* a session is shown as ended exactly when its SessionEnd is stored.
EndedIffEndStored ==
  \A s \in Session :
    db.sessions[s] = "ended"
      <=> \E i \in 1..Len(db.events[s]) : db.events[s][i].event.kind = "SessionEnd"

\* No committed row of events or session_notifications is ever changed,
\* reordered or lost by a later step, not even by the commit of a transaction
\* whose snapshot was taken before the row was committed.
AppendOnly ==
  [][ /\ \A s \in Stream : IsPrefix(db.events[s], db'.events[s])
      /\ \A s \in Session : IsPrefix(db.notified[s], db'.notified[s]) ]_vars

\* insert_batch is all or nothing: seen from outside, the store is the ledger of
\* AuditLedger, to which the batch of a call is appended whole or not at all.
SessionOf(e) == e.sid

Ledger == INSTANCE AuditLedger WITH
  Record <- Event,
  StreamOf <- SessionOf,
  ledger <- [s \in Stream |-> get_session_events(db, s)]

AppendsWholeBatches == Ledger!Spec
================================================================================
