# A TLA+ model of Argus Audit

Argus Audit records what is typed in a terminal session, sends it to a central
collector that keeps it in a hash-chained SQLite database, and reports on it.
This directory models the parts of it in which order, failure and concurrency
decide whether an audit record is complete and true, checks them with TLC on
small instances, and proves with TLAPS, for instances of every size, every
invariant and every action property that a passing run checks. Paths below are
relative to `src/crates/`.

## The system

```
 argus wrap (one process per session)          collector daemon              argus notify
 main thread            uploader thread        request handlers              watcher cycle
 pty.rs   --channel-->  uploader.rs  --POST--> server.rs --insert_batch--> SQLite <-- watcher.rs --> Telegram
                          |  ^ 202 / kill header   | broadcast channel     storage.rs    trigger.rs
                          v                        v                       hash_chain.rs
                        spool file              live viewers (SSE)
```

| component | its state | operations | what is hard |
|---|---|---|---|
| PTY session (`argus-agent/src/pty.rs`, `main.rs`) | the terminal and its modes, the child, `RESIZE_FLAG`, password mode, the Sender | `run`, and the loop: resize, select, read and record, forward, show; wait for the child | two ends that close at different moments, bounded queues both ways, a signal between two steps, modes that the child changes at will |
| uploader (`argus-agent/src/uploader.rs`) | the channel, the batch, the clock of the last flush, the spool file | collect, flush by size or by time, flush at the end | the batch is cleared whatever became of it; a request that timed out may still be processed |
| collector (`argus-collector/src/server.rs`) | `killed_sessions` (memory), the broadcast channel (bounded) | ingest, kill, live | handlers run side by side: stored in one order, broadcast in another; a restart forgets all but the database |
| store (`argus-collector/src/storage.rs`) | tables `sessions`, `events`, `session_notifications` | `insert_batch`, `record_notification`, queries | two processes write: a deferred transaction may find its snapshot stale; a statement may fail in the middle of a batch |
| hash chain (`argus-common/src/hash_chain.rs`) | none | build and verify a chain | what does a successful verification exclude? |
| trigger (`argus-analyzer/src/trigger.rs`) | none | decide whether a session calls for a report | events are numbered by position, the checkpoint is a `seq` |
| watcher (`argus-analyzer/src/watcher.rs`) | the debounce map (memory), checkpoints (database) | the cycle list, read, decide, send, record | reads at different moments; a crash or an error between two of the steps |
| reconstructor, correlator (`argus-analyzer/src/reconstructor.rs`, `correlator.rs`) | the bytes of an unfinished character, the line, its date, AI mode | one step per event; merge and sort | reads cut lines and characters anywhere; a line is dated by its first key and collected at its end |
| process tree (`argus-analyzer/src/process_tree.rs`) | none | `build_tree` | a recursion over recorded pids: does it end, and is every process in it? |
| rules, notifier, summarizer, drift, prompt parser, CLI (`argus-analyzer/src`, `argus-cli/src`) | none | pure functions and printing | text |

`PROJECT.json` lists every component with what is modelled of it, and under
`hazards` the places in the code where something could go wrong that a test
would hardly reach, with the property that would notice.

## Modules

| module | models | its state and actions in the code |
|---|---|---|
| `HashChain` | `hash_chain.rs` | `compute_event_hash`, `NewChainedEvent`, `verify_hash`, `verify_event_chain` have the code's names. SHA-256 is taken as collision free: a digest *is* the list of (seq, event) pairs it commits to |
| `AuditLedger` | what the store promises | a batch is asked for, and then appears whole and in order, or leaves no trace |
| `AuditStore` | `storage.rs` | `db` is the committed database; `pc`, `call` (the batch it was given), `batch` (what is left of it), `lock`, `work`, `last` are one call of `insert_batch` between its statements. `SelectLast`, `WriteEvent`, `Commit` are its statements, `SelectFails` the `unwrap_or` that takes any error of the SELECT for an empty session, `FailStale`, `FailForeignKey`, `FailOrCrash` the ways `?` or the end of the process leave it; `record_notification` is the other process |
| `Integrity` | `hash_chain.rs` over damaged rows | the table of one session (`TableInit`, `TableNext`): `Insert` goes on after the last row found; the damages alter a field, exchange rows or lose one |
| `Pty` | `pty.rs` | `pc` is where the main thread stands in `run` and `event_loop`; `masterReady` is what `select` said of the terminal, used after input has been served. The person, the child, the reader of standard output and the terminal's queues are its environment. A key is its position; `reads` remembers each chunk, the mode it was read in and where a password ended in it; `missed` and `lost` remember the resizes and the output that the code lets go |
| `Agent` | `pty.rs` (its events), `main.rs`, `uploader.rs` | `chan` is the mpsc channel, `up` where the uploader thread stands in `run_loop` and `flush_batch`, `due` that 500 ms have passed since `last_flush`. Answers come from anywhere: any status, no answer, the kill header |
| `Collector` | `server.rs` | `reqs` are the ingest handlers, between decoding, `insert_batch` and the broadcast; `killed`, `bus`, `views` are the kill list, the broadcast channel and the live streams; `origin`, `seen` and `before` remember of which request an event is the copy. The store is the ledger: one atomic append |
| `Pipeline` | `Agent` and `Collector` together | `INSTANCE`s of both; `wire` holds every request ever sent, in transit, arrived or lost, also those the agent gave up on |
| `Trigger` | `trigger.rs`, and which events yield a command or an alert (`reconstructor.rs`, `rules.rs`) | pure operators over classes of events |
| `Watcher` | `watcher.rs`, `notifier.rs` (what a report covers) | `pc` walks through one cycle of `check_all_sessions`; `events` is what it has read, `report` what it is about to send and record, with the summary as `NotificationReport::build` cuts it; `hot`, `warm` are the debounce map by age |
| `Reconstructor` | `reconstructor.rs` | its local variables are the record `s`; `Keys`, `Paste`, `Exec`, `Prompt`, `Finish` are the arms of the `match` in `reconstruct`. Seven bytes: a letter, Backspace, Enter, ESC, `[`, and the two halves of a wide character |
| `ProcessTree` | `process_tree.rs` | `assemble` written out by depth: `Below` takes the nodes of one depth to those of the next; a node is its path of pids |
| `Analysis` | `correlator.rs`, over the two above | the state is a session event by event, and the reconstructor after each |
| `Subsequences` | the loops of `storage.rs`, `trigger.rs`, `watcher.rs`, `reconstructor.rs`, `correlator.rs`, `process_tree.rs` | `Filter`, `Distinct`, `Fold` and `Repeat` as recursive functions of how far the loop has come, `Number` as a cardinality, so that they can be reasoned about |
| `...Proofs` | | theorems about `AuditStore`, `Agent`, `Pty`, `Collector`, `Pipeline` and `Watcher`; `OperatorProofs` about `Integrity` and `Analysis`, the two views an operator has of a stored session; `SubsequenceProofs` about `Subsequences` |
| `MC...` | | instances for TLC |

`AuditStore` is shown to implement `AuditLedger` (property `AppendsWholeBatches`: the batch
asked for is visible whole or not at all, never a part of it), and `Collector` takes the store at that level, so that `Pipeline` stays small.
The one thing `Collector` adds is that a batch is refused as a whole when the
foreign key of one of its events does not hold (`ForeignKeysHold`), which is
what `FailForeignKey` does in `AuditStore`: theorem `CollectorsStore`.

`Pty` is shown to implement the main thread of `Agent` (property
`ImplementsMainThread`, with the uploader at rest), which emits one `SessionInit`,
input, and one `SessionEnd` and knows nothing of terminals. What `Agent` and
`Pipeline` assume of the thread is thus what its loop does.

Each module also holds a few faulty variants of its definitions, marked as such
by their comments. No action uses them. Each one is a mistake one could make in
that piece of code, and the properties are known to notice it.

## Runs

| run | instance | what it shows |
|---|---|---|
| `store` | 2 sessions (symmetric), 1 payload, batches of 2, 3 rows, 1 checkpoint per session | the store under aborted, overtaken and crashed transactions: a session verifies, and `seq` is the position, exactly unless a row was committed after a SELECT whose error was swallowed; `SessionInit` comes first, the ended mark and the stored `SessionEnd` agree, nothing committed changes, and batches are atomic |
| `agent` | 5 events, batches of 2, with and without URL and spool | nothing is dropped, nothing leaves twice or out of order, a regular exit leaves nothing behind, events leave and the process ends |
| `pty` | 2 keys, 1 piece of output, queues of 1, reads of 2 | kept out of the record are all keys of a password and those read in one chunk after its end, and no other; what reaches the child has been recorded; which resizes are lost; the loop serves both sides, writes the last output and ends with the session as long as the output is taken; it emits what `Agent` says |
| `collector` | 2 requests of up to 2 events from 4, 1 viewer, a channel of 2 | a live stream shows stored events only and, unless it lagged, each one stored since it began; 202 means durable |
| `pipeline` | 3 events, batches of 2, 1 unanswered request, 1 restart | acknowledged events are stored, in order; nothing is stored twice; no session without its beginning; a finished session is complete between store and spool; a kill stops the session after a bounded number of batches; recorded events settle |
| `watcher` | 2 sessions of which 1 is listed, summaries of 1 command, 3 events, 1 fault | checkpoints never pass over an event nor move back; an event is reported once unless something failed; what rules object to is in a report that was sent, or that had the summary of one that was; work of a listed session gets its checkpoint as long as the sends return |
| `analysis` | up to 4 bytes, or 3 execs, or a mixture with prompts | cutting the input into reads does not change the lines found; the timeline has things in the order in which they happened; the process tree ends exactly when no process below a root is below itself, and what it then shows |
| `integrity` | 4 rows of 2 payloads, 2 damages | a session that verifies shows rows the collector wrote, as they stood when the last of them was written |
| `spool` | 3 events | **violated**: the spool is never flushed to the collector (`docs/DEPLOYMENT.md:186`) |
| `kill` | no faults at all | **violated**: a kill reaches only a session that uploads something (`README.md:32`) |
| `omission` | as `integrity` | **violated**: rows lost at the start or at the end are not noticed (`docs/DEPLOYMENT.md:221`) |
| `ai_session` | 1 session, 3 events | **violated**: AI use seen in keystrokes is forgotten at the checkpoint (comment in `trigger.rs:167`) |

The four violated properties say what a document or a comment says of the
program; `PROJECT.json` quotes them under `findings`.

Why the bounds are enough. A hazard needs few actors here: a transaction with two
events and one foreign commit between its statements; two handlers that overtake
each other; a request that is late and one that overtakes it, for which a second
batch must exist; one restart. Batches of 2 have a first, a last and a full batch;
a channel of 2 is overrun by the second batch. In `pipeline` a fault is
one request that could have been answered and was not; requests that went down
with the daemon are not counted. In `watcher` three events allow a report, a
second one about later events and a second session that competes for the cycle, and,
being newer, pushes the first one off the list. Two commands that begin with the same
100 characters, and room for one, give a summary that is cut short, that leaves one out, and
that cannot tell a harmless command from one the rules object to.
In `pty` a chunk of two keys meets a queue of one, so that a write blocks, is
interrupted and is cut short; one key typed before and one after a change of modes are a
password with and without its end. In `analysis` a byte and a prompt count 3 and
an exec 4 towards `MaxWork` = 13: four bytes are two lines in up to four events, or an
escape sequence and its line; three execs are a chain, a fork, a circle, a pid
executed again, and a pid used again by a process of its own descendants, which closes a
circle below a root.
No counter in the code comes near its width (`seq` is 64 bits and counts rows),
so none wraps in the model.

Where a configuration says `CHECK_DEADLOCK FALSE` the system really stops: an agent
that has exited, a store whose rows (`MaxRows`) or a collector whose requests are
used up, a watcher in a quiet system.

### Fairness

* `Agent`: the uploader thread is scheduled, the clock advances, every request
  ends (reqwest has `timeout_secs` and a connect timeout of 4 s), and `exit`
  follows `join`. Nothing makes the user type or leave, and nothing makes the
  child end: `waitpid` has no bound.
* `Pty`: the main thread runs unless it is blocked (`Setup`, `Loop`). No fairness for
  the person, the child, signals or failures, nor for the write to standard output, which
  waits for whoever reads it (`Screen`): the child may read nothing and live
  for ever, the screen may be held, and the properties say what then does not hold
  (`Stuck`, `OutputIsTaken`). `select` looks
  for ready descriptors before signals, so that resizing does not keep input waiting.
* `Pipeline`: the same as `Agent`, and a request is delivered or lost, and handlers run to
  their end (they do not await once the body is read, so that a client that goes
  away does not stop them). No fairness for kills and restarts.
* `Watcher`: the ticker goes on and the steps of a cycle on this host come to an end
  (`LocalStep`); idle sessions grow older. Nothing makes `send_report` return, whose
  request has no timeout: `WorkIsReported` has it as a condition (`SendsReturn`).

## Proofs

Every theorem holds for any sets of sessions and payloads and for any bounds. TLC
found every inductive invariant below to hold on the instance of its component's
run before it was proved. The assumptions are those of the modules: the bounds
are numbers, batches, the channel and the terminal's queues have room for one
element, the event without a session belongs to no session (`NoSession`), in `Watcher`
a session is a number, which stands for its place in the order of `created_at`, and
in `Analysis` pids are numbers and `Outside` is none of a process of the session.

### The store: `AuditStoreProofs`

| theorem | states |
|---|---|
| `TypeCorrect` | `Spec => []TypeOK` |
| `StoreVerifies` | `Spec => []SessionsVerify` |
| `SeqCountsRows` | `Spec => []SeqIsPosition` |
| `InitComesFirst` | `Spec => []SessionStartsWithInit` |
| `EndIsMarked` | `Spec => []EndedIffEndStored` |
| `StoreIsAppendOnly` | `Spec => AppendOnly` |
| `BatchesAreAtomic` | `Spec => AppendsWholeBatches`: the store implements `AuditLedger` |
| `CollectorsStore` | `Spec => [][CommitIsPersist]_vars`: a commit is the `Persist` of `Collector`, and a foreign key fails only in a batch that `Persist` refuses |

None of the properties is inductive, because a commit replaces the database by the
transaction's view of it, about which they say nothing. The invariant `IInv` says,
besides the types, that

* every row of a session is linked to the row before it and carries its
  position, unless one of them has begun to count again (`Chained`), the sessions row and
  the events agree, and the first row is `SessionInit` (`Consistent`), of `db` and, once
  the transaction has a view, of `work` too;
* `work` extends `db` while the transaction holds the write lock;
* between the SELECT and `WriteEvent` the pair in `last` is that of the last
  row of the view it will be written to, or the default (`Pairs`).

The last point is where `SnapshotIsStale` is needed: without it the row would be
linked to one that is no longer the last. The default is right for an empty session and wrong
for any other: `SelectFails` is the step that leaves it, and `misread` remembers the sessions with
a row it was used for. Such a row claims that nothing precedes it, so that the chain
never verifies again, whatever is appended (`StoreVerifies` is an equivalence). `InsertKeepsConsistent` carries the
chain through one insertion, `StepInvariant` goes through the actions one by one,
and each theorem follows from `Invariant` by expanding its property. The refinement
adds `Parts`: the view is the committed database and, of each stream, the events of
the part of the batch already written. `WriteEvent` moves one event from the part to be
written to the other (`FilterAppend`), and at `Commit` nothing is left to be written.
`CollectorsStore` adds that what has been written follows the `SessionInit` of its session
(`WrittenFollow`). The database asks for less, a sessions row; but a session has its row
exactly when it has events (`ViewRow`), so that the two ask for the same (`NextFollows`).

### The agent: `AgentProofs`

| theorem | states |
|---|---|
| `Typing` | `Spec => []TypeOK` |
| `EventsAreKept` | `Spec => []NothingDropped` |
| `EventsAreHandledOnce` | `Spec => []HandledOnce` |
| `LeavingIsComplete` | `Spec => []ExitIsComplete` |

The events are numbered as they are sent. The invariant says that the batch
followed by the channel is always the run of numbers that ends at `sent`
(`Numbered`), and that what is numbered below is in `acked` or `spool`, once
(`Accounts`): the border moves past the batch before the batch is cleared,
so every exit of `flush_batch` has to have put it somewhere. `Phases` says how far the
uploader is when the session has ended.

### The terminal: `PtyProofs`

| theorem | states |
|---|---|
| `Typing` | `Spec => []TypeOK` |
| `ResizesAreKept` | `Spec => []ResizeNotLost` |
| `PasswordsAreHidden` | `Spec => []HiddenKeys` |
| `KeysAreRecordedFirst` | `Spec => []ForwardedIsRecorded` |
| `MainThreadIsImplemented` | `Spec => ImplementsMainThread`: the loop is `Agent`'s main thread |

`HiddenKeys` speaks of all reads since a password began, and the code
remembers one bit of them; the invariant says what the bit means, and that a chunk is
missing as a whole exactly when it falls into a password (`Records`; the recorded keys
are whole chunks, `Wording`), that the chunks are the keys read without a gap (`Chunks`), and that the keys
forwarded are some of those before the rest of the current chunk (`Order`). One read
adds one chunk and at most one event with its number, so that what the record says of earlier
chunks stays. `Count` bounds the events by the reads, for the refinement.

### The collector: `CollectorProofs`

| theorem | states |
|---|---|
| `Typing` | `Spec => []TypeOK` |
| `LiveIsStored` | `Spec => []LiveShowsOnlyStored` |
| `LiveIsComplete` | `Spec => []LiveMissesNothing` |
| `AcceptedIsStored` | `Spec => []AcceptedIsDurable` |

The other two properties count, because the same event may come in several requests. The
invariant counts for every *kind* of events of one session, not only for
single events: the rows have as many as the requests that were persisted (`Durable`),
and as many as the channel and the handlers that have still to broadcast theirs
(`Ahead`); and a viewer got no more than it read (`Shown`). Kinds make one lemma serve
both single events and whole sessions. `LiveIsComplete` does not count: an event is known
by its request and its place there, and each one of a request answered 202 that was stored after
the viewer subscribed was sent to it or lies ahead of it in the channel (`Missing`).

### Agent and collector together: `PipelineProofs`

| theorem | states |
|---|---|
| `AgentIsImplemented` | `Spec => AP!Spec`: the theorems of `AgentProofs` hold here |
| `CollectorIsImplemented` | `Spec => CP!Spec`: those of `CollectorProofs` too |
| `AnsweredIsStored` | `Spec => []AckedIsStored` |
| `NothingIsStoredTwice` | `Spec => []StoredOnce` |
| `InitComesFirst` | `Spec => []NothingWithoutInit` |
| `KillsTakeEffect` | `Spec => []KillStopsSession` |
| `SessionsAreComplete` | `Spec => []CompleteAtExit` |

The proof takes from the two components what they guarantee by themselves and adds
what the network does to them:

* the requests are numbered on from batch to batch (`WireNumbered`), and the one the
  uploader waits for is the last and carries its batch (`Awaited`);
* a handler's request is one from the wire that has arrived (`Answers`); what is
  persisted is in the rows, and what can still be persisted is not (`Origin`), so
  that nothing is stored twice however late a request is processed;
* what is acknowledged, or awaits its answer, has nothing newer before it in
  the rows (`Order`): a request that is overtaken is one the uploader gave up on;
* while every request is answered, what is spooled has no request left that could
  store it (`Spooled`);
* `Kills` is an account: the batches stored under the kill list and the requests
  that may still be processed together are no more than the unanswered requests and the
  one being waited for. A request changes sides when the uploader gives it up.

### The watcher: `WatcherProofs`

| theorem | states |
|---|---|
| `Typing` | `Spec => []TypeOK` |
| `NoEventIsSkipped` | `Spec => []NothingSkipped` |
| `ReportsAreNotRepeated` | `Spec => []ReportedOnce` |
| `AlertsAreReported` | `Spec => []AlertIsReported` |
| `CheckpointsDoNotFall` | `Spec => CheckpointMonotone` |

A cycle reads at several moments, and the collector stores in between. The invariant
says that the report on its way begins no later than the event after the
checkpoint and ends within the session (`Reporting`), so that the checkpoint set from it
moves forward and over events it covered; that an event above the checkpoint was
sent no more often than there were faults (`Sendings`); and that the report at hand, if
it has an alert, was given to `send_report` or has the summary of one that was, which the
debounce map still knows (`Alerts`). The summary is not the report: it has no execs, and of
the commands the first ten, cut to 100 characters, so that
`AlertIsReported` cannot say that the alert itself was seen by anyone.

### The hash chain: `OperatorProofs`, first part

`EditsShow` states `TableSpec => []EditsAreDetected`. Damage moves hashes between rows but
makes none, so that every hash in the table is one `insert_batch` computed (`Computed`), of
a row that then verified (`WrittenVerify`). A row that verifies now is therefore that row, and
the links fix the rows before it: the digest of the last row contains all of
them. `InnerRowsAreFixed` says what one edit comes to: in a chain that verifies, no row but the
last can be replaced by another one, not even by one whose hash was computed for it.
(The last one can: nothing commits to its hash.) This rests on the ideal digest of `HashChain`; about SHA-256 it says nothing.

### Lines, timeline and tree: `OperatorProofs`

| theorem | states |
|---|---|
| `LinesAsTyped` | `Spec => []ReadAsTyped` |
| `TimelineOrdered` | `Spec => []TimelineInOrder` |
| `TreeComplete` | `Spec => []TreeShowsEveryProcess` |

They hold for chunks of any length, any number of lines, prompts and processes, and
any order of the events.

What a session looks like depends on where the reads cut the input, and
`ReadAsTyped` compares only two ways of cutting it. The inductive invariant therefore relates
the state of `reconstruct` after every event to *all* bytes so far, as if they had come
at once (`IInv`):

* `Types`: events are numbered in order, and the input is UTF-8 of which at most the
  last character is unfinished. Every cut of such bytes decodes to the same text
  (`ReadOn`, `Utf8Concat`), with the rest kept in `raw`;
* `Reading`: the line being edited and the lines entered, without their dates
  and without the prompts between them (`Shape`), are those of the whole text, and `raw` is its
  unfinished character. `Half` is the case in which that character was pasted and so has been
  read as it is; after `SessionEnd` nothing is left (`Over`). To add a chunk is to
  read its text after the text before, which needs that no escape sequence is open at
  the cut (`WellCut`): the sanitizer starts anew with every chunk;
* `Times`: a line that is being typed, or was found, is dated by an event in which a byte
  was read with no Enter since (`Begun`), and lies between that event and the one that
  ended it.

`Reading` and `Times` need `WellCut` and nothing else does; `WellCut` of a session implies
that of its beginning (`WellCutBefore`), so that the invariant carries it as a
hypothesis. `InputKeeps`, `ExecKeeps`, `PromptKeeps` and `EndKeeps` are the steps. For
`LinesAsTyped`, `Reading` at the end of a session is compared with the whole input read at
once (`AtOnce`).

`TimelineOrdered` adds that the stable insertion keeps a sequence ordered by date
(`SortedKeeps`), and that the date of an entry lies between its beginning and its end
(`CollectedSpans`, from `Times`): if one entry was over before another began, its date is the
earlier one.

`TreeComplete` uses only that the execs are a list, of pids that may be used again. A level
shows the processes that have an exec by one of the level before (`LevelMembers`). If no
process below a root is below itself, the processes have heights (`NoCircle`), every level
is lower than the one before, and the recursion is over at `Depth` (`HeightsEnd`); if it is over
there, the lowest level of a process gives it a height (`EndsByHeights`). A process that
is not shown has a parent that is not shown in the level before, so that `Depth` steps up its
ancestors are still in the session (`HiddenByCircle`).
The counts need that every pid has one parent: then the path of a node never
comes back to a pid (`WayShort`), and a process is shown at each depth as often as it was executed
times the number of nodes of its parent at the depth above (`ShownTurn`): two execs of a
child below two of its parent make four nodes.

### Induction

The loops of `Subsequences` are recursive functions. What they compute is proved in
`SubsequenceProofs` by induction over the positions of the list; `UpTo` gives the
induction from the well-founded order of the numbers, applied to the set of
positions for which the claim holds, and `EverySequence` the induction over the sequences
of a set by appending an element. `FilterKeeps`, `FilterAppend`, `FilterAll`, `DistinctKeeps` and
`NumberConcat` are what the other modules use, and of the loops that carry a value along,
`FoldAppend`, `FoldConcat` and `RepeatTurn`. A loop body is a curried function
(`step[v][x]`), and its domain says for which values it is meant: `Decode`, `Sanitize`,
`TypeChar`, `Sorted`, `Below`.

### Model-checked only

* Liveness under fairness: `EventsLeave`, `EventsSettle` and the other `~>`
  properties of `agent`, `pty`, `pipeline`, `watcher`. TLAPS proves no such property here.
* The four violated properties, which are counterexamples.

## Not modelled

* Text: the regular expressions of `redaction.rs`, `rules.rs` and of the longer control
  sequences in `reconstructor.rs`, AI tool names, report texts, `summarizer.rs`,
  `drift.rs`, `prompt_parser.rs`. They map text to text without state or failure.
* `identity.rs`, `ssh.rs` and `operator.rs`: read once before the session begins, or a
  lookup. The command line prints what the other parts return.
* Of the terminal: its contents, and the modes between two reads (the mode a read
  finds is any the child may have set). SIGHUP and SIGTERM end the process in `Agent`.
* Input that is not UTF-8: `Analysis` cuts valid text at any byte and pastes any part of it.
* In the timeline, the prompts of a history file; in the tree, how often a process is
  shown whose pid was seen with two parents.
* A crash of the machine (with `synchronous=NORMAL` it may undo the last commits)
  and more than one notifier on one database.
* At the SELECT of `insert_batch`, errors that make SQLite itself roll the transaction back
  (disk full, out of memory, I/O): its error is swallowed like any other, and the statements after it
  would then commit one by one, until the final COMMIT fails. `Integrity` takes it that
  every SELECT succeeds.
* Rows lost under the watcher: it numbers events by position, so that a lost row below the
  checkpoint would hide a later event from it. `Damage` makes a session fail to verify and
  leaves its rows in number.
* A checkpoint that cuts a line that is being typed: a keystroke event is complete lines in
  `Trigger`.
* A batch that cannot be compressed: serialising these structures into memory
  has no error to return.

## Plan

1. Done: hash chain, store with its proofs, agent, collector, pipeline, trigger and
   watcher, integrity under damage.
2. Done: the PTY loop, and that it implements the main thread of `Agent`.
3. Done: the reconstructor, the timeline and the process tree.
4. Done: a watcher with more sessions than the list limit. Open: a second notifier,
   under which the checkpoint may move back.
5. Done: proofs of all safety properties that the passing runs check, and of the refinements
   `AppendsWholeBatches`, `ImplementsMainThread`, and of `Agent` and `Collector` by `Pipeline`.
6. Done: that the store `Collector` assumes is the one `AuditStore` describes; that a changed
   inner row never verifies.
