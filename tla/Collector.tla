------------------------------- MODULE Collector -------------------------------
(***************************************************************************)
(* The collector daemon, argus-collector/src/server.rs: its request        *)
(* handlers, which run concurrently on the tokio threads, the kill list,   *)
(* which is kept in memory only, and the broadcast channel that feeds the  *)
(* live viewers.                                                           *)
(*                                                                         *)
(* The store is taken at the level AuditLedger describes and AuditStore is *)
(* shown to implement: a batch is appended in one step or refused.         *)
(***************************************************************************)
EXTENDS Naturals, Sequences, SequencesExt, Subsequences

CONSTANTS
  Session,          \* session ids
  NoSession,        \* the missing session id of an event outside every session
  Event,            \* events, records with at least the fields sid and kind
  RequestId,        \* POST /api/v1/events requests; bound: how many there are
  Viewer,           \* clients of /api/v1/sessions/:id/live
  Capacity,         \* of the broadcast channel, 1024 in CollectorServer::new
  MaxBatch          \* bound: events in one request

Stream == Session \cup {NoSession}

ASSUME CollectorAssumption ==
  /\ NoSession \notin Session
  /\ \A e \in Event : e.sid \in Stream
  /\ Capacity \in Nat \ {0}
  /\ MaxBatch \in Nat

VARIABLES
  rows,      \* the committed events of each session
  reqs,      \* the ingest requests and how far their handlers are
  killed,    \* killed_sessions
  bus,       \* every event sent on the broadcast channel since the start
  origin,    \* history: of each of them its request and its place there
  views      \* the live streams

collectorVars == <<rows, reqs, killed, bus, origin, views>>

\* st: free (not sent), arrived, stored (insert_batch returned Ok), answered,
\* lost (the daemon went down with the handler).  form: what the headers and the
\* body are like.  status and kill: the answer.
NoRequest ==
  [st |-> "free", form |-> "good", events |-> << >>, status |-> 0, kill |-> FALSE]

\* at: position of the receiver in bus.  got: the events it was sent, and seen:
\* where they came from.  before: the requests stored when it subscribed.
NoView ==
  [on |-> FALSE, sid |-> NoSession, at |-> 0, got |-> << >>, lagged |-> FALSE,
   seen |-> {}, before |-> {}]

Init ==
  /\ rows = [s \in Stream |-> << >>]
  /\ reqs = [r \in RequestId |-> NoRequest]
  /\ killed = {}
  /\ bus = << >> /\ origin = << >>
  /\ views = [v \in Viewer |-> NoView]
--------------------------------------------------------------------------------
(* POST /api/v1/events: ingest_events_handler *)

\* The body has been read and the handler starts.  From here it does not await:
\* it runs to its end even when the client gives up.
Arrive(r, events, form) ==
  /\ reqs[r].st = "free"
  /\ reqs' = [reqs EXCEPT ![r] =
                [NoRequest EXCEPT !.st = "arrived", !.events = events, !.form = form]]
  /\ UNCHANGED <<rows, killed, bus, origin, views>>

Answered(r, code, kill) ==
  reqs' = [reqs EXCEPT ![r].st = "answered", ![r].status = code, ![r].kill = kill]

\* check_auth fails, or the body does not decode.
Refuse(r) ==
  /\ reqs[r].st = "arrived"
  /\ reqs[r].form # "good"
  /\ Answered(r, IF reqs[r].form = "token" THEN 401 ELSE 400, FALSE)
  /\ UNCHANGED <<rows, killed, bus, origin, views>>

\* ForeignKeysHold without PRAGMA foreign_keys = ON.
ForeignKeysUnchecked(events) == TRUE

\* Every event of a session follows its SessionInit, in the store or the batch.
ForeignKeysHold(events) ==
  \A i \in 1..Len(events) :
    events[i].sid \in Session =>
      \/ rows[events[i].sid] # << >>
      \/ \E j \in 1..i : events[j].sid = events[i].sid /\ events[j].kind = "SessionInit"

OfSession(s) == {e \in Event : e.sid = s}

\* rows after insert_batch has committed: its loop over the events appends each
\* to the rows of its session.
Inserted(events) == [s \in Stream |-> rows[s] \o Filter(events, OfSession(s))]

\* insert_batch returns Ok.
Persist(r) ==
  /\ reqs[r].st = "arrived"
  /\ reqs[r].form = "good"
  /\ ForeignKeysHold(reqs[r].events)
  /\ rows' = Inserted(reqs[r].events)
  /\ reqs' = [reqs EXCEPT ![r].st = "stored"]
  /\ UNCHANGED <<killed, bus, origin, views>>

\* PersistFails that only logs the error and goes on as after a success.
PersistErrorIgnored(r) ==
  /\ reqs[r].st = "arrived"
  /\ reqs[r].form = "good"
  /\ reqs' = [reqs EXCEPT ![r].st = "stored"]
  /\ UNCHANGED <<rows, killed, bus, origin, views>>

\* insert_batch returns an error: a foreign key, a busy snapshot, the disk.
PersistFails(r) ==
  /\ reqs[r].st = "arrived"
  /\ reqs[r].form = "good"
  /\ Answered(r, 500, FALSE)
  /\ UNCHANGED <<rows, killed, bus, origin, views>>

\* MustKill whose header is not put on the answer.
MustKillForgotten(events) == FALSE

MustKill(events) == \E i \in 1..Len(events) : events[i].sid \in killed

\* Each event of a request, by its place.
Places(r) == [i \in 1..Len(reqs[r].events) |-> <<r, i>>]

\* Finish that leaves out the events of a killed session.
FinishWithoutKilled(r) ==
  /\ reqs[r].st = "stored"
  /\ LET sent == Positions(reqs[r].events, {e \in Event : e.sid \notin killed})
         nth == SetToSortSeq(sent, <)
     IN  /\ bus' = bus \o [i \in DOMAIN nth |-> reqs[r].events[nth[i]]]
         /\ origin' = origin \o [i \in DOMAIN nth |-> <<r, nth[i]>>]
  /\ Answered(r, 202, MustKill(reqs[r].events))
  /\ UNCHANGED <<rows, killed, views>>

\* The rest of the handler, under the lock of killed_sessions: broadcast every
\* event, look each one's session up, answer 202.
Finish(r) ==
  /\ reqs[r].st = "stored"
  /\ bus' = bus \o reqs[r].events
  /\ origin' = origin \o Places(r)
  /\ Answered(r, 202, MustKill(reqs[r].events))
  /\ UNCHANGED <<rows, killed, views>>

\* POST /api/v1/sessions/:id/kill
kill_session(s) ==
  /\ killed' = killed \cup {s}
  /\ UNCHANGED <<rows, reqs, bus, origin, views>>
--------------------------------------------------------------------------------
(* GET /api/v1/sessions/:id/live: live_session_sse_handler *)

\* insert_batch has returned Ok for it.
Stored(r) == reqs[r].st = "stored" \/ reqs[r].status = 202

Subscribe(v, s) ==
  /\ ~views[v].on
  /\ views' = [views EXCEPT ![v] =
                 [NoView EXCEPT !.on = TRUE, !.sid = s, !.at = Len(bus),
                                !.before = {r \in RequestId : Stored(r)}]]
  /\ UNCHANGED <<rows, reqs, killed, bus, origin>>

\* The oldest value still in the channel is the one at Oldest + 1.
Oldest == IF Len(bus) > Capacity THEN Len(bus) - Capacity ELSE 0

\* The receiver was overtaken: it skips to the oldest value, and the Lagged
\* error is dropped by the stream's filter_map.
Lag(v) ==
  /\ views[v].on
  /\ views[v].at < Oldest
  /\ views' = [views EXCEPT ![v].at = Oldest, ![v].lagged = TRUE]
  /\ UNCHANGED <<rows, reqs, killed, bus, origin>>

\* The next value is received; an event of another session is passed over.
Deliver(v) ==
  /\ views[v].on
  /\ Oldest <= views[v].at
  /\ views[v].at < Len(bus)
  /\ LET e == bus[views[v].at + 1]
         shown == e.sid = views[v].sid
         place == origin[views[v].at + 1]
     IN  views' = [views EXCEPT ![v].at = @ + 1,
                                ![v].got = IF shown THEN Append(@, e) ELSE @,
                                ![v].seen = IF shown THEN @ \cup {place} ELSE @]
  /\ UNCHANGED <<rows, reqs, killed, bus, origin>>

\* The client closes the stream.
Unsubscribe(v) ==
  /\ views[v].on
  /\ views' = [views EXCEPT ![v] = NoView]
  /\ UNCHANGED <<rows, reqs, killed, bus, origin>>
--------------------------------------------------------------------------------
\* Restart that resumes the live streams at their old positions.
RestartKeepsViews ==
  /\ reqs' = [r \in RequestId |->
                IF reqs[r].st \in {"arrived", "stored"}
                THEN [reqs[r] EXCEPT !.st = "lost"] ELSE reqs[r]]
  /\ killed' = {}
  /\ bus' = << >> /\ origin' = << >>
  /\ UNCHANGED <<rows, views>>

\* The daemon stops and is started again: the database is all that is left.
Restart ==
  /\ reqs' = [r \in RequestId |->
                IF reqs[r].st \in {"arrived", "stored"}
                THEN [reqs[r] EXCEPT !.st = "lost"] ELSE reqs[r]]
  /\ killed' = {}
  /\ bus' = << >> /\ origin' = << >>
  /\ views' = [v \in Viewer |-> NoView]
  /\ UNCHANGED rows

Handler(r) == Refuse(r) \/ Persist(r) \/ PersistFails(r) \/ Finish(r)

LiveStream(v) == Lag(v) \/ Deliver(v) \/ Unsubscribe(v)

Next ==
  \/ \E r \in RequestId, events \in BoundedSeq(Event, MaxBatch),
        form \in {"good", "token", "body"} : Arrive(r, events, form)
  \/ \E r \in RequestId : Handler(r)
  \/ \E s \in Session : kill_session(s)
  \/ \E v \in Viewer, s \in Session : Subscribe(v, s)
  \/ \E v \in Viewer : LiveStream(v)
  \/ Restart

Spec == Init /\ [][Next]_collectorVars
--------------------------------------------------------------------------------
(* Properties *)

View ==
  [ on     : BOOLEAN,
    sid    : Stream,
    at     : Nat,
    got    : Seq(Event),
    lagged : BOOLEAN,
    seen   : SUBSET (RequestId \X Nat),
    before : SUBSET RequestId ]

Request ==
  [ st     : {"free", "arrived", "stored", "answered", "lost"},
    form   : {"good", "token", "body"},
    events : Seq(Event),
    status : {0, 202, 400, 401, 500},
    kill   : BOOLEAN ]

\* Types of the collector's state; a receiver is never ahead of the channel.
TypeOK ==
  /\ rows \in [Stream -> Seq(Event)]
  /\ reqs \in [RequestId -> Request]
  /\ killed \subseteq Session
  /\ bus \in Seq(Event)
  /\ origin \in Seq(RequestId \X Nat) /\ Len(origin) = Len(bus)
  /\ views \in [Viewer -> View]
  /\ \A v \in Viewer : views[v].at <= Len(bus)

Count(seq, e) == Number(seq, {e})

\* Where e stands in the requests answered 202.
Accepted(e) ==
  {p \in RequestId \X (1..MaxBatch) :
     /\ reqs[p[1]].status = 202
     /\ p[2] \in Positions(reqs[p[1]].events, {e})}

\* A live viewer never sees an event that is not in the store, and sees no event
\* more often than it was stored: what it shows is already durable, through
\* failed batches, lag and restarts.
LiveShowsOnlyStored ==
  \A v \in Viewer : \A e \in ToSet(views[v].got) :
    Count(views[v].got, e) <= Count(rows[views[v].sid], e)

\* A viewer that was never overtaken and has read the channel to its end has got
\* each event of its session that was stored since it subscribed and whose handler
\* has answered.  An event stored before and broadcast after, by a handler that
\* stood between the two, does not make up for one that is missing, not even when
\* it is the same event, uploaded twice.
LiveMissesNothing ==
  \A v \in Viewer :
    views[v].on /\ ~views[v].lagged /\ views[v].at = Len(bus) =>
      \A r \in RequestId \ views[v].before :
        reqs[r].status = 202 =>
          \A i \in Positions(reqs[r].events, OfSession(views[v].sid)) :
            <<r, i>> \in views[v].seen

\* Every event of a request answered 202 is in the store, from the answer on,
\* whatever happens to the daemon afterwards; an event accepted in several
\* requests is stored as often.
AcceptedIsDurable ==
  \A e \in Event : Cardinality(Accepted(e)) <= Count(rows[e.sid], e)
================================================================================
