------------------------------- MODULE Pipeline --------------------------------
(***************************************************************************)
(* One agent and the collector, joined by a network that may delay a       *)
(* request beyond the agent's timeout, lose it, or lose the answer.        *)
(*                                                                         *)
(* The uploader has at most one request it waits for; the ones it gave up  *)
(* on may still be on their way, or in a handler that waits for the Mutex  *)
(* of the store, and are processed all the same.                           *)
(***************************************************************************)
EXTENDS Naturals, Sequences, SequencesExt

CONSTANTS
  MaxEvents,        \* bound: events of the session
  BatchMaxSize,     \* batch_max_size
  Capacity,         \* of the broadcast channel
  MaxFails,         \* bound: requests that get no answer
  MaxRestarts,      \* bound: restarts of the collector
  SessionId,        \* the agent's session
  NoSession

ASSUME PipelineAssumption ==
  /\ MaxEvents \in Nat \ {0}
  /\ BatchMaxSize \in Nat \ {0}
  /\ Capacity \in Nat \ {0}
  /\ NoSession # SessionId

Session == {SessionId}
RequestId == 1..MaxEvents
Viewer == {}
Event == [kind : {"SessionInit", "KeystrokeInput", "SessionEnd"}, n : 1..MaxEvents, sid : Session]

VARIABLES
  hasUrl, hasSpool, proc, pty, sent, chan, up, batch, due, leaving, spool,
  spoolFailed, posted, acked,
  rows, reqs, killed, bus, origin, views,
  wire,      \* every request sent so far, the k-th POST at k, and where it is
  fails,     \* requests that got no answer in time
  restarts,  \* restarts of the collector
  afterKill  \* history: batches stored while the session is on the kill list

A == INSTANCE Agent
C == INSTANCE Collector WITH MaxBatch <- BatchMaxSize

agentVars == <<hasUrl, hasSpool, proc, pty, sent, chan, up, batch, due, leaving, spool,
               spoolFailed, posted, acked>>
collectorVars == <<rows, reqs, killed, bus, origin, views>>
history == <<fails, restarts, afterKill>>
vars == <<agentVars, collectorVars, wire, history>>

Init ==
  /\ A!Init
  /\ hasUrl
  /\ C!Init
  /\ wire = << >>
  /\ fails = 0
  /\ restarts = 0
  /\ afterKill = 0
--------------------------------------------------------------------------------
(* The agent on its own *)

MainThread == A!MainThread /\ UNCHANGED <<collectorVars, wire, history>>

UploaderStep ==
  /\ A!TimePasses \/ A!ReceiveEvent \/ A!ReceiveTimeout \/ A!ReceiveDisconnected
       \/ A!ClearBatch
  /\ UNCHANGED <<collectorVars, wire, history>>

(* Between the agent and the collector *)

\* The events of a batch as the request carries them.
Body == [i \in 1..Len(batch) |-> [kind |-> batch[i].kind, n |-> batch[i].n, sid |-> SessionId]]

SendRequest ==
  /\ A!Post
  /\ wire' = Append(wire, [events |-> Body, at |-> "transit"])
  /\ UNCHANGED <<collectorVars, history>>

\* The body has reached the collector, in time or not.
RequestArrives(k) ==
  /\ wire[k].at = "transit"
  /\ C!Arrive(k, wire[k].events, "good")
  /\ wire' = [wire EXCEPT ![k].at = "arrived"]
  /\ UNCHANGED <<agentVars, history>>

RequestIsLost(k) ==
  /\ wire[k].at = "transit"
  /\ wire' = [wire EXCEPT ![k].at = "lost"]
  /\ UNCHANGED <<agentVars, collectorVars, history>>

\* The request the uploader waits for is the last one it sent.
Current == Len(wire)

\* Nothing can answer the request any more.
NoAnswerPossible == wire[Current].at = "lost" \/ reqs[Current].st = "lost"

\* RequestFails: no connection, no answer within timeout_secs, or an answer that
\* does not make it back.  Only the failures of requests that could still be
\* answered are bounded.
GiveUp ==
  /\ A!RequestFails
  /\ fails < MaxFails \/ NoAnswerPossible
  /\ fails' = fails + 1
  /\ UNCHANGED <<collectorVars, wire, restarts, afterKill>>

AnswerArrives ==
  /\ up = "await"
  /\ reqs[Current].st = "answered"
  /\ \/ reqs[Current].kill /\ A!AnswerForceKill
     \/ ~reqs[Current].kill /\ reqs[Current].status = 202 /\ A!AnswerAccepted
     \/ reqs[Current].status # 202 /\ A!AnswerRejected
  /\ UNCHANGED <<collectorVars, wire, history>>

(* The collector *)

HandlerPersists(k) ==
  /\ C!Persist(k)
  /\ afterKill' = IF SessionId \in killed THEN afterKill + 1 ELSE afterKill
  /\ UNCHANGED <<agentVars, wire, fails, restarts>>

HandlerEnds(k) ==
  /\ C!PersistFails(k) \/ C!Finish(k)
  /\ UNCHANGED <<agentVars, wire, history>>

KillSession ==
  /\ SessionId \notin killed
  /\ C!kill_session(SessionId)
  /\ UNCHANGED <<agentVars, wire, history>>

\* The kill list is gone, and with it the count of what was stored under it.
RestartCollector ==
  /\ restarts < MaxRestarts
  /\ C!Restart
  /\ restarts' = restarts + 1
  /\ afterKill' = 0
  /\ UNCHANGED <<agentVars, wire, fails>>
--------------------------------------------------------------------------------
Network ==
  \/ \E k \in DOMAIN wire : RequestArrives(k) \/ RequestIsLost(k)
  \/ GiveUp
  \/ AnswerArrives

Handlers == \E k \in DOMAIN wire : HandlerPersists(k) \/ HandlerEnds(k)

Next ==
  \/ MainThread
  \/ UploaderStep
  \/ SendRequest
  \/ Network
  \/ Handlers
  \/ KillSession
  \/ RestartCollector

Spec == Init /\ [][Next]_vars

\* As in Agent for the agent's threads and the clock; a request arrives or is
\* lost, handlers run to their end, and an answer arrives or the timeout strikes.
\* Nothing makes the user type or leave, the operator kill or the daemon restart.
Fairness ==
  /\ WF_vars(A!TimePasses /\ UNCHANGED <<collectorVars, wire, history>>)
  /\ WF_vars(UploaderStep /\ ~A!TimePasses)
  /\ WF_vars(SendRequest)
  /\ WF_vars(A!ExitProcess /\ UNCHANGED <<collectorVars, wire, history>>)
  /\ WF_vars(\E k \in DOMAIN wire : RequestArrives(k) \/ RequestIsLost(k))
  /\ WF_vars(Handlers)
  /\ WF_vars(AnswerArrives \/ GiveUp)

FairSpec == Spec /\ Fairness
--------------------------------------------------------------------------------
(* Properties *)

Stored == rows[SessionId]

StoredNumbers == { Stored[i].n : i \in 1..Len(Stored) }
Numbers(events) == { e.n : e \in ToSet(events) }

\* What the agent holds an answer for is stored, in the order in which it
\* happened, and stays stored when the collector restarts, although other batches
\* may have been stored late and out of order around it.
AckedIsStored ==
  /\ Numbers(acked) \subseteq StoredNumbers
  /\ \A i, j \in DOMAIN Stored :
       i < j /\ {Stored[i].n, Stored[j].n} \subseteq Numbers(acked) => Stored[i].n < Stored[j].n

\* No event is stored twice: a batch whose answer was lost is not sent again, so
\* that a request processed late cannot be a second copy.
StoredOnce == \A i, j \in 1..Len(Stored) : Stored[i].n = Stored[j].n => i = j

\* A session whose SessionInit has not been stored has nothing stored: when the
\* first batch is lost, every later one is refused.
NothingWithoutInit == Stored # << >> => 1 \in StoredNumbers

\* A session that left through exit, with a spool it could write, is complete
\* between the store and the spool; the two overlap only where an answer was lost.
CompleteAtExit ==
  proc = "exited" /\ hasSpool /\ ~spoolFailed =>
    /\ StoredNumbers \cup Numbers(spool) = 1..sent
    /\ fails = 0 => StoredNumbers \cap Numbers(spool) = {}

\* After a session was put on the kill list the collector stores at most one more
\* of its batches, and one more for each answer the agent did not get, until it
\* is restarted and forgets.
KillStopsSession == SessionId \in killed => afterKill <= 1 + fails

\* Every recorded event of a session with a working spool is stored or spooled,
\* or the session's process ends; a request that is processed too late, refused
\* or lost with the daemon makes no exception.
EventsSettle ==
  \A n \in 1..MaxEvents :
    sent >= n ~> \/ n \in StoredNumbers \cup Numbers(spool)
                 \/ proc # "alive" \/ ~hasSpool \/ spoolFailed

(* What the documentation says and the program does not do *)

\* Spooled events are flushed to the collector upon reconnection
\* (docs/DEPLOYMENT.md:186), at least while the agent goes on.
SpoolIsFlushed ==
  \A n \in 1..MaxEvents :
    n \in Numbers(spool) ~> n \in StoredNumbers \/ proc # "alive"

\* A remote kill terminates the session (README.md:32), at least while the
\* collector stays up and every request is answered with 202.
KillTerminates ==
  SessionId \in killed
    ~> \/ proc # "alive"
       \/ SessionId \notin killed \/ fails > 0 \/ \E k \in RequestId : reqs[k].status = 500
================================================================================
