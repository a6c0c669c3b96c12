---------------------------- MODULE PipelineProofs -----------------------------
(***************************************************************************)
(* Proofs about Pipeline, for every length of the session, every batch     *)
(* size, and any number of requests that get no answer and of restarts.    *)
(*                                                                         *)
(* That the agent and the collector each do what they do on their own is   *)
(* taken from AgentProofs and CollectorProofs.  What is left is what the   *)
(* network does to them: the requests are numbered batch after batch, a    *)
(* request that can still be processed has nothing in the store, and the   *)
(* requests that can are those the uploader gave up on, and the one it     *)
(* waits for.                                                              *)
(***************************************************************************)
EXTENDS Pipeline, SubsequenceProofs

AP == INSTANCE AgentProofs
CP == INSTANCE CollectorProofs WITH MaxBatch <- BatchMaxSize

\* The events up to here have been put into a request, or dropped.
Offered ==
  IF up \in {"await", "cleared"} THEN sent - Len(chan) ELSE sent - Len(chan) - Len(batch)

Sent(w) == 1..Len(w)

\* The requests that may still be persisted, those that are not persisted, and
\* those that are; of the ones lost with the daemon nothing is said.
Coming(w, q) == {k \in Sent(w) : w[k].at = "transit" \/ q[k].st = "arrived"}
Unstored(w, q) ==
  {k \in Sent(w) :
     \/ w[k].at # "arrived"
     \/ q[k].st = "arrived"
     \/ q[k].st = "answered" /\ q[k].status # 202}
Persisted(w, q) == {k \in Sent(w) : q[k].st = "stored" \/ q[k].status = 202}

Place == {"transit", "arrived", "lost"}
WireType == wire \in Seq([events : Seq(Event), at : Place])

\* A batch is flushed when it is full, and never empty.
BatchFits ==
  /\ Len(batch) <= BatchMaxSize
  /\ up = "recv" => Len(batch) < BatchMaxSize
  /\ up \in {"flush", "await"} => batch # << >>

\* Only the first event of the session is a SessionInit.
InitFirst(events) == \A i \in 1..Len(events) : events[i].kind = "SessionInit" => events[i].n = 1

InitsFirst == InitFirst(chan) /\ InitFirst(batch)

\* The events of the requests are numbered on from request to request.
NumberedUpTo(w, last) ==
  /\ \A k \in Sent(w) :
       /\ Len(w[k].events) \in 1..BatchMaxSize
       /\ InitFirst(w[k].events)
       /\ \A i \in 1..Len(w[k].events) : k <= w[k].events[i].n /\ w[k].events[i].n <= last
  /\ \A k, m \in Sent(w) : \A i \in 1..Len(w[k].events), j \in 1..Len(w[m].events) :
       k < m \/ (k = m /\ i < j) => w[k].events[i].n < w[m].events[j].n

WireNumbered == NumberedUpTo(wire, Offered)

\* The request the uploader waits for carries its batch.
Awaited == up = "await" => wire # << >> /\ wire[Current].events = Body

\* How the requests on the wire and the handlers' requests go together.
AnswersOf(w, q) ==
  \A k \in RequestId :
    /\ q[k].st = "free" => q[k].status = 0
    /\ q[k].st # "free" => k \in Sent(w) /\ w[k].at = "arrived" /\ q[k].events = w[k].events
    /\ k \in Sent(w) /\ w[k].at = "arrived" => q[k].st # "free"
    /\ q[k].status = 202 => q[k].st = "answered"
    /\ q[k].kill => q[k].status = 202

Answers == AnswersOf(wire, reqs)

\* Where the rows of the session come from.
OriginOf(w, q, stored) ==
  /\ \A i \in 1..Len(stored) : \E k \in Sent(w) : stored[i].n \in Numbers(w[k].events)
  /\ \A k \in Persisted(w, q) : Numbers(w[k].events) \subseteq Numbers(stored)
  /\ \A k \in Unstored(w, q) : Numbers(w[k].events) \cap Numbers(stored) = {}

Origin == OriginOf(wire, reqs, Stored)

\* The numbers whose place in the store is fixed: what is answered, and what an
\* answer is awaited for.
Fixed == Numbers(acked) \cup (IF up = "await" THEN Numbers(batch) ELSE {})

\* What comes before them there is older.
OrderOf(stored, accepted, fixed) ==
  /\ accepted \subseteq Numbers(stored)
  /\ \A i, j \in 1..Len(stored) : i < j /\ stored[j].n \in fixed => stored[i].n < stored[j].n

Order == OrderOf(Stored, Numbers(acked), Fixed)

\* While every request is answered, what is spooled is not stored, nor will be.
SpooledOf(w, q, stored, spooled, failed) ==
  failed = 0 =>
    /\ spooled \cap Numbers(stored) = {}
    /\ \A k \in Coming(w, q) : spooled \cap Numbers(w[k].events) = {}

Spooled == SpooledOf(wire, reqs, Stored, Numbers(spool), fails)

\* The request the uploader waits for may be counted in afterKill, or already is.
Open(w, q, mode, kills) ==
  IF /\ mode = "await"
     /\ q[Len(w)].st = "answered" => q[Len(w)].kill
     /\ q[Len(w)].st = "stored" => SessionId \in kills
  THEN 1 ELSE 0

\* A batch that is stored under the kill list is that one, or one whose answer
\* the uploader did not get.
KillsOf(w, q, mode, kills, count, failed) ==
  /\ SessionId \notin kills => count = 0
  /\ count + Cardinality(Coming(w, q)) <= failed + Open(w, q, mode, kills)

Kills == KillsOf(wire, reqs, up, killed, afterKill, fails)

Counters == fails \in Nat /\ afterKill \in Nat

\* What the network adds to AP!IInv, which holds of the agent by itself.
IInv ==
  /\ CP!TypeOK /\ WireType /\ Counters
  /\ BatchFits /\ InitsFirst /\ WireNumbered /\ Awaited /\ Answers
  /\ Origin /\ StoredOnce /\ NothingWithoutInit
  /\ Order /\ Spooled /\ Kills
--------------------------------------------------------------------------------
(* The two components *)

\* Their assumptions hold.
LEMMA Assumptions == AP!AgentAssumption /\ CP!CollectorAssumption
  BY PipelineAssumption DEF AP!AgentAssumption, CP!CollectorAssumption, Event, Session,
     CP!Stream

\* Every step is a step of the agent, or leaves it alone.
LEMMA AgentStep == [Next]_vars => [AP!Next]_AP!vars
  <1> SUFFICES ASSUME [Next]_vars PROVE [AP!Next]_AP!vars
    OBVIOUS
  <1>1. CASE MainThread
    BY <1>1 DEF MainThread, A!MainThread, A!StartSession, A!RecordInput, A!EndSession, A!ExitProcess,
      A!Die, A!Send, A!config, A!ptyVars, A!spoolVars, A!uploaderVars,
      AP!Next, AP!MainThread, AP!StartSession, AP!RecordInput, AP!EndSession, AP!ExitProcess,
      AP!Die, AP!Send, AP!config, AP!ptyVars, AP!spoolVars, AP!uploaderVars
  <1>2. CASE UploaderStep
    BY <1>2 DEF UploaderStep, A!TimePasses, A!ReceiveEvent, A!ReceiveTimeout, A!ReceiveDisconnected,
      A!ClearBatch, A!config, A!ptyVars, A!spoolVars, A!uploaderVars,
      AP!Next, AP!Uploader, AP!TimePasses, AP!ReceiveEvent, AP!ReceiveTimeout, AP!ReceiveDisconnected,
      AP!ClearBatch, AP!config, AP!ptyVars, AP!spoolVars, AP!uploaderVars
  <1>3. CASE SendRequest
    BY <1>3 DEF SendRequest, A!Post, A!config, A!ptyVars, A!spoolVars,
      AP!Next, AP!Uploader, AP!Post, AP!config, AP!ptyVars, AP!spoolVars
  <1>4. CASE GiveUp
    BY <1>4 DEF GiveUp, A!RequestFails, A!SpoolBatch, A!config, A!ptyVars, A!spoolVars,
      AP!Next, AP!Answer, AP!RequestFails, AP!SpoolBatch, AP!config, AP!ptyVars, AP!spoolVars
  <1>5. CASE AnswerArrives
    <2>1. A!AnswerForceKill \/ A!AnswerAccepted \/ A!AnswerRejected
      BY <1>5 DEF AnswerArrives
    <2> QED BY <2>1 DEF A!AnswerForceKill, A!AnswerAccepted, A!AnswerRejected,
      A!SpoolBatch, A!config, A!ptyVars, A!spoolVars, A!uploaderVars,
      AP!Next, AP!Answer, AP!AnswerForceKill, AP!AnswerAccepted, AP!AnswerRejected, AP!SpoolBatch,
      AP!config, AP!ptyVars, AP!spoolVars, AP!uploaderVars
  <1>6. ASSUME UNCHANGED agentVars
        PROVE  [AP!Next]_AP!vars
    BY <1>6 DEF agentVars, AP!vars, AP!config, AP!ptyVars, AP!spoolVars, AP!uploaderVars
  <1>7. CASE Handlers
    BY <1>6, <1>7 DEF Handlers, HandlerPersists, HandlerEnds
  <1>8. CASE \E k \in DOMAIN wire : RequestArrives(k) \/ RequestIsLost(k)
    BY <1>6, <1>8 DEF RequestArrives, RequestIsLost
  <1>9. CASE KillSession \/ RestartCollector
    BY <1>6, <1>9 DEF KillSession, RestartCollector
  <1>10. CASE UNCHANGED vars
    BY <1>6, <1>10 DEF vars
  <1> QED BY <1>1, <1>2, <1>3, <1>4, <1>5, <1>7, <1>8, <1>9, <1>10 DEF Next, Network

\* The agent of the pipeline is an agent: what is proved of Agent holds here.
THEOREM AgentIsImplemented == Spec => AP!Spec
  <1>1. Init => AP!Init
    BY DEF Init, A!Init, AP!Init
  <1> QED BY <1>1, AgentStep, PTL DEF Spec, AP!Spec

\* What is proved of the agent alone holds of it here.
THEOREM AgentInvariant == Spec => []AP!IInv
  BY Assumptions, AP!Invariant, AgentIsImplemented, PTL
--------------------------------------------------------------------------------
(* What is known of the agent *)

\* Its lists, and their numbers.
LEMMA AgentFacts ==
  ASSUME AP!IInv
  PROVE  /\ sent \in Nat /\ sent <= MaxEvents
         /\ chan \in Seq(A!Emission) /\ batch \in Seq(A!Emission)
         /\ acked \in Seq(A!Emission) /\ spool \in Seq(A!Emission)
         /\ Len(chan) \in Nat /\ Len(batch) \in Nat /\ Len(chan) + Len(batch) <= sent
         /\ Offered \in Nat /\ Offered <= sent
         /\ pty = "start" => sent = 0
  <1>1. /\ sent \in 0..MaxEvents
        /\ chan \in Seq(A!Emission) /\ batch \in Seq(A!Emission)
        /\ acked \in Seq(A!Emission) /\ spool \in Seq(A!Emission)
    BY Zenon DEF AP!IInv, AP!TypeOK, A!Emission, AP!Emission
  <1>2. Len(chan) \in Nat /\ Len(batch) \in Nat /\ sent \in Nat /\ sent <= MaxEvents
    BY <1>1, LenProperties, PipelineAssumption
  <1>3. Len(batch) <= sent - Len(chan) /\ Len(chan) <= sent /\ (pty = "start" => sent = 0)
    BY DEF AP!IInv, AP!Numbered, AP!Received
  <1>4. Offered \in Nat /\ Offered <= sent
    BY <1>2, <1>3 DEF Offered
  <1> QED BY <1>1, <1>2, <1>3, <1>4

\* The batch is numbered up to what is offered when it has been, or from there.
LEMMA BatchFacts ==
  ASSUME AP!IInv
  PROVE  /\ up \in {"await", "cleared"} =>
              \A i \in 1..Len(batch) : batch[i].n = Offered - Len(batch) + i
         /\ up \notin {"await", "cleared"} =>
              \A i \in 1..Len(batch) : batch[i].n = Offered + i
  <1>1. \A i \in 1..Len(batch) : batch[i].n = sent - Len(chan) - Len(batch) + i
    BY DEF AP!IInv, AP!Numbered, AP!Consecutive, AP!BeforeBatch, AP!Received
  <1> QED BY <1>1, AgentFacts DEF Offered

\* The numbers of a list, by their places.
LEMMA NumbersAt ==
  ASSUME NEW S, NEW events \in Seq(S), NEW x
  PROVE  x \in Numbers(events) <=> \E i \in 1..Len(events) : events[i].n = x
  BY DEF Numbers, ToSet

\* What is answered and what is spooled was offered before the batch, while the
\* batch is awaiting its answer or has not been flushed.
LEMMA SettledFacts ==
  ASSUME AP!IInv
  PROVE  /\ \A x \in Numbers(acked) \cup Numbers(spool) : x \in 1..Offered
         /\ up = "await" => \A x \in Numbers(acked) \cup Numbers(spool) : x <= Offered - Len(batch)
  <1>1. AP!Numbers(acked) \subseteq 1..AP!Settled /\ AP!Numbers(spool) \subseteq 1..AP!Settled
    BY DEF AP!IInv, AP!Accounts
  <1>2. /\ \A x \in Numbers(acked) : x \in AP!Numbers(acked)
        /\ \A x \in Numbers(spool) : x \in AP!Numbers(spool)
    BY AgentFacts, NumbersAt DEF AP!Numbers
  <1>3. /\ AP!Settled \in Int /\ AP!Settled <= Offered
        /\ up = "await" => AP!Settled = Offered - Len(batch)
    BY AgentFacts DEF AP!Settled, AP!Received, AP!BeforeBatch, Offered
  <1> QED BY <1>1, <1>2, <1>3, AgentFacts
--------------------------------------------------------------------------------
(* The conjuncts in the next state *)

\* The conjuncts in the next state, as predicates of the next values.
LEMMA Primed ==
  /\ InitsFirst' <=> InitFirst(chan') /\ InitFirst(batch')
  /\ WireNumbered' <=> NumberedUpTo(wire', Offered')
  /\ Awaited' <=> (up' = "await" => wire' # << >> /\ wire'[Len(wire')].events = Body')
  /\ Answers' <=> AnswersOf(wire', reqs')
  /\ Stored' = rows'[SessionId]
  /\ Origin' <=> OriginOf(wire', reqs', rows'[SessionId])
  /\ Fixed' = Numbers(acked') \cup (IF up' = "await" THEN Numbers(batch') ELSE {})
  /\ Order' <=> OrderOf(rows'[SessionId], Numbers(acked'), Fixed')
  /\ Spooled' <=> SpooledOf(wire', reqs', rows'[SessionId], Numbers(spool'), fails')
  /\ Kills' <=> KillsOf(wire', reqs', up', killed', afterKill', fails')
  <1>1. InitsFirst' <=> InitFirst(chan') /\ InitFirst(batch')
    BY DEF InitsFirst, InitFirst
  <1>2. WireNumbered' <=> NumberedUpTo(wire', Offered')
    BY DEF WireNumbered, NumberedUpTo, Sent, InitFirst
  <1>3. Awaited' <=> (up' = "await" => wire' # << >> /\ wire'[Len(wire')].events = Body')
    BY DEF Awaited, Current
  <1>4. Answers' <=> AnswersOf(wire', reqs')
    BY DEF Answers, AnswersOf, Sent
  <1>5. Stored' = rows'[SessionId]
    BY DEF Stored
  <1>6. Origin' <=> OriginOf(wire', reqs', rows'[SessionId])
    BY Zenon DEF Origin, OriginOf, Stored, Sent, Persisted, Unstored, Numbers, ToSet
  <1>7. Fixed' = Numbers(acked') \cup (IF up' = "await" THEN Numbers(batch') ELSE {})
    BY Zenon DEF Fixed, Numbers, ToSet
  <1>8. Order' <=> OrderOf(rows'[SessionId], Numbers(acked'), Fixed')
    BY Zenon DEF Order, OrderOf, Stored, Numbers, ToSet
  <1>9. Spooled' <=> SpooledOf(wire', reqs', rows'[SessionId], Numbers(spool'), fails')
    BY Zenon DEF Spooled, SpooledOf, Stored, Numbers, ToSet, Coming, Sent
  <1>10. Kills' <=> KillsOf(wire', reqs', up', killed', afterKill', fails')
    BY Zenon DEF Kills, KillsOf, Coming, Open, Sent
  <1> QED BY <1>1, <1>2, <1>3, <1>4, <1>5, <1>6, <1>7, <1>8, <1>9, <1>10

\* The two ways to say which numbers are stored.
LEMMA StoredNumbersAre ==
  /\ rows[SessionId] \in Seq(Event) => StoredNumbers = Numbers(rows[SessionId])
  /\ rows'[SessionId] \in Seq(Event) => StoredNumbers' = Numbers(rows'[SessionId])
  <1>1. ASSUME NEW s \in Seq(Event)
        PROVE  {s[i].n : i \in 1..Len(s)} = Numbers(s)
    BY <1>1, NumbersAt
  <1>2. StoredNumbers' = {rows'[SessionId][i].n : i \in 1..Len(rows'[SessionId])}
    BY DEF StoredNumbers, Stored
  <1>3. StoredNumbers = {rows[SessionId][i].n : i \in 1..Len(rows[SessionId])}
    BY DEF StoredNumbers, Stored
  <1> QED BY <1>1, <1>2, <1>3

\* The types that matter of the collector's state.
LEMMA CollectorFacts ==
  ASSUME CP!TypeOK
  PROVE  /\ reqs \in [RequestId -> CP!Request]
         /\ rows[SessionId] \in Seq(Event)
         /\ Len(rows[SessionId]) \in Nat
  <1>1. reqs \in [RequestId -> CP!Request] /\ rows \in [CP!Stream -> Seq(Event)]
    BY Zenon DEF CP!TypeOK
  <1>2. SessionId \in CP!Stream
    BY DEF CP!Stream, Session
  <1>3. rows[SessionId] \in Seq(Event)
    BY <1>1, <1>2
  <1>4. Len(rows[SessionId]) \in Nat
    BY <1>3, LenProperties
  <1> QED BY <1>1, <1>3, <1>4
--------------------------------------------------------------------------------
(* The steps of the agent alone *)

\* The channel, the batch and the process change; what is offered and what is
\* awaited does not.
AgentMoves ==
  /\ UNCHANGED <<collectorVars, wire, history, acked, spool>>
  /\ Offered' = Offered
  /\ \/ UNCHANGED <<up, batch>>
     \/ up # "await" /\ up' # "await"

\* What the main thread can send, in a set of its own.
Sendable == [kind : {"SessionInit", "KeystrokeInput", "SessionEnd"}, n : Nat]

\* The main thread sends at most one event, numbered on from the last.
LEMMA MainThreadSends ==
  ASSUME AP!IInv, MainThread
  PROVE  /\ UNCHANGED <<collectorVars, wire, history, up, batch, acked, spool>>
         /\ \/ UNCHANGED <<sent, chan>>
            \/ /\ sent' = sent + 1
               /\ \E e \in Sendable : /\ chan' = Append(chan, e)
                                      /\ e.n = sent + 1
                                      /\ e.kind = "SessionInit" => pty = "start"
  <1>1. UNCHANGED <<collectorVars, wire, history>>
    BY DEF MainThread
  <1>2. A!StartSession \/ A!RecordInput \/ A!EndSession \/ A!ExitProcess \/ A!Die
    BY DEF MainThread, A!MainThread
  <1>4. CASE A!StartSession
    <2> DEFINE e == [kind |-> "SessionInit", n |-> sent + 1]
    <2>1. /\ UNCHANGED <<up, batch, acked, spool>> /\ sent' = sent + 1
          /\ chan' = Append(chan, e) /\ pty = "start"
      BY <1>4 DEF A!StartSession, A!Send, A!uploaderVars, A!spoolVars
    <2>2. e \in Sendable /\ e.n = sent + 1
      BY AgentFacts DEF Sendable
    <2> QED BY <1>1, <2>1, <2>2
  <1>5. CASE A!RecordInput
    <2> DEFINE e == [kind |-> "KeystrokeInput", n |-> sent + 1]
    <2>1. /\ UNCHANGED <<up, batch, acked, spool>> /\ sent' = sent + 1
          /\ chan' = Append(chan, e)
      BY <1>5 DEF A!RecordInput, A!Send, A!uploaderVars, A!spoolVars
    <2>2. e \in Sendable /\ e.n = sent + 1 /\ e.kind # "SessionInit"
      BY AgentFacts DEF Sendable
    <2> QED BY <1>1, <2>1, <2>2
  <1>6. CASE A!EndSession
    <2> DEFINE e == [kind |-> "SessionEnd", n |-> sent + 1]
    <2>1. /\ UNCHANGED <<up, batch, acked, spool>> /\ sent' = sent + 1
          /\ chan' = Append(chan, e)
      BY <1>6 DEF A!EndSession, A!Send, A!uploaderVars, A!spoolVars
    <2>2. e \in Sendable /\ e.n = sent + 1 /\ e.kind # "SessionInit"
      BY AgentFacts DEF Sendable
    <2> QED BY <1>1, <2>1, <2>2
  <1>7. CASE A!ExitProcess \/ A!Die
    BY <1>1, <1>7 DEF A!ExitProcess, A!Die, A!ptyVars, A!uploaderVars, A!spoolVars
  <1> QED BY <1>2, <1>4, <1>5, <1>6, <1>7

\* Only the first of its events is a SessionInit.
LEMMA MainThreadMoves ==
  ASSUME AP!IInv, MainThread, InitsFirst
  PROVE  AgentMoves /\ UNCHANGED <<up, batch>> /\ InitFirst(chan')
  <1>1. UNCHANGED <<collectorVars, wire, history, up, batch, acked, spool>>
    BY MainThreadSends
  <1>2. CASE UNCHANGED <<sent, chan>>
    BY <1>1, <1>2 DEF AgentMoves, Offered, InitsFirst
  <1>3. CASE ~UNCHANGED <<sent, chan>>
    <2>1. sent' = sent + 1
      BY <1>3, MainThreadSends
    <2>2. PICK e \in Sendable : /\ chan' = Append(chan, e)
                                /\ e.n = sent + 1
                                /\ e.kind = "SessionInit" => pty = "start"
      BY <1>3, MainThreadSends
    <2>3. chan \in Seq(Sendable)
      <3>1. A!Emission \subseteq Sendable
        BY PipelineAssumption DEF A!Emission, Sendable
      <3> QED BY <3>1, AgentFacts
    <2>4. /\ Len(chan') = Len(chan) + 1 /\ Len(chan) \in Nat
          /\ \A i \in 1..Len(chan) : chan'[i] = chan[i]
          /\ chan'[Len(chan) + 1] = e
      BY <2>2, <2>3
    <2>5. sent' - Len(chan') = sent - Len(chan)
      BY <2>1, <2>4, AgentFacts
    <2>6. up' = up /\ batch' = batch
      BY <1>1
    <2>7. Offered' = Offered
      BY <2>5, <2>6 DEF Offered
    <2>8. ASSUME NEW i \in 1..Len(chan'), chan'[i].kind = "SessionInit"
          PROVE  chan'[i].n = 1
      <3>1. CASE i \in 1..Len(chan)
        BY <2>4, <2>8, <3>1 DEF InitsFirst, InitFirst
      <3>2. CASE i = Len(chan) + 1
        <4>1. chan'[i] = e
          BY <2>4, <3>2
        <4>2. sent = 0 /\ e.n = 1
          BY <2>2, <2>8, <4>1, AgentFacts
        <4> QED BY <4>1, <4>2
      <3> QED BY <2>4, <3>1, <3>2
    <2>9. InitFirst(chan')
      BY <2>8 DEF InitFirst
    <2> QED BY <1>1, <2>6, <2>7, <2>9 DEF AgentMoves
  <1> QED BY <1>2, <1>3

\* The uploader takes the events from the channel in their order, flushes a batch
\* only when there is one, and no later than when it is full.
LEMMA ReceiveEventMoves ==
  ASSUME AP!IInv, A!ReceiveEvent, UNCHANGED <<collectorVars, wire, history>>,
         InitsFirst, BatchFits
  PROVE  AgentMoves /\ InitFirst(chan') /\ InitFirst(batch') /\ BatchFits'
  <1>1. /\ up = "recv" /\ chan # << >>
        /\ batch' = Append(batch, Head(chan)) /\ chan' = Tail(chan)
        /\ up' = IF Len(batch') >= BatchMaxSize \/ due THEN "flush" ELSE "recv"
        /\ UNCHANGED <<sent, acked, spool>>
    BY DEF A!ReceiveEvent, A!ptyVars, A!spoolVars
  <1>2. chan \in Seq(A!Emission) /\ batch \in Seq(A!Emission) /\ sent \in Nat
    BY AgentFacts
  <1> DEFINE e == Head(chan)
  <1>3. e \in A!Emission /\ e = chan[1] /\ 1 \in 1..Len(chan)
    BY <1>1, <1>2
  <1>4. /\ Len(chan) \in Nat /\ Len(chan') = Len(chan) - 1
        /\ \A i \in 1..Len(chan') : chan'[i] = chan[i + 1] /\ i + 1 \in 1..Len(chan)
    BY <1>1, <1>2
  <1>5. /\ Len(batch) \in Nat /\ Len(batch') = Len(batch) + 1
        /\ \A i \in 1..Len(batch) : batch'[i] = batch[i]
        /\ batch'[Len(batch) + 1] = e
    BY <1>1, <1>2, <1>3
  <1>6. Offered' = Offered
    <2>1. up \notin {"await", "cleared"} /\ up' \notin {"await", "cleared"}
      BY <1>1
    <2>2. sent' = sent
      BY <1>1
    <2> HIDE DEF e
    <2>3. sent' - Len(chan') - Len(batch') = sent - Len(chan) - Len(batch)
      BY <1>2, <1>4, <1>5, <2>2
    <2> QED BY <2>1, <2>3 DEF Offered
  <1>7. InitFirst(chan')
    BY <1>4 DEF InitsFirst, InitFirst
  <1>8. ASSUME NEW i \in 1..Len(batch'), batch'[i].kind = "SessionInit"
        PROVE  batch'[i].n = 1
    <2>1. CASE i \in 1..Len(batch)
      BY <1>5, <1>8, <2>1 DEF InitsFirst, InitFirst
    <2>2. CASE i = Len(batch) + 1
      BY <1>3, <1>5, <1>8, <2>2 DEF InitsFirst, InitFirst
    <2> QED BY <1>5, <2>1, <2>2
  <1>9. InitFirst(batch')
    BY <1>8 DEF InitFirst
  <1>10. BatchFits'
    <2>1. BatchMaxSize \in Nat
      BY PipelineAssumption
    <2>2. Len(batch) < BatchMaxSize
      BY <1>1 DEF BatchFits
    <2>3. batch' # << >>
      BY <1>5
    <2> HIDE DEF e
    <2>4. Len(batch') <= BatchMaxSize /\ (up' = "recv" => Len(batch') < BatchMaxSize)
      BY <1>1, <1>5, <2>1, <2>2
    <2> QED BY <2>3, <2>4 DEF BatchFits
  <1>11. up # "await" /\ up' # "await"
    BY <1>1
  <1> QED BY <1>1, <1>6, <1>7, <1>9, <1>10, <1>11 DEF AgentMoves

\* What the uploader does between two requests leaves the collector alone.
LEMMA UploaderMoves ==
  ASSUME AP!IInv, UploaderStep, InitsFirst, BatchFits
  PROVE  AgentMoves /\ InitFirst(chan') /\ InitFirst(batch') /\ BatchFits'
  <1>1. UNCHANGED <<collectorVars, wire, history>>
    BY DEF UploaderStep
  <1>2. A!TimePasses \/ A!ReceiveEvent \/ A!ReceiveTimeout \/ A!ReceiveDisconnected \/ A!ClearBatch
    BY DEF UploaderStep
  <1>3. InitFirst(chan) /\ InitFirst(batch) /\ InitFirst(<< >>)
    BY DEF InitsFirst, InitFirst
  <1>4. BatchMaxSize \in Nat \ {0} /\ Len(batch) \in Nat /\ sent \in Nat /\ Len(chan) \in Nat
    BY PipelineAssumption, AgentFacts
  <1>5. CASE A!ReceiveEvent
    BY <1>1, <1>5, ReceiveEventMoves
  <1>6. CASE A!TimePasses
    <2>1. UNCHANGED <<sent, chan, up, batch, acked, spool>>
      BY <1>6 DEF A!TimePasses, A!ptyVars, A!spoolVars
    <2> QED BY <1>1, <1>3, <2>1 DEF AgentMoves, Offered, BatchFits
  <1>7. CASE A!ReceiveTimeout
    <2>1. UNCHANGED <<sent, chan, batch, acked, spool>> /\ up = "recv" /\ up' = "flush" /\ batch # << >>
      BY <1>7 DEF A!ReceiveTimeout, A!ptyVars, A!spoolVars
    <2> QED BY <1>1, <1>3, <2>1 DEF AgentMoves, Offered, BatchFits
  <1>8. CASE A!ReceiveDisconnected
    <2>1. /\ UNCHANGED <<sent, chan, batch, acked, spool>> /\ up = "recv"
          /\ up' = IF batch = << >> THEN "done" ELSE "flush"
      BY <1>8 DEF A!ReceiveDisconnected, A!ptyVars, A!spoolVars
    <2> QED BY <1>1, <1>3, <2>1 DEF AgentMoves, Offered, BatchFits
  <1>9. CASE A!ClearBatch
    <2>1. /\ UNCHANGED <<sent, chan, acked, spool>> /\ up = "cleared" /\ batch' = << >>
          /\ up' = IF leaving THEN "done" ELSE "recv"
      BY <1>9 DEF A!ClearBatch, A!ptyVars, A!spoolVars
    <2>2. up' \in {"done", "recv"}
      BY <2>1
    <2>3. Offered = sent - Len(chan) /\ Offered' = sent' - Len(chan') - Len(batch')
      BY <2>1, <2>2 DEF Offered
    <2>4. Len(batch') = 0
      BY <2>1
    <2>5. Offered' = Offered
      BY <1>4, <2>1, <2>3, <2>4
    <2>6. BatchFits'
      BY <1>4, <2>2, <2>4 DEF BatchFits
    <2> QED BY <1>1, <1>3, <2>1, <2>2, <2>5, <2>6 DEF AgentMoves
  <1> QED BY <1>2, <1>5, <1>6, <1>7, <1>8, <1>9
--------------------------------------------------------------------------------
(* What is known of the requests *)

\* An event of the session has a number.
LEMMA EventFields ==
  ASSUME NEW e \in Event
  PROVE  e.sid = SessionId /\ e.n \in 1..MaxEvents /\ e.n \in Nat
  <1>1. e.sid = SessionId /\ e.n \in 1..MaxEvents
    BY DEF Event, Session
  <1> QED BY <1>1, PipelineAssumption

\* A request and its batch.
LEMMA WireFields ==
  ASSUME WireType
  PROVE  /\ Len(wire) \in Nat
         /\ DOMAIN wire = Sent(wire)
         /\ \A k \in Sent(wire) : wire[k].events \in Seq(Event) /\ wire[k].at \in Place
  <1> DEFINE Req == [events : Seq(Event), at : Place]
  <1>1. wire \in Seq(Req)
    BY DEF WireType
  <1>2. \A r \in Req : r.events \in Seq(Event) /\ r.at \in Place
    OBVIOUS
  <1> HIDE DEF Req
  <1>3. Len(wire) \in Nat /\ DOMAIN wire = 1..Len(wire) /\ \A k \in 1..Len(wire) : wire[k] \in Req
    BY <1>1
  <1> QED BY <1>2, <1>3 DEF Sent

\* Every request has a place among those that are numbered: its events are, each
\* with a number of its own.
LEMMA WireIds ==
  ASSUME AP!IInv, WireType, WireNumbered
  PROVE  /\ Len(wire) <= MaxEvents
         /\ \A k \in Sent(wire) :
              /\ k \in RequestId
              /\ Len(wire[k].events) \in 1..BatchMaxSize
              /\ wire[k].events \in BoundedSeq(Event, BatchMaxSize)
  <1>1. /\ Offered \in Nat /\ Offered <= sent /\ sent \in Nat /\ sent <= MaxEvents
        /\ MaxEvents \in Nat /\ BatchMaxSize \in Nat
    BY AgentFacts, PipelineAssumption
  <1>2. ASSUME NEW k \in Sent(wire)
        PROVE  /\ k \in RequestId
               /\ Len(wire[k].events) \in 1..BatchMaxSize
               /\ wire[k].events \in BoundedSeq(Event, BatchMaxSize)
    <2> DEFINE events == wire[k].events
    <2>1. events \in Seq(Event) /\ Len(events) \in 1..BatchMaxSize /\ k \in Nat /\ 1 <= k
      BY WireFields DEF WireNumbered, NumberedUpTo, Sent
    <2>2. k <= events[1].n /\ events[1].n <= Offered
      BY <2>1, <1>1 DEF WireNumbered, NumberedUpTo
    <2>3. events[1].n \in Nat
      <3>1. events[1] \in Event
        BY <2>1, <1>1
      <3> QED BY <3>1, EventFields
    <2> HIDE DEF events
    <2>4. k \in RequestId
      <3> DEFINE n == events[1].n
      <3>1. k <= n /\ n <= Offered /\ n \in Nat
        BY <2>2, <2>3
      <3> HIDE DEF n
      <3> QED BY <3>1, <2>1, <1>1 DEF RequestId
    <2>5. events \in [1..Len(events) -> Event] /\ Len(events) \in 0..BatchMaxSize
      BY <2>1
    <2>6. events \in BoundedSeq(Event, BatchMaxSize)
      BY <2>5 DEF BoundedSeq, SeqOf
    <2> QED BY <2>1, <2>4, <2>6 DEF events
  <1>3. Len(wire) <= MaxEvents
    <2>1. Len(wire) \in Nat
      BY WireFields
    <2>2. CASE Len(wire) = 0
      BY <2>2, <1>1
    <2>3. CASE Len(wire) # 0
      <3>1. Len(wire) \in Sent(wire)
        BY <2>1, <2>3 DEF Sent
      <3> QED BY <3>1, <1>2, <1>1 DEF RequestId
    <2> QED BY <2>2, <2>3
  <1> QED BY <1>2, <1>3

\* A request on the wire is moved.
LEMMA WireMoves ==
  ASSUME WireType, NEW k \in Sent(wire), NEW place \in Place, wire' = [wire EXCEPT ![k].at = place]
  PROVE  /\ WireType' /\ Len(wire') = Len(wire)
         /\ wire'[k].at = place /\ wire'[k].events = wire[k].events
         /\ \A m \in Sent(wire) : m # k => wire'[m] = wire[m]
  <1> DEFINE Req == [events : Seq(Event), at : Place]
             r == [wire[k] EXCEPT !.at = place]
  <1>1. wire \in Seq(Req)
    BY DEF WireType
  <1>2. k \in 1..Len(wire) /\ wire[k] \in Req
    <2> HIDE DEF Req
    <2> QED BY <1>1 DEF Sent
  <1>3. r \in Req /\ r.at = place /\ r.events = wire[k].events
    BY <1>2
  <1>4. wire' = [wire EXCEPT ![k] = r]
    OBVIOUS
  <1> HIDE DEF Req, r
  <1>5. wire' \in Seq(Req) /\ Len(wire') = Len(wire) /\ wire'[k] = r
        /\ \A m \in 1..Len(wire) : m # k => wire'[m] = wire[m]
    BY <1>1, <1>2, <1>3, <1>4
  <1>6. WireType'
    BY <1>5 DEF WireType, Req, Place
  <1> QED BY <1>3, <1>5, <1>6 DEF Sent
--------------------------------------------------------------------------------
(* The collector of the pipeline *)

\* There is one Filter.
LEMMA SameFilter ==
  ASSUME NEW seq, NEW set
  PROVE  C!Filter(seq, set) = Filter(seq, set) /\ CP!Filter(seq, set) = Filter(seq, set)
  BY DEF Filter, C!Filter, CP!Filter

\* What a handler of the pipeline does is what a handler of Collector does.
LEMMA SameHandlers ==
  ASSUME NEW r
  PROVE  /\ C!Persist(r) <=> CP!Persist(r)
         /\ C!PersistFails(r) <=> CP!PersistFails(r)
         /\ C!Finish(r) <=> CP!Finish(r)
         /\ C!Restart <=> CP!Restart
  <1>1. C!Persist(r) <=> CP!Persist(r)
    <2>1. ASSUME NEW events PROVE C!Inserted(events) = CP!Inserted(events)
      BY SameFilter DEF C!Inserted, C!OfSession, C!Stream, CP!Inserted, CP!OfSession, CP!Stream
    <2>2. ASSUME NEW events PROVE C!ForeignKeysHold(events) <=> CP!ForeignKeysHold(events)
      BY DEF C!ForeignKeysHold, CP!ForeignKeysHold
    <2> QED BY <2>1, <2>2 DEF C!Persist, CP!Persist
  <1>2. C!PersistFails(r) <=> CP!PersistFails(r)
    BY DEF C!PersistFails, C!Answered, CP!PersistFails, CP!Answered
  <1>3. C!Finish(r) <=> CP!Finish(r)
    BY DEF C!Finish, C!Answered, C!MustKill, C!Places, CP!Finish, CP!Answered, CP!MustKill,
       CP!Places
  <1>4. C!Restart <=> CP!Restart
    BY DEF C!Restart, C!NoView, CP!Restart, CP!NoView
  <1> QED BY <1>1, <1>2, <1>3, <1>4

\* Arrive is the same action in both instances.
LEMMA SameArrival ==
  ASSUME NEW r, NEW events, NEW form
  PROVE  C!Arrive(r, events, form) <=> CP!Arrive(r, events, form)
  BY DEF C!Arrive, C!NoRequest, CP!Arrive, CP!NoRequest

\* Every step is a step of the collector, or leaves it alone.
LEMMA CollectorStep ==
  ASSUME AP!IInv, WireType, WireNumbered, [Next]_vars
  PROVE  [CP!Next]_CP!collectorVars
  <1> SUFFICES CP!Next \/ UNCHANGED collectorVars
    BY DEF collectorVars, CP!collectorVars
  <1>1. ASSUME NEW k \in DOMAIN wire PROVE k \in Sent(wire) /\ k \in RequestId
    BY WireFields, WireIds
  <1>2. CASE MainThread \/ UploaderStep \/ SendRequest \/ GiveUp \/ AnswerArrives
    BY <1>2 DEF MainThread, UploaderStep, SendRequest, GiveUp, AnswerArrives
  <1>3. ASSUME NEW k \in DOMAIN wire, RequestArrives(k)
        PROVE  CP!Next
    <2>1. CP!Arrive(k, wire[k].events, "good")
      BY <1>3, SameArrival DEF RequestArrives
    <2>2. wire[k].events \in CP!BoundedSeq(Event, BatchMaxSize)
      BY <1>1, WireIds DEF BoundedSeq, SeqOf, CP!BoundedSeq, CP!SeqOf
    <2> QED BY <1>1, <2>1, <2>2 DEF CP!Next
  <1>4. ASSUME NEW k \in DOMAIN wire, RequestIsLost(k)
        PROVE  UNCHANGED collectorVars
    BY <1>4 DEF RequestIsLost
  <1>5. ASSUME NEW k \in DOMAIN wire, HandlerPersists(k) \/ HandlerEnds(k)
        PROVE  CP!Next
    <2>1. CP!Persist(k) \/ CP!PersistFails(k) \/ CP!Finish(k)
      BY <1>5, SameHandlers DEF HandlerPersists, HandlerEnds
    <2> QED BY <1>1, <2>1 DEF CP!Next, CP!Handler
  <1>6. CASE KillSession
    <2>1. CP!kill_session(SessionId) /\ SessionId \in Session
      BY <1>6 DEF KillSession, C!kill_session, CP!kill_session, Session
    <2> QED BY <2>1 DEF CP!Next
  <1>7. CASE RestartCollector
    BY <1>7, SameHandlers DEF RestartCollector, CP!Next
  <1>8. CASE UNCHANGED vars
    BY <1>8 DEF vars
  <1> QED BY <1>2, <1>3, <1>4, <1>5, <1>6, <1>7, <1>8 DEF Next, Network, Handlers
--------------------------------------------------------------------------------
(* What the handlers do to the requests *)

\* The requests other than k are as they were, and k has its events.
Others(k) ==
  /\ \A m \in RequestId : m # k => reqs'[m] = reqs[m]
  /\ UNCHANGED killed

\* The arrival of a request: nothing is stored, and no answer given.
LEMMA ArriveEffect ==
  ASSUME CP!TypeOK, NEW k \in RequestId, NEW events, CP!Arrive(k, events, "good")
  PROVE  /\ Others(k) /\ UNCHANGED rows
         /\ reqs[k].st = "free"
         /\ reqs'[k].st = "arrived" /\ reqs'[k].events = events
         /\ reqs'[k].status = 0 /\ ~reqs'[k].kill
  <1> DEFINE q == [CP!NoRequest EXCEPT !.st = "arrived", !.events = events, !.form = "good"]
  <1>1. reqs \in [RequestId -> CP!Request]
    BY CollectorFacts
  <1>2. /\ reqs' = [reqs EXCEPT ![k] = q]
        /\ reqs[k].st = "free" /\ UNCHANGED <<rows, killed>>
    BY DEF CP!Arrive
  <1>3. q.st = "arrived" /\ q.events = events /\ q.status = 0 /\ ~q.kill
    BY DEF CP!NoRequest
  <1> HIDE DEF q
  <1>4. reqs'[k] = q /\ \A m \in RequestId : m # k => reqs'[m] = reqs[m]
    BY <1>1, <1>2
  <1> QED BY <1>2, <1>3, <1>4 DEF Others

\* A batch is inserted: the rows grow, and the request is stored but not answered.
LEMMA PersistEffect ==
  ASSUME CP!TypeOK, NEW k \in RequestId, CP!Persist(k)
  PROVE  /\ Others(k)
         /\ reqs[k].st = "arrived" /\ CP!ForeignKeysHold(reqs[k].events)
         /\ rows' = CP!Inserted(reqs[k].events)
         /\ reqs'[k].st = "stored" /\ reqs'[k].events = reqs[k].events
         /\ reqs'[k].status = reqs[k].status /\ reqs'[k].kill = reqs[k].kill
  <1> DEFINE q == [reqs[k] EXCEPT !.st = "stored"]
  <1>1. reqs \in [RequestId -> CP!Request]
    BY CollectorFacts
  <1>2. /\ reqs' = [reqs EXCEPT ![k] = q]
        /\ reqs[k].st = "arrived" /\ CP!ForeignKeysHold(reqs[k].events)
        /\ rows' = CP!Inserted(reqs[k].events) /\ UNCHANGED killed
    BY DEF CP!Persist
  <1>3. reqs[k] \in CP!Request
    BY <1>1
  <1>4. /\ q.st = "stored" /\ q.events = reqs[k].events
        /\ q.status = reqs[k].status /\ q.kill = reqs[k].kill
    BY <1>3, CP!RequestFields
  <1> HIDE DEF q
  <1>5. reqs'[k] = q /\ \A m \in RequestId : m # k => reqs'[m] = reqs[m]
    BY <1>1, <1>2
  <1> QED BY <1>2, <1>4, <1>5 DEF Others

\* A handler that answers.
LEMMA AnswerEffect ==
  ASSUME CP!TypeOK, NEW k \in RequestId, NEW code, NEW kill, CP!Answered(k, code, kill),
         UNCHANGED killed
  PROVE  /\ Others(k)
         /\ reqs'[k].st = "answered" /\ reqs'[k].events = reqs[k].events
         /\ reqs'[k].status = code /\ reqs'[k].kill = kill
  <1> DEFINE q == [reqs[k] EXCEPT !.st = "answered", !.status = code, !.kill = kill]
  <1>1. reqs \in [RequestId -> CP!Request]
    BY CollectorFacts
  <1>2. reqs' = [reqs EXCEPT ![k] = q]
    BY <1>1 DEF CP!Answered
  <1>3. reqs[k] \in CP!Request
    BY <1>1
  <1>4. q.st = "answered" /\ q.events = reqs[k].events /\ q.status = code /\ q.kill = kill
    BY <1>3, CP!RequestFields
  <1> HIDE DEF q
  <1>5. reqs'[k] = q /\ \A m \in RequestId : m # k => reqs'[m] = reqs[m]
    BY <1>1, <1>2
  <1> QED BY <1>4, <1>5 DEF Others

\* A batch that could not be inserted: the request is answered, and not with 202.
LEMMA RefusalEffect ==
  ASSUME CP!TypeOK, NEW k \in RequestId, CP!PersistFails(k)
  PROVE  /\ Others(k)
         /\ reqs'[k].st = "answered" /\ reqs'[k].events = reqs[k].events
         /\ reqs'[k].status = 500 /\ ~reqs'[k].kill
  <1> DEFINE no == FALSE
  <1>1. CP!Answered(k, 500, no) /\ killed' = killed
    BY DEF CP!PersistFails
  <1>2. ~no
    OBVIOUS
  <1> HIDE DEF no
  <1> QED BY <1>1, <1>2, AnswerEffect

\* A handler that finishes says 202, and whether the session is to be killed.
LEMMA FinishEffect ==
  ASSUME CP!TypeOK, NEW k \in RequestId, CP!Finish(k)
  PROVE  /\ Others(k) /\ UNCHANGED rows
         /\ reqs[k].st = "stored"
         /\ reqs'[k].st = "answered" /\ reqs'[k].events = reqs[k].events
         /\ reqs'[k].status = 202 /\ (reqs'[k].kill <=> CP!MustKill(reqs[k].events))
  <1> DEFINE flag == CP!MustKill(reqs[k].events)
  <1>1. /\ CP!Answered(k, 202, flag) /\ killed' = killed /\ rows' = rows
        /\ reqs[k].st = "stored"
    BY DEF CP!Finish
  <1> HIDE DEF flag
  <1>2. /\ Others(k)
        /\ reqs'[k].st = "answered" /\ reqs'[k].events = reqs[k].events
        /\ reqs'[k].status = 202 /\ reqs'[k].kill = flag
    BY <1>1, AnswerEffect
  <1> QED BY <1>1, <1>2 DEF flag

\* A restart: the list of kills is gone, and so are the handlers, but no row.
LEMMA RestartEffect ==
  ASSUME CP!TypeOK, CP!Restart
  PROVE  /\ killed' = {} /\ rows' = rows
         /\ \A k \in RequestId :
              /\ reqs'[k].st = IF reqs[k].st \in {"arrived", "stored"} THEN "lost" ELSE reqs[k].st
              /\ reqs'[k].events = reqs[k].events
              /\ reqs'[k].status = reqs[k].status /\ reqs'[k].kill = reqs[k].kill
  <1> DEFINE q(k) == IF reqs[k].st \in {"arrived", "stored"}
                     THEN [reqs[k] EXCEPT !.st = "lost"] ELSE reqs[k]
  <1>1. reqs \in [RequestId -> CP!Request]
    BY CollectorFacts
  <1>2. reqs' = [k \in RequestId |-> q(k)] /\ killed' = {} /\ rows' = rows
    BY DEF CP!Restart
  <1>3. ASSUME NEW k \in RequestId
        PROVE  /\ q(k).st = IF reqs[k].st \in {"arrived", "stored"} THEN "lost" ELSE reqs[k].st
               /\ q(k).events = reqs[k].events
               /\ q(k).status = reqs[k].status /\ q(k).kill = reqs[k].kill
    <2>1. reqs[k] \in CP!Request
      BY <1>1
    <2> QED BY <2>1, CP!RequestFields
  <1> HIDE DEF q
  <1>4. \A k \in RequestId : reqs'[k] = q(k)
    BY <1>2
  <1> QED BY <1>2, <1>3, <1>4
--------------------------------------------------------------------------------
(* What stays when the requests do *)

\* No request is sent.
SameWire ==
  /\ Len(wire') = Len(wire)
  /\ \A k \in Sent(wire) : wire'[k].events = wire[k].events

\* While no request is sent, the numbers stay where they are.
LEMMA NumberedKeeps ==
  ASSUME WireNumbered, SameWire, Offered' = Offered
  PROVE  WireNumbered'
  <1>1. Sent(wire') = Sent(wire)
    BY DEF SameWire, Sent
  <1>2. NumberedUpTo(wire', Offered)
    BY <1>1 DEF SameWire, WireNumbered, NumberedUpTo
  <1> QED BY <1>2, Primed

\* The request awaited stays the last one, and that of the batch.
LEMMA AwaitedKeeps ==
  ASSUME WireType, Awaited, SameWire, UNCHANGED <<up, batch>> \/ up' # "await"
  PROVE  Awaited'
  <1>1. CASE up' # "await"
    BY <1>1 DEF Awaited
  <1>2. CASE UNCHANGED <<up, batch>> /\ up' = "await"
    <2>1. wire # << >> /\ wire[Len(wire)].events = Body /\ Body' = Body
      BY <1>2 DEF Awaited, Current, Body
    <2>2. Len(wire) \in Nat /\ Len(wire) # 0
      BY <2>1, WireFields DEF WireType
    <2>3. Len(wire) \in Sent(wire)
      BY <2>2 DEF Sent
    <2>4. wire'[Len(wire')].events = Body' /\ Len(wire') # 0
      BY <2>1, <2>2, <2>3 DEF SameWire
    <2>5. wire' # << >>
      BY <2>4
    <2> QED BY <2>4, <2>5, Primed
  <1> QED BY <1>1, <1>2

\* The rows stay, and a request only ever leaves the ones that count.
Quiet ==
  /\ SameWire
  /\ rows' = rows
  /\ Coming(wire', reqs') \subseteq Coming(wire, reqs)
  /\ Unstored(wire', reqs') \subseteq Unstored(wire, reqs)
  /\ Persisted(wire', reqs') \subseteq Persisted(wire, reqs)

\* Where nothing is inserted, what is stored comes from the same requests.
LEMMA QuietKeeps ==
  ASSUME Quiet, Origin, StoredOnce, NothingWithoutInit
  PROVE  Origin' /\ StoredOnce' /\ NothingWithoutInit'
  <1>1. StoredOnce' /\ NothingWithoutInit'
    BY DEF Quiet, StoredOnce, NothingWithoutInit, StoredNumbers, Stored
  <1>2. Sent(wire') = Sent(wire)
    BY DEF Quiet, SameWire, Sent
  <1>3. \A k \in Sent(wire) : Numbers(wire'[k].events) = Numbers(wire[k].events)
    BY DEF Quiet, SameWire
  <1>4. rows'[SessionId] = Stored
    BY DEF Quiet, Stored
  <1>5. /\ \A k \in Unstored(wire', reqs') : k \in Unstored(wire, reqs) /\ k \in Sent(wire)
        /\ \A k \in Persisted(wire', reqs') : k \in Persisted(wire, reqs) /\ k \in Sent(wire)
    BY <1>2 DEF Quiet, Unstored, Persisted
  <1>6. OriginOf(wire', reqs', rows'[SessionId])
    BY <1>2, <1>3, <1>4, <1>5 DEF Origin, OriginOf
  <1> QED BY <1>1, <1>6, Primed

\* What is spooled and stays away from the store does so.
LEMMA SpooledKeeps ==
  ASSUME Quiet, Spooled, UNCHANGED <<spool, fails>>
  PROVE  Spooled'
  <1>1. \A k \in Coming(wire', reqs') : k \in Coming(wire, reqs) /\ k \in Sent(wire)
    BY DEF Quiet, Coming
  <1>2. \A k \in Sent(wire) : Numbers(wire'[k].events) = Numbers(wire[k].events)
    BY DEF Quiet, SameWire
  <1>3. rows'[SessionId] = Stored
    BY DEF Quiet, Stored
  <1>4. SpooledOf(wire', reqs', rows'[SessionId], Numbers(spool'), fails')
    BY <1>1, <1>2, <1>3 DEF Spooled, SpooledOf
  <1> QED BY <1>4, Primed

\* The order stays where no more is answered or awaited than before.
LEMMA OrderKeeps ==
  ASSUME Order, rows' = rows, UNCHANGED acked,
         UNCHANGED <<up, batch>> \/ up' # "await"
  PROVE  Order'
  <1>1. Fixed' \subseteq Fixed
    BY Primed DEF Fixed
  <1>2. rows'[SessionId] = Stored
    BY DEF Stored
  <1>3. OrderOf(rows'[SessionId], Numbers(acked'), Fixed')
    BY <1>1, <1>2 DEF Order, OrderOf
  <1> QED BY <1>3, Primed

\* What does not concern the agent leaves its conjuncts as they are.
LEMMA Untouched ==
  ASSUME UNCHANGED agentVars, InitsFirst, BatchFits
  PROVE  /\ Offered' = Offered /\ InitsFirst' /\ BatchFits'
         /\ UNCHANGED <<up, batch, acked, spool>>
  <1>1. UNCHANGED <<sent, chan, up, batch, acked, spool>>
    BY DEF agentVars
  <1> QED BY <1>1 DEF Offered, InitsFirst, InitFirst, BatchFits

\* The steps of the network and of the collector that leave the rows alone.
LEMMA QuietStep ==
  ASSUME IInv, UNCHANGED <<agentVars, fails>>, Quiet,
         CP!TypeOK', WireType', Counters', Answers', Kills'
  PROVE  IInv'
  <1>1. /\ WireType /\ BatchFits /\ InitsFirst /\ WireNumbered /\ Awaited
        /\ Origin /\ StoredOnce /\ NothingWithoutInit /\ Order /\ Spooled
    BY DEF IInv
  <1>2. /\ Offered' = Offered /\ InitsFirst' /\ BatchFits'
        /\ UNCHANGED <<up, batch, acked, spool>>
    BY <1>1, Untouched
  <1>3. SameWire /\ rows' = rows
    BY DEF Quiet
  <1>4. WireNumbered'
    BY <1>1, <1>2, <1>3, NumberedKeeps
  <1>5. Awaited'
    BY <1>1, <1>2, <1>3, AwaitedKeeps
  <1>6. Origin' /\ StoredOnce' /\ NothingWithoutInit'
    BY <1>1, QuietKeeps
  <1>7. Order'
    BY <1>1, <1>2, <1>3, OrderKeeps
  <1>8. Spooled'
    BY <1>1, <1>2, SpooledKeeps
  <1> QED BY <1>2, <1>4, <1>5, <1>6, <1>7, <1>8 DEF IInv

\* There are finitely many requests still to come.
LEMMA ComingFinite ==
  ASSUME NEW w, NEW q, Len(w) \in Nat
  PROVE  IsFiniteSet(Coming(w, q)) /\ Cardinality(Coming(w, q)) \in Nat
  <1>1. IsFiniteSet(1..Len(w))
    BY FS_Interval
  <1>2. Coming(w, q) \in SUBSET (1..Len(w))
    BY DEF Coming, Sent
  <1>3. IsFiniteSet(Coming(w, q))
    BY <1>1, <1>2, FS_Subset
  <1> QED BY <1>3, FS_CardinalityType

\* Fewer requests that may still be persisted, with or without one of them.
LEMMA ComingFewer ==
  ASSUME WireType, SameWire, Coming(wire', reqs') \subseteq Coming(wire, reqs)
  PROVE  /\ Cardinality(Coming(wire', reqs')) \in Nat
         /\ Cardinality(Coming(wire, reqs)) \in Nat
         /\ Cardinality(Coming(wire', reqs')) <= Cardinality(Coming(wire, reqs))
         /\ \A k \in Coming(wire, reqs) : k \notin Coming(wire', reqs') =>
              Cardinality(Coming(wire', reqs')) + 1 <= Cardinality(Coming(wire, reqs))
  <1> DEFINE old == Coming(wire, reqs)
             new == Coming(wire', reqs')
  <1>1. Len(wire) \in Nat /\ Len(wire') \in Nat
    BY WireFields DEF SameWire
  <1>2. /\ IsFiniteSet(old) /\ Cardinality(old) \in Nat
        /\ IsFiniteSet(new) /\ Cardinality(new) \in Nat
        /\ new \subseteq old
    BY <1>1, ComingFinite
  <1> HIDE DEF old, new
  <1>3. Cardinality(new) <= Cardinality(old)
    BY <1>2, FS_Subset
  <1>4. ASSUME NEW k \in old, k \notin new
        PROVE  Cardinality(new) + 1 <= Cardinality(old)
    <2>1. new \in SUBSET (old \ {k}) /\ IsFiniteSet(old \ {k}) /\ Cardinality(old \ {k}) = Cardinality(old) - 1
      BY <1>2, <1>4, FS_RemoveElement
    <2>2. Cardinality(new) <= Cardinality(old \ {k})
      BY <2>1, FS_Subset
    <2> QED BY <1>2, <2>1, <2>2
  <1> QED BY <1>2, <1>3, <1>4 DEF old, new

\* The request the uploader waits for, before and after a step.
LEMMA OpenType ==
  ASSUME NEW w, NEW q, NEW mode, NEW kills
  PROVE  Open(w, q, mode, kills) \in {0, 1} /\ (mode # "await" => Open(w, q, mode, kills) = 0)
  BY DEF Open

\* The count stays under its bound where nothing is stored and the request the
\* uploader waits for stays in it.
LEMMA KillsKeep ==
  ASSUME WireType, Counters, Kills, SameWire,
         Coming(wire', reqs') \subseteq Coming(wire, reqs),
         afterKill' = afterKill, fails' = fails, killed \subseteq killed',
         Open(wire, reqs, up, killed) <= Open(wire', reqs', up', killed')
  PROVE  Kills'
  <1> DEFINE old == Cardinality(Coming(wire, reqs))
             new == Cardinality(Coming(wire', reqs'))
             o == Open(wire, reqs, up, killed)
             p == Open(wire', reqs', up', killed')
  <1>1. old \in Nat /\ new \in Nat /\ new <= old
    BY ComingFewer
  <1>2. o \in Nat /\ p \in Nat /\ o <= p
    BY OpenType
  <1>3. SessionId \notin killed => afterKill = 0
    BY DEF Kills, KillsOf
  <1>4. afterKill + old <= fails + o
    BY DEF Kills, KillsOf
  <1>5. afterKill \in Nat /\ fails \in Nat
    BY DEF Counters
  <1> HIDE DEF old, new, o, p
  <1>6. afterKill' + new <= fails' + p
    BY <1>1, <1>2, <1>4, <1>5
  <1>7. SessionId \notin killed' => afterKill' = 0
    BY <1>3
  <1>8. KillsOf(wire', reqs', up', killed', afterKill', fails')
    BY <1>6, <1>7 DEF KillsOf, new, p
  <1> QED BY <1>8, Primed

\* The collector keeps its types, being a Collector.
LEMMA TypeKeeps ==
  ASSUME AP!IInv, IInv, [Next]_vars
  PROVE  CP!TypeOK'
  <1>1. CP!TypeOK /\ WireType /\ WireNumbered
    BY DEF IInv
  <1>2. [CP!Next]_CP!collectorVars
    BY <1>1, CollectorStep
  <1> QED BY <1>1, <1>2, CP!TypeStep, Assumptions
--------------------------------------------------------------------------------
(* The steps of the network and of the handlers *)

\* A request that arrives could be persisted before, and can be now.
LEMMA ArriveKeeps ==
  ASSUME AP!IInv, IInv, CP!TypeOK', NEW k \in DOMAIN wire, RequestArrives(k)
  PROVE  IInv'
  <1>1. CP!TypeOK /\ WireType /\ WireNumbered /\ Answers /\ Kills /\ Counters
    BY DEF IInv
  <1>2. k \in Sent(wire) /\ k \in RequestId
    BY <1>1, WireFields, WireIds
  <1>3. /\ wire[k].at = "transit" /\ CP!Arrive(k, wire[k].events, "good")
        /\ wire' = [wire EXCEPT ![k].at = "arrived"]
        /\ UNCHANGED <<agentVars, fails, restarts, afterKill>>
    BY SameArrival DEF RequestArrives, history
  <1>4. /\ Others(k) /\ UNCHANGED <<rows, killed>>
        /\ reqs[k].st = "free" /\ reqs'[k].st = "arrived" /\ reqs'[k].events = wire[k].events
        /\ reqs'[k].status = 0 /\ ~reqs'[k].kill
    BY <1>1, <1>2, <1>3, ArriveEffect DEF Others
  <1>5. \A m \in RequestId : m # k => reqs'[m] = reqs[m]
    BY <1>4 DEF Others
  <1>6. /\ WireType' /\ Len(wire') = Len(wire)
        /\ wire'[k].at = "arrived" /\ wire'[k].events = wire[k].events
        /\ \A m \in Sent(wire) : m # k => wire'[m] = wire[m]
    <2>1. "arrived" \in Place
      BY DEF Place
    <2> QED BY <1>1, <1>2, <1>3, <2>1, WireMoves
  <1>7. SameWire /\ Sent(wire') = Sent(wire) /\ \A m \in Sent(wire) : m \in RequestId
    BY <1>1, <1>6, WireIds DEF SameWire, Sent
  <1>8. Answers'
    <2>1. AnswersOf(wire', reqs')
      BY <1>1, <1>2, <1>4, <1>5, <1>6, <1>7 DEF Answers, AnswersOf
    <2> QED BY <2>1, Primed
  <1>9. Quiet
    <2>1. Coming(wire', reqs') \subseteq Coming(wire, reqs)
      BY <1>3, <1>5, <1>6, <1>7 DEF Coming
    <2>2. Unstored(wire', reqs') \subseteq Unstored(wire, reqs)
      BY <1>3, <1>5, <1>6, <1>7 DEF Unstored
    <2>3. Persisted(wire', reqs') \subseteq Persisted(wire, reqs)
      BY <1>4, <1>5, <1>7 DEF Persisted
    <2> QED BY <1>4, <1>7, <2>1, <2>2, <2>3 DEF Quiet
  <1>10. Kills'
    <2>1. up' = up
      BY <1>3 DEF agentVars
    <2>2. Open(wire, reqs, up, killed) <= Open(wire', reqs', up', killed')
      <3>1. CASE Len(wire) = k
        BY <1>4, <1>6, <2>1, <3>1 DEF Open
      <3>2. CASE Len(wire) # k
        <4>1. Len(wire) \in RequestId
          BY <1>1, <1>2, <1>7, WireFields DEF Sent
        <4>2. reqs'[Len(wire)] = reqs[Len(wire)]
          BY <1>5, <3>2, <4>1
        <4> QED BY <1>4, <1>6, <2>1, <4>2 DEF Open
      <3> QED BY <3>1, <3>2
    <2> QED BY <1>1, <1>3, <1>4, <1>7, <1>9, <2>2, KillsKeep DEF Quiet
  <1>11. Counters'
    BY <1>1, <1>3 DEF Counters
  <1> QED BY <1>3, <1>6, <1>8, <1>9, <1>10, <1>11, QuietStep

\* A request that is lost will not be persisted.
LEMMA LossKeeps ==
  ASSUME AP!IInv, IInv, CP!TypeOK', NEW k \in DOMAIN wire, RequestIsLost(k)
  PROVE  IInv'
  <1>1. CP!TypeOK /\ WireType /\ WireNumbered /\ Answers /\ Kills /\ Counters
    BY DEF IInv
  <1>2. k \in Sent(wire) /\ k \in RequestId
    BY <1>1, WireFields, WireIds
  <1>3. /\ wire[k].at = "transit" /\ wire' = [wire EXCEPT ![k].at = "lost"]
        /\ UNCHANGED <<agentVars, rows, reqs, killed, fails, restarts, afterKill>>
    BY DEF RequestIsLost, history, collectorVars
  <1>4. /\ WireType' /\ Len(wire') = Len(wire)
        /\ wire'[k].at = "lost" /\ wire'[k].events = wire[k].events
        /\ \A m \in Sent(wire) : m # k => wire'[m] = wire[m]
    <2>1. "lost" \in Place
      BY DEF Place
    <2> QED BY <1>1, <1>2, <1>3, <2>1, WireMoves
  <1>5. SameWire /\ Sent(wire') = Sent(wire)
    BY <1>4 DEF SameWire, Sent
  <1>6. Answers'
    <2>1. AnswersOf(wire', reqs')
      BY <1>1, <1>2, <1>3, <1>4, <1>5 DEF Answers, AnswersOf
    <2> QED BY <2>1, Primed
  <1>7. Quiet
    <2>1. Coming(wire', reqs') \subseteq Coming(wire, reqs)
      BY <1>3, <1>4, <1>5 DEF Coming
    <2>2. Unstored(wire', reqs') \subseteq Unstored(wire, reqs)
      BY <1>3, <1>4, <1>5 DEF Unstored
    <2>3. Persisted(wire', reqs') \subseteq Persisted(wire, reqs)
      BY <1>3, <1>5 DEF Persisted
    <2> QED BY <1>3, <1>5, <2>1, <2>2, <2>3 DEF Quiet
  <1>8. Kills'
    <2>1. up' = up
      BY <1>3 DEF agentVars
    <2>2. Open(wire', reqs', up', killed') = Open(wire, reqs, up, killed)
      BY <1>3, <1>4, <2>1 DEF Open
    <2>3. Open(wire, reqs, up, killed) <= Open(wire', reqs', up', killed')
      BY <2>2, OpenType
    <2> QED BY <1>1, <1>3, <1>5, <1>7, <2>3, KillsKeep DEF Quiet
  <1>9. Counters'
    BY <1>1, <1>3 DEF Counters
  <1> QED BY <1>3, <1>4, <1>6, <1>7, <1>8, <1>9, QuietStep

\* One request that may be persisted less is one less to be counted.
LEMMA OneLess ==
  ASSUME WireType, Counters, Kills, SameWire,
         Coming(wire', reqs') \subseteq Coming(wire, reqs),
         NEW k \in Coming(wire, reqs), k \notin Coming(wire', reqs'),
         fails' = fails, killed' = killed, afterKill' \in Nat,
         SessionId \notin killed => afterKill' = afterKill,
         afterKill' + Open(wire, reqs, up, killed)
           <= afterKill + 1 + Open(wire', reqs', up', killed')
  PROVE  Kills'
  <1> DEFINE old == Cardinality(Coming(wire, reqs))
             new == Cardinality(Coming(wire', reqs'))
             o == Open(wire, reqs, up, killed)
             p == Open(wire', reqs', up', killed')
  <1>1. old \in Nat /\ new \in Nat /\ new + 1 <= old
    BY ComingFewer
  <1>2. o \in Nat /\ p \in Nat
    BY OpenType
  <1>3. SessionId \notin killed => afterKill = 0
    BY DEF Kills, KillsOf
  <1>4. afterKill + old <= fails + o
    BY DEF Kills, KillsOf
  <1>5. afterKill \in Nat /\ fails \in Nat
    BY DEF Counters
  <1>6. afterKill' + o <= afterKill + 1 + p /\ afterKill' \in Nat /\ fails' = fails
    OBVIOUS
  <1>7. afterKill' + new <= fails' + p
    <2> DEFINE a == afterKill
               b == afterKill'
               f == fails
    <2>1. /\ a + old <= f + o /\ b + o <= a + 1 + p /\ new + 1 <= old
          /\ a \in Nat /\ b \in Nat /\ f \in Nat /\ o \in Nat /\ p \in Nat /\ old \in Nat /\ new \in Nat
      BY <1>1, <1>2, <1>4, <1>5, <1>6
    <2> HIDE DEF old, new, o, p, a, b, f
    <2>2. b + new <= f + p
      BY <2>1
    <2> QED BY <1>6, <2>2 DEF b, f
  <1> HIDE DEF old, new, o, p
  <1>8. SessionId \notin killed' => afterKill' = 0
    BY <1>3
  <1>9. KillsOf(wire', reqs', up', killed', afterKill', fails')
    BY <1>7, <1>8 DEF KillsOf, new, p
  <1> QED BY <1>9, Primed

\* A request the store refuses is answered, and will not be persisted.
LEMMA RefusalKeeps ==
  ASSUME AP!IInv, IInv, CP!TypeOK', NEW k \in DOMAIN wire, CP!PersistFails(k),
         UNCHANGED <<agentVars, wire, history>>
  PROVE  IInv'
  <1>1. CP!TypeOK /\ WireType /\ WireNumbered /\ Answers /\ Kills /\ Counters
    BY DEF IInv
  <1>2. k \in Sent(wire) /\ k \in RequestId
    BY <1>1, WireFields, WireIds
  <1>3. /\ reqs[k].st = "arrived" /\ UNCHANGED rows /\ killed' = killed /\ wire' = wire
    BY DEF CP!PersistFails
  <1>4. /\ Others(k)
        /\ reqs'[k].st = "answered" /\ reqs'[k].events = reqs[k].events
        /\ reqs'[k].status = 500 /\ ~reqs'[k].kill
    BY <1>1, <1>2, RefusalEffect
  <1>5. \A m \in RequestId : m # k => reqs'[m] = reqs[m]
    BY <1>4 DEF Others
  <1>6. SameWire /\ Sent(wire') = Sent(wire) /\ WireType' /\ \A m \in Sent(wire) : m \in RequestId
    BY <1>1, <1>3, WireIds DEF SameWire, Sent, WireType
  <1>7. Answers'
    <2>1. AnswersOf(wire', reqs')
      BY <1>1, <1>2, <1>3, <1>4, <1>5, <1>6 DEF Answers, AnswersOf
    <2> QED BY <2>1, Primed
  <1>8. Quiet
    <2>1. Coming(wire', reqs') \subseteq Coming(wire, reqs)
      BY <1>3, <1>4, <1>5, <1>6 DEF Coming
    <2>2. Unstored(wire', reqs') \subseteq Unstored(wire, reqs)
      BY <1>3, <1>4, <1>5, <1>6 DEF Unstored
    <2>3. Persisted(wire', reqs') \subseteq Persisted(wire, reqs)
      BY <1>3, <1>4, <1>5, <1>6 DEF Persisted
    <2> QED BY <1>3, <1>6, <2>1, <2>2, <2>3 DEF Quiet
  <1>9. k \in Coming(wire, reqs) /\ k \notin Coming(wire', reqs')
    <2>1. wire[k].at = "arrived"
      BY <1>1, <1>2, <1>3 DEF Answers, AnswersOf
    <2> QED BY <1>2, <1>3, <1>4, <2>1 DEF Coming
  <1>10. UNCHANGED <<fails, afterKill>>
    BY DEF history
  <1>11. Counters'
    BY <1>1, <1>10 DEF Counters
  <1>12. Kills'
    <2>1. afterKill' + Open(wire, reqs, up, killed)
            <= afterKill + 1 + Open(wire', reqs', up', killed')
      BY <1>1, <1>10, OpenType DEF Counters
    <2>2. afterKill' \in Nat
      BY <1>11 DEF Counters
    <2> QED BY <1>1, <1>3, <1>6, <1>8, <1>9, <1>10, <2>1, <2>2, OneLess DEF Quiet
  <1> QED BY <1>6, <1>7, <1>8, <1>10, <1>11, <1>12, QuietStep

\* The handler of a stored batch orders the kill when the session is on the list.
LEMMA FinishKeeps ==
  ASSUME AP!IInv, IInv, CP!TypeOK', NEW k \in DOMAIN wire, CP!Finish(k),
         UNCHANGED <<agentVars, wire, history>>
  PROVE  IInv'
  <1>1. CP!TypeOK /\ WireType /\ WireNumbered /\ Answers /\ Kills /\ Counters
    BY DEF IInv
  <1>2. k \in Sent(wire) /\ k \in RequestId
    BY <1>1, WireFields, WireIds
  <1>3. wire' = wire /\ up' = up
    BY DEF agentVars
  <1>4. /\ Others(k) /\ rows' = rows
        /\ reqs[k].st = "stored"
        /\ reqs'[k].st = "answered" /\ reqs'[k].events = reqs[k].events
        /\ reqs'[k].status = 202 /\ (reqs'[k].kill <=> CP!MustKill(reqs[k].events))
    BY <1>1, <1>2, FinishEffect
  <1>5. killed' = killed /\ \A m \in RequestId : m # k => reqs'[m] = reqs[m]
    BY <1>4 DEF Others
  <1>6. SameWire /\ Sent(wire') = Sent(wire) /\ WireType' /\ \A m \in Sent(wire) : m \in RequestId
    BY <1>1, <1>3, WireIds DEF SameWire, Sent, WireType
  <1>7. wire[k].at = "arrived" /\ reqs[k].events = wire[k].events
    BY <1>1, <1>2, <1>4 DEF Answers, AnswersOf
  <1>8. Answers'
    <2>1. AnswersOf(wire', reqs')
      BY <1>1, <1>2, <1>3, <1>4, <1>5, <1>6, <1>7 DEF Answers, AnswersOf
    <2> QED BY <2>1, Primed
  <1>9. Quiet
    <2>1. Coming(wire', reqs') \subseteq Coming(wire, reqs)
      BY <1>3, <1>4, <1>5, <1>6 DEF Coming
    <2>2. Unstored(wire', reqs') \subseteq Unstored(wire, reqs)
      BY <1>3, <1>4, <1>5, <1>6, <1>7 DEF Unstored
    <2>3. Persisted(wire', reqs') \subseteq Persisted(wire, reqs)
      BY <1>3, <1>4, <1>5, <1>6 DEF Persisted
    <2> QED BY <1>4, <1>6, <2>1, <2>2, <2>3 DEF Quiet
  <1>10. UNCHANGED <<fails, afterKill>>
    BY DEF history
  <1>11. Counters'
    BY <1>1, <1>10 DEF Counters
  <1>12. SessionId \in killed => reqs'[k].kill
    <2>1. wire[k].events \in Seq(Event) /\ Len(wire[k].events) \in 1..BatchMaxSize
      BY <1>1, <1>2, WireFields, WireIds
    <2>2. 1 \in 1..Len(wire[k].events)
      BY <2>1
    <2>3. wire[k].events[1].sid = SessionId
      <3>1. wire[k].events[1] \in Event
        BY <2>1, <2>2
      <3> QED BY <3>1, EventFields
    <2> QED BY <1>4, <1>7, <2>2, <2>3 DEF CP!MustKill
  <1>13. Kills'
    <2>1. Open(wire, reqs, up, killed) <= Open(wire', reqs', up', killed')
      <3>1. CASE Len(wire) = k
        BY <1>3, <1>4, <1>5, <1>12, <3>1 DEF Open
      <3>2. CASE Len(wire) # k
        <4>1. Len(wire) \in RequestId
          BY <1>1, <1>2, <1>6, WireFields DEF Sent
        <4>2. reqs'[Len(wire)] = reqs[Len(wire)]
          BY <1>5, <3>2, <4>1
        <4> QED BY <1>3, <1>5, <4>2 DEF Open
      <3> QED BY <3>1, <3>2
    <2> QED BY <1>1, <1>5, <1>6, <1>9, <1>10, <2>1, KillsKeep DEF Quiet
  <1> QED BY <1>6, <1>8, <1>9, <1>10, <1>11, <1>13, QuietStep

\* Nothing has been stored under the kill list when the session comes onto it.
LEMMA KillKeeps ==
  ASSUME AP!IInv, IInv, CP!TypeOK', KillSession
  PROVE  IInv'
  <1>1. WireType /\ Answers /\ Kills /\ Counters
    BY DEF IInv
  <1>2. /\ killed' = killed \cup {SessionId}
        /\ UNCHANGED <<rows, reqs, wire, agentVars, fails, afterKill>>
    BY DEF KillSession, C!kill_session, history
  <1>3. SameWire /\ WireType' /\ Answers' /\ Counters'
    BY <1>1, <1>2 DEF SameWire, WireType, Answers, AnswersOf, Sent, Counters
  <1>4. Quiet
    BY <1>2, <1>3 DEF Quiet
  <1>5. Kills'
    <2>1. up' = up
      BY <1>2 DEF agentVars
    <2>2. Open(wire, reqs, up, killed) <= Open(wire', reqs', up', killed')
      BY <1>2, <2>1 DEF Open
    <2> QED BY <1>1, <1>2, <1>3, <1>4, <2>2, KillsKeep DEF Quiet
  <1> QED BY <1>2, <1>3, <1>4, <1>5, QuietStep

\* A restart loses the requests in the handlers, the kill list and the count.
LEMMA RestartKeeps ==
  ASSUME AP!IInv, IInv, CP!TypeOK', RestartCollector
  PROVE  IInv'
  <1>1. CP!TypeOK /\ WireType /\ WireNumbered /\ Answers /\ Kills /\ Counters
    BY DEF IInv
  <1>2. CP!Restart /\ afterKill' = 0 /\ UNCHANGED <<agentVars, wire, fails>>
    BY SameHandlers DEF RestartCollector
  <1>3. /\ killed' = {} /\ rows' = rows
        /\ \A k \in RequestId :
             /\ reqs'[k].st = IF reqs[k].st \in {"arrived", "stored"} THEN "lost" ELSE reqs[k].st
             /\ reqs'[k].events = reqs[k].events
             /\ reqs'[k].status = reqs[k].status /\ reqs'[k].kill = reqs[k].kill
    BY <1>1, <1>2, RestartEffect
  <1>4. /\ wire' = wire /\ SameWire /\ Sent(wire') = Sent(wire) /\ WireType'
        /\ \A m \in Sent(wire) : m \in RequestId
    BY <1>1, <1>2, WireIds DEF SameWire, Sent, WireType
  <1>5. Answers'
    <2>1. AnswersOf(wire', reqs')
      BY <1>1, <1>3, <1>4 DEF Answers, AnswersOf
    <2> QED BY <2>1, Primed
  <1>6. Quiet
    <2>1. Coming(wire', reqs') \subseteq Coming(wire, reqs)
      BY <1>3, <1>4 DEF Coming
    <2>2. Unstored(wire', reqs') \subseteq Unstored(wire, reqs)
      BY <1>3, <1>4 DEF Unstored
    <2>3. Persisted(wire', reqs') \subseteq Persisted(wire, reqs)
      BY <1>3, <1>4 DEF Persisted
    <2> QED BY <1>3, <1>4, <2>1, <2>2, <2>3 DEF Quiet
  <1>7. Counters'
    BY <1>1, <1>2 DEF Counters
  <1>8. Kills'
    <2> DEFINE old == Cardinality(Coming(wire, reqs))
               new == Cardinality(Coming(wire', reqs'))
               o == Open(wire, reqs, up, killed)
               p == Open(wire', reqs', up', killed')
    <2>1. new \in Nat /\ old \in Nat /\ new <= old
      BY <1>1, <1>4, <1>6, ComingFewer DEF Quiet
    <2>2. o \in Nat /\ p \in Nat
      BY OpenType
    <2>3. o <= p
      <3>1. up' = up
        BY <1>2 DEF agentVars
      <3>2. CASE Len(wire) \in Sent(wire)
        <4>1. Len(wire) \in RequestId
          BY <1>4, <3>2
        <4> QED BY <1>3, <1>4, <3>1, <4>1 DEF Open
      <3>3. CASE Len(wire) \notin Sent(wire)
        <4>1. wire = << >>
          BY <1>1, <3>3, WireFields DEF Sent, WireType
        <4>2. up # "await"
          BY <4>1 DEF IInv, Awaited
        <4> QED BY <3>1, <4>2 DEF Open
      <3> QED BY <3>2, <3>3
    <2>4. afterKill + old <= fails + o
      BY <1>1 DEF Kills, KillsOf
    <2>5. afterKill \in Nat /\ fails \in Nat /\ fails' = fails /\ afterKill' = 0
      BY <1>1, <1>2 DEF Counters
    <2> HIDE DEF old, new, o, p
    <2>6. afterKill' + new <= fails' + p
      BY <2>1, <2>2, <2>3, <2>4, <2>5
    <2>7. KillsOf(wire', reqs', up', killed', afterKill', fails')
      BY <2>5, <2>6 DEF KillsOf, new, p
    <2> QED BY <2>7, Primed
  <1> QED BY <1>2, <1>4, <1>5, <1>6, <1>7, <1>8, QuietStep
--------------------------------------------------------------------------------
(* A batch is stored *)

\* The numbers of two requests are apart, in the order of the requests.
LEMMA NumbersApart ==
  ASSUME WireType, WireNumbered, NEW k \in Sent(wire), NEW m \in Sent(wire),
         NEW x \in Numbers(wire[k].events), NEW y \in Numbers(wire[m].events)
  PROVE  /\ x \in Nat /\ y \in Nat
         /\ k < m => x < y
         /\ x = y => k = m
  <1>1. wire[k].events \in Seq(Event) /\ wire[m].events \in Seq(Event)
    BY WireFields
  <1>2. PICK i \in 1..Len(wire[k].events) : wire[k].events[i].n = x
    BY <1>1, NumbersAt
  <1>3. PICK j \in 1..Len(wire[m].events) : wire[m].events[j].n = y
    BY <1>1, NumbersAt
  <1>4. x \in Nat /\ y \in Nat
    <2>1. wire[k].events[i] \in Event /\ wire[m].events[j] \in Event
      BY <1>1
    <2> QED BY <2>1, <1>2, <1>3, EventFields
  <1>5. k < m => x < y
    BY <1>2, <1>3 DEF WireNumbered, NumberedUpTo
  <1>6. m < k => y < x
    BY <1>2, <1>3 DEF WireNumbered, NumberedUpTo
  <1>7. k \in Nat /\ m \in Nat
    BY DEF Sent
  <1> QED BY <1>4, <1>5, <1>6, <1>7

\* The rows after a batch is stored: those before, and the events of the batch.
LEMMA PersistStores ==
  ASSUME AP!IInv, CP!TypeOK, WireType, WireNumbered, Answers,
         NEW k \in Sent(wire), CP!Persist(k)
  PROVE  /\ rows[SessionId] \in Seq(Event) /\ wire[k].events \in Seq(Event)
         /\ rows'[SessionId] = rows[SessionId] \o wire[k].events
  <1>1. k \in RequestId
    BY WireIds
  <1>2. reqs[k].st = "arrived" /\ rows' = CP!Inserted(reqs[k].events)
    BY <1>1, PersistEffect
  <1>3. reqs[k].events = wire[k].events
    BY <1>1, <1>2 DEF Answers, AnswersOf
  <1>4. rows[SessionId] \in Seq(Event) /\ wire[k].events \in Seq(Event)
    BY CollectorFacts, WireFields
  <1>5. SessionId \in CP!Stream
    BY DEF CP!Stream, Session
  <1>6. rows'[SessionId] = rows[SessionId] \o Filter(wire[k].events, CP!OfSession(SessionId))
    BY <1>2, <1>3, <1>5, SameFilter DEF CP!Inserted
  <1>7. \A i \in 1..Len(wire[k].events) : wire[k].events[i] \in CP!OfSession(SessionId)
    <2> SUFFICES ASSUME NEW i \in 1..Len(wire[k].events)
                 PROVE  wire[k].events[i] \in CP!OfSession(SessionId)
      OBVIOUS
    <2>1. wire[k].events[i] \in Event
      BY <1>4
    <2> QED BY <2>1, EventFields DEF CP!OfSession
  <1>8. Filter(wire[k].events, CP!OfSession(SessionId)) = wire[k].events
    BY <1>4, <1>7, FilterAll
  <1> QED BY <1>4, <1>6, <1>8

\* A list with another behind it, place by place and number by number.
LEMMA BehindOf ==
  ASSUME NEW S, NEW a \in Seq(S), NEW b \in Seq(S)
  PROVE  /\ Len(a) \in Nat /\ Len(b) \in Nat
         /\ \A i \in 1..Len(a \o b) :
              \/ i \in 1..Len(a) /\ (a \o b)[i] = a[i]
              \/ \E j \in 1..Len(b) : i = Len(a) + j /\ (a \o b)[i] = b[j]
         /\ Numbers(a \o b) = Numbers(a) \cup Numbers(b)
  <1>1. /\ a \o b \in Seq(S) /\ Len(a) \in Nat /\ Len(b) \in Nat
        /\ Len(a \o b) = Len(a) + Len(b)
        /\ \A i \in 1..Len(a) : (a \o b)[i] = a[i] /\ i \in 1..Len(a \o b)
        /\ \A i \in 1..Len(b) : (a \o b)[Len(a) + i] = b[i] /\ Len(a) + i \in 1..Len(a \o b)
    BY ConcatProperties, LenProperties
  <1>2. ASSUME NEW i \in 1..Len(a \o b)
        PROVE  \/ i \in 1..Len(a) /\ (a \o b)[i] = a[i]
               \/ \E j \in 1..Len(b) : i = Len(a) + j /\ (a \o b)[i] = b[j]
    <2>1. CASE i \in 1..Len(a)
      BY <1>1, <2>1
    <2>2. CASE i \notin 1..Len(a)
      <3>1. i - Len(a) \in 1..Len(b) /\ i = Len(a) + (i - Len(a))
        BY <1>1, <2>2
      <3> QED BY <1>1, <3>1
    <2> QED BY <2>1, <2>2
  <1>3. ASSUME NEW x
        PROVE  x \in Numbers(a \o b) <=> x \in Numbers(a) \/ x \in Numbers(b)
    <2>1. ASSUME x \in Numbers(a \o b) PROVE x \in Numbers(a) \/ x \in Numbers(b)
      <3>1. PICK i \in 1..Len(a \o b) : (a \o b)[i].n = x
        BY <1>1, <2>1, NumbersAt
      <3> QED BY <1>2, <3>1, NumbersAt
    <2>2. ASSUME x \in Numbers(a) PROVE x \in Numbers(a \o b)
      <3>1. PICK i \in 1..Len(a) : a[i].n = x
        BY <2>2, NumbersAt
      <3> QED BY <1>1, <3>1, NumbersAt
    <2>3. ASSUME x \in Numbers(b) PROVE x \in Numbers(a \o b)
      <3>1. PICK i \in 1..Len(b) : b[i].n = x
        BY <2>3, NumbersAt
      <3> QED BY <1>1, <3>1, NumbersAt
    <2> QED BY <2>1, <2>2, <2>3
  <1>4. Numbers(a \o b) = Numbers(a) \cup Numbers(b)
    BY <1>3
  <1> QED BY <1>1, <1>2, <1>4

\* So for the rows and the events of a batch.
LEMMA Behind ==
  ASSUME NEW a \in Seq(Event), NEW b \in Seq(Event)
  PROVE  /\ Len(a) \in Nat /\ Len(b) \in Nat
         /\ \A i \in 1..Len(a \o b) :
              \/ i \in 1..Len(a) /\ (a \o b)[i] = a[i]
              \/ \E j \in 1..Len(b) : i = Len(a) + j /\ (a \o b)[i] = b[j]
         /\ Numbers(a \o b) = Numbers(a) \cup Numbers(b)
  BY BehindOf

\* The batch leaves the ones that may be persisted, and joins those that are.
LEMMA PersistSets ==
  ASSUME AP!IInv, CP!TypeOK, WireType, WireNumbered, Answers,
         NEW k \in Sent(wire), CP!Persist(k), wire' = wire
  PROVE  /\ SameWire /\ Sent(wire') = Sent(wire) /\ Answers' /\ WireType' /\ killed' = killed
         /\ k \in Coming(wire, reqs) /\ k \in Unstored(wire, reqs)
         /\ Coming(wire', reqs') \subseteq Coming(wire, reqs) \ {k}
         /\ Unstored(wire', reqs') \subseteq Unstored(wire, reqs) \ {k}
         /\ Persisted(wire', reqs') \subseteq Persisted(wire, reqs) \cup {k}
         /\ reqs[k].st = "arrived" /\ reqs'[k].st = "stored"
         /\ \A m \in Sent(wire) : m # k => reqs'[m] = reqs[m]
  <1>1. k \in RequestId /\ \A m \in Sent(wire) : m \in RequestId
    BY WireIds
  <1>2. /\ Others(k)
        /\ reqs[k].st = "arrived"
        /\ reqs'[k].st = "stored" /\ reqs'[k].events = reqs[k].events
        /\ reqs'[k].status = reqs[k].status /\ reqs'[k].kill = reqs[k].kill
    BY <1>1, PersistEffect
  <1>3. killed' = killed /\ \A m \in RequestId : m # k => reqs'[m] = reqs[m]
    BY <1>2 DEF Others
  <1>4. SameWire /\ Sent(wire') = Sent(wire) /\ WireType'
    BY DEF SameWire, Sent, WireType
  <1>5. wire[k].at = "arrived" /\ reqs[k].events = wire[k].events /\ reqs[k].status # 202
    BY <1>1, <1>2 DEF Answers, AnswersOf
  <1>6. Answers'
    <2>1. AnswersOf(wire', reqs')
      BY <1>1, <1>2, <1>3, <1>4, <1>5 DEF Answers, AnswersOf
    <2> QED BY <2>1, Primed
  <1>7. k \in Coming(wire, reqs) /\ k \in Unstored(wire, reqs)
    BY <1>2 DEF Coming, Unstored
  <1>8. Coming(wire', reqs') \subseteq Coming(wire, reqs) \ {k}
    BY <1>1, <1>2, <1>3, <1>4, <1>5 DEF Coming
  <1>9. Unstored(wire', reqs') \subseteq Unstored(wire, reqs) \ {k}
    BY <1>1, <1>2, <1>3, <1>4, <1>5 DEF Unstored
  <1>10. Persisted(wire', reqs') \subseteq Persisted(wire, reqs) \cup {k}
    BY <1>1, <1>3, <1>4 DEF Persisted
  <1> QED BY <1>1, <1>2, <1>3, <1>4, <1>6, <1>7, <1>8, <1>9, <1>10

\* Nothing is stored twice.
LEMMA PersistOnce ==
  ASSUME AP!IInv, CP!TypeOK, WireType, WireNumbered, Answers, Origin, StoredOnce,
         NEW k \in Sent(wire), CP!Persist(k), wire' = wire
  PROVE  StoredOnce'
  <1> DEFINE a == rows[SessionId]
             b == wire[k].events
  <1>1. a \in Seq(Event) /\ b \in Seq(Event) /\ rows'[SessionId] = a \o b
    BY PersistStores
  <1>2. Numbers(b) \cap Numbers(a) = {}
    BY PersistSets DEF Origin, OriginOf, Stored
  <1>3. \A i, j \in 1..Len(a) : a[i].n = a[j].n => i = j
    BY DEF StoredOnce, Stored
  <1>4. \A i, j \in 1..Len(b) : i < j => b[i].n < b[j].n
    BY DEF WireNumbered, NumberedUpTo
  <1>5. \A i \in 1..Len(b) : b[i].n \in Nat
    <2>1. \A i \in 1..Len(b) : b[i] \in Event
      BY <1>1
    <2> QED BY <2>1, EventFields
  <1>6. /\ \A i \in 1..Len(a) : a[i].n \in Numbers(a)
        /\ \A i \in 1..Len(b) : b[i].n \in Numbers(b)
    BY <1>1, NumbersAt
  <1> HIDE DEF a, b
  <1>7. ASSUME NEW i \in 1..Len(a \o b), NEW j \in 1..Len(a \o b), (a \o b)[i].n = (a \o b)[j].n
        PROVE  i = j
    <2>1. CASE i \in 1..Len(a) /\ (a \o b)[i] = a[i] /\ j \in 1..Len(a) /\ (a \o b)[j] = a[j]
      BY <1>3, <1>7, <2>1
    <2>2. CASE \E x, y \in 1..Len(b) : /\ i = Len(a) + x /\ (a \o b)[i] = b[x]
                                      /\ j = Len(a) + y /\ (a \o b)[j] = b[y]
      <3>1. PICK x, y \in 1..Len(b) : /\ i = Len(a) + x /\ (a \o b)[i] = b[x]
                                     /\ j = Len(a) + y /\ (a \o b)[j] = b[y]
        BY <2>2
      <3>2. b[x].n = b[y].n /\ b[x].n \in Nat
        BY <1>5, <1>7, <3>1
      <3>3. x = y
        BY <1>4, <3>2
      <3> QED BY <3>1, <3>3
    <2>3. /\ \/ i \in 1..Len(a) /\ (a \o b)[i] = a[i]
             \/ \E x \in 1..Len(b) : i = Len(a) + x /\ (a \o b)[i] = b[x]
          /\ \/ j \in 1..Len(a) /\ (a \o b)[j] = a[j]
             \/ \E y \in 1..Len(b) : j = Len(a) + y /\ (a \o b)[j] = b[y]
      BY <1>1, Behind
    <2>4. \A x \in 1..Len(a), y \in 1..Len(b) : a[x].n # b[y].n
      BY <1>2, <1>6
    <2> QED BY <1>7, <2>1, <2>2, <2>3, <2>4
  <1> QED BY <1>1, <1>7 DEF StoredOnce, Stored

\* A first batch that is stored begins with the SessionInit.
LEMMA PersistInit ==
  ASSUME AP!IInv, CP!TypeOK, WireType, WireNumbered, Answers, NothingWithoutInit,
         NEW k \in Sent(wire), CP!Persist(k)
  PROVE  NothingWithoutInit'
  <1> DEFINE a == rows[SessionId]
             b == wire[k].events
  <1>1. a \in Seq(Event) /\ b \in Seq(Event) /\ rows'[SessionId] = a \o b /\ a \o b \in Seq(Event)
    BY PersistStores, ConcatProperties
  <1>2. Numbers(a \o b) = Numbers(a) \cup Numbers(b)
    BY <1>1, Behind
  <1>3. StoredNumbers' = Numbers(a \o b) /\ StoredNumbers = Numbers(a)
    BY <1>1, StoredNumbersAre
  <1>4. CASE a # << >>
    BY <1>2, <1>3, <1>4 DEF NothingWithoutInit, Stored
  <1>5. CASE a = << >>
    <2>1. k \in RequestId /\ Len(b) \in 1..BatchMaxSize
      BY WireIds
    <2>2. CP!ForeignKeysHold(b)
      BY <2>1, PersistEffect DEF Answers, AnswersOf
    <2>3. 1 \in 1..Len(b) /\ Len(b) \in Nat
      BY <2>1
    <2>4. b[1].sid = SessionId
      <3>1. b[1] \in Event
        BY <1>1, <2>3
      <3> QED BY <3>1, EventFields
    <2>5. SessionId \in Session
      BY DEF Session
    <2> HIDE DEF b
    <2>6. \E j \in 1..1 : b[j].sid = b[1].sid /\ b[j].kind = "SessionInit"
      BY <1>5, <2>2, <2>3, <2>4, <2>5 DEF CP!ForeignKeysHold
    <2>7. b[1].kind = "SessionInit"
      BY <2>6
    <2>8. b[1].n = 1
      BY <2>3, <2>7 DEF WireNumbered, NumberedUpTo, InitFirst, b
    <2>9. 1 \in Numbers(b)
      BY <1>1, <2>3, <2>8, NumbersAt
    <2> QED BY <1>2, <1>3, <2>9 DEF NothingWithoutInit
  <1> QED BY <1>4, <1>5

\* Where the rows of the session come from is still known.
LEMMA PersistOrigin ==
  ASSUME AP!IInv, CP!TypeOK, WireType, WireNumbered, Answers, Origin,
         NEW k \in Sent(wire), CP!Persist(k), wire' = wire
  PROVE  Origin'
  <1> DEFINE a == rows[SessionId]
             b == wire[k].events
  <1>1. a \in Seq(Event) /\ b \in Seq(Event) /\ rows'[SessionId] = a \o b
    BY PersistStores
  <1>2. Numbers(a \o b) = Numbers(a) \cup Numbers(b)
    BY <1>1, Behind
  <1>3. /\ Sent(wire') = Sent(wire)
        /\ Unstored(wire', reqs') \subseteq Unstored(wire, reqs) \ {k}
        /\ Persisted(wire', reqs') \subseteq Persisted(wire, reqs) \cup {k}
    BY PersistSets
  <1>4. /\ \A i \in 1..Len(a) : \E m \in Sent(wire) : a[i].n \in Numbers(wire[m].events)
        /\ \A m \in Persisted(wire, reqs) : Numbers(wire[m].events) \subseteq Numbers(a)
        /\ \A m \in Unstored(wire, reqs) : Numbers(wire[m].events) \cap Numbers(a) = {}
    BY DEF Origin, OriginOf, Stored
  <1>5. \A j \in 1..Len(b) : b[j].n \in Numbers(b)
    BY <1>1, NumbersAt
  <1>6. ASSUME NEW i \in 1..Len(a \o b)
        PROVE  \E m \in Sent(wire) : (a \o b)[i].n \in Numbers(wire[m].events)
    <2>1. \/ i \in 1..Len(a) /\ (a \o b)[i] = a[i]
          \/ \E j \in 1..Len(b) : i = Len(a) + j /\ (a \o b)[i] = b[j]
      BY <1>1, Behind
    <2>2. CASE i \in 1..Len(a) /\ (a \o b)[i] = a[i]
      BY <1>4, <2>2
    <2>3. CASE \E j \in 1..Len(b) : (a \o b)[i] = b[j]
      BY <1>5, <2>3
    <2> QED BY <2>1, <2>2, <2>3
  <1>7. ASSUME NEW m \in Unstored(wire', reqs')
        PROVE  Numbers(wire[m].events) \cap Numbers(a \o b) = {}
    <2>1. m \in Unstored(wire, reqs) /\ m # k /\ m \in Sent(wire)
      BY <1>3 DEF Unstored
    <2>2. \A x \in Numbers(wire[m].events), y \in Numbers(b) : x # y
      BY <2>1, NumbersApart
    <2>3. Numbers(wire[m].events) \cap Numbers(a) = {}
      BY <1>4, <2>1
    <2> HIDE DEF b
    <2> QED BY <1>2, <2>2, <2>3
  <1>8. ASSUME NEW m \in Persisted(wire', reqs')
        PROVE  Numbers(wire[m].events) \subseteq Numbers(a \o b)
    BY <1>2, <1>3, <1>4
  <1>9. OriginOf(wire', reqs', rows'[SessionId])
    BY <1>1, <1>3, <1>6, <1>7, <1>8 DEF OriginOf
  <1> QED BY <1>9, Primed

\* A batch that comes late does not come before what is answered.
LEMMA PersistOrder ==
  ASSUME AP!IInv, CP!TypeOK, WireType, WireNumbered, Answers, Origin, Order, Awaited,
         NEW k \in Sent(wire), CP!Persist(k), UNCHANGED <<wire, acked, up, batch>>
  PROVE  Order'
  <1> DEFINE a == rows[SessionId]
             b == wire[k].events
  <1>1. a \in Seq(Event) /\ b \in Seq(Event) /\ rows'[SessionId] = a \o b
    BY PersistStores
  <1>2. Numbers(a \o b) = Numbers(a) \cup Numbers(b)
    BY <1>1, Behind
  <1>3. Numbers(b) \cap Numbers(a) = {}
    BY PersistSets DEF Origin, OriginOf, Stored
  <1>4. /\ Numbers(acked) \subseteq Numbers(a)
        /\ \A i, j \in 1..Len(a) : i < j /\ a[j].n \in Fixed => a[i].n < a[j].n
    BY DEF Order, OrderOf, Stored
  <1>5. /\ \A i \in 1..Len(a) : a[i].n \in Numbers(a)
        /\ \A i \in 1..Len(b) : b[i].n \in Numbers(b)
    BY <1>1, NumbersAt
  \* An event of the batch whose place is fixed is one the uploader waits for.
  <1>6. ASSUME NEW j \in 1..Len(b), b[j].n \in Fixed
        PROVE  k = Len(wire)
    <2>1. b[j].n \notin Numbers(acked)
      BY <1>3, <1>4, <1>5
    <2>2. up = "await" /\ b[j].n \in Numbers(batch)
      BY <1>6, <2>1 DEF Fixed
    <2>3. wire # << >> /\ wire[Len(wire)].events = Body
      BY <2>2 DEF Awaited, Current
    <2>4. batch \in Seq(A!Emission)
      BY AgentFacts
    <2>5. PICK i \in 1..Len(batch) : batch[i].n = b[j].n
      BY <2>2, <2>4, NumbersAt
    <2>6. Len(Body) = Len(batch) /\ Body[i].n = batch[i].n
      BY <2>4, <2>5 DEF Body
    <2>7. Len(wire) \in Sent(wire)
      BY <2>3, WireFields DEF Sent, WireType
    <2>8. b[j].n \in Numbers(wire[Len(wire)].events)
      BY <2>3, <2>5, <2>6, <2>7, WireFields, NumbersAt
    <2>9. b[j].n \in Numbers(wire[k].events)
      BY <1>5
    <2> DEFINE x == b[j].n
               last == Len(wire)
    <2>10. /\ x \in Numbers(wire[k].events) /\ x \in Numbers(wire[last].events)
           /\ last \in Sent(wire)
      BY <2>7, <2>8, <2>9
    <2> HIDE DEF x, last
    <2>11. k = last
      BY <2>10, NumbersApart
    <2> QED BY <2>11 DEF last
  <1>7. ASSUME NEW i \in 1..Len(a), NEW j \in 1..Len(b), b[j].n \in Fixed
        PROVE  a[i].n < b[j].n
    <2>1. PICK m \in Sent(wire) : a[i].n \in Numbers(wire[m].events)
      BY DEF Origin, OriginOf, Stored
    <2>2. m # k
      BY <1>3, <1>5, <2>1
    <2>3. k = Len(wire) /\ Len(wire) \in Nat
      BY <1>6, <1>7, WireFields
    <2>4. m < k
      BY <2>2, <2>3 DEF Sent
    <2> QED BY <1>5, <2>1, <2>4, NumbersApart
  <1>8. \A i, j \in 1..Len(b) : i < j => b[i].n < b[j].n
    BY DEF WireNumbered, NumberedUpTo
  <1>9. ASSUME NEW i \in 1..Len(a \o b), NEW j \in 1..Len(a \o b), i < j, (a \o b)[j].n \in Fixed
        PROVE  (a \o b)[i].n < (a \o b)[j].n
    <2>1. /\ \/ i \in 1..Len(a) /\ (a \o b)[i] = a[i]
             \/ \E x \in 1..Len(b) : i = Len(a) + x /\ (a \o b)[i] = b[x]
          /\ \/ j \in 1..Len(a) /\ (a \o b)[j] = a[j]
             \/ \E y \in 1..Len(b) : j = Len(a) + y /\ (a \o b)[j] = b[y]
          /\ Len(a) \in Nat /\ Len(b) \in Nat
      BY <1>1, Behind
    <2> HIDE DEF a, b
    <2>2. CASE j \in 1..Len(a) /\ (a \o b)[j] = a[j]
      <3>1. i \in 1..Len(a) /\ (a \o b)[i] = a[i]
        BY <1>9, <2>1, <2>2
      <3> QED BY <1>4, <1>9, <2>2, <3>1
    <2>3. ASSUME NEW y \in 1..Len(b), j = Len(a) + y, (a \o b)[j] = b[y]
          PROVE  (a \o b)[i].n < (a \o b)[j].n
      <3>1. CASE i \in 1..Len(a) /\ (a \o b)[i] = a[i]
        BY <1>7, <1>9, <2>3, <3>1
      <3>2. ASSUME NEW x \in 1..Len(b), i = Len(a) + x, (a \o b)[i] = b[x]
            PROVE  (a \o b)[i].n < (a \o b)[j].n
        <4>1. x < y
          BY <1>9, <2>1, <2>3, <3>2
        <4> QED BY <1>8, <2>3, <3>2, <4>1
      <3> QED BY <2>1, <3>1, <3>2
    <2> QED BY <2>1, <2>2, <2>3
  <1>10. Fixed' = Fixed
    BY Primed DEF Fixed
  <1>11. OrderOf(rows'[SessionId], Numbers(acked'), Fixed')
    BY <1>1, <1>2, <1>4, <1>9, <1>10 DEF OrderOf
  <1> QED BY <1>11, Primed

\* A batch that is inserted was not in the spool without a failure on its account.
LEMMA PersistSpooled ==
  ASSUME AP!IInv, CP!TypeOK, WireType, WireNumbered, Answers, Spooled,
         NEW k \in Sent(wire), CP!Persist(k), UNCHANGED <<wire, spool, fails>>
  PROVE  Spooled'
  <1> DEFINE a == rows[SessionId]
             b == wire[k].events
  <1>1. a \in Seq(Event) /\ b \in Seq(Event) /\ rows'[SessionId] = a \o b
    BY PersistStores
  <1>2. Numbers(a \o b) = Numbers(a) \cup Numbers(b)
    BY <1>1, Behind
  <1>3. k \in Coming(wire, reqs) /\ Coming(wire', reqs') \subseteq Coming(wire, reqs)
    BY PersistSets
  <1>4. SpooledOf(wire', reqs', rows'[SessionId], Numbers(spool'), fails')
    BY <1>1, <1>2, <1>3 DEF Spooled, SpooledOf, Stored
  <1> QED BY <1>4, Primed

\* What is stored under the kill list is no longer to come, and is counted.
LEMMA PersistKills ==
  ASSUME AP!IInv, CP!TypeOK, WireType, WireNumbered, Answers, Counters, Kills,
         NEW k \in Sent(wire), CP!Persist(k), UNCHANGED <<wire, up, fails>>,
         afterKill' = IF SessionId \in killed THEN afterKill + 1 ELSE afterKill
  PROVE  Kills' /\ Counters'
  <1>1. /\ SameWire /\ killed' = killed
        /\ k \in Coming(wire, reqs) /\ Coming(wire', reqs') \subseteq Coming(wire, reqs) \ {k}
        /\ reqs[k].st = "arrived" /\ reqs'[k].st = "stored"
        /\ \A m \in Sent(wire) : m # k => reqs'[m] = reqs[m]
    BY PersistSets
  <1>2. /\ Coming(wire', reqs') \subseteq Coming(wire, reqs)
        /\ k \notin Coming(wire', reqs')
    BY <1>1
  <1>3. afterKill \in Nat /\ fails \in Nat /\ afterKill' \in Nat
    BY DEF Counters
  <1>4. Len(wire) \in Sent(wire)
    BY WireFields DEF Sent
  <1>5. Open(wire, reqs, up, killed) \in {0, 1} /\ Open(wire', reqs', up', killed') \in {0, 1}
    BY OpenType
  <1>6. SessionId \in killed => Open(wire, reqs, up, killed) <= Open(wire', reqs', up', killed')
    <2>1. CASE Len(wire) = k
      BY <1>1, <2>1 DEF Open
    <2>2. CASE Len(wire) # k
      <3>1. reqs'[Len(wire)] = reqs[Len(wire)]
        BY <1>1, <1>4, <2>2
      <3> QED BY <1>1, <3>1 DEF Open
    <2> QED BY <2>1, <2>2
  <1>7. afterKill' + Open(wire, reqs, up, killed)
          <= afterKill + 1 + Open(wire', reqs', up', killed')
    BY <1>3, <1>5, <1>6
  <1>8. Kills'
    BY <1>1, <1>2, <1>3, <1>7, OneLess
  <1> QED BY <1>3, <1>8 DEF Counters

\* The insertion of a batch keeps every conjunct.
LEMMA PersistKeeps ==
  ASSUME AP!IInv, IInv, CP!TypeOK', NEW k \in DOMAIN wire, HandlerPersists(k)
  PROVE  IInv'
  <1>1. /\ CP!TypeOK /\ WireType /\ Counters
        /\ BatchFits /\ InitsFirst /\ WireNumbered /\ Awaited /\ Answers
        /\ Origin /\ StoredOnce /\ NothingWithoutInit
        /\ Order /\ Spooled /\ Kills
    BY DEF IInv
  <1>2. k \in Sent(wire)
    BY <1>1, WireFields
  <1>3. /\ CP!Persist(k) /\ UNCHANGED agentVars /\ wire' = wire /\ fails' = fails
        /\ afterKill' = IF SessionId \in killed THEN afterKill + 1 ELSE afterKill
    BY SameHandlers DEF HandlerPersists
  <1>4. /\ Offered' = Offered /\ InitsFirst' /\ BatchFits'
        /\ up' = up /\ batch' = batch /\ acked' = acked /\ spool' = spool
    BY <1>1, <1>3, Untouched
  <1>5. SameWire /\ Answers' /\ WireType'
    BY <1>1, <1>2, <1>3, PersistSets
  <1>6. WireNumbered'
    BY <1>1, <1>4, <1>5, NumberedKeeps
  <1>7. Awaited'
    BY <1>1, <1>4, <1>5, AwaitedKeeps
  <1>8. StoredOnce'
    BY <1>1, <1>2, <1>3, PersistOnce
  <1>9. NothingWithoutInit'
    BY <1>1, <1>2, <1>3, PersistInit
  <1>10. Origin'
    BY <1>1, <1>2, <1>3, PersistOrigin
  <1>11. Order'
    BY <1>1, <1>2, <1>3, <1>4, PersistOrder
  <1>12. Spooled'
    BY <1>1, <1>2, <1>3, <1>4, PersistSpooled
  <1>13. Kills' /\ Counters'
    BY <1>1, <1>2, <1>3, <1>4, PersistKills
  <1> QED BY <1>4, <1>5, <1>6, <1>7, <1>8, <1>9, <1>10, <1>11, <1>12, <1>13 DEF IInv
--------------------------------------------------------------------------------
(* The steps of the agent *)

\* A step of the agent that sends nothing keeps every conjunct.
LEMMA AgentMovesKeep ==
  ASSUME IInv, CP!TypeOK', AgentMoves, InitFirst(chan'), InitFirst(batch'), BatchFits'
  PROVE  IInv'
  <1>1. /\ WireType /\ Counters /\ WireNumbered /\ Awaited /\ Answers
        /\ Origin /\ StoredOnce /\ NothingWithoutInit /\ Order /\ Spooled /\ Kills
    BY DEF IInv
  <1>2. /\ UNCHANGED <<rows, reqs, killed, wire, fails, afterKill, acked, spool>>
        /\ Offered' = Offered
        /\ UNCHANGED <<up, batch>> \/ up' # "await"
        /\ up' = up \/ (up # "await" /\ up' # "await")
    BY DEF AgentMoves, collectorVars, history
  <1>3. SameWire /\ WireType' /\ Answers' /\ Counters'
    BY <1>1, <1>2 DEF SameWire, WireType, Answers, AnswersOf, Sent, Counters
  <1>4. Quiet
    BY <1>2, <1>3 DEF Quiet
  <1>5. WireNumbered' /\ Awaited'
    BY <1>1, <1>2, <1>3, NumberedKeeps, AwaitedKeeps
  <1>6. Origin' /\ StoredOnce' /\ NothingWithoutInit'
    BY <1>1, <1>4, QuietKeeps
  <1>7. Order'
    BY <1>1, <1>2, OrderKeeps
  <1>8. Spooled'
    BY <1>1, <1>2, <1>4, SpooledKeeps
  <1>9. Kills'
    <2>1. Open(wire, reqs, up, killed) <= Open(wire', reqs', up', killed')
      BY <1>2 DEF Open
    <2> QED BY <1>1, <1>2, <1>3, <1>4, <2>1, KillsKeep DEF Quiet
  <1>10. InitsFirst'
    BY Primed
  <1> QED BY <1>3, <1>5, <1>6, <1>7, <1>8, <1>9, <1>10 DEF IInv

\* What the uploader does with an answer, or without one: the requests stay, and
\* the batch is no longer awaited.
Settles ==
  /\ up = "await" /\ up' = "cleared"
  /\ UNCHANGED <<sent, chan, batch, rows, reqs, killed, wire, afterKill>>

\* The end of a request touches only the conjuncts about what is acknowledged or spooled.
LEMMA SettlesKeep ==
  ASSUME AP!IInv, IInv, CP!TypeOK', Settles, Counters', Order', Spooled', Kills'
  PROVE  IInv'
  <1>1. /\ WireType /\ WireNumbered /\ Awaited /\ Answers /\ BatchFits /\ InitsFirst
        /\ Origin /\ StoredOnce /\ NothingWithoutInit
    BY DEF IInv
  <1>2. /\ UNCHANGED <<rows, reqs, wire, chan, batch>> /\ Offered' = Offered
        /\ up' = "cleared" /\ up' # "await"
    BY DEF Settles, Offered
  <1>3. SameWire /\ WireType' /\ Answers'
    BY <1>1, <1>2 DEF SameWire, WireType, Answers, AnswersOf, Sent
  <1>4. Quiet
    BY <1>2, <1>3 DEF Quiet
  <1>5. WireNumbered' /\ Awaited'
    BY <1>1, <1>2, <1>3, NumberedKeeps, AwaitedKeeps
  <1>6. Origin' /\ StoredOnce' /\ NothingWithoutInit'
    BY <1>1, <1>4, QuietKeeps
  <1>7. InitsFirst' /\ BatchFits'
    BY <1>1, <1>2 DEF InitsFirst, InitFirst, BatchFits
  <1> QED BY <1>3, <1>5, <1>6, <1>7 DEF IInv

\* The request the uploader waits for is the last one, and carries its batch.
LEMMA AwaitedFacts ==
  ASSUME AP!IInv, WireType, WireNumbered, Awaited, up = "await"
  PROVE  /\ Current \in Sent(wire) /\ Current \in RequestId /\ Current = Len(wire)
         /\ wire[Current].events \in Seq(Event)
         /\ Numbers(wire[Current].events) = Numbers(batch)
  <1>1. wire # << >> /\ wire[Len(wire)].events = Body /\ Current = Len(wire)
    BY DEF Awaited, Current
  <1>2. Len(wire) \in Sent(wire)
    BY <1>1, WireFields DEF Sent, WireType
  <1>3. Len(wire) \in RequestId /\ wire[Len(wire)].events \in Seq(Event)
    BY <1>2, WireIds, WireFields
  <1>4. batch \in Seq(A!Emission)
    BY AgentFacts
  <1>5. Len(Body) = Len(batch) /\ \A i \in 1..Len(batch) : Body[i].n = batch[i].n
    BY <1>4 DEF Body
  <1>6. ASSUME NEW x
        PROVE  x \in Numbers(wire[Len(wire)].events) <=> x \in Numbers(batch)
    <2>1. x \in Numbers(batch) <=> \E i \in 1..Len(batch) : batch[i].n = x
      BY <1>4, NumbersAt
    <2>2. x \in Numbers(wire[Len(wire)].events) <=> \E i \in 1..Len(Body) : Body[i].n = x
      BY <1>1, <1>3, NumbersAt
    <2> QED BY <1>5, <2>1, <2>2
  <1>7. Numbers(wire[Len(wire)].events) = Numbers(batch)
    BY <1>6
  <1> QED BY <1>1, <1>2, <1>3, <1>7

\* Once a request has had no answer, what is spooled may be stored as well.
LEMMA GiveUpKeeps ==
  ASSUME AP!IInv, IInv, CP!TypeOK', GiveUp
  PROVE  IInv'
  <1>1. WireType /\ Counters /\ Order /\ Kills
    BY DEF IInv
  <1>2. /\ Settles /\ acked' = acked /\ rows' = rows /\ fails' = fails + 1
        /\ afterKill' = afterKill /\ up = "await" /\ up' = "cleared"
        /\ UNCHANGED <<wire, reqs, killed>>
    BY DEF GiveUp, A!RequestFails, A!ptyVars, collectorVars, Settles
  <1>3. Counters'
    BY <1>1, <1>2 DEF Counters
  <1>4. Order'
    BY <1>1, <1>2, OrderKeeps
  <1>5. Spooled'
    <2>1. fails' # 0
      BY <1>1, <1>2 DEF Counters
    <2> QED BY <2>1 DEF Spooled, SpooledOf
  <1>6. Kills'
    <2> DEFINE n == Cardinality(Coming(wire, reqs))
               o == Open(wire, reqs, up, killed)
               p == Open(wire', reqs', up', killed')
    <2>1. n \in Nat
      BY <1>1, WireFields, ComingFinite
    <2>2. o \in {0, 1} /\ p = 0
      BY <1>2, OpenType
    <2>3. afterKill + n <= fails + o /\ (SessionId \notin killed => afterKill = 0)
      BY <1>1 DEF Kills, KillsOf
    <2>4. Coming(wire', reqs') = Coming(wire, reqs)
      BY <1>2
    <2>5. afterKill' \in Nat /\ afterKill \in Nat /\ fails \in Nat
      BY <1>1, <1>2 DEF Counters
    <2> HIDE DEF n, o, p
    <2>6. afterKill' + n <= fails' + p
      BY <1>2, <2>1, <2>2, <2>3, <2>5
    <2>7. KillsOf(wire', reqs', up', killed', afterKill', fails')
      BY <1>2, <2>3, <2>4, <2>6 DEF KillsOf, n, p
    <2> QED BY <2>7, Primed
  <1> QED BY <1>2, <1>3, <1>4, <1>5, <1>6, SettlesKeep

\* An answer without the order to kill closes the account of its request.
LEMMA AnswerKills ==
  ASSUME AP!IInv, IInv, Settles, fails' = fails,
         reqs[Current].st = "answered", ~reqs[Current].kill
  PROVE  Kills'
  <1>1. WireType /\ WireNumbered /\ Counters /\ Kills
    BY DEF IInv
  <1>2. UNCHANGED <<wire, reqs, killed, afterKill>>
    BY DEF Settles
  <1>3. Open(wire, reqs, up, killed) = 0
    BY DEF Open, Current
  <1>4. Open(wire, reqs, up, killed) <= Open(wire', reqs', up', killed')
    BY <1>3, OpenType
  <1>5. SameWire /\ Coming(wire', reqs') \subseteq Coming(wire, reqs)
    BY <1>2 DEF SameWire
  <1> QED BY <1>1, <1>2, <1>4, <1>5, KillsKeep

\* What is answered with 202 is stored, in its place.
LEMMA AcceptedKeeps ==
  ASSUME AP!IInv, IInv, CP!TypeOK', UNCHANGED <<collectorVars, wire, history>>,
         A!AnswerAccepted,
         reqs[Current].st = "answered", reqs[Current].status = 202, ~reqs[Current].kill
  PROVE  IInv'
  <1>1. WireType /\ WireNumbered /\ Counters /\ Order /\ Spooled /\ Awaited /\ Origin
    BY DEF IInv
  <1>2. /\ Settles /\ acked' = acked \o batch /\ rows' = rows /\ fails' = fails
        /\ afterKill' = afterKill /\ up = "await" /\ up' = "cleared" /\ spool' = spool
        /\ UNCHANGED <<wire, reqs>>
    BY DEF A!AnswerAccepted, A!ptyVars, A!spoolVars, collectorVars, history, Settles
  <1>3. Counters'
    BY <1>1, <1>2 DEF Counters
  <1>4. Kills'
    BY <1>2, AnswerKills
  <1>5. Quiet
    BY <1>2 DEF Quiet, SameWire
  <1>6. Spooled'
    BY <1>1, <1>2, <1>5, SpooledKeeps
  <1>7. Numbers(acked') = Numbers(acked) \cup Numbers(batch)
    <2>1. acked \in Seq(A!Emission) /\ batch \in Seq(A!Emission)
      BY AgentFacts
    <2>2. Numbers(acked \o batch) = Numbers(acked) \cup Numbers(batch)
      BY <2>1, BehindOf
    <2> QED BY <1>2, <2>2
  <1>8. Numbers(batch) \subseteq Numbers(Stored)
    <2>1. /\ Current \in Sent(wire)
          /\ Numbers(wire[Current].events) = Numbers(batch)
      BY <1>1, <1>2, AwaitedFacts
    <2>2. Current \in Persisted(wire, reqs)
      BY <2>1 DEF Persisted
    <2> QED BY <1>1, <2>1, <2>2 DEF Origin, OriginOf
  <1>9. Order'
    <2>1. Fixed = Numbers(acked')
      BY <1>2, <1>7 DEF Fixed
    <2>2. Fixed' = Numbers(acked')
      BY <1>2, Primed
    <2>3. rows'[SessionId] = Stored
      BY <1>2 DEF Stored
    <2>4. OrderOf(rows'[SessionId], Numbers(acked'), Fixed')
      BY <1>1, <1>7, <1>8, <2>1, <2>2, <2>3 DEF Order, OrderOf
    <2> QED BY <2>4, Primed
  <1> QED BY <1>2, <1>3, <1>4, <1>6, <1>9, SettlesKeep

\* What is answered otherwise is not stored, and goes to the spool.
LEMMA RejectedKeeps ==
  ASSUME AP!IInv, IInv, CP!TypeOK', UNCHANGED <<collectorVars, wire, history>>,
         A!AnswerRejected,
         reqs[Current].st = "answered", reqs[Current].status # 202
  PROVE  IInv'
  <1>1. WireType /\ WireNumbered /\ Counters /\ Order /\ Spooled /\ Awaited /\ Origin /\ Answers
    BY DEF IInv
  <1>2. /\ Settles /\ acked' = acked /\ rows' = rows /\ fails' = fails
        /\ afterKill' = afterKill /\ up = "await" /\ up' = "cleared"
        /\ UNCHANGED <<wire, reqs>>
        /\ spool' = spool \/ spool' = spool \o batch
    BY DEF A!AnswerRejected, A!SpoolBatch, A!ptyVars, A!spoolVars, collectorVars, history, Settles
  <1>3. Counters'
    BY <1>1, <1>2 DEF Counters
  <1>4. /\ Current \in Sent(wire) /\ Current \in RequestId /\ Current = Len(wire)
        /\ Numbers(wire[Current].events) = Numbers(batch)
    BY <1>1, <1>2, AwaitedFacts
  <1>5. Kills'
    <2>1. ~reqs[Current].kill
      BY <1>1, <1>4 DEF Answers, AnswersOf
    <2> QED BY <1>2, <2>1, AnswerKills
  <1>6. Order'
    BY <1>1, <1>2, OrderKeeps
  <1>7. Numbers(spool') \subseteq Numbers(spool) \cup Numbers(batch)
    <2>1. spool \in Seq(A!Emission) /\ batch \in Seq(A!Emission)
      BY AgentFacts
    <2>2. Numbers(spool \o batch) = Numbers(spool) \cup Numbers(batch)
      BY <2>1, BehindOf
    <2> QED BY <1>2, <2>2
  <1>8. Numbers(batch) \cap Numbers(Stored) = {}
    <2>1. Current \in Unstored(wire, reqs)
      BY <1>4 DEF Unstored
    <2> QED BY <1>1, <1>4, <2>1 DEF Origin, OriginOf
  <1>9. ASSUME NEW k \in Coming(wire, reqs)
        PROVE  Numbers(batch) \cap Numbers(wire[k].events) = {}
    <2>1. wire[Current].at = "arrived"
      BY <1>1, <1>4 DEF Answers, AnswersOf
    <2>2. k # Current /\ k \in Sent(wire)
      BY <2>1 DEF Coming
    <2>3. \A x \in Numbers(wire[Current].events), y \in Numbers(wire[k].events) : x # y
      BY <1>1, <1>4, <2>2, NumbersApart, SMTT(60)
    <2> QED BY <1>4, <2>3
  <1>10. Spooled'
    <2>1. rows'[SessionId] = Stored /\ wire' = wire /\ reqs' = reqs /\ fails' = fails
      BY <1>2 DEF Stored
    <2>2. SpooledOf(wire', reqs', rows'[SessionId], Numbers(spool'), fails')
      BY <1>1, <1>7, <1>8, <1>9, <2>1 DEF Spooled, SpooledOf
    <2> QED BY <2>2, Primed
  <1> QED BY <1>2, <1>3, <1>5, <1>6, <1>10, SettlesKeep

\* An answer, be it 202, a refusal or the kill header, keeps every conjunct.
LEMMA AnswerKeeps ==
  ASSUME AP!IInv, IInv, CP!TypeOK', AnswerArrives
  PROVE  IInv'
  <1>1. UNCHANGED <<collectorVars, wire, history>> /\ reqs[Current].st = "answered"
    BY DEF AnswerArrives
  <1>2. CASE A!AnswerForceKill
    <2>1. UNCHANGED <<sent, chan, up, batch, acked, spool>>
      BY <1>2 DEF A!AnswerForceKill, A!ptyVars, A!uploaderVars, A!spoolVars
    <2>2. AgentMoves /\ chan' = chan /\ batch' = batch /\ up' = up
      BY <1>1, <2>1 DEF AgentMoves, Offered
    <2>3. InitFirst(chan') /\ InitFirst(batch') /\ BatchFits'
      BY <2>2 DEF IInv, InitsFirst, BatchFits
    <2> QED BY <2>2, <2>3, AgentMovesKeep
  <1>3. CASE ~reqs[Current].kill /\ reqs[Current].status = 202 /\ A!AnswerAccepted
    BY <1>1, <1>3, AcceptedKeeps
  <1>4. CASE reqs[Current].status # 202 /\ A!AnswerRejected
    BY <1>1, <1>4, RejectedKeeps
  <1> QED BY <1>2, <1>3, <1>4 DEF AnswerArrives
--------------------------------------------------------------------------------
(* A batch is sent *)

\* The request, and its place: its events are those of the batch, numbered on
\* from what was offered before.
LEMMA SendFacts ==
  ASSUME AP!IInv, IInv, SendRequest
  PROVE  /\ up = "flush" /\ up' = "await"
         /\ UNCHANGED <<sent, chan, batch, acked, spool, rows, reqs, killed, fails, afterKill>>
         /\ wire' = Append(wire, [events |-> Body, at |-> "transit"])
         /\ Body \in Seq(Event) /\ Len(Body) = Len(batch) /\ Len(batch) \in 1..BatchMaxSize
         /\ \A i \in 1..Len(batch) : Body[i].n = Offered + i /\ Body[i].kind = batch[i].kind
         /\ Offered \in Nat /\ Offered' = Offered + Len(batch)
  <1>1. /\ up = "flush" /\ up' = "await"
        /\ UNCHANGED <<sent, chan, batch, acked, spool, rows, reqs, killed, fails, afterKill>>
        /\ wire' = Append(wire, [events |-> Body, at |-> "transit"])
    BY DEF SendRequest, A!Post, A!ptyVars, A!spoolVars, collectorVars, history
  <1>2. /\ batch \in Seq(A!Emission) /\ sent \in Nat /\ Len(chan) \in Nat /\ Len(batch) \in Nat
        /\ Offered \in Nat
    BY AgentFacts
  <1>3. Len(batch) \in 1..BatchMaxSize
    <2>1. batch # << >> /\ Len(batch) <= BatchMaxSize
      BY <1>1 DEF IInv, BatchFits
    <2>2. Len(batch) # 0
      BY <1>2, <2>1
    <2> QED BY <1>2, <2>1, <2>2, PipelineAssumption
  <1>4. ASSUME NEW i \in 1..Len(batch)
        PROVE  [kind |-> batch[i].kind, n |-> batch[i].n, sid |-> SessionId] \in Event
    <2>1. batch[i] \in A!Emission
      BY <1>2
    <2> QED BY <2>1 DEF A!Emission, Event, Session
  <1>5. Body \in Seq(Event) /\ Len(Body) = Len(batch)
    BY <1>2, <1>4 DEF Body
  <1>6. \A i \in 1..Len(batch) : Body[i].n = batch[i].n /\ Body[i].kind = batch[i].kind
    BY <1>2 DEF Body
  <1>7. \A i \in 1..Len(batch) : batch[i].n = Offered + i
    BY <1>1, BatchFacts
  <1>8. Offered' = Offered + Len(batch)
    BY <1>1, <1>2 DEF Offered
  <1> QED BY <1>1, <1>2, <1>3, <1>5, <1>6, <1>7, <1>8

\* The requests are those there were, and the new one.
LEMMA SendWire ==
  ASSUME AP!IInv, IInv, SendRequest
  PROVE  /\ WireType' /\ Len(wire') = Len(wire) + 1 /\ Len(wire) \in Nat
         /\ \A k \in Sent(wire) : wire'[k] = wire[k]
         /\ wire'[Len(wire) + 1].events = Body /\ wire'[Len(wire) + 1].at = "transit"
         /\ Sent(wire') = Sent(wire) \cup {Len(wire) + 1}
         /\ Len(wire) + 1 \notin Sent(wire)
  <1> DEFINE Req == [events : Seq(Event), at : Place]
             r == [events |-> Body, at |-> "transit"]
  <1>1. wire \in Seq(Req)
    BY DEF IInv, WireType
  <1>2. r \in Req /\ r.events = Body /\ r.at = "transit"
    BY SendFacts DEF Place
  <1>3. wire' = Append(wire, r)
    BY SendFacts
  <1> HIDE DEF Req, r
  <1>4. /\ wire' \in Seq(Req) /\ Len(wire') = Len(wire) + 1 /\ Len(wire) \in Nat
        /\ \A k \in 1..Len(wire) : wire'[k] = wire[k]
        /\ wire'[Len(wire) + 1] = r
    BY <1>1, <1>2, <1>3
  <1>5. WireType'
    BY <1>4 DEF WireType, Req, Place
  <1> QED BY <1>2, <1>4, <1>5 DEF Sent

\* A new request takes up the numbers where the one before it ended.
LEMMA SendNumbered ==
  ASSUME AP!IInv, IInv, SendRequest
  PROVE  WireNumbered'
  <1> DEFINE next == Len(wire) + 1
             last == Offered
             size == Len(batch)
  <1>1. /\ Body \in Seq(Event) /\ Len(Body) = size /\ size \in 1..BatchMaxSize
        /\ \A i \in 1..size : Body[i].n = last + i /\ Body[i].kind = batch[i].kind
        /\ last \in Nat /\ Offered' = last + size /\ BatchMaxSize \in Nat
    BY SendFacts, PipelineAssumption
  <1>2. /\ \A k \in Sent(wire) : wire'[k] = wire[k]
        /\ wire'[next].events = Body
        /\ Sent(wire') = Sent(wire) \cup {next} /\ next \notin Sent(wire) /\ Len(wire) \in Nat
        /\ \A k \in Sent(wire) : k < next /\ k \in Nat
        /\ next \in Nat
    BY SendWire DEF Sent
  <1>3. WireType /\ WireNumbered
    BY DEF IInv
  <1>4. /\ \A k \in Sent(wire) :
             /\ Len(wire[k].events) \in 1..BatchMaxSize
             /\ InitFirst(wire[k].events)
             /\ \A i \in 1..Len(wire[k].events) :
                  k <= wire[k].events[i].n /\ wire[k].events[i].n <= last
        /\ \A k, m \in Sent(wire) : \A i \in 1..Len(wire[k].events), j \in 1..Len(wire[m].events) :
             k < m \/ (k = m /\ i < j) => wire[k].events[i].n < wire[m].events[j].n
    BY <1>3 DEF WireNumbered, NumberedUpTo
  <1>5. \A k \in Sent(wire) : \A i \in 1..Len(wire[k].events) : wire[k].events[i].n \in Nat
    <2> SUFFICES ASSUME NEW k \in Sent(wire), NEW i \in 1..Len(wire[k].events)
                 PROVE  wire[k].events[i].n \in Nat
      OBVIOUS
    <2>1. wire[k].events \in Seq(Event)
      BY <1>3, WireFields
    <2>2. wire[k].events[i] \in Event
      BY <2>1
    <2> QED BY <2>2, EventFields
  <1>6. next <= last + 1
    <2>1. CASE Len(wire) = 0
      BY <1>1, <2>1
    <2>2. CASE Len(wire) # 0
      <3>1. Len(wire) \in Sent(wire)
        BY <1>2, <2>2 DEF Sent
      <3> DEFINE n == wire[Len(wire)].events[1].n
                 len == Len(wire)
      <3>2. 1 \in 1..Len(wire[Len(wire)].events)
        BY <1>1, <1>4, <3>1
      <3>3. len <= n /\ n <= last /\ n \in Nat /\ len \in Nat
        BY <1>2, <1>4, <1>5, <3>1, <3>2
      <3> HIDE DEF n, len
      <3>4. len <= last
        BY <1>1, <3>3
      <3> QED BY <1>1, <3>3, <3>4 DEF len
    <2> QED BY <2>1, <2>2
  <1>7. InitFirst(Body)
    <2>1. InitFirst(batch)
      BY DEF IInv, InitsFirst
    <2>2. \A i \in 1..size : Body[i].n = batch[i].n
      <3>1. up \notin {"await", "cleared"}
        BY SendFacts
      <3> QED BY <1>1, <3>1, BatchFacts
    <2> QED BY <1>1, <2>1, <2>2 DEF InitFirst
  <1> HIDE DEF next, last, size
  <1>8. ASSUME NEW k \in Sent(wire')
        PROVE  /\ Len(wire'[k].events) \in 1..BatchMaxSize
               /\ InitFirst(wire'[k].events)
               /\ \A i \in 1..Len(wire'[k].events) :
                    k <= wire'[k].events[i].n /\ wire'[k].events[i].n <= last + size
    <2>1. CASE k \in Sent(wire)
      <3>1. wire'[k] = wire[k]
        BY <1>2, <2>1
      <3>2. ASSUME NEW n \in Nat, n <= last
            PROVE  n <= last + size
        BY <1>1, <3>2
      <3>3. \A i \in 1..Len(wire[k].events) : wire[k].events[i].n <= last + size
        BY <1>4, <1>5, <2>1, <3>2
      <3> QED BY <1>4, <2>1, <3>1, <3>3
    <2>2. CASE k = next
      <3>1. wire'[k].events = Body
        BY <1>2, <2>2
      <3>2. \A i \in 1..size : next <= last + i /\ last + i <= last + size
        BY <1>1, <1>2, <1>6
      <3> QED BY <1>1, <1>7, <2>2, <3>1, <3>2
    <2> QED BY <1>2, <2>1, <2>2
  <1>9. ASSUME NEW k \in Sent(wire'), NEW m \in Sent(wire'),
               NEW i \in 1..Len(wire'[k].events), NEW j \in 1..Len(wire'[m].events),
               k < m \/ (k = m /\ i < j)
        PROVE  wire'[k].events[i].n < wire'[m].events[j].n
    <2>1. CASE m \in Sent(wire)
      <3>1. k \in Sent(wire)
        BY <1>2, <1>9, <2>1
      <3> QED BY <1>2, <1>4, <1>9, <2>1, <3>1
    <2>2. CASE m = next /\ k \in Sent(wire)
      <3>1. wire'[m].events[j].n = last + j /\ j \in 1..size
        BY <1>1, <1>2, <2>2
      <3>2. wire'[k].events[i].n <= last /\ wire'[k].events[i].n \in Nat
        BY <1>2, <1>4, <1>5, <2>2
      <3> QED BY <1>1, <3>1, <3>2
    <2>3. CASE m = next /\ k = next
      <3>1. i < j /\ i \in 1..size /\ j \in 1..size
        BY <1>1, <1>2, <1>9, <2>3
      <3>2. wire'[m].events[j].n = last + j /\ wire'[k].events[i].n = last + i
        BY <1>1, <1>2, <2>3, <3>1
      <3> QED BY <1>1, <3>1, <3>2
    <2> QED BY <1>2, <2>1, <2>2, <2>3
  <1>10. NumberedUpTo(wire', last + size)
    BY <1>8, <1>9 DEF NumberedUpTo
  <1> QED BY <1>1, <1>10, Primed

\* The new request is free, and has numbers above all that are stored, answered
\* or spooled.
LEMMA SendNew ==
  ASSUME AP!IInv, IInv, SendRequest
  PROVE  /\ reqs[Len(wire) + 1].st = "free" /\ reqs[Len(wire) + 1].status = 0
         /\ \A x \in Numbers(Body) : x \in Nat /\ Offered < x
         /\ \A x \in Numbers(Stored) : x \in Nat /\ x <= Offered
         /\ \A x \in Numbers(acked) \cup Numbers(spool) : x \in Nat /\ x <= Offered
  <1>1. CP!TypeOK /\ WireType /\ WireNumbered /\ Answers /\ Origin
    BY DEF IInv
  <1>2. Len(wire) + 1 \in RequestId
    <2>1. WireNumbered' /\ WireType'
      BY SendNumbered, SendWire
    <2> DEFINE next == Len(wire) + 1
               events == wire'[next].events
    <2>2. next \in Sent(wire') /\ events = Body /\ Body \in Seq(Event) /\ Len(Body) \in 1..BatchMaxSize
      BY SendWire, SendFacts
    <2>3. 1 \in 1..Len(events)
      BY <2>2, PipelineAssumption
    <2>4. next <= events[1].n
      <3>1. NumberedUpTo(wire', Offered')
        BY <2>1, Primed
      <3> QED BY <2>2, <2>3, <3>1 DEF NumberedUpTo
    <2>5. events[1] \in Event
      BY <2>2, <2>3
    <2>6. events[1].n \in 1..MaxEvents
      BY <2>5, EventFields
    <2>7. next \in Nat \ {0}
      BY SendWire
    <2> DEFINE n == events[1].n
    <2>8. next <= n /\ n \in 1..MaxEvents
      BY <2>4, <2>6
    <2> HIDE DEF next, events, n
    <2>9. next \in RequestId
      BY <2>7, <2>8, PipelineAssumption DEF RequestId
    <2> QED BY <2>9 DEF next
  <1>3. Len(wire) + 1 \notin Sent(wire)
    BY SendWire
  <1>4. reqs[Len(wire) + 1].st = "free" /\ reqs[Len(wire) + 1].status = 0
    BY <1>1, <1>2, <1>3 DEF Answers, AnswersOf
  <1>5. ASSUME NEW x \in Numbers(Body)
        PROVE  x \in Nat /\ Offered < x
    <2>1. Body \in Seq(Event) /\ Len(Body) = Len(batch)
      BY SendFacts
    <2>2. PICK i \in 1..Len(Body) : Body[i].n = x
      BY <2>1, NumbersAt
    <2>3. x = Offered + i /\ i \in Nat /\ i > 0 /\ Offered \in Nat
      BY <2>1, <2>2, SendFacts
    <2> QED BY <2>3
  <1>6. ASSUME NEW x \in Numbers(Stored)
        PROVE  x \in Nat /\ x <= Offered
    <2>1. Stored \in Seq(Event)
      BY <1>1, CollectorFacts DEF Stored
    <2>2. PICK i \in 1..Len(Stored) : Stored[i].n = x
      BY <2>1, NumbersAt
    <2>3. PICK k \in Sent(wire) : x \in Numbers(wire[k].events)
      BY <1>1, <2>2 DEF Origin, OriginOf
    <2>4. PICK j \in 1..Len(wire[k].events) : wire[k].events[j].n = x
      BY <1>1, <2>3, WireFields, NumbersAt
    <2>5. x <= Offered
      BY <1>1, <2>4 DEF WireNumbered, NumberedUpTo
    <2>6. x \in Nat
      BY <1>1, <2>3, NumbersApart
    <2> QED BY <2>5, <2>6
  <1>7. \A x \in Numbers(acked) \cup Numbers(spool) : x \in Nat /\ x <= Offered
    BY SettledFacts, SendFacts
  <1> QED BY <1>4, <1>5, <1>6, <1>7

\* A new request has stored nothing yet, so that origin, spool and order stay.
LEMMA SendOrigin ==
  ASSUME AP!IInv, IInv, SendRequest
  PROVE  Origin' /\ Spooled' /\ Order'
  <1> DEFINE next == Len(wire) + 1
  <1>1. /\ rows' = rows /\ reqs' = reqs /\ spool' = spool /\ fails' = fails /\ acked' = acked
        /\ batch' = batch /\ up = "flush" /\ up' = "await"
    BY SendFacts
  <1>2. rows'[SessionId] = Stored
    BY <1>1 DEF Stored
  <1>3. /\ \A k \in Sent(wire) : wire'[k] = wire[k]
        /\ wire'[next].events = Body
        /\ Sent(wire') = Sent(wire) \cup {next}
    BY SendWire
  <1>4. reqs[next].st = "free" /\ reqs[next].status = 0
    BY SendNew
  <1>5. /\ Numbers(Body) \cap Numbers(Stored) = {}
        /\ Numbers(spool) \cap Numbers(Body) = {}
    <2>1. Offered \in Nat
      BY SendFacts
    <2> QED BY <2>1, SendNew
  <1> HIDE DEF next
  <1>6. Origin'
    <2>1. Origin
      BY DEF IInv
    <2>2. \A k \in Persisted(wire', reqs') : k \in Persisted(wire, reqs) /\ k \in Sent(wire)
      BY <1>1, <1>3, <1>4 DEF Persisted
    <2>3. \A k \in Unstored(wire', reqs') : k = next \/ (k \in Unstored(wire, reqs) /\ k \in Sent(wire))
      BY <1>1, <1>3 DEF Unstored
    <2>4. OriginOf(wire', reqs', rows'[SessionId])
      BY <1>2, <1>3, <1>5, <2>1, <2>2, <2>3 DEF Origin, OriginOf
    <2> QED BY <2>4, Primed
  <1>7. Spooled'
    <2>1. Spooled
      BY DEF IInv
    <2>2. \A k \in Coming(wire', reqs') : k = next \/ (k \in Coming(wire, reqs) /\ k \in Sent(wire))
      BY <1>1, <1>3 DEF Coming
    <2>3. SpooledOf(wire', reqs', rows'[SessionId], Numbers(spool'), fails')
      BY <1>1, <1>2, <1>3, <1>5, <2>1, <2>2 DEF Spooled, SpooledOf
    <2> QED BY <2>3, Primed
  <1>8. Order'
    <2>1. Order
      BY DEF IInv
    <2>2. Fixed' = Numbers(acked) \cup Numbers(batch) /\ Fixed = Numbers(acked)
      BY <1>1, Primed DEF Fixed
    <2>3. \A i \in 1..Len(Stored) : Stored[i].n \in Numbers(Stored)
      <3>1. Stored \in Seq(Event)
        BY CollectorFacts DEF Stored, IInv
      <3> QED BY <3>1, NumbersAt
    <2>4. \A x \in Numbers(batch) : x \notin Numbers(Stored)
      <3>1. batch \in Seq(A!Emission) /\ Body \in Seq(Event) /\ Len(Body) = Len(batch)
        BY AgentFacts, SendFacts
      <3>2. up \notin {"await", "cleared"}
        BY <1>1
      <3>3. \A i \in 1..Len(batch) : Body[i].n = batch[i].n
        BY <3>2, SendFacts, BatchFacts
      <3>4. \A x \in Numbers(batch) : x \in Numbers(Body)
        BY <3>1, <3>3, NumbersAt
      <3> QED BY <1>5, <3>4
    <2>5. OrderOf(rows'[SessionId], Numbers(acked'), Fixed')
      BY <1>1, <1>2, <2>1, <2>2, <2>3, <2>4 DEF Order, OrderOf
    <2> QED BY <2>5, Primed
  <1> QED BY <1>6, <1>7, <1>8

\* One more request that may be persisted, and the uploader waits for it.
LEMMA SendKills ==
  ASSUME AP!IInv, IInv, SendRequest
  PROVE  Kills'
  <1> DEFINE next == Len(wire) + 1
             old == Cardinality(Coming(wire, reqs))
             new == Cardinality(Coming(wire', reqs'))
             o == Open(wire, reqs, up, killed)
             p == Open(wire', reqs', up', killed')
  <1>1. /\ reqs' = reqs /\ killed' = killed /\ fails' = fails /\ afterKill' = afterKill
        /\ up = "flush" /\ up' = "await"
    BY SendFacts
  <1>2. /\ \A k \in Sent(wire) : wire'[k] = wire[k]
        /\ wire'[next].at = "transit" /\ next \notin Sent(wire)
        /\ Sent(wire') = Sent(wire) \cup {next} /\ Len(wire') = next /\ Len(wire) \in Nat
    BY SendWire
  <1>3. Coming(wire', reqs') = Coming(wire, reqs) \cup {next} /\ next \notin Coming(wire, reqs)
    BY <1>1, <1>2 DEF Coming
  <1>4. old \in Nat /\ new = old + 1
    <2>1. IsFiniteSet(Coming(wire, reqs)) /\ Cardinality(Coming(wire, reqs)) \in Nat
      BY <1>2, ComingFinite
    <2> QED BY <1>3, <2>1, FS_AddElement
  <1>5. o = 0
    BY <1>1, OpenType
  <1>6. p = 1
    BY <1>1, <1>2, SendNew DEF Open
  <1>7. /\ SessionId \notin killed => afterKill = 0
        /\ afterKill + old <= fails + o
        /\ afterKill \in Nat /\ fails \in Nat
    BY DEF IInv, Kills, KillsOf, Counters
  <1> HIDE DEF next, old, new, o, p
  <1>8. afterKill' + new <= fails' + p
    BY <1>1, <1>4, <1>5, <1>6, <1>7
  <1>9. KillsOf(wire', reqs', up', killed', afterKill', fails')
    BY <1>1, <1>7, <1>8 DEF KillsOf, new, p
  <1> QED BY <1>9, Primed

\* Sending a request keeps every conjunct.
LEMMA SendKeeps ==
  ASSUME AP!IInv, IInv, CP!TypeOK', SendRequest
  PROVE  IInv'
  <1>1. /\ Counters /\ BatchFits /\ InitsFirst /\ Answers /\ StoredOnce /\ NothingWithoutInit
    BY DEF IInv
  <1>2. /\ up = "flush" /\ up' = "await"
        /\ UNCHANGED <<sent, chan, batch, acked, spool, rows, reqs, killed, fails, afterKill>>
    BY SendFacts
  <1>3. WireType' /\ WireNumbered' /\ Origin' /\ Spooled' /\ Order' /\ Kills'
    BY SendWire, SendNumbered, SendOrigin, SendKills
  <1>4. Counters' /\ BatchFits' /\ InitsFirst' /\ StoredOnce' /\ NothingWithoutInit'
    BY <1>1, <1>2 DEF Counters, BatchFits, InitsFirst, InitFirst, StoredOnce, NothingWithoutInit,
      StoredNumbers, Stored
  <1>5. Awaited'
    <2>1. Body' = Body
      BY <1>2 DEF Body
    <2>2. Len(wire') = Len(wire) + 1 /\ Len(wire) \in Nat /\ wire'[Len(wire) + 1].events = Body
      BY SendWire
    <2>3. wire' # << >>
      BY <2>2
    <2> QED BY <2>1, <2>2, <2>3, Primed
  <1>6. Answers'
    <2>1. /\ \A k \in Sent(wire) : wire'[k] = wire[k]
          /\ wire'[Len(wire) + 1].at = "transit"
          /\ Sent(wire') = Sent(wire) \cup {Len(wire) + 1}
      BY SendWire
    <2>2. reqs' = reqs
      BY <1>2
    <2>3. AnswersOf(wire', reqs')
      BY <1>1, <2>1, <2>2 DEF Answers, AnswersOf
    <2> QED BY <2>3, Primed
  <1> QED BY <1>3, <1>4, <1>5, <1>6 DEF IInv
--------------------------------------------------------------------------------
(* The invariant *)

\* The invariant holds before the session has begun.
LEMMA InitIInv == Init => IInv
  <1> SUFFICES ASSUME Init PROVE IInv
    OBVIOUS
  <1>1. /\ chan = << >> /\ batch = << >> /\ up = "recv" /\ acked = << >> /\ spool = << >>
        /\ rows = [s \in CP!Stream |-> << >>] /\ reqs = [r \in RequestId |-> CP!NoRequest]
        /\ killed = {} /\ wire = << >> /\ fails = 0 /\ afterKill = 0
    BY DEF Init, A!Init, C!Init, C!Stream, CP!Stream, C!NoRequest, CP!NoRequest
  <1>2. CP!TypeOK
    <2>1. CP!Init
      BY DEF Init, C!Init, CP!Init, C!Stream, CP!Stream, C!NoRequest, CP!NoRequest, C!NoView, CP!NoView
    <2>2. CP!IInv
      BY <2>1, CP!InitIInv, Assumptions
    <2> QED BY <2>2 DEF CP!IInv
  <1>3. SessionId \in CP!Stream
    BY DEF CP!Stream, Session
  <1>4. Stored = << >> /\ Len(Stored) = 0 /\ Len(wire) = 0 /\ Sent(wire) = {}
    BY <1>1, <1>3 DEF Stored, Sent
  <1>5. CP!NoRequest.st = "free" /\ CP!NoRequest.status = 0 /\ ~CP!NoRequest.kill
    BY DEF CP!NoRequest
  <1>6. Numbers(<< >>) = {}
    BY DEF Numbers, ToSet
  <1>7. WireType /\ Counters
    BY <1>1 DEF WireType, Counters
  <1>8. BatchFits /\ InitsFirst
    BY <1>1, PipelineAssumption DEF BatchFits, InitsFirst, InitFirst
  <1>9. WireNumbered /\ Awaited
    BY <1>1, <1>4 DEF WireNumbered, NumberedUpTo, Awaited
  <1>10. Answers
    <2>1. \A k \in RequestId : reqs[k] = CP!NoRequest
      BY <1>1
    <2> QED BY <1>4, <1>5, <2>1 DEF Answers, AnswersOf
  <1>11. Coming(wire, reqs) = {} /\ Unstored(wire, reqs) = {} /\ Persisted(wire, reqs) = {}
    BY <1>4 DEF Coming, Unstored, Persisted
  <1>12. Origin /\ StoredOnce /\ NothingWithoutInit
    BY <1>4, <1>11 DEF Origin, OriginOf, StoredOnce, NothingWithoutInit
  <1>13. Order /\ Spooled
    BY <1>1, <1>4, <1>6, <1>11 DEF Order, OrderOf, Spooled, SpooledOf
  <1>14. Kills
    <2>1. Open(wire, reqs, up, killed) = 0
      BY <1>1, OpenType
    <2>2. Cardinality(Coming(wire, reqs)) = 0
      BY <1>11, FS_EmptySet
    <2> QED BY <1>1, <2>1, <2>2 DEF Kills, KillsOf
  <1> QED BY <1>2, <1>7, <1>8, <1>9, <1>10, <1>12, <1>13, <1>14 DEF IInv

\* Every step of the agent, the wire and the collector keeps the invariant.
LEMMA StepIInv ==
  ASSUME AP!IInv, IInv, [Next]_vars
  PROVE  IInv'
  <1>1. CP!TypeOK'
    BY TypeKeeps
  <1>2. InitsFirst /\ BatchFits
    BY DEF IInv
  <1>3. CASE MainThread
    <2>1. AgentMoves /\ UNCHANGED <<up, batch>> /\ InitFirst(chan')
      BY <1>2, <1>3, MainThreadMoves
    <2>2. InitFirst(batch') /\ BatchFits'
      BY <1>2, <2>1 DEF InitsFirst, BatchFits
    <2> QED BY <1>1, <2>1, <2>2, AgentMovesKeep
  <1>4. CASE UploaderStep
    BY <1>1, <1>2, <1>4, UploaderMoves, AgentMovesKeep
  <1>5. CASE SendRequest
    BY <1>1, <1>5, SendKeeps
  <1>6. CASE \E k \in DOMAIN wire : RequestArrives(k) \/ RequestIsLost(k)
    BY <1>1, <1>6, ArriveKeeps, LossKeeps
  <1>7. CASE GiveUp
    BY <1>1, <1>7, GiveUpKeeps
  <1>8. CASE AnswerArrives
    BY <1>1, <1>8, AnswerKeeps
  <1>9. CASE Handlers
    <2>1. PICK k \in DOMAIN wire : HandlerPersists(k) \/ HandlerEnds(k)
      BY <1>9 DEF Handlers
    <2>2. CASE HandlerPersists(k)
      BY <1>1, <2>2, PersistKeeps
    <2>3. CASE HandlerEnds(k)
      <3>1. /\ CP!PersistFails(k) \/ CP!Finish(k)
            /\ UNCHANGED <<agentVars, wire, history>>
        BY <2>3, SameHandlers DEF HandlerEnds
      <3> QED BY <1>1, <3>1, RefusalKeeps, FinishKeeps
    <2> QED BY <2>1, <2>2, <2>3
  <1>10. CASE KillSession
    BY <1>1, <1>10, KillKeeps
  <1>11. CASE RestartCollector
    BY <1>1, <1>11, RestartKeeps
  <1>12. CASE UNCHANGED vars
    <2>1. /\ UNCHANGED <<collectorVars, wire, history, acked, spool, sent, chan, up, batch>>
      BY <1>12 DEF vars, agentVars
    <2>2. AgentMoves /\ UNCHANGED <<chan, up, batch>>
      BY <2>1 DEF AgentMoves, Offered
    <2>3. InitFirst(chan') /\ InitFirst(batch') /\ BatchFits'
      BY <1>2, <2>2 DEF InitsFirst, BatchFits
    <2> QED BY <1>1, <2>2, <2>3, AgentMovesKeep
  <1> QED BY <1>3, <1>4, <1>5, <1>6, <1>7, <1>8, <1>9, <1>10, <1>11, <1>12 DEF Next, Network

\* The inductive invariant, on top of the agent's.
THEOREM Invariant == Spec => []IInv
  <1>1. Init => IInv
    BY InitIInv
  <1>2. AP!IInv /\ IInv /\ [Next]_vars => IInv'
    BY StepIInv
  <1> QED BY <1>1, <1>2, AgentInvariant, PTL DEF Spec

\* The collector of the pipeline is a collector: what is proved of Collector holds
\* here, although it hears of one session only, and from an agent that waits.
THEOREM CollectorIsImplemented == Spec => CP!Spec
  <1>1. Init => CP!Init
    BY DEF Init, C!Init, CP!Init, C!Stream, CP!Stream, C!NoRequest, CP!NoRequest, C!NoView, CP!NoView
  <1>2. AP!IInv /\ IInv /\ [Next]_vars => [CP!Next]_CP!collectorVars
    BY CollectorStep DEF IInv
  <1> QED BY <1>1, <1>2, AgentInvariant, Invariant, PTL DEF Spec, CP!Spec
--------------------------------------------------------------------------------
(* What it is for *)

\* The rows of the session, with their numbers.
LEMMA StoredFacts ==
  ASSUME IInv
  PROVE  /\ Stored \in Seq(Event) /\ StoredNumbers = Numbers(Stored)
         /\ DOMAIN Stored = 1..Len(Stored)
         /\ \A i \in DOMAIN Stored : Stored[i].n \in Numbers(Stored)
  <1>1. Stored \in Seq(Event) /\ StoredNumbers = Numbers(Stored)
    BY CollectorFacts, StoredNumbersAre DEF IInv, Stored
  <1>2. DOMAIN Stored = 1..Len(Stored)
    BY <1>1
  <1> QED BY <1>1, <1>2, NumbersAt

\* What was answered with 202 is stored and stays stored, in the order in which
\* it happened, whatever comes late, is lost, or is lost with the daemon.
THEOREM AnsweredIsStored == Spec => []AckedIsStored
  <1>1. IInv => AckedIsStored
    <2> SUFFICES ASSUME IInv PROVE AckedIsStored
      OBVIOUS
    <2>1. /\ Numbers(acked) \subseteq Numbers(Stored)
          /\ \A i, j \in 1..Len(Stored) : i < j /\ Stored[j].n \in Fixed => Stored[i].n < Stored[j].n
      BY DEF IInv, Order, OrderOf
    <2>2. Numbers(acked) \subseteq Fixed
      BY DEF Fixed
    <2>3. ASSUME NEW i \in DOMAIN Stored, NEW j \in DOMAIN Stored, i < j,
                 {Stored[i].n, Stored[j].n} \subseteq Numbers(acked)
          PROVE  Stored[i].n < Stored[j].n
      BY <2>1, <2>2, <2>3, StoredFacts
    <2> QED BY <2>1, <2>3, StoredFacts DEF AckedIsStored
  <1> QED BY <1>1, Invariant, PTL

\* No event is stored twice, although a request may be processed after the agent
\* has given up on it and spooled its batch.
THEOREM NothingIsStoredTwice == Spec => []StoredOnce
  <1>1. IInv => StoredOnce
    BY DEF IInv
  <1> QED BY <1>1, Invariant, PTL

\* A session whose SessionInit was not stored has nothing stored.
THEOREM InitComesFirst == Spec => []NothingWithoutInit
  <1>1. IInv => NothingWithoutInit
    BY DEF IInv
  <1> QED BY <1>1, Invariant, PTL

\* A session on the kill list has at most one more batch stored, and one more for
\* each request without an answer.
THEOREM KillsTakeEffect == Spec => []KillStopsSession
  <1>1. IInv => KillStopsSession
    <2> SUFFICES ASSUME IInv PROVE KillStopsSession
      OBVIOUS
    <2> DEFINE n == Cardinality(Coming(wire, reqs))
               o == Open(wire, reqs, up, killed)
    <2>1. n \in Nat
      BY WireFields, ComingFinite DEF IInv
    <2>2. o \in {0, 1}
      BY OpenType
    <2>3. afterKill + n <= fails + o /\ afterKill \in Nat /\ fails \in Nat
      BY DEF IInv, Kills, KillsOf, Counters
    <2> HIDE DEF n, o
    <2>4. afterKill <= 1 + fails
      BY <2>1, <2>2, <2>3
    <2> QED BY <2>4 DEF KillStopsSession
  <1> QED BY <1>1, Invariant, PTL

\* A session that was left through exit is complete between the store and the
\* spool, and each event is in one of them when every request was answered.
THEOREM SessionsAreComplete == Spec => []CompleteAtExit
  <1>1. AP!IInv /\ IInv => CompleteAtExit
    <2> SUFFICES ASSUME AP!IInv, IInv, proc = "exited", hasSpool, ~spoolFailed
                 PROVE  /\ StoredNumbers \cup Numbers(spool) = 1..sent
                        /\ fails = 0 => StoredNumbers \cap Numbers(spool) = {}
      BY DEF CompleteAtExit
    <2>1. StoredNumbers = Numbers(Stored)
      BY StoredFacts
    <2>2. AP!Settled = sent
      <3>1. up = "done" /\ batch = << >> /\ chan = << >>
        BY DEF AP!IInv, AP!Phases
      <3>2. Len(batch) = 0 /\ Len(chan) = 0 /\ sent \in Nat
        BY <3>1, AgentFacts
      <3> QED BY <3>1, <3>2 DEF AP!Settled, AP!Received, AP!BeforeBatch
    <2>3. AP!Numbers(acked) \cup AP!Numbers(spool) = 1..sent
      BY <2>2 DEF AP!IInv, AP!Accounts
    <2>4. AP!Numbers(acked) = Numbers(acked) /\ AP!Numbers(spool) = Numbers(spool)
      <3>1. ASSUME NEW s \in Seq(A!Emission)
            PROVE  AP!Numbers(s) = Numbers(s)
        <4>1. ASSUME NEW x PROVE x \in AP!Numbers(s) <=> x \in Numbers(s)
          BY <3>1, NumbersAt DEF AP!Numbers
        <4> QED BY <4>1
      <3> QED BY <3>1, AgentFacts
    <2>5. Numbers(acked) \subseteq Numbers(Stored)
      BY DEF IInv, Order, OrderOf
    <2>6. ASSUME NEW x \in Numbers(Stored)
          PROVE  x \in 1..sent
      <3>1. PICK i \in 1..Len(Stored) : Stored[i].n = x
        BY StoredFacts, NumbersAt
      <3>2. PICK k \in Sent(wire) : x \in Numbers(wire[k].events)
        BY <3>1 DEF IInv, Origin, OriginOf
      <3>3. wire[k].events \in Seq(Event)
        BY WireFields DEF IInv
      <3>4. PICK j \in 1..Len(wire[k].events) : wire[k].events[j].n = x
        BY <3>2, <3>3, NumbersAt
      <3>5. x <= Offered
        BY <3>4 DEF IInv, WireNumbered, NumberedUpTo
      <3>6. x \in 1..MaxEvents
        <4>1. wire[k].events[j] \in Event
          BY <3>3
        <4> QED BY <3>4, <4>1, EventFields
      <3> QED BY <3>5, <3>6, AgentFacts
    <2>7. StoredNumbers \cup Numbers(spool) = 1..sent
      BY <2>1, <2>3, <2>4, <2>5, <2>6
    <2>8. fails = 0 => StoredNumbers \cap Numbers(spool) = {}
      BY <2>1 DEF IInv, Spooled, SpooledOf
    <2> QED BY <2>7, <2>8
  <1> QED BY <1>1, AgentInvariant, Invariant, PTL
================================================================================
