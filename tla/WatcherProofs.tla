----------------------------- MODULE WatcherProofs -----------------------------
(***************************************************************************)
(* Proofs about Watcher, for every number of sessions, events and faults.  *)
(*                                                                         *)
(* The argument: while a report is on its way, its events begin no later   *)
(* than the one after the checkpoint and end within the session, whatever  *)
(* the collector stored since they were read (Reporting).  So a checkpoint *)
(* moves forward, over events the report covered; and an event above the   *)
(* checkpoint that was sent before was sent before a fault (Sendings); and *)
(* a report with an alert among its events is given to send_report, or is  *)
(* dropped for the entry of the debounce map whose report was (Alerts).    *)
(***************************************************************************)
EXTENDS Watcher, SubsequenceProofs

\* What the steps read and write has these types.
Typed ==
  /\ stored \in [Session -> Seq(EventClass)]
  /\ notified \in [Session -> Nat]
  /\ handled \in [Session -> SUBSET Nat]
  /\ times \in [Session -> [1..MaxEvents -> Nat]]
  /\ faults \in Nat
  /\ pc \in {"sleep", "fetch", "decide", "send", "record"}
  /\ queue \in Seq(Session)
  /\ pc # "sleep" => queue # << >>
  /\ events \in Seq(EventClass)
  /\ report.first \in Nat /\ report.latest \in Nat

\* No checkpoint is ahead of its session.
WithinSession == \A s \in Session : notified[s] <= Len(stored[s])

\* The report being made covers every event between the checkpoint and its
\* latest, and no event that is not stored.
Reporting ==
  LET s == Head(queue) IN
    /\ pc = "decide" =>
         /\ notified[s] <= Len(events)
         /\ Len(events) <= Len(stored[s])
    /\ pc \in {"send", "record"} =>
         /\ 1 <= report.first
         /\ report.first <= notified[s] + 1
         /\ notified[s] <= report.latest
         /\ report.latest <= Len(stored[s])
    /\ pc = "record" => Covered(report) \subseteq handled[s]

\* The checkpoint is about to be set beyond this event of this session.
AboutToCover(s, i) == pc = "record" /\ s = Head(queue) /\ i \in Covered(report)

\* The event is in the report that is about to be sent.
AboutToSend(s, i) == pc = "send" /\ s = Head(queue) /\ i \in Covered(report)

\* An event was sent once more than there were faults only when its report is
\* settled: below the checkpoint, or about to be.
Sendings ==
  \A s \in Session : \A i \in 1..MaxEvents :
    /\ times[s][i] <= faults + 1
    /\ times[s][i] <= faults \/ i <= notified[s] \/ AboutToCover(s, i)
    /\ AboutToSend(s, i) => times[s][i] <= faults

\* The events of the report at hand include an alert.
AlertAtHand == \E i \in Covered(report) : inspect_event(stored[Head(queue)][i])

\* The summaries of the debounce map were given to send_report; the events that
\* were read are still there; the summary of a report with an alert was given to
\* send_report.
Alerts ==
  /\ hot \cup warm \subseteq attempted
  /\ pc = "decide" => \A i \in 1..Len(events) : stored[Head(queue)][i] = events[i]
  /\ pc \in {"send", "record"} =>
       /\ report \in made[Head(queue)]
       /\ AlertAtHand => report.summary \in attempted

\* The types of what the other parts do not speak of.
Forms ==
  /\ idle \in [Session -> IdleLevel]
  /\ damaged \subseteq Session
  /\ dry_run \in BOOLEAN
  /\ report \in Report
  /\ hot \cap warm = {}
  /\ made \in [Session -> SUBSET Report]
  /\ faults \in 0..MaxFaults

IInv ==
  /\ Typed
  /\ WithinSession
  /\ Reporting
  /\ NothingSkipped
  /\ Sendings
  /\ Alerts
  /\ AlertIsReported
  /\ Forms
--------------------------------------------------------------------------------
(* What one step does *)

\* The cycle goes on with the next session; nothing is about to be reported.
Leaves ==
  /\ pc' \in {"sleep", "fetch"}
  /\ queue' = Tail(queue)
  /\ pc' # "sleep" => queue' # << >>
  /\ events' = << >>
  /\ report'.first \in Nat /\ report'.latest \in Nat

\* A report is made, of the events above the checkpoint last, and dropped or
\* about to be sent.
Reports(last) ==
  /\ queue' = queue /\ events' = events
  /\ report'.first = last + 1
  /\ report'.latest = IF Len(events) > last THEN Len(events) ELSE last
  /\ \/ pc' = "record" /\ handled' = [handled EXCEPT ![Head(queue)] = @ \cup Covered(report')]
     \/ pc' = "send" /\ handled' = handled

\* The rest of a cycle: done with a session, it goes on to the next one or ends.
LEMMA LeavesByNextSession == ASSUME Typed, NextSession PROVE Leaves
  BY DEF Typed, NextSession, Leaves, NoReport

\* A decision leaves the session or makes a report, by what it read.
LEMMA DecideKinds ==
  ASSUME Typed, NEW last \in Nat, DecideFrom(last)
  PROVE  /\ pc = "decide"
         /\ UNCHANGED <<stored, notified, times>>
         /\ (Leaves /\ UNCHANGED handled) \/ Reports(last)
  <1>1. pc = "decide" /\ UNCHANGED <<stored, notified, times>>
    BY DEF DecideFrom, envVars
  <1> DEFINE r == Build(last, Head(queue) \in damaged)
  <1>2. r.first = last + 1 /\ r.latest = IF Len(events) > last THEN Len(events) ELSE last
    BY DEF Build, latest_seq
  <1> HIDE DEF r
  <1>3. \/ NextSession /\ UNCHANGED handled
        \/ report' = r /\ Debounce(Head(queue), r) /\ UNCHANGED <<queue, events>>
    BY DEF DecideFrom, r
  <1>4. CASE NextSession /\ UNCHANGED handled
    BY <1>1, <1>4, LeavesByNextSession
  <1>5. CASE report' = r /\ Debounce(Head(queue), r) /\ UNCHANGED <<queue, events>>
    BY <1>1, <1>2, <1>5 DEF Debounce, Reports, Covered
  <1> QED BY <1>3, <1>4, <1>5

\* In a cycle there is a session it looks at.
LEMMA HeadOfQueue ==
  ASSUME Typed, pc # "sleep"
  PROVE  Head(queue) \in Session /\ Tail(queue) \in Seq(Session)
  BY HeadTailProperties DEF Typed

\* The kinds of steps: of the collector, of the cycle, and those that touch
\* nothing that is spoken of here.
Aside ==
  UNCHANGED <<stored, notified, handled, times, faults, pc, queue, events, report>>

Deciding ==
  \/ Decide
  \/ DecideWithoutCheckpoint

Ending == FetchFails \/ RecordFails

\* The steps, gathered by what they touch.
LEMMA StepKinds ==
  ASSUME [Next]_vars
  PROVE  \/ Aside
         \/ \E s \in Session, e \in {"init"} \cup Input : StoreEvent(s, e)
         \/ Tick \/ Fetch \/ Ending \/ Deciding \/ Send \/ SendFails \/ Record \/ Restart
  <1>1. CASE \E s \in Session : GrowIdle(s) \/ Damage(s)
    BY <1>1 DEF GrowIdle, Damage, Aside, cycleVars, historyVars
  <1>2. CASE \E x \in hot \cup warm : Cool(x)
    BY <1>2 DEF Cool, Aside, envVars, cycleVars, historyVars
  <1>3. CASE UNCHANGED vars
    BY <1>3 DEF vars, envVars, cycleVars, historyVars, Aside
  <1> QED BY <1>1, <1>2, <1>3 DEF Next, Environment, Cycle, LocalStep, Ending, Deciding

\* Any step keeps the types.
LEMMA TypedStep ==
  ASSUME Typed, [Next]_vars
  PROVE  Typed'
  <1>1. CASE Aside
    BY <1>1 DEF Aside, Typed
  <1>2. ASSUME NEW s \in Session, NEW e \in {"init"} \cup Input, StoreEvent(s, e)
        PROVE  Typed'
    <2>1. e \in EventClass
      BY WatcherAssumption DEF EventClass
    <2>2. Append(stored[s], e) \in Seq(EventClass)
      BY <2>1, AppendProperties DEF Typed
    <2>3. stored' \in [Session -> Seq(EventClass)]
      BY <1>2, <2>2 DEF StoreEvent, Typed
    <2> QED BY <1>2, <2>3 DEF StoreEvent, Typed, cycleVars, historyVars
  <1>3. CASE Tick
    <2>1. queue' \in Seq(Session) /\ queue' # << >>
      <3> DEFINE there == {s \in Session : stored[s] # << >>}
      <3>1. queue' \in SeqOf(there, ListLimit)
        BY <1>3 DEF Tick, Newest
      <3>2. PICK m \in 0..ListLimit : queue' \in [1..m -> there]
        BY <3>1, WatcherAssumption DEF SeqOf
      <3>3. queue' \in [1..m -> Session]
        BY <3>2
      <3> QED BY <1>3, <3>3, WatcherAssumption DEF Tick
    <2> QED BY <1>3, <2>1 DEF Tick, Typed, envVars, historyVars
  <1>4. CASE Fetch
    <2>1. Head(queue) \in Session
      BY <1>4, HeadOfQueue DEF Fetch
    <2> QED BY <1>4, <2>1 DEF Fetch, Typed, envVars, historyVars
  <1>5. CASE Leaves /\ pc # "sleep" /\ faults' \in Nat /\ notified' \in [Session -> Nat]
             /\ UNCHANGED <<stored, handled, times>>
    <2>1. queue' \in Seq(Session)
      BY <1>5, HeadOfQueue DEF Leaves
    <2>2. events' \in Seq(EventClass)
      BY <1>5 DEF Leaves
    <2>3. pc' \in {"sleep", "fetch", "decide", "send", "record"}
      BY <1>5 DEF Leaves
    <2> QED BY <1>5, <2>1, <2>2, <2>3 DEF Leaves, Typed
  <1>6. CASE Ending
    <2>1. NextSession /\ pc # "sleep" /\ faults' \in Nat
          /\ UNCHANGED <<notified, stored, handled, times>>
      BY <1>6 DEF Ending, FetchFails, RecordFails, Fault, envVars, historyVars, Typed
    <2> QED BY <1>5, <2>1, LeavesByNextSession DEF Typed
  <1>7. ASSUME NEW last \in Nat, DecideFrom(last), faults' \in Nat
        PROVE  Typed'
    <2>1. pc = "decide" /\ UNCHANGED <<stored, notified, times>>
      BY <1>7, DecideKinds
    <2>2. CASE Leaves /\ UNCHANGED handled
      BY <1>5, <1>7, <2>1, <2>2 DEF Typed
    <2>3. CASE Reports(last)
      <3>1. Head(queue) \in Session /\ queue # << >>
        BY <2>1, HeadOfQueue DEF Typed
      <3>2. report'.first \in Nat /\ report'.latest \in Nat
        BY <2>3, LenProperties DEF Reports, Typed
      <3>3. handled' \in [Session -> SUBSET Nat]
        <4>1. Covered(report') \subseteq Nat
          BY <3>2 DEF Covered
        <4> QED BY <2>3, <3>1, <4>1 DEF Reports, Typed
      <3> QED BY <1>7, <2>1, <2>3, <3>1, <3>2, <3>3 DEF Reports, Typed
    <2> QED BY <1>7, <2>2, <2>3, DecideKinds
  <1>8. CASE Deciding
    <2>1. CASE Decide
      <3>1. pc # "sleep"
        BY <2>1 DEF Decide, DecideFrom
      <3>2. notified[Head(queue)] \in Nat
        BY <3>1, HeadOfQueue DEF Typed
      <3> QED BY <1>7, <2>1, <3>2 DEF Decide, Typed
    <2>2. CASE DecideWithoutCheckpoint
      BY <1>7, <2>2, SMTT(60) DEF DecideWithoutCheckpoint, Fault, Typed
    <2> QED BY <1>8, <2>1, <2>2 DEF Deciding
  <1>9. CASE Send \/ SendFails
    <2>1. Head(queue) \in Session
      BY <1>9, HeadOfQueue DEF Send, SendFails
    <2>2. Covered(report) \subseteq Nat
      BY DEF Covered, Typed
    <2>3. handled' \in [Session -> SUBSET Nat]
      BY <1>9, <2>1, <2>2 DEF Send, SendFails, Typed
    <2>4. times' \in [Session -> [1..MaxEvents -> Nat]]
      <3>1. CASE Send
        <4> DEFINE row == [i \in 1..MaxEvents |->
                             IF i \in Covered(report) THEN times[Head(queue)][i] + 1
                             ELSE times[Head(queue)][i]]
        <4>1. times[Head(queue)] \in [1..MaxEvents -> Nat]
          BY <2>1 DEF Typed
        <4>2. row \in [1..MaxEvents -> Nat]
          <5>1. \A i \in 1..MaxEvents : times[Head(queue)][i] \in Nat
            BY <4>1
          <5>2. \A i \in 1..MaxEvents : times[Head(queue)][i] + 1 \in Nat
            BY <5>1
          <5> QED BY <5>1, <5>2, Zenon
        <4>3. times' = [times EXCEPT ![Head(queue)] = row]
          BY <3>1 DEF Send
        <4> HIDE DEF row
        <4> QED BY <2>1, <4>2, <4>3 DEF Typed
      <3>2. CASE SendFails
        BY <3>2 DEF SendFails, Typed
      <3> QED BY <1>9, <3>1, <3>2
    <2> QED BY <1>9, <2>3, <2>4, SMTT(60) DEF Send, SendFails, Fault, Typed, envVars
  <1>10. CASE Record
    <2>1. Head(queue) \in Session /\ pc # "sleep"
      BY <1>10, HeadOfQueue DEF Record
    <2>2. notified' \in [Session -> Nat]
      BY <1>10, <2>1 DEF Record, Typed
    <2>3. Leaves /\ faults' \in Nat /\ UNCHANGED <<stored, handled, times>>
      BY <1>10, LeavesByNextSession DEF Record, envVars, historyVars, Typed
    <2> QED BY <1>5, <2>1, <2>2, <2>3
  <1>11. CASE Restart
    BY <1>11 DEF Restart, Fault, Typed, envVars, historyVars, NoReport
  <1> QED BY <1>1, <1>2, <1>3, <1>4, <1>6, <1>8, <1>9, <1>10, <1>11, StepKinds

\* What the collector stores in a step only adds to a session.
LEMMA StoredGrows ==
  ASSUME Typed, [Next]_vars, NEW s \in Session
  PROVE  Len(stored[s]) \in Nat /\ Len(stored'[s]) \in Nat /\ Len(stored[s]) <= Len(stored'[s])
  <1>1. stored[s] \in Seq(EventClass)
    BY DEF Typed
  <1>2. CASE stored' = stored
    BY <1>1, <1>2
  <1>3. ASSUME NEW t \in Session, NEW e \in {"init"} \cup Input, StoreEvent(t, e)
        PROVE  stored'[s] = stored[s] \/ stored'[s] = Append(stored[s], e)
    BY <1>3 DEF StoreEvent, Typed
  <1>4. CASE \E t \in Session, e \in {"init"} \cup Input : StoreEvent(t, e)
    <2>1. PICK t \in Session, e \in {"init"} \cup Input : StoreEvent(t, e)
      BY <1>4
    <2>2. e \in EventClass
      BY WatcherAssumption DEF EventClass
    <2>3. Len(Append(stored[s], e)) = Len(stored[s]) + 1
      BY <1>1, <2>2
    <2> QED BY <1>1, <1>3, <2>1, <2>3
  <1>5. CASE Deciding
    <2>1. UNCHANGED stored
      BY <1>5 DEF Deciding, Decide, DecideWithoutCheckpoint, DecideFrom, envVars
    <2> QED BY <1>2, <2>1
  <1> QED BY <1>2, <1>4, <1>5, StepKinds
     DEF Aside, Tick, Fetch, Ending, FetchFails, RecordFails, Send, SendFails, Record, Restart,
         envVars

\* A decision as the invariant sees it: the checkpoint it used is the one that
\* is stored, or none after a fault.
LEMMA DecidingKinds ==
  ASSUME Typed, Reporting, Deciding
  PROVE  /\ pc = "decide" /\ Head(queue) \in Session
         /\ UNCHANGED <<stored, notified, times>>
         /\ \/ Leaves /\ UNCHANGED handled
            \/ Reports(notified[Head(queue)])
            \/ Reports(0) /\ faults' = faults + 1
         /\ faults' = faults \/ faults' = faults + 1
  <1>1. pc = "decide"
    BY DEF Deciding, Decide, DecideWithoutCheckpoint, DecideFrom
  <1>2. Head(queue) \in Session
    BY <1>1, HeadOfQueue
  <1>3. notified[Head(queue)] \in Nat
    BY <1>2 DEF Typed
  <1>4. CASE Decide
    BY <1>1, <1>2, <1>3, <1>4, DecideKinds DEF Decide
  <1>5. CASE DecideWithoutCheckpoint
    BY <1>1, <1>2, <1>5, DecideKinds DEF DecideWithoutCheckpoint, Fault
  <1> QED BY <1>4, <1>5 DEF Deciding

\* The report of a decision begins no later than after the checkpoint and ends
\* where the events that were read do.
LEMMA ReportOf ==
  ASSUME Typed, Reporting, Deciding, pc' \in {"send", "record"}
  PROVE  /\ queue' = queue
         /\ report'.first \in Nat /\ report'.latest = Len(events)
         /\ 1 <= report'.first
         /\ report'.first <= notified[Head(queue)] + 1
         /\ notified[Head(queue)] <= Len(events)
         /\ Len(events) <= Len(stored[Head(queue)])
         /\ report'.first = notified[Head(queue)] + 1 \/ faults' = faults + 1
         /\ \/ pc' = "record"
               /\ handled' = [handled EXCEPT ![Head(queue)] = @ \cup Covered(report')]
            \/ pc' = "send" /\ handled' = handled
  <1> DEFINE h == Head(queue)
  <1>1. notified[h] \in Nat /\ Len(events) \in Nat
    BY DecidingKinds DEF Typed
  <1>2. notified[h] <= Len(events) /\ Len(events) <= Len(stored[h])
    BY DecidingKinds DEF Reporting
  <1>3. \/ Reports(notified[h])
        \/ Reports(0) /\ faults' = faults + 1
    BY DecidingKinds DEF Leaves
  <1> HIDE DEF h
  <1>4. CASE Reports(notified[h])
    BY <1>1, <1>2, <1>4 DEF Reports, h
  <1>5. CASE Reports(0) /\ faults' = faults + 1
    BY <1>1, <1>2, <1>5 DEF Reports, h
  <1> QED BY <1>3, <1>4, <1>5

\* A checkpoint stays where it is, except that Record sets that of the session
\* at the head of the queue.
LEMMA CheckpointChange ==
  ASSUME Typed, Reporting, [Next]_vars
  PROVE  \/ UNCHANGED notified
         \/ Record
  <1>1. CASE Deciding
    BY <1>1, DecidingKinds
  <1> QED BY <1>1, StepKinds
     DEF Aside, StoreEvent, Tick, Fetch, Ending, FetchFails, RecordFails, Send, SendFails, Restart
--------------------------------------------------------------------------------
(* Every step keeps the invariant *)

\* No step takes a checkpoint back, nor beyond its session.
LEMMA CheckpointStep ==
  ASSUME Typed, WithinSession, Reporting, [Next]_vars, NEW s \in Session
  PROVE  notified[s] <= notified'[s] /\ notified'[s] <= Len(stored'[s])
  <1>1. /\ notified[s] \in Nat /\ notified[s] <= Len(stored[s])
        /\ Len(stored[s]) \in Nat /\ Len(stored'[s]) \in Nat /\ Len(stored[s]) <= Len(stored'[s])
    BY StoredGrows DEF Typed, WithinSession
  <1>2. CASE UNCHANGED notified
    BY <1>1, <1>2
  <1>3. CASE Record
    <2>1. Head(queue) \in Session
      BY <1>3, HeadOfQueue DEF Record
    <2>2. /\ report.latest \in Nat
          /\ notified[Head(queue)] <= report.latest
          /\ report.latest <= Len(stored[Head(queue)])
      BY <1>3 DEF Record, Reporting, Typed
    <2>3. CASE s = Head(queue)
      <3>1. notified'[s] = report.latest
        BY <1>3, <2>3 DEF Record, Typed
      <3> QED BY <1>1, <2>2, <2>3, <3>1
    <2>4. CASE s # Head(queue)
      <3>1. notified'[s] = notified[s]
        BY <1>3, <2>4 DEF Record, Typed
      <3> QED BY <1>1, <3>1
    <2> QED BY <2>3, <2>4
  <1> QED BY <1>2, <1>3, CheckpointChange

\* A report in the making stays between the checkpoint and the end of the
\* session, whatever is stored in the meantime.
LEMMA ReportingStep ==
  ASSUME Typed, WithinSession, Reporting, [Next]_vars
  PROVE  Reporting'
  <1>1. CASE Aside
    BY <1>1 DEF Aside, Reporting, Covered
  <1>2. ASSUME NEW s \in Session, NEW e \in {"init"} \cup Input, StoreEvent(s, e)
        PROVE  Reporting'
    <2>1. UNCHANGED <<pc, queue, events, report, notified, handled>>
      BY <1>2 DEF StoreEvent, cycleVars, historyVars
    <2>2. CASE pc = "sleep"
      BY <2>1, <2>2 DEF Reporting
    <2>3. CASE pc # "sleep"
      <3>1. Head(queue) \in Session
        BY <2>3, HeadOfQueue
      <3>2. /\ Len(stored[Head(queue)]) \in Nat /\ Len(stored'[Head(queue)]) \in Nat
            /\ Len(stored[Head(queue)]) <= Len(stored'[Head(queue)])
        BY <3>1, StoredGrows
      <3>3. Len(events) \in Nat
        BY DEF Typed
      <3>4. Head(queue)' = Head(queue) /\ Covered(report)' = Covered(report)
        BY <2>1 DEF Covered
      <3>5. pc = "decide" => Len(events) <= Len(stored'[Head(queue)])
        BY <3>2, <3>3 DEF Reporting
      <3>6. pc \in {"send", "record"} => report.latest <= Len(stored'[Head(queue)])
        BY <3>2, SMTT(60) DEF Reporting, Typed
      <3> QED BY <2>1, <3>4, <3>5, <3>6 DEF Reporting
    <2> QED BY <2>2, <2>3
  <1>3. CASE pc' \in {"sleep", "fetch"}
    BY <1>3 DEF Reporting
  <1>4. CASE Fetch
    <2>1. Head(queue) \in Session
      BY <1>4, HeadOfQueue DEF Fetch
    <2> QED BY <1>4, <2>1 DEF Fetch, Reporting, WithinSession, envVars, Typed
  <1>5. CASE Deciding /\ pc' \in {"send", "record"}
    <2>1. Head(queue) \in Session /\ UNCHANGED <<stored, notified>>
      BY <1>5, DecidingKinds
    <2>2. pc' = "record" => Covered(report') \subseteq handled'[Head(queue)]
      BY <1>5, <2>1, ReportOf DEF Typed
    <2>3. Head(queue)' = Head(queue) /\ Covered(report)' = Covered(report')
      BY <1>5, ReportOf DEF Covered
    <2>4. /\ 1 <= report'.first
          /\ report'.first <= notified'[Head(queue)] + 1
          /\ notified'[Head(queue)] <= report'.latest
          /\ report'.latest <= Len(stored'[Head(queue)])
      BY <1>5, <2>1, ReportOf
    <2> QED BY <1>5, <2>2, <2>3, <2>4 DEF Reporting
  <1>6. CASE Send \/ SendFails
    <2>1. Head(queue) \in Session
      BY <1>6, HeadOfQueue DEF Send, SendFails
    <2>2. UNCHANGED <<stored, notified, queue, report>> /\ pc = "send" /\ pc' = "record"
      BY <1>6 DEF Send, SendFails, envVars
    <2>3. Covered(report) \subseteq handled'[Head(queue)]
      BY <1>6, <2>1 DEF Send, SendFails, Typed
    <2>4. Head(queue)' = Head(queue) /\ Covered(report)' = Covered(report)
      BY <2>2 DEF Covered
    <2> QED BY <2>2, <2>3, <2>4 DEF Reporting
  <1>7. CASE Ending \/ Record
    <2>1. NextSession
      BY <1>7 DEF Ending, FetchFails, RecordFails, Record
    <2> QED BY <1>3, <2>1 DEF NextSession
  <1>8. CASE Deciding /\ pc' \notin {"send", "record"}
    <2>1. pc' \in {"sleep", "fetch"}
      BY <1>8, DecidingKinds DEF Leaves, Reports
    <2> QED BY <1>3, <2>1
  <1> QED BY <1>1, <1>2, <1>3, <1>4, <1>5, <1>6, <1>7, <1>8, StepKinds DEF Tick, Restart

\* Nothing that was settled is forgotten.
LEMMA HandledGrows ==
  ASSUME Typed, Reporting, [Next]_vars, NEW s \in Session
  PROVE  handled[s] \subseteq handled'[s]
  <1>1. CASE UNCHANGED handled
    BY <1>1
  <1>2. CASE \E set : handled' = [handled EXCEPT ![Head(queue)] = @ \cup set]
    BY <1>2 DEF Typed
  <1>3. CASE Deciding
    BY <1>1, <1>2, <1>3, DecidingKinds DEF Reports
  <1> QED BY <1>1, <1>2, <1>3, StepKinds
     DEF Aside, StoreEvent, Tick, Fetch, Ending, FetchFails, RecordFails, Send, SendFails, Record,
         Restart, historyVars

\* A checkpoint moves over events that were settled.
LEMMA NothingSkippedStep ==
  ASSUME Typed, Reporting, NothingSkipped, [Next]_vars
  PROVE  NothingSkipped'
  <1> SUFFICES ASSUME NEW s \in Session
               PROVE  1..notified'[s] \subseteq handled'[s]
    BY DEF NothingSkipped
  <1>1. 1..notified[s] \subseteq handled[s] /\ handled[s] \subseteq handled'[s]
    BY HandledGrows DEF NothingSkipped
  <1>2. CASE UNCHANGED notified
    BY <1>1, <1>2
  <1>3. CASE Record
    <2>1. Head(queue) \in Session
      BY <1>3, HeadOfQueue DEF Record
    <2>2. CASE s = Head(queue)
      <3>1. notified'[s] = report.latest
        BY <1>3, <2>1, <2>2 DEF Record, Typed
      <3>2. /\ notified[s] \in Nat /\ report.first \in Nat /\ report.latest \in Nat
            /\ report.first <= notified[s] + 1
            /\ Covered(report) \subseteq handled[s]
        BY <1>3, <2>2 DEF Record, Reporting, Typed
      <3>3. ASSUME NEW i \in 1..report.latest
            PROVE  i \in 1..notified[s] \/ i \in Covered(report)
        BY <3>2 DEF Covered
      <3> QED BY <1>1, <3>1, <3>2, <3>3
    <2>3. CASE s # Head(queue)
      <3>1. notified'[s] = notified[s]
        BY <1>3, <2>3 DEF Record, Typed
      <3> QED BY <1>1, <3>1
    <2> QED BY <2>2, <2>3
  <1> QED BY <1>2, <1>3, CheckpointChange

\* What is sent once more than there were faults was settled without one.
LEMMA SendingsStep ==
  ASSUME Typed, WithinSession, Reporting, Sendings, [Next]_vars
  PROVE  Sendings'
  <1> SUFFICES ASSUME NEW s \in Session, NEW i \in 1..MaxEvents
               PROVE  /\ times'[s][i] <= faults' + 1
                      /\ times'[s][i] <= faults' \/ i <= notified'[s] \/ AboutToCover(s, i)'
                      /\ AboutToSend(s, i)' => times'[s][i] <= faults'
    BY DEF Sendings
  <1>1. /\ i \in Nat /\ times[s][i] \in Nat /\ faults \in Nat
        /\ times[s][i] <= faults + 1
        /\ times[s][i] <= faults \/ i <= notified[s] \/ AboutToCover(s, i)
        /\ AboutToSend(s, i) => times[s][i] <= faults
    BY WatcherAssumption DEF Sendings, Typed
  <1>2. /\ notified[s] \in Nat /\ notified'[s] \in Nat
        /\ notified[s] <= notified'[s]
    BY CheckpointStep, TypedStep DEF Typed
  <1>3. i <= notified[s] => i <= notified'[s]
    BY <1>1, <1>2
  \* Another failure makes room for one more report.
  <1>4. CASE times' = times /\ faults' = faults + 1
    BY <1>1, <1>4
  <1>5. CASE times' = times /\ faults' = faults /\ pc # "record" /\ pc' \notin {"send", "record"}
    <2>1. ~AboutToCover(s, i)
      BY <1>5 DEF AboutToCover
    <2>2. ~AboutToSend(s, i)'
      BY <1>5 DEF AboutToSend
    <2> QED BY <1>1, <1>3, <1>5, <2>1, <2>2
  <1>6. CASE UNCHANGED <<times, faults, pc, queue, report, notified>>
    <2>1. AboutToCover(s, i)' = AboutToCover(s, i) /\ AboutToSend(s, i)' = AboutToSend(s, i)
      BY <1>6 DEF AboutToCover, AboutToSend, Covered
    <2> QED BY <1>1, <1>6, <2>1
  <1>7. CASE Deciding
    <2>1. /\ pc = "decide" /\ Head(queue) \in Session
          /\ UNCHANGED <<notified, times>>
          /\ faults' = faults \/ faults' = faults + 1
      BY <1>7, DecidingKinds
    <2>2. CASE faults' = faults /\ pc' \in {"send", "record"}
      <3>1. times[s][i] <= faults \/ i <= notified'[s]
        BY <1>1, <1>3, <2>1 DEF AboutToCover
      <3>2. ASSUME AboutToSend(s, i)'
            PROVE  times[s][i] <= faults
        <4>1. s = Head(queue) /\ i \in Covered(report')
          BY <1>7, <2>2, <3>2, ReportOf DEF AboutToSend, Covered
        <4>2. report'.first = notified[Head(queue)] + 1
          BY <1>1, <1>7, <2>2, ReportOf
        <4>3. i > notified[s]
          BY <1>2, <4>1, <4>2 DEF Covered
        <4> QED BY <1>1, <1>2, <2>1, <4>3 DEF AboutToCover
      <3> QED BY <1>1, <2>1, <2>2, <3>1, <3>2
    <2>3. pc' \in {"send", "record", "sleep", "fetch"}
      BY <1>7, DecidingKinds DEF Leaves, Reports
    <2> QED BY <1>4, <1>5, <2>1, <2>2, <2>3
  <1>8. CASE Send
    <2>1. Head(queue) \in Session /\ pc = "send" /\ pc' = "record" /\ faults' = faults
          /\ UNCHANGED <<queue, report, notified>>
      BY <1>8, HeadOfQueue DEF Send
    <2>2. ~AboutToCover(s, i) /\ ~AboutToSend(s, i)'
      BY <2>1 DEF AboutToCover, AboutToSend
    <2>3. CASE s = Head(queue) /\ i \in Covered(report)
      <3>1. times'[s][i] = times[s][i] + 1
        BY <1>8, <2>1, <2>3 DEF Send, Typed
      <3>2. times[s][i] <= faults
        BY <1>1, <2>1, <2>3 DEF AboutToSend
      <3>3. AboutToCover(s, i)'
        BY <2>1, <2>3 DEF AboutToCover, Covered
      <3> QED BY <1>1, <2>1, <2>2, <3>1, <3>2, <3>3
    <2>4. CASE ~(s = Head(queue) /\ i \in Covered(report))
      <3>1. times'[s][i] = times[s][i]
        BY <1>8, <2>1, <2>4 DEF Send, Typed
      <3> QED BY <1>1, <1>3, <2>1, <2>2, <3>1
    <2> QED BY <2>3, <2>4
  <1>9. CASE Record
    <2>1. Head(queue) \in Session /\ UNCHANGED <<times, faults>>
          /\ pc = "record" /\ pc' \in {"sleep", "fetch"}
      BY <1>9, HeadOfQueue DEF Record, NextSession, historyVars
    <2>2. ~AboutToSend(s, i)'
      BY <2>1 DEF AboutToSend
    <2>3. ASSUME AboutToCover(s, i)
          PROVE  i <= notified'[s]
      <3>1. notified'[s] = report.latest
        BY <1>9, <2>1, <2>3 DEF Record, AboutToCover, Typed
      <3> QED BY <2>3, <3>1 DEF AboutToCover, Covered, Typed
    <2> QED BY <1>1, <1>3, <2>1, <2>2, <2>3
  <1>10. CASE Ending \/ SendFails \/ Restart
    BY <1>4, <1>10 DEF Ending, FetchFails, RecordFails, SendFails, Restart, Fault, historyVars
  <1>11. CASE Aside \/ \E t \in Session, e \in {"init"} \cup Input : StoreEvent(t, e)
    BY <1>6, <1>11 DEF Aside, StoreEvent, cycleVars, historyVars
  <1>12. CASE Tick \/ Fetch
    BY <1>5, <1>12 DEF Tick, Fetch, historyVars
  <1> QED BY <1>7, <1>8, <1>9, <1>10, <1>11, <1>12, StepKinds

\* Every event that was stored stays what it is.
LEMMA StoredStays ==
  ASSUME Typed, [Next]_vars, NEW s \in Session, NEW i \in 1..Len(stored[s])
  PROVE  stored'[s][i] = stored[s][i]
  <1>1. stored[s] \in Seq(EventClass)
    BY DEF Typed
  <1>2. ASSUME NEW t \in Session, NEW e \in {"init"} \cup Input, StoreEvent(t, e)
        PROVE  stored'[s] = stored[s] \/ stored'[s] = Append(stored[s], e)
    BY <1>2 DEF StoreEvent, Typed
  <1>3. CASE \E t \in Session, e \in {"init"} \cup Input : StoreEvent(t, e)
    <2>1. PICK t \in Session, e \in {"init"} \cup Input : StoreEvent(t, e)
      BY <1>3
    <2>2. e \in EventClass
      BY WatcherAssumption DEF EventClass
    <2>3. Append(stored[s], e)[i] = stored[s][i]
      BY <1>1, <2>2, AppendProperties
    <2> QED BY <1>2, <2>1, <2>3
  <1>4. CASE Deciding
    BY <1>4 DEF Deciding, Decide, DecideWithoutCheckpoint, DecideFrom, envVars
  <1> QED BY <1>3, <1>4, StepKinds
     DEF Aside, Tick, Fetch, Ending, FetchFails, RecordFails, Send, SendFails, Record, Restart,
         envVars

\* What a report says was done is a summary.
LEMMA SummaryOf ==
  ASSUME NEW new \in Seq(EventClass)
  PROVE  key_activities(activities(new)) \in Summary
  <1> DEFINE class == Command \cup {"prompt"}
             items == Distinct(activities(new))
             n == IF Len(items) > MaxCommands THEN MaxCommands ELSE Len(items)
             shown == [i \in 1..n |-> entry(items[i])]
  <1>1. items \in Seq(EventClass)
    <2> DEFINE done == activities(new)
    <2>1. done \in Seq(EventClass \cap class)
      BY FilterType DEF activities
    <2> HIDE DEF class, done
    <2>2. Distinct(done) \in Seq(EventClass \cap class)
      BY <2>1, DistinctType
    <2>3. Distinct(done) \in Seq(EventClass)
      BY <2>2
    <2> QED BY <2>3 DEF done
  <1>2. key_activities(activities(new)) = [shown |-> shown, omitted |-> Len(items) - n]
    BY DEF key_activities
  <1> HIDE DEF items
  <1>3. Len(items) \in Nat /\ n \in Nat /\ n <= Len(items) /\ Len(items) - n \in Nat
    BY <1>1, WatcherAssumption
  <1> HIDE DEF n
  <1>4. shown \in Seq(EventClass)
    <2>1. \A i \in 1..n : items[i] \in EventClass
      BY <1>1, <1>3
    <2>2. \A i \in 1..n : entry(items[i]) \in EventClass
      BY <2>1 DEF entry, EventClass, Command
    <2>3. shown \in [1..n -> EventClass]
      BY <2>2
    <2> QED BY <1>3, <2>3
  <1> HIDE DEF shown
  <1> QED BY <1>2, <1>3, <1>4 DEF Summary

\* The events above a checkpoint: all of them.
LEMMA NewEvents ==
  ASSUME NEW seq \in Seq(EventClass), NEW last \in Nat
  PROVE  /\ unnotified_events(seq, last) \in Seq(EventClass)
         /\ \A i \in (last + 1)..Len(seq) :
              \E j \in 1..Len(unnotified_events(seq, last)) :
                unnotified_events(seq, last)[j] = seq[i]
  <1>1. Len(seq) \in Nat
    BY LenProperties
  <1>2. unnotified_events(seq, last) \in Seq(EventClass)
    <2>1. \A i \in (last + 1)..Len(seq) : seq[i] \in EventClass
      BY <1>1
    <2> QED BY <1>1, <2>1, SubSeqProperties DEF unnotified_events
  <1>3. ASSUME NEW i \in (last + 1)..Len(seq)
        PROVE  /\ i - last \in 1..Len(SubSeq(seq, last + 1, Len(seq)))
               /\ SubSeq(seq, last + 1, Len(seq))[i - last] = seq[i]
    BY <1>1
  <1> QED BY <1>2, <1>3 DEF unnotified_events

\* A report with an alert among its events is one for the security section.
LEMMA AlertIsSecurity ==
  ASSUME Typed, NEW last \in Nat, NEW tampered,
         NEW i \in (last + 1)..Len(events), inspect_event(events[i])
  PROVE  Build(last, tampered).security = TRUE
  <1> DEFINE new == unnotified_events(events, last)
  <1>1. new \in Seq(EventClass) /\ \E j \in 1..Len(new) : new[j] = events[i]
    <2>1. events \in Seq(EventClass)
      BY DEF Typed
    <2>2. /\ new \in Seq(EventClass)
          /\ \A k \in (last + 1)..Len(events) : \E j \in 1..Len(new) : new[j] = events[k]
      BY <2>1, NewEvents
    <2> HIDE DEF new
    <2> QED BY <2>2
  <1>2. Build(last, tampered).security = (has_alert(new) \/ tampered)
    BY DEF Build
  <1> HIDE DEF new
  <1>3. events[i] \in ToSet(new)
    BY <1>1 DEF ToSet
  <1>4. has_alert(new)
    BY <1>3 DEF has_alert
  <1> QED BY <1>2, <1>4

\* No report is taken back.
LEMMA AttemptedGrows ==
  ASSUME [Next]_vars
  PROVE  attempted \subseteq attempted'
  <1>1. CASE Deciding
    BY <1>1 DEF Deciding, Decide, DecideWithoutCheckpoint, DecideFrom, Debounce
  <1>2. CASE \E s \in Session : GrowIdle(s) \/ Damage(s)
    BY <1>2 DEF GrowIdle, Damage, historyVars
  <1>3. CASE \E x \in hot \cup warm : Cool(x)
    BY <1>3 DEF Cool, historyVars
  <1>4. CASE UNCHANGED vars
    BY <1>4 DEF vars, historyVars
  <1>5. CASE \E s \in Session, e \in {"init"} \cup Input : StoreEvent(s, e)
    BY <1>5 DEF StoreEvent, historyVars
  <1> QED BY <1>1, <1>2, <1>3, <1>4, <1>5
     DEF Next, Environment, Cycle, LocalStep, Deciding, Tick, Fetch, FetchFails, RecordFails, Send, SendFails,
         Record, Restart, historyVars

\* The debounce map only takes up what is given to send_report.
LEMMA MapStep ==
  ASSUME Alerts, [Next]_vars
  PROVE  hot' \cup warm' \subseteq attempted'
  <1>1. hot \cup warm \subseteq attempted
    BY DEF Alerts
  <1>2. CASE Deciding
    BY <1>1, <1>2 DEF Deciding, Decide, DecideWithoutCheckpoint, DecideFrom, Debounce, debounceVars
  <1>3. CASE \E s \in Session : GrowIdle(s) \/ Damage(s)
    BY <1>1, <1>3 DEF GrowIdle, Damage, debounceVars, historyVars
  <1>4. CASE \E x \in hot \cup warm : Cool(x)
    BY <1>1, <1>4 DEF Cool, historyVars
  <1>5. CASE UNCHANGED vars
    BY <1>1, <1>5 DEF vars, debounceVars, historyVars
  <1>6. CASE \E s \in Session, e \in {"init"} \cup Input : StoreEvent(s, e)
    BY <1>1, <1>6 DEF StoreEvent, debounceVars, historyVars
  <1>7. CASE Restart
    BY <1>7 DEF Restart
  <1> QED BY <1>1, <1>2, <1>3, <1>4, <1>5, <1>6, <1>7
     DEF Next, Environment, Cycle, LocalStep, Deciding, Tick, Fetch, FetchFails, RecordFails, Send, SendFails,
         Record, debounceVars, historyVars

\* What is built is a report.
LEMMA BuildType ==
  ASSUME Typed, NEW last \in Nat, NEW tampered
  PROVE  Build(last, tampered) \in Report
  <1> DEFINE new == unnotified_events(events, last)
             r == Build(last, tampered)
  <1>1. events \in Seq(EventClass) /\ Len(events) \in Nat
    BY LenProperties DEF Typed
  <1>2. new \in Seq(EventClass)
    BY <1>1, NewEvents
  <1>3. last + 1 \in Nat \ {0} /\ latest_seq(events, last) \in Nat
    BY <1>1 DEF latest_seq
  <1>4. key_activities(activities(new)) \in Summary
    BY <1>2, SummaryOf
  <1>5. (has_alert(new) \/ tampered) \in BOOLEAN
    BY Zenon
  <1>6. is_ai(events, last) \in BOOLEAN
    BY Zenon DEF is_ai
  <1>7. r = [ first    |-> last + 1,
              latest   |-> latest_seq(events, last),
              summary  |-> key_activities(activities(new)),
              security |-> has_alert(new) \/ tampered,
              ai       |-> is_ai(events, last) ]
    BY Zenon DEF Build
  <1> HIDE DEF new, r
  <1>8. r \in Report
    BY <1>3, <1>4, <1>5, <1>6, <1>7, Zenon DEF Report
  <1> QED BY <1>8 DEF r

\* The reports made of a session stay on record.
LEMMA MadeStep ==
  ASSUME Typed, Forms, [Next]_vars
  PROVE  /\ made' \in [Session -> SUBSET Report]
         /\ \A s \in Session : made[s] \subseteq made'[s]
  <1>1. made \in [Session -> SUBSET Report]
    BY DEF Forms
  <1>2. CASE UNCHANGED made
    BY <1>1, <1>2
  <1>3. CASE Deciding
    <2>1. PICK last \in Nat : DecideFrom(last)
      <3>1. pc = "decide"
        BY <1>3 DEF Deciding, Decide, DecideWithoutCheckpoint, DecideFrom
      <3>2. notified[Head(queue)] \in Nat
        BY <3>1, HeadOfQueue DEF Typed
      <3> QED BY <1>3, <3>2 DEF Deciding, Decide, DecideWithoutCheckpoint
    <2> DEFINE r == Build(last, Head(queue) \in damaged)
    <2>2. r \in Report
      BY BuildType
    <2>3. UNCHANGED made \/ made' = [made EXCEPT ![Head(queue)] = @ \cup {r}]
      BY <2>1 DEF DecideFrom
    <2> HIDE DEF r
    <2> QED BY <1>1, <1>2, <2>2, <2>3
  <1>4. CASE \E s \in Session : GrowIdle(s) \/ Damage(s)
    BY <1>2, <1>4 DEF GrowIdle, Damage, historyVars
  <1>5. CASE \E x \in hot \cup warm : Cool(x)
    BY <1>2, <1>5 DEF Cool, historyVars
  <1>6. CASE UNCHANGED vars
    BY <1>2, <1>6 DEF vars, historyVars
  <1>7. CASE \E s \in Session, e \in {"init"} \cup Input : StoreEvent(s, e)
    BY <1>2, <1>7 DEF StoreEvent, historyVars
  <1> QED BY <1>2, <1>3, <1>4, <1>5, <1>6, <1>7
     DEF Next, Environment, Cycle, LocalStep, Deciding, Tick, Fetch, FetchFails, RecordFails, Send,
         SendFails, Record, Restart, historyVars

\* A report that is made of events with an alert is given to send_report, or
\* repeats one that was.
LEMMA DecisionReports ==
  ASSUME Typed, Forms, Alerts, Head(queue) \in Session,
         NEW last \in Nat, DecideFrom(last), pc' \in {"send", "record"}
  PROVE  /\ report' \in made'[Head(queue)]
         /\ \A i \in Covered(report') :
              inspect_event(events[i]) => report'.summary \in attempted'
  <1> DEFINE tampered == Head(queue) \in damaged
             r == Build(last, tampered)
  <1>1. /\ report' = r /\ Debounce(Head(queue), r)
        /\ made' = [made EXCEPT ![Head(queue)] = @ \cup {r}]
    BY DEF DecideFrom, NextSession
  <1>2. r.first = last + 1 /\ r.latest = IF Len(events) > last THEN Len(events) ELSE last
    BY DEF Build, latest_seq
  <1>3. report' \in made'[Head(queue)]
    <2> HIDE DEF r
    <2> QED BY <1>1 DEF Forms
  <1>4. ASSUME NEW i \in Covered(report'), inspect_event(events[i])
        PROVE  report'.summary \in attempted'
    <2>1. i \in (last + 1)..Len(events)
      <3>1. Len(events) \in Nat
        BY LenProperties DEF Typed
      <3> HIDE DEF r
      <3> QED BY <1>1, <1>2, <3>1 DEF Covered
    <2>2. r.security = TRUE
      BY <1>4, <2>1, AlertIsSecurity
    <2> HIDE DEF r
    <2>3. ~is_empty(r)
      BY <2>2 DEF is_empty
    <2>4. r.summary \in attempted'
      BY <1>1, <2>3 DEF Debounce, is_duplicate, Alerts
    <2> QED BY <1>1, <2>4
  <1> QED BY <1>3, <1>4

\* What is known of the alerts in the report being made stays true.
LEMMA AlertsStep ==
  ASSUME Typed, Reporting, Forms, Alerts, [Next]_vars
  PROVE  Alerts'
  <1>1. hot' \cup warm' \subseteq attempted'
    BY MapStep
  <1>2. CASE Aside \/ \E s \in Session, e \in {"init"} \cup Input : StoreEvent(s, e)
    <2>1. UNCHANGED <<pc, queue, events, report>>
      BY <1>2 DEF Aside, StoreEvent, cycleVars
    <2>2. CASE pc \notin {"decide", "send", "record"}
      BY <1>1, <2>1, <2>2 DEF Alerts
    <2>3. CASE pc \in {"decide", "send", "record"}
      <3> DEFINE h == Head(queue)
      <3>1. h \in Session
        BY <2>3, HeadOfQueue
      <3>2. /\ Len(events) \in Nat /\ Len(stored[h]) \in Nat
            /\ \A i \in 1..Len(stored[h]) : stored'[h][i] = stored[h][i]
        BY <3>1, StoredStays, StoredGrows, SMTT(60) DEF Typed
      <3>3. ASSUME pc = "decide", NEW i \in 1..Len(events)
            PROVE  stored'[h][i] = events[i]
        <4>1. i \in 1..Len(stored[h])
          BY <3>2, <3>3 DEF Reporting
        <4> QED BY <3>2, <3>3, <4>1 DEF Alerts
      <3>4. ASSUME pc \in {"send", "record"}, NEW i \in Covered(report),
                   inspect_event(stored'[h][i])
            PROVE  report.summary \in attempted'
        <4>1. i \in 1..Len(stored[h])
          BY <3>2, <3>4 DEF Reporting, Covered, Typed
        <4>2. inspect_event(stored[h][i])
          BY <3>2, <3>4, <4>1
        <4> QED BY <3>4, <4>2, AttemptedGrows DEF Alerts, AlertAtHand
      <3>5. Covered(report)' = Covered(report) /\ Head(queue)' = h
        BY <2>1 DEF Covered
      <3>6. pc \in {"send", "record"} => report \in made'[h]
        BY <3>1, MadeStep DEF Alerts
      <3>7. pc \in {"send", "record"} => (AlertAtHand' => report'.summary \in attempted')
        BY <2>1, <3>4, <3>5 DEF AlertAtHand
      <3> HIDE DEF h
      <3> QED BY <1>1, <2>1, <3>3, <3>5, <3>6, <3>7 DEF Alerts
    <2> QED BY <2>2, <2>3
  <1>3. CASE pc' \in {"sleep", "fetch"}
    BY <1>1, <1>3 DEF Alerts
  <1>4. CASE Fetch
    <2>1. events' = stored'[Head(queue)'] /\ pc' = "decide"
      BY <1>4 DEF Fetch, envVars
    <2> QED BY <1>1, <2>1 DEF Alerts
  <1>5. CASE Deciding /\ pc' \in {"send", "record"}
    <2>1. /\ Head(queue) \in Session /\ pc = "decide"
          /\ UNCHANGED <<stored, queue>>
          /\ report'.first \in Nat /\ report'.latest = Len(events) /\ 1 <= report'.first
      BY <1>5, DecidingKinds, ReportOf
    <2>2. PICK last \in Nat : DecideFrom(last)
      BY <1>5, <2>1 DEF Deciding, Decide, DecideWithoutCheckpoint, Typed
    <2>3. /\ report' \in made'[Head(queue)]
          /\ \A i \in Covered(report') :
               inspect_event(events[i]) => report'.summary \in attempted'
      BY <1>5, <2>1, <2>2, DecisionReports
    <2>4. ASSUME NEW i \in Covered(report'), inspect_event(stored'[Head(queue')][i])
          PROVE  report'.summary \in attempted'
      <3>1. i \in 1..Len(events)
        <4>1. Len(events) \in Nat
          BY DEF Typed
        <4> QED BY <2>1, <4>1 DEF Covered
      <3>2. stored'[Head(queue')][i] = events[i]
        BY <2>1, <3>1 DEF Alerts
      <3> QED BY <2>3, <2>4, <3>2
    <2>5. AlertAtHand' => report'.summary \in attempted'
      <3>1. Covered(report)' = Covered(report')
        BY DEF Covered
      <3> QED BY <2>4, <3>1 DEF AlertAtHand
    <2>6. pc' # "decide" /\ queue' = queue
      BY <1>5, <2>1
    <2> QED BY <1>1, <2>3, <2>5, <2>6 DEF Alerts
  <1>6. CASE Send \/ SendFails
    <2>1. /\ UNCHANGED <<stored, queue, report, attempted, made>>
          /\ pc = "send" /\ pc' = "record"
      BY <1>6 DEF Send, SendFails, envVars
    <2>2. AlertAtHand' = AlertAtHand
      BY <2>1 DEF Covered, AlertAtHand
    <2> QED BY <1>1, <2>1, <2>2 DEF Alerts
  <1>7. CASE Ending \/ Record
    BY <1>3, <1>7 DEF Ending, FetchFails, RecordFails, Record, NextSession
  <1>8. CASE Deciding /\ pc' \notin {"send", "record"}
    <2>1. pc' \in {"sleep", "fetch"}
      BY <1>8, DecidingKinds DEF Leaves, Reports
    <2> QED BY <1>3, <2>1
  <1> QED BY <1>2, <1>3, <1>4, <1>5, <1>6, <1>7, <1>8, StepKinds DEF Tick, Restart

\* A report about the event was given to send_report, or repeats one that was.
Reported(s, i) == \E r \in made[s] : i \in Covered(r) /\ r.summary \in attempted

\* It stays that way.
LEMMA ReportedStays ==
  ASSUME Typed, Forms, [Next]_vars, NEW s \in Session, NEW i, Reported(s, i)
  PROVE  Reported(s, i)'
  <1>1. made[s] \subseteq made'[s] /\ attempted \subseteq attempted'
    BY MadeStep, AttemptedGrows
  <1>2. PICK r \in made[s] : i \in Covered(r) /\ r.summary \in attempted
    BY DEF Reported
  <1>3. r \in made'[s] /\ i \in Covered(r) /\ r.summary \in attempted'
    BY <1>1, <1>2
  <1> QED BY <1>3 DEF Reported, Covered

\* A checkpoint moves over alerts that are reported.
LEMMA AlertIsReportedStep ==
  ASSUME Typed, WithinSession, Reporting, Forms, Alerts, AlertIsReported, [Next]_vars
  PROVE  AlertIsReported'
  <1> SUFFICES ASSUME NEW s \in Session, NEW i \in 1..notified'[s], inspect_event(stored'[s][i])
               PROVE  Reported(s, i)'
    BY DEF AlertIsReported, Reported, Covered
  <1>1. /\ notified[s] \in Nat /\ Len(stored[s]) \in Nat
        /\ notified[s] <= Len(stored[s])
        /\ \A k \in 1..Len(stored[s]) : stored'[s][k] = stored[s][k]
    BY StoredGrows, StoredStays DEF Typed, WithinSession
  <1>2. CASE i \in 1..notified[s]
    <2>1. inspect_event(stored[s][i])
      BY <1>1, <1>2
    <2>2. Reported(s, i)
      BY <1>2, <2>1 DEF AlertIsReported, Reported
    <2> QED BY <2>2, ReportedStays
  <1>3. CASE i \notin 1..notified[s]
    <2>1. Record
      BY <1>3, CheckpointChange
    <2>2. Head(queue) \in Session /\ pc = "record" /\ UNCHANGED <<stored, attempted>>
      BY <2>1, HeadOfQueue DEF Record, envVars, historyVars
    <2>3. s = Head(queue)
      BY <1>3, <2>1 DEF Record, Typed
    <2>4. notified'[s] = report.latest
      BY <2>1, <2>2, <2>3 DEF Record, Typed
    <2>5. i \in Covered(report)
      BY <1>1, <1>3, <2>2, <2>3, <2>4 DEF Reporting, Covered, Typed
    <2>6. inspect_event(stored[s][i])
      BY <2>2
    <2>7. Reported(s, i)
      BY <2>2, <2>3, <2>5, <2>6 DEF Alerts, AlertAtHand, Reported
    <2> QED BY <2>7, ReportedStays
  <1> QED BY <1>2, <1>3

\* Faults are counted up to their bound.
LEMMA FaultsStep ==
  ASSUME Forms, [Next]_vars
  PROVE  faults' \in 0..MaxFaults
  <1>1. faults \in 0..MaxFaults /\ MaxFaults \in Nat
    BY WatcherAssumption DEF Forms
  <1>2. CASE Fault
    BY <1>1, <1>2 DEF Fault
  <1>3. CASE UNCHANGED faults
    BY <1>1, <1>3
  <1> QED BY <1>2, <1>3, StepKinds
     DEF Aside, StoreEvent, Tick, Fetch, Ending, FetchFails, RecordFails, Deciding, Decide,
         DecideWithoutCheckpoint, Send, SendFails, Record, Restart

\* No report has the form of one.
LEMMA EmptyReport == NoReport \in Report
  <1>1. NoSummary \in Summary
    BY DEF NoSummary, Summary
  <1> QED BY <1>1 DEF NoReport, Report

\* A decision has a report built, or there is none.
LEMMA DecisionForms ==
  ASSUME Typed, Forms, NEW last \in Nat, DecideFrom(last)
  PROVE  /\ report' \in Report
         /\ hot' \cap warm' = {}
         /\ UNCHANGED <<idle, damaged, dry_run>>
  <1> DEFINE r == Build(last, Head(queue) \in damaged)
  <1>1. r \in Report
    BY BuildType
  <1>2. NoReport \in Report
    BY EmptyReport
  <1>3. hot \cap warm = {}
    BY DEF Forms
  <1> HIDE DEF r
  <1>4. UNCHANGED <<idle, damaged, dry_run>>
    BY DEF DecideFrom, envVars
  <1>5. \/ report' = NoReport /\ UNCHANGED <<hot, warm>>
        \/ report' = r /\ Debounce(Head(queue), r)
    BY DEF DecideFrom, NextSession, debounceVars, r
  <1>6. CASE report' = NoReport /\ UNCHANGED <<hot, warm>>
    BY <1>2, <1>3, <1>4, <1>6
  <1>7. CASE report' = r /\ Debounce(Head(queue), r)
    <2>1. hot' \cap warm' = {}
      BY <1>3, <1>7 DEF Debounce, debounceVars
    <2> QED BY <1>1, <1>4, <1>7, <2>1
  <1> QED BY <1>5, <1>6, <1>7

\* Any step keeps the types of the rest of the state.
LEMMA FormsStep ==
  ASSUME Typed, Forms, [Next]_vars
  PROVE  Forms'
  <1>1. faults' \in 0..MaxFaults /\ made' \in [Session -> SUBSET Report]
    BY FaultsStep, MadeStep
  <1>2. /\ idle \in [Session -> IdleLevel] /\ damaged \subseteq Session /\ dry_run \in BOOLEAN
        /\ report \in Report /\ hot \cap warm = {}
    BY Zenon DEF Forms
  <1>3. NoReport \in Report
    BY EmptyReport
  <1>4. CASE UNCHANGED <<idle, damaged, dry_run>> /\ report' \in Report /\ hot' \cap warm' = {}
    BY <1>1, <1>2, <1>4, Zenon DEF Forms
  <1>5. CASE UNCHANGED <<idle, damaged, dry_run, report, hot, warm>>
    BY <1>2, <1>4, <1>5
  <1>6. ASSUME NEW s \in Session, NEW e \in {"init"} \cup Input, StoreEvent(s, e)
        PROVE  Forms'
    <2>1. idle' \in [Session -> IdleLevel]
      BY <1>2, <1>6 DEF StoreEvent, IdleLevel
    <2>2. UNCHANGED <<damaged, dry_run, report, hot, warm>>
      BY <1>6 DEF StoreEvent, cycleVars, debounceVars
    <2> QED BY <1>1, <1>2, <2>1, <2>2, Zenon DEF Forms
  <1>7. ASSUME NEW s \in Session, GrowIdle(s)
        PROVE  Forms'
    <2>1. idle' \in [Session -> IdleLevel]
      BY <1>2, <1>7 DEF GrowIdle, IdleLevel
    <2>2. UNCHANGED <<damaged, dry_run, report, hot, warm>>
      BY <1>7 DEF GrowIdle, cycleVars, debounceVars
    <2> QED BY <1>1, <1>2, <2>1, <2>2, Zenon DEF Forms
  <1>8. ASSUME NEW s \in Session, Damage(s)
        PROVE  Forms'
    <2>1. damaged' \subseteq Session
      BY <1>2, <1>8 DEF Damage
    <2>2. UNCHANGED <<idle, dry_run, report, hot, warm>>
      BY <1>8 DEF Damage, cycleVars, debounceVars
    <2> QED BY <1>1, <1>2, <2>1, <2>2, Zenon DEF Forms
  <1>9. ASSUME NEW x \in hot \cup warm, Cool(x)
        PROVE  Forms'
    <2>1. UNCHANGED <<idle, damaged, dry_run, report>> /\ hot' \cap warm' = {}
      BY <1>2, <1>9 DEF Cool, envVars, cycleVars
    <2> QED BY <1>2, <1>4, <2>1
  <1>10. CASE Deciding
    <2>1. PICK last \in Nat : DecideFrom(last)
      <3>1. pc = "decide"
        BY <1>10 DEF Deciding, Decide, DecideWithoutCheckpoint, DecideFrom
      <3>2. notified[Head(queue)] \in Nat
        BY <3>1, HeadOfQueue DEF Typed
      <3> QED BY <1>10, <3>2 DEF Deciding, Decide, DecideWithoutCheckpoint
    <2> QED BY <1>4, <2>1, DecisionForms
  <1>11. CASE Ending \/ Record
    <2>1. UNCHANGED <<idle, damaged, dry_run, hot, warm>> /\ report' = NoReport
      BY <1>11 DEF Ending, FetchFails, RecordFails, Record, NextSession, envVars, debounceVars
    <2> QED BY <1>2, <1>3, <1>4, <2>1
  <1>12. CASE Restart
    <2>1. /\ UNCHANGED <<idle, damaged, dry_run>> /\ report' = NoReport
          /\ hot' = {} /\ warm' = {}
      BY <1>12 DEF Restart, envVars
    <2> QED BY <1>3, <1>4, <2>1
  <1>13. CASE Tick \/ Fetch \/ Send \/ SendFails
    BY <1>5, <1>13 DEF Tick, Fetch, Send, SendFails, envVars, debounceVars
  <1>14. CASE UNCHANGED vars
    BY <1>5, <1>14 DEF vars, envVars, cycleVars, debounceVars
  <1> QED BY <1>6, <1>7, <1>8, <1>9, <1>10, <1>11, <1>12, <1>13, <1>14
     DEF Next, Environment, Cycle, LocalStep, Deciding, Ending
--------------------------------------------------------------------------------
(* The theorems *)

\* The invariant that carries the others: types, checkpoints within their
\* sessions, reports that begin after the checkpoint, no event settled twice, and
\* reports of alerts that were given to send_report or repeat one that was.
THEOREM Invariant == Spec => []IInv
  <1>1. Init => IInv
    <2> SUFFICES ASSUME Init PROVE IInv
      OBVIOUS
    <2>1. Typed
      BY DEF Init, Typed, NoReport
    <2>2. WithinSession /\ NothingSkipped
      BY DEF Init, WithinSession, NothingSkipped
    <2>3. Reporting
      BY DEF Init, Reporting
    <2>4. Sendings
      BY DEF Init, Sendings, AboutToSend
    <2>5. Alerts /\ AlertIsReported
      BY DEF Init, Alerts, AlertIsReported
    <2>6. Forms
      <3>1. idle \in [Session -> IdleLevel] /\ damaged \subseteq Session
        BY DEF Init, IdleLevel
      <3>2. report \in Report /\ hot \cap warm = {} /\ made \in [Session -> SUBSET Report]
        BY EmptyReport DEF Init
      <3>3. faults \in 0..MaxFaults
        BY WatcherAssumption DEF Init
      <3>4. dry_run \in BOOLEAN
        BY Zenon DEF Init
      <3> QED BY <3>1, <3>2, <3>3, <3>4, Zenon DEF Forms
    <2> QED BY <2>1, <2>2, <2>3, <2>4, <2>5, <2>6 DEF IInv
  <1>2. IInv /\ [Next]_vars => IInv'
    <2> SUFFICES ASSUME IInv, [Next]_vars PROVE IInv'
      OBVIOUS
    <2>1. Typed'
      BY TypedStep DEF IInv
    <2>2. WithinSession'
      BY CheckpointStep DEF IInv, WithinSession
    <2>3. Reporting'
      BY ReportingStep DEF IInv
    <2>4. NothingSkipped'
      BY NothingSkippedStep DEF IInv
    <2>5. Sendings'
      BY SendingsStep DEF IInv
    <2>6. Alerts'
      BY AlertsStep DEF IInv
    <2>7. AlertIsReported'
      BY AlertIsReportedStep DEF IInv
    <2>8. Forms'
      BY FormsStep DEF IInv
    <2> QED BY <2>1, <2>2, <2>3, <2>4, <2>5, <2>6, <2>7, <2>8 DEF IInv
  <1> QED BY <1>1, <1>2, PTL DEF Spec

\* Types of the watcher's state, and no checkpoint ahead of its session, whatever
\* the collector stores between the reads of a cycle.
THEOREM Typing == Spec => []TypeOK
  <1>1. IInv => TypeOK
    BY Zenon DEF IInv, Typed, WithinSession, Forms, TypeOK
  <1> QED BY <1>1, Invariant, PTL

\* About every alert below a checkpoint, of a command or of an exec, there is a
\* report that was given to send_report, or that was dropped for one with the same
\* summary that was: with any number of sessions, failures and restarts, and any
\* number of commands in a summary.
THEOREM AlertsAreReported == Spec => []AlertIsReported
  <1>1. IInv => AlertIsReported
    BY DEF IInv
  <1> QED BY <1>1, Invariant, PTL

\* No event is passed over: 1..notified of every session is covered by reports
\* that were sent, failed to be sent, or were knowingly dropped, with any number
\* of sessions, of events stored while a cycle runs, of failures and restarts.
THEOREM NoEventIsSkipped == Spec => []NothingSkipped
  <1>1. IInv => NothingSkipped
    BY DEF IInv
  <1> QED BY <1>1, Invariant, PTL

\* An event is in one successful report, and in one more for each failure: the
\* checkpoint, not the moment of the cycle, decides what is new.
THEOREM ReportsAreNotRepeated == Spec => []ReportedOnce
  <1>1. IInv => ReportedOnce
    <2> SUFFICES ASSUME IInv, NEW s \in Session, NEW i \in 1..MaxEvents
                 PROVE  times[s][i] <= 1 + faults
      BY DEF ReportedOnce
    <2>1. times[s][i] <= faults + 1 /\ faults \in Nat /\ times[s][i] \in Nat
      BY DEF IInv, Sendings, Typed
    <2> QED BY <2>1
  <1> QED BY <1>1, Invariant, PTL

\* record_notification never lowers a checkpoint, also when the one before it
\* could not be read and counted as 0.
THEOREM CheckpointsDoNotFall == Spec => CheckpointMonotone
  <1>1. IInv /\ [Next]_vars => [\A s \in Session : notified'[s] >= notified[s]]_vars
    <2> SUFFICES ASSUME IInv, [Next]_vars, NEW s \in Session
                 PROVE  notified'[s] >= notified[s]
      OBVIOUS
    <2>1. notified[s] <= notified'[s]
      BY CheckpointStep DEF IInv
    <2>2. notified[s] \in Nat /\ notified'[s] \in Nat
      BY TypedStep DEF IInv, Typed
    <2> QED BY <2>1, <2>2
  <1> QED BY <1>1, Invariant, PTL DEF Spec, CheckpointMonotone
================================================================================
