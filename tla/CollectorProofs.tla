---------------------------- MODULE CollectorProofs ----------------------------
(***************************************************************************)
(* Proofs about Collector, for every number of requests, viewers, events   *)
(* and every capacity of the channel.                                      *)
(*                                                                         *)
(* The argument counts, for every kind of events of one session, the ways  *)
(* of an event: it is in the rows once for each time it is in a request    *)
(* that was persisted; of these, the requests that are still to be         *)
(* broadcast and the channel have no more than the rows (Ahead), and the   *)
(* requests answered 202 neither (Durable).  What a viewer got is a part   *)
(* of what it has read of the channel (Shown).  Each event of a request    *)
(* answered 202 that was stored after a viewer subscribed it was sent, or  *)
(* it lies ahead of it in the channel (Missing).                           *)
(***************************************************************************)
EXTENDS Collector, SubsequenceProofs

\* Where events of a kind stand in the requests rs.
At(requests, rs, kind) ==
  {p \in RequestId \X Nat : p[1] \in rs /\ p[2] \in Positions(requests[p[1]].events, kind)}

\* The requests whose handler stands between insert_batch and the broadcast.
Unsent(requests) == {r \in RequestId : requests[r].st = "stored"}

\* These, and the ones answered 202.
Persisted(requests) == {r \in RequestId : requests[r].st = "stored" \/ requests[r].status = 202}

\* How many events of a kind a receiver has read from the channel.
Read(channel, view, kind) == Number(SubSeq(channel, 1, view.at), kind)

Finite == IsFiniteSet(At(reqs, Persisted(reqs), Event))

\* The rows have every persisted event as often as the persisted requests.
Durable ==
  \A s \in Stream : \A kind \in SUBSET OfSession(s) :
    Cardinality(At(reqs, Persisted(reqs), kind)) <= Number(rows[s], kind)

\* They have it as often as the channel and the handlers that will broadcast it.
Ahead ==
  \A s \in Stream : \A kind \in SUBSET OfSession(s) :
    Number(bus, kind) + Cardinality(At(reqs, Unsent(reqs), kind)) <= Number(rows[s], kind)

\* A view shows events of its session that it has read from the channel.
ShowsWhatItRead(view, channel) ==
  /\ view.got \in Seq(OfSession(view.sid))
  /\ \A kind \in SUBSET OfSession(view.sid) :
       Number(view.got, kind) <= Read(channel, view, kind)

Shown == \A v \in Viewer : ShowsWhatItRead(views[v], bus)

IInv ==
  /\ TypeOK
  /\ Finite
  /\ Durable
  /\ Ahead
  /\ Shown
--------------------------------------------------------------------------------
(* Counting in requests *)

\* The events of one more request add up.
LEMMA AtAdd ==
  ASSUME NEW q, NEW rs \in SUBSET RequestId, NEW r \in RequestId \ rs, NEW kind,
         Len(q[r].events) \in Nat, IsFiniteSet(At(q, rs, kind))
  PROVE  /\ IsFiniteSet(At(q, rs \cup {r}, kind))
         /\ Cardinality(At(q, rs \cup {r}, kind))
              = Cardinality(At(q, rs, kind)) + Number(q[r].events, kind)
  <1> DEFINE old == At(q, rs, kind)
             new == {r} \X Positions(q[r].events, kind)
  <1>1. /\ IsFiniteSet(Positions(q[r].events, kind))
        /\ Number(q[r].events, kind) \in Nat
    BY NumberType
  <1>2. IsFiniteSet({r}) /\ Cardinality({r}) = 1
    BY FS_Singleton
  <1>3. /\ IsFiniteSet(new)
        /\ Cardinality(new) = Cardinality({r}) * Cardinality(Positions(q[r].events, kind))
    BY <1>1, <1>2, FS_Product
  <1>4. Cardinality(new) = Number(q[r].events, kind)
    BY <1>1, <1>2, <1>3 DEF Number
  <1>5. At(q, rs \cup {r}, kind) = old \cup new
    BY DEF At, Positions
  <1>6. old \cap new = {}
    BY DEF At
  <1> HIDE DEF old, new
  <1>7. /\ IsFiniteSet(old \cup new)
        /\ Cardinality(old \cup new) = Cardinality(old) + Cardinality(new) - Cardinality(old \cap new)
    BY <1>3, FS_Union DEF old
  <1>8. Cardinality(old \cap new) = 0 /\ Cardinality(old) \in Nat
    BY <1>6, FS_EmptySet, FS_CardinalityType DEF old
  <1>9. Cardinality(old \cup new) = Cardinality(old) + Number(q[r].events, kind)
    BY <1>1, <1>4, <1>7, <1>8
  <1> QED BY <1>5, <1>7, <1>9 DEF old

\* Only the events of the requests matter.
LEMMA AtSame ==
  ASSUME NEW q, NEW p, NEW rs, NEW kind, \A r \in rs : q[r].events = p[r].events
  PROVE  At(q, rs, kind) = At(p, rs, kind)
  BY DEF At

\* Fewer requests, or a narrower kind, have no more.
LEMMA AtFewer ==
  ASSUME NEW q, NEW rs, NEW more, rs \subseteq more, NEW kind, NEW wider, kind \subseteq wider,
         IsFiniteSet(At(q, more, wider))
  PROVE  /\ IsFiniteSet(At(q, rs, kind))
         /\ Cardinality(At(q, rs, kind)) \in Nat
         /\ Cardinality(At(q, rs, kind)) <= Cardinality(At(q, more, wider))
  <1>1. At(q, rs, kind) \in SUBSET At(q, more, wider)
    BY DEF At, Positions
  <1> QED BY <1>1, FS_Subset, FS_CardinalityType
--------------------------------------------------------------------------------
(* Types *)

\* The sets of a request's fields.
States == {"free", "arrived", "stored", "answered", "lost"}
Forms == {"good", "token", "body"}
Codes == {0, 202, 400, 401, 500}
Flags == BOOLEAN

\* The fields of a request, with their sets under a name.
LEMMA RequestFields ==
  Request = [st : States, form : Forms, events : Seq(Event), status : Codes, kill : Flags]
  BY DEF Request, States, Forms, Codes, Flags

\* A request in another state, and one that is answered.
InState(q, st) == [q EXCEPT !.st = st]
WithAnswer(q, code, kill) == [q EXCEPT !.st = "answered", !.status = code, !.kill = kill]

\* They are requests, with the same events.
LEMMA InStateType ==
  ASSUME NEW q \in Request, NEW st \in States
  PROVE  /\ InState(q, st) \in Request
         /\ InState(q, st).st = st
         /\ InState(q, st).events = q.events /\ InState(q, st).status = q.status
  BY RequestFields DEF InState

\* A request that is answered is a request, with the same events.
LEMMA WithAnswerType ==
  ASSUME NEW q \in Request, NEW code \in Codes, NEW kill \in Flags
  PROVE  /\ WithAnswer(q, code, kill) \in Request
         /\ WithAnswer(q, code, kill).st = "answered"
         /\ WithAnswer(q, code, kill).events = q.events
         /\ WithAnswer(q, code, kill).status = code
  <1>1. "answered" \in States
    BY DEF States
  <1> QED BY <1>1, RequestFields DEF WithAnswer

\* How the answer of a handler changes its request.
LEMMA AnsweredType ==
  ASSUME reqs \in [RequestId -> Request], NEW r \in RequestId,
         NEW code \in Codes, NEW kill \in Flags, Answered(r, code, kill)
  PROVE  /\ reqs' = [reqs EXCEPT ![r] = WithAnswer(reqs[r], code, kill)]
         /\ reqs' \in [RequestId -> Request]
  <1>1. reqs[r] \in Request
    OBVIOUS
  <1>2. WithAnswer(reqs[r], code, kill) \in Request
    BY <1>1, WithAnswerType
  <1>3. reqs' = [reqs EXCEPT ![r] = WithAnswer(reqs[r], code, kill)]
    BY DEF Answered, WithAnswer
  <1> QED BY <1>2, <1>3

\* A request that is turned down gets one of these.
Refusals == Codes \ {202}

\* A request that is turned down gets one of the refusing codes.
LEMMA RefusalCode ==
  ASSUME NEW r, Refuse(r) \/ PersistFails(r)
  PROVE  \E code \in Refusals : Answered(r, code, FALSE)
  <1>1. Answered(r, 401, FALSE) \/ Answered(r, 400, FALSE) \/ Answered(r, 500, FALSE)
    BY Zenon DEF Refuse, PersistFails
  <1>2. 400 \in Refusals /\ 401 \in Refusals /\ 500 \in Refusals
    BY DEF Refusals, Codes
  <1> QED BY <1>1, <1>2, ZenonT(60)

\* A handler answers with MustKill or FALSE.
LEMMA FlagTypes == FALSE \in Flags /\ \A events : MustKill(events) \in Flags
  BY Zenon DEF MustKill, Flags

\* The places of a request's events, one for each.
LEMMA PlacesType ==
  ASSUME NEW r \in RequestId, reqs[r].events \in Seq(Event)
  PROVE  /\ Places(r) \in Seq(RequestId \X Nat)
         /\ Len(Places(r)) = Len(reqs[r].events)
         /\ \A i \in 1..Len(reqs[r].events) : Places(r)[i] = <<r, i>>
  <1> DEFINE n == Len(reqs[r].events)
  <1>1. n \in Nat
    BY LenProperties
  <1> HIDE DEF n
  <1>2. Places(r) = [i \in 1..n |-> <<r, i>>]
    BY DEF Places, n
  <1>3. Places(r) \in Seq(RequestId \X Nat) /\ Len(Places(r)) = n
    BY <1>1, <1>2
  <1>4. \A i \in 1..n : Places(r)[i] = <<r, i>>
    BY <1>2
  <1> QED BY <1>3, <1>4 DEF n

\* The collector's state has its types.
LEMMA TypeStep ==
  ASSUME TypeOK, [Next]_collectorVars
  PROVE  TypeOK'
  <1>1. /\ rows \in [Stream -> Seq(Event)]
        /\ reqs \in [RequestId -> Request]
        /\ killed \subseteq Session
        /\ bus \in Seq(Event)
        /\ origin \in Seq(RequestId \X Nat) /\ Len(origin) = Len(bus)
        /\ views \in [Viewer -> View]
        /\ \A v \in Viewer : views[v].at <= Len(bus)
    BY Zenon DEF TypeOK
  <1>2. ASSUME NEW r \in RequestId, NEW events \in BoundedSeq(Event, MaxBatch),
               NEW form \in {"good", "token", "body"}, Arrive(r, events, form)
        PROVE  TypeOK'
    <2> DEFINE q == [NoRequest EXCEPT !.st = "arrived", !.events = events, !.form = form]
    <2>1. events \in Seq(Event)
      BY CollectorAssumption DEF BoundedSeq, SeqOf
    <2>2. q \in Request
      BY <2>1, ZenonT(60) DEF NoRequest, Request
    <2>3. reqs' = [reqs EXCEPT ![r] = q] /\ UNCHANGED <<rows, killed, bus, origin, views>>
      BY <1>2 DEF Arrive
    <2> HIDE DEF q
    <2>4. reqs' \in [RequestId -> Request]
      BY <1>1, <2>2, <2>3
    <2> QED BY <1>1, <2>3, <2>4, Zenon DEF TypeOK
  <1>3. ASSUME NEW r \in RequestId, Refuse(r) \/ PersistFails(r)
        PROVE  TypeOK'
    <2>1. UNCHANGED <<rows, killed, bus, origin, views>>
      BY <1>3 DEF Refuse, PersistFails
    <2>2. PICK code \in Refusals : Answered(r, code, FALSE)
      BY <1>3, RefusalCode
    <2>3. code \in Codes
      BY DEF Refusals
    <2>4. reqs' \in [RequestId -> Request]
      BY <1>1, <2>2, <2>3, AnsweredType, FlagTypes
    <2> QED BY <1>1, <2>1, <2>4, Zenon DEF TypeOK
  <1>4. ASSUME NEW r \in RequestId, Persist(r)
        PROVE  TypeOK'
    <2> DEFINE q == InState(reqs[r], "stored")
    <2>1. reqs[r] \in Request
      BY <1>1
    <2>2. q \in Request
      BY <2>1, InStateType DEF States
    <2>3. reqs' = [reqs EXCEPT ![r] = q] /\ UNCHANGED <<killed, bus, origin, views>>
      BY <1>4 DEF Persist, InState
    <2> HIDE DEF q
    <2>4. reqs' \in [RequestId -> Request]
      BY <1>1, <2>2, <2>3
    <2>5. rows' \in [Stream -> Seq(Event)]
      <3>1. reqs[r].events \in Seq(Event)
        BY <2>1 DEF Request
      <3>2. ASSUME NEW s \in Stream
            PROVE  rows[s] \o Filter(reqs[r].events, OfSession(s)) \in Seq(Event)
        <4>1. Filter(reqs[r].events, OfSession(s)) \in Seq(Event \cap OfSession(s))
          BY <3>1, FilterType
        <4>2. Filter(reqs[r].events, OfSession(s)) \in Seq(Event)
          BY <4>1
        <4> QED BY <1>1, <4>2, ConcatProperties
      <3>3. rows' = [s \in Stream |-> rows[s] \o Filter(reqs[r].events, OfSession(s))]
        BY <1>4 DEF Persist, Inserted
      <3> QED BY <3>2, <3>3
    <2> QED BY <1>1, <2>3, <2>4, <2>5, Zenon DEF TypeOK
  <1>5. ASSUME NEW r \in RequestId, Finish(r)
        PROVE  TypeOK'
    <2>1. reqs[r].events \in Seq(Event)
      BY <1>1 DEF Request
    <2>2. bus' = bus \o reqs[r].events /\ UNCHANGED <<rows, killed, views>>
      BY <1>5 DEF Finish
    <2>3. bus' \in Seq(Event) /\ Len(bus) \in Nat /\ Len(bus') \in Nat /\ Len(bus) <= Len(bus')
      BY <1>1, <2>1, <2>2, ConcatProperties, LenProperties
    <2>4. Answered(r, 202, MustKill(reqs[r].events))
      BY <1>5 DEF Finish
    <2>5. reqs' \in [RequestId -> Request]
      <3>1. 202 \in Codes
        BY DEF Codes
      <3> QED BY <1>1, <2>4, <3>1, AnsweredType, FlagTypes
    <2>6. \A v \in Viewer : views'[v].at <= Len(bus')
      BY <1>1, <2>2, <2>3 DEF View
    <2>7. origin' \in Seq(RequestId \X Nat) /\ Len(origin') = Len(bus')
      <3>1. origin' = origin \o Places(r)
        BY <1>5 DEF Finish
      <3>2. Places(r) \in Seq(RequestId \X Nat) /\ Len(Places(r)) = Len(reqs[r].events)
        BY <2>1, PlacesType
      <3>3. origin' \in Seq(RequestId \X Nat) /\ Len(origin') = Len(origin) + Len(Places(r))
        BY <1>1, <3>1, <3>2, ConcatProperties
      <3>4. Len(bus') = Len(bus) + Len(reqs[r].events)
        BY <1>1, <2>1, <2>2, ConcatProperties
      <3> QED BY <1>1, <3>2, <3>3, <3>4
    <2> QED BY <1>1, <2>2, <2>3, <2>5, <2>6, <2>7, Zenon DEF TypeOK
  <1>6. ASSUME NEW s \in Session, kill_session(s)
        PROVE  TypeOK'
    <2>1. killed' \subseteq Session /\ UNCHANGED <<rows, reqs, bus, origin, views>>
      BY <1>1, <1>6 DEF kill_session
    <2> QED BY <1>1, <2>1, Zenon DEF TypeOK
  \* A change of one view.
  <1>7. ASSUME NEW v \in Viewer, NEW w \in View, w.at <= Len(bus),
               views' = [views EXCEPT ![v] = w], UNCHANGED <<rows, reqs, killed, bus, origin>>
        PROVE  TypeOK'
    <2>1. views' \in [Viewer -> View] /\ \A u \in Viewer : views'[u].at <= Len(bus')
      BY <1>1, <1>7
    <2> QED BY <1>1, <1>7, <2>1, Zenon DEF TypeOK
  <1>8. NoView \in View /\ NoView.at = 0
    BY DEF NoView, View, Stream
  <1>9. Len(bus) \in Nat
    BY <1>1, LenProperties
  <1>10. ASSUME NEW v \in Viewer, NEW s \in Session, Subscribe(v, s)
         PROVE  TypeOK'
    <2> DEFINE old == {r \in RequestId : Stored(r)}
               w == [NoView EXCEPT !.on = TRUE, !.sid = s, !.at = Len(bus), !.before = old]
    <2>1. old \in SUBSET RequestId
      BY Zenon
    <2>3. s \in Stream
      BY DEF Stream
    <2>5. views' = [views EXCEPT ![v] = w] /\ UNCHANGED <<rows, reqs, killed, bus, origin>>
      BY <1>10, Zenon DEF Subscribe
    <2> HIDE DEF old
    <2>4. w \in View /\ w.at = Len(bus)
      BY <1>8, <1>9, <2>1, <2>3 DEF View
    <2> HIDE DEF w
    <2>6. w.at <= Len(bus)
      BY <1>9, <2>4
    <2> QED BY <1>7, <2>4, <2>5, <2>6, Zenon
  <1>11. ASSUME NEW v \in Viewer, Lag(v)
         PROVE  TypeOK'
    <2> DEFINE w == [views[v] EXCEPT !.at = Oldest, !.lagged = TRUE]
    <2>1. Oldest \in Nat /\ Oldest <= Len(bus)
      BY <1>9, CollectorAssumption DEF Oldest
    <2>2. views[v] \in View
      BY <1>1
    <2>3. w \in View /\ w.at = Oldest
      BY <2>1, <2>2 DEF View
    <2>4. views' = [views EXCEPT ![v] = w] /\ UNCHANGED <<rows, reqs, killed, bus, origin>>
      BY <1>11 DEF Lag
    <2> HIDE DEF w
    <2>5. w.at <= Len(bus)
      BY <2>1, <2>3
    <2> QED BY <1>7, <2>3, <2>4, <2>5, Zenon
  <1>12. ASSUME NEW v \in Viewer, Deliver(v)
         PROVE  TypeOK'
    <2> DEFINE e == bus[views[v].at + 1]
               shown == IF e.sid = views[v].sid THEN Append(views[v].got, e) ELSE views[v].got
               noted == IF e.sid = views[v].sid THEN views[v].seen \cup {origin[views[v].at + 1]}
                        ELSE views[v].seen
               w == [views[v] EXCEPT !.at = @ + 1, !.got = shown, !.seen = noted]
    <2>1. views[v] \in View
      BY <1>1
    <2>2. views[v].at \in Nat /\ views[v].got \in Seq(Event) /\ views[v].at + 1 \in 1..Len(bus)
      BY <1>9, <1>12, <2>1 DEF Deliver, View
    <2>3. e \in Event
      BY <1>1, <2>2
    <2>4. shown \in Seq(Event)
      BY <2>2, <2>3, AppendProperties
    <2>5. views' = [views EXCEPT ![v] = w] /\ UNCHANGED <<rows, reqs, killed, bus, origin>>
      BY <1>12 DEF Deliver
    <2>10. noted \in SUBSET (RequestId \X Nat)
      <3>1. views[v].seen \in SUBSET (RequestId \X Nat)
        BY <2>1 DEF View
      <3>2. origin[views[v].at + 1] \in RequestId \X Nat
        BY <1>1, <2>2
      <3> QED BY <3>1, <3>2
    <2> HIDE DEF shown, noted, e
    <2>6. w = [views[v] EXCEPT !.at = views[v].at + 1, !.got = shown, !.seen = noted]
      OBVIOUS
    <2>7. views[v].at + 1 \in Nat
      BY <2>2
    <2>8. w \in View /\ w.at = views[v].at + 1
      BY <2>1, <2>4, <2>6, <2>7, <2>10 DEF View
    <2> HIDE DEF w
    <2>9. w.at <= Len(bus)
      BY <1>9, <2>2, <2>8
    <2> QED BY <1>7, <2>5, <2>8, <2>9, Zenon
  <1>13. ASSUME NEW v \in Viewer, Unsubscribe(v)
         PROVE  TypeOK'
    <2>1. views' = [views EXCEPT ![v] = NoView] /\ UNCHANGED <<rows, reqs, killed, bus, origin>>
      BY <1>13 DEF Unsubscribe
    <2>2. NoView.at <= Len(bus)
      BY <1>8, <1>9
    <2> QED BY <1>7, <1>8, <2>1, <2>2, Zenon
  <1>14. CASE Restart
    <2>1. bus' = << >> /\ origin' = << >> /\ views' = [v \in Viewer |-> NoView] /\ killed' = {} /\ rows' = rows
      BY <1>14 DEF Restart
    <2>2. views' \in [Viewer -> View] /\ \A v \in Viewer : views'[v].at <= Len(bus')
      BY <1>8, <2>1
    <2>3. ASSUME NEW r \in RequestId
          PROVE  InState(reqs[r], "lost") \in Request /\ reqs[r] \in Request
      BY <1>1, InStateType DEF States
    <2>6. reqs' = [r \in RequestId |-> IF reqs[r].st \in {"arrived", "stored"}
                                       THEN InState(reqs[r], "lost") ELSE reqs[r]]
      BY <1>14 DEF Restart, InState
    <2>4. reqs' \in [RequestId -> Request]
      BY <2>3, <2>6
    <2>5. /\ bus' \in Seq(Event) /\ killed' \subseteq Session
          /\ origin' \in Seq(RequestId \X Nat) /\ Len(origin') = Len(bus')
      BY <2>1
    <2> QED BY <1>1, <2>1, <2>2, <2>4, <2>5, Zenon DEF TypeOK
  <1>15. CASE UNCHANGED collectorVars
    BY <1>1, <1>15, Zenon DEF collectorVars, TypeOK
  <1> QED BY <1>2, <1>3, <1>4, <1>5, <1>6, <1>10, <1>11, <1>12, <1>13, <1>14, <1>15
     DEF Next, Handler, LiveStream
--------------------------------------------------------------------------------
(* The counts *)

\* The conjuncts in the next state.
LEMMA Primed ==
  /\ Finite' <=> IsFiniteSet(At(reqs', Persisted(reqs'), Event))
  /\ Durable' <=> \A s \in Stream : \A kind \in SUBSET OfSession(s) :
                    Cardinality(At(reqs', Persisted(reqs'), kind)) <= Number(rows'[s], kind)
  /\ Ahead' <=> \A s \in Stream : \A kind \in SUBSET OfSession(s) :
                  Number(bus', kind) + Cardinality(At(reqs', Unsent(reqs'), kind))
                    <= Number(rows'[s], kind)
  /\ Shown' <=> \A v \in Viewer : ShowsWhatItRead(views'[v], bus')
  <1>1. /\ At(reqs, Persisted(reqs), Event)' = At(reqs', Persisted(reqs'), Event)
        /\ \A kind : At(reqs, Persisted(reqs), kind)' = At(reqs', Persisted(reqs'), kind)
        /\ \A kind : At(reqs, Unsent(reqs), kind)' = At(reqs', Unsent(reqs'), kind)
    BY DEF At, Persisted, Unsent, Positions
  <1>2. /\ \A s, kind : Number(rows[s], kind)' = Number(rows'[s], kind)
        /\ \A kind : Number(bus, kind)' = Number(bus', kind)
    BY DEF Number, Positions
  <1>3. \A s : OfSession(s)' = OfSession(s)
    BY DEF OfSession
  <1>4. \A v : ShowsWhatItRead(views[v], bus)' <=> ShowsWhatItRead(views'[v], bus')
    BY Zenon DEF ShowsWhatItRead, Read, Number, Positions, OfSession
  <1> QED BY <1>1, <1>2, <1>3, <1>4 DEF Finite, Durable, Ahead, Shown

\* The counts are finite.
LEMMA Counts ==
  ASSUME TypeOK, Finite, NEW kind \in SUBSET Event
  PROVE  /\ IsFiniteSet(At(reqs, Persisted(reqs), kind))
         /\ Cardinality(At(reqs, Persisted(reqs), kind)) \in Nat
         /\ IsFiniteSet(At(reqs, Unsent(reqs), kind))
         /\ Cardinality(At(reqs, Unsent(reqs), kind)) \in Nat
         /\ Number(bus, kind) \in Nat
         /\ \A s \in Stream : Number(rows[s], kind) \in Nat /\ Len(rows[s]) \in Nat
  <1>1. Unsent(reqs) \subseteq Persisted(reqs)
    BY DEF Unsent, Persisted
  <1>2. IsFiniteSet(At(reqs, Persisted(reqs), Event))
    BY DEF Finite
  <1>3. /\ IsFiniteSet(At(reqs, Persisted(reqs), kind))
        /\ Cardinality(At(reqs, Persisted(reqs), kind)) \in Nat
    BY <1>2, AtFewer
  <1>4. /\ IsFiniteSet(At(reqs, Unsent(reqs), kind))
        /\ Cardinality(At(reqs, Unsent(reqs), kind)) \in Nat
    BY <1>1, <1>2, AtFewer
  <1>5. bus \in Seq(Event) /\ \A s \in Stream : rows[s] \in Seq(Event)
    BY Zenon DEF TypeOK
  <1>6. Len(bus) \in Nat /\ \A s \in Stream : Len(rows[s]) \in Nat
    BY <1>5, LenProperties
  <1>7. Number(bus, kind) \in Nat /\ \A s \in Stream : Number(rows[s], kind) \in Nat
    BY <1>6, NumberType
  <1> QED BY <1>3, <1>4, <1>6, <1>7

\* The same requests stand before the broadcast, and no more are persisted.
SameUnsent ==
  /\ Persisted(reqs') \subseteq Persisted(reqs)
  /\ Unsent(reqs') = Unsent(reqs)
  /\ \A r \in Persisted(reqs') : reqs'[r].events = reqs[r].events

\* Then no more events are.
LEMMA SameUnsentCounts ==
  ASSUME TypeOK, Finite, SameUnsent, NEW kind \in SUBSET Event
  PROVE  /\ IsFiniteSet(At(reqs', Persisted(reqs'), kind))
         /\ Cardinality(At(reqs', Persisted(reqs'), kind)) \in Nat
         /\ Cardinality(At(reqs', Persisted(reqs'), kind)) <= Cardinality(At(reqs, Persisted(reqs), kind))
         /\ At(reqs', Unsent(reqs'), kind) = At(reqs, Unsent(reqs), kind)
  <1>1. At(reqs', Persisted(reqs'), kind) = At(reqs, Persisted(reqs'), kind)
    BY AtSame DEF SameUnsent
  <1>2. IsFiniteSet(At(reqs, Persisted(reqs), kind))
    BY Counts
  <1>3. /\ IsFiniteSet(At(reqs, Persisted(reqs'), kind))
        /\ Cardinality(At(reqs, Persisted(reqs'), kind)) \in Nat
        /\ Cardinality(At(reqs, Persisted(reqs'), kind)) <= Cardinality(At(reqs, Persisted(reqs), kind))
    BY <1>2, AtFewer DEF SameUnsent
  <1>4. Unsent(reqs) \subseteq Persisted(reqs')
    BY DEF SameUnsent, Unsent, Persisted
  <1>5. At(reqs', Unsent(reqs), kind) = At(reqs, Unsent(reqs), kind)
    BY <1>4, AtSame DEF SameUnsent
  <1> QED BY <1>1, <1>3, <1>5 DEF SameUnsent

\* The kinds of a session are kinds of events.
LEMMA OfSessionType == \A s : OfSession(s) \subseteq Event
  BY DEF OfSession

\* Nothing that is counted changes but, perhaps, the views.
LEMMA SameUnsentStep ==
  ASSUME TypeOK, Finite, Durable, Ahead, SameUnsent, UNCHANGED <<rows, bus>>
  PROVE  Finite' /\ Durable' /\ Ahead'
  <1>1. Finite'
    BY SameUnsentCounts, Primed
  <1>2. ASSUME NEW s \in Stream, NEW kind \in SUBSET OfSession(s)
        PROVE  /\ Cardinality(At(reqs', Persisted(reqs'), kind)) <= Number(rows'[s], kind)
               /\ Number(bus', kind) + Cardinality(At(reqs', Unsent(reqs'), kind))
                    <= Number(rows'[s], kind)
    <2>1. kind \in SUBSET Event
      BY OfSessionType
    <2>2. Cardinality(At(reqs, Persisted(reqs), kind)) <= Number(rows[s], kind)
      BY DEF Durable
    <2>3. Number(bus, kind) + Cardinality(At(reqs, Unsent(reqs), kind)) <= Number(rows[s], kind)
      BY DEF Ahead
    <2> QED BY <2>1, <2>2, <2>3, Counts, SameUnsentCounts
  <1>3. Durable' /\ Ahead'
    BY <1>2, Primed
  <1> QED BY <1>1, <1>3
--------------------------------------------------------------------------------
(* What each step does to the counts *)

\* A request that arrives, or that is turned down, does not count.
LEMMA ArriveCounts ==
  ASSUME TypeOK, NEW r \in RequestId, NEW events, NEW form, Arrive(r, events, form)
  PROVE  SameUnsent /\ UNCHANGED <<rows, bus, views>>
  <1> DEFINE q == [NoRequest EXCEPT !.st = "arrived", !.events = events, !.form = form]
  <1>1. reqs \in [RequestId -> Request]
    BY Zenon DEF TypeOK
  <1>2. q.st = "arrived" /\ q.status = 0
    BY DEF NoRequest
  <1>3. reqs' = [reqs EXCEPT ![r] = q] /\ reqs[r].st = "free" /\ UNCHANGED <<rows, bus, views>>
    BY DEF Arrive
  <1> HIDE DEF q
  <1>4. /\ reqs'[r] = q
        /\ \A x \in RequestId : x # r => reqs'[x] = reqs[x]
    BY <1>1, <1>3
  <1>5. r \notin Persisted(reqs') /\ r \notin Unsent(reqs') /\ r \notin Unsent(reqs)
    BY <1>2, <1>3, <1>4 DEF Persisted, Unsent
  <1> QED BY <1>3, <1>4, <1>5 DEF SameUnsent, Persisted, Unsent

\* One that is turned down was not stored, so that there is nothing to send.
LEMMA RefuseCounts ==
  ASSUME TypeOK, NEW r \in RequestId, Refuse(r) \/ PersistFails(r)
  PROVE  SameUnsent /\ UNCHANGED <<rows, bus, views>>
  <1>1. reqs \in [RequestId -> Request]
    BY Zenon DEF TypeOK
  <1> DEFINE no == FALSE
  <1>2. no \in Flags
    BY DEF Flags
  <1>3. PICK code \in Refusals : Answered(r, code, no)
    BY RefusalCode
  <1>4. code \in Codes /\ code # 202
    BY DEF Refusals
  <1>5. reqs[r].st = "arrived" /\ UNCHANGED <<rows, bus, views>>
    BY DEF Refuse, PersistFails
  <1> HIDE DEF no
  <1> DEFINE q == WithAnswer(reqs[r], code, no)
  <1>6. reqs' = [reqs EXCEPT ![r] = q]
    BY <1>1, <1>2, <1>3, <1>4, AnsweredType
  <1>7. reqs[r] \in Request
    BY <1>1
  <1>8. q.st = "answered" /\ q.status = code /\ q.events = reqs[r].events
    BY <1>2, <1>4, <1>7, WithAnswerType
  <1> HIDE DEF q
  <1>9. /\ reqs'[r] = q
        /\ \A x \in RequestId : x # r => reqs'[x] = reqs[x]
    BY <1>1, <1>6
  <1>10. r \notin Persisted(reqs') /\ r \notin Unsent(reqs') /\ r \notin Unsent(reqs)
    BY <1>4, <1>5, <1>8, <1>9 DEF Persisted, Unsent
  <1> QED BY <1>5, <1>8, <1>9, <1>10 DEF SameUnsent, Persisted, Unsent

\* The requests after Persist, Finish and Restart.
LEMMA PersistRequests ==
  ASSUME TypeOK, NEW r \in RequestId, Persist(r)
  PROVE  /\ reqs[r].events \in Seq(Event)
         /\ \A x \in RequestId : reqs'[x].events = reqs[x].events
         /\ Persisted(reqs') = Persisted(reqs) \cup {r}
         /\ Unsent(reqs') = Unsent(reqs) \cup {r} /\ r \notin Unsent(reqs)
  <1>1. reqs \in [RequestId -> Request]
    BY Zenon DEF TypeOK
  <1> DEFINE q == InState(reqs[r], "stored")
  <1>2. reqs' = [reqs EXCEPT ![r] = q] /\ reqs[r].st = "arrived"
    BY DEF Persist, InState
  <1>3. reqs[r] \in Request
    BY <1>1
  <1>4. q.st = "stored" /\ q.events = reqs[r].events
    BY <1>3, InStateType DEF States
  <1>5. reqs[r].events \in Seq(Event)
    BY <1>3, RequestFields
  <1> HIDE DEF q
  <1>6. /\ reqs'[r] = q
        /\ \A x \in RequestId : x # r => reqs'[x] = reqs[x]
    BY <1>1, <1>2
  <1> QED BY <1>2, <1>4, <1>5, <1>6 DEF Persisted, Unsent

\* A handler that finishes has then sent what it stored.
LEMMA FinishRequests ==
  ASSUME TypeOK, NEW r \in RequestId, Finish(r)
  PROVE  /\ reqs[r].events \in Seq(Event)
         /\ \A x \in RequestId : reqs'[x].events = reqs[x].events
         /\ Persisted(reqs') = Persisted(reqs)
         /\ Unsent(reqs) = Unsent(reqs') \cup {r} /\ r \notin Unsent(reqs')
  <1>1. reqs \in [RequestId -> Request]
    BY Zenon DEF TypeOK
  <1> DEFINE kill == MustKill(reqs[r].events)
             q == WithAnswer(reqs[r], 202, kill)
  <1>2. Answered(r, 202, kill) /\ reqs[r].st = "stored"
    BY DEF Finish
  <1>3. 202 \in Codes /\ kill \in Flags
    BY FlagTypes DEF Codes
  <1> HIDE DEF kill
  <1>4. reqs' = [reqs EXCEPT ![r] = q]
    BY <1>1, <1>2, <1>3, AnsweredType
  <1>5. reqs[r] \in Request
    BY <1>1
  <1>6. q.st = "answered" /\ q.status = 202 /\ q.events = reqs[r].events
    BY <1>3, <1>5, WithAnswerType
  <1>7. reqs[r].events \in Seq(Event)
    BY <1>5, RequestFields
  <1> HIDE DEF q
  <1>8. /\ reqs'[r] = q
        /\ \A x \in RequestId : x # r => reqs'[x] = reqs[x]
    BY <1>1, <1>4
  <1> QED BY <1>2, <1>6, <1>7, <1>8 DEF Persisted, Unsent

\* After a restart nothing is left to send.
LEMMA RestartRequests ==
  ASSUME TypeOK, Restart
  PROVE  /\ \A x \in RequestId : reqs'[x].events = reqs[x].events
         /\ Persisted(reqs') \subseteq Persisted(reqs)
         /\ Unsent(reqs') = {}
  <1>1. reqs \in [RequestId -> Request]
    BY Zenon DEF TypeOK
  <1>2. ASSUME NEW r \in RequestId
        PROVE  /\ InState(reqs[r], "lost").st = "lost"
               /\ InState(reqs[r], "lost").events = reqs[r].events
               /\ InState(reqs[r], "lost").status = reqs[r].status
    <2>1. reqs[r] \in Request
      BY <1>1
    <2> QED BY <2>1, InStateType DEF States
  <1>3. reqs' = [r \in RequestId |-> IF reqs[r].st \in {"arrived", "stored"}
                                     THEN InState(reqs[r], "lost") ELSE reqs[r]]
    BY DEF Restart, InState
  <1> QED BY <1>2, <1>3 DEF Persisted, Unsent

\* The rows after Persist.
LEMMA PersistRows ==
  ASSUME TypeOK, NEW r \in RequestId, Persist(r), NEW s \in Stream
  PROVE  /\ Len(rows'[s]) = Len(rows[s]) + Number(reqs[r].events, OfSession(s))
         /\ \A kind \in SUBSET OfSession(s) :
              Number(rows'[s], kind) = Number(rows[s], kind) + Number(reqs[r].events, kind)
  <1> DEFINE new == Filter(reqs[r].events, OfSession(s))
  <1>1. reqs[r].events \in Seq(Event) /\ rows[s] \in Seq(Event)
    BY PersistRequests DEF TypeOK
  <1>2. new \in Seq(Event \cap OfSession(s))
    BY <1>1, FilterType
  <1>3. new \in Seq(Event)
    BY <1>2
  <1>4. rows'[s] = rows[s] \o new
    BY DEF Persist, Inserted
  <1>5. \A kind : Number(new, kind) = Number(reqs[r].events, OfSession(s) \cap kind)
    BY <1>1, FilterNumber
  <1> HIDE DEF new
  <1>6. ASSUME NEW kind \in SUBSET OfSession(s)
        PROVE  Number(rows'[s], kind) = Number(rows[s], kind) + Number(reqs[r].events, kind)
    <2>1. OfSession(s) \cap kind = kind
      OBVIOUS
    <2>2. Number(new, kind) = Number(reqs[r].events, kind)
      BY <1>5, <2>1
    <2> QED BY <1>1, <1>3, <1>4, <2>2, NumberConcat
  <1>7. Event \cap OfSession(s) = OfSession(s)
    BY DEF OfSession
  <1>8. Number(new, OfSession(s)) = Len(new)
    BY <1>2, <1>7, NumberAll
  <1>9. Len(rows'[s]) = Len(rows[s]) + Len(new)
    BY <1>1, <1>3, <1>4, ConcatProperties
  <1> QED BY <1>5, <1>6, <1>8, <1>9

\* Persist: the new rows are the ones of the request that will be broadcast.
LEMMA PersistCounts ==
  ASSUME TypeOK, Finite, Durable, Ahead, NEW r \in RequestId, Persist(r)
  PROVE  /\ Finite' /\ Durable' /\ Ahead'
         /\ UNCHANGED <<bus, views>>
  <1> DEFINE n(kind) == Number(reqs[r].events, kind)
             unsent(kind) == Cardinality(At(reqs, Unsent(reqs), kind))
             persisted(kind) == Cardinality(At(reqs, Persisted(reqs), kind))
             unsentNew(kind) == Cardinality(At(reqs', Unsent(reqs'), kind))
             persistedNew(kind) == Cardinality(At(reqs', Persisted(reqs'), kind))
  <1>1. /\ reqs[r].events \in Seq(Event)
        /\ \A x \in RequestId : reqs'[x].events = reqs[x].events
        /\ Persisted(reqs') = Persisted(reqs) \cup {r}
        /\ Unsent(reqs') = Unsent(reqs) \cup {r} /\ r \notin Unsent(reqs)
    BY PersistRequests
  <1>2. Persisted(reqs) \subseteq RequestId /\ Unsent(reqs) \subseteq RequestId
    BY DEF Persisted, Unsent
  <1>3. Len(reqs[r].events) \in Nat
    BY <1>1, LenProperties
  <1>4. UNCHANGED <<bus, views>>
    BY DEF Persist
  <1>5. ASSUME NEW kind \in SUBSET Event
        PROVE  /\ n(kind) \in Nat /\ unsent(kind) \in Nat /\ persisted(kind) \in Nat
               /\ unsentNew(kind) = unsent(kind) + n(kind)
               /\ IsFiniteSet(At(reqs', Persisted(reqs'), kind))
               /\ persistedNew(kind) \in Nat
               /\ persistedNew(kind) <= persisted(kind) + n(kind)
    <2>1. /\ IsFiniteSet(At(reqs, Unsent(reqs), kind)) /\ unsent(kind) \in Nat
          /\ IsFiniteSet(At(reqs, Persisted(reqs), kind)) /\ persisted(kind) \in Nat
      BY Counts
    <2>2. n(kind) \in Nat
      BY <1>3, NumberType
    <2>3. At(reqs', Unsent(reqs'), kind) = At(reqs, Unsent(reqs) \cup {r}, kind)
      BY <1>1, <1>2, AtSame
    <2>4. unsentNew(kind) = unsent(kind) + n(kind)
      BY <1>1, <1>2, <1>3, <2>1, <2>3, AtAdd
    <2>5. At(reqs', Persisted(reqs'), kind) = At(reqs, Persisted(reqs) \cup {r}, kind)
      BY <1>1, <1>2, AtSame
    <2>6. CASE r \in Persisted(reqs)
      <3>1. Persisted(reqs) \cup {r} = Persisted(reqs)
        BY <2>6
      <3>2. At(reqs', Persisted(reqs'), kind) = At(reqs, Persisted(reqs), kind)
        BY <2>5, <3>1
      <3> HIDE DEF n, unsent
      <3> QED BY <2>1, <2>2, <2>4, <3>2
    <2>7. CASE r \notin Persisted(reqs)
      <3>1. /\ IsFiniteSet(At(reqs, Persisted(reqs) \cup {r}, kind))
            /\ Cardinality(At(reqs, Persisted(reqs) \cup {r}, kind)) = persisted(kind) + n(kind)
        BY <1>2, <1>3, <2>1, <2>7, AtAdd
      <3> QED BY <2>1, <2>2, <2>4, <2>5, <3>1
    <2> QED BY <2>6, <2>7
  <1>6. Finite'
    BY <1>5, Primed
  <1> HIDE DEF n, unsent, persisted, unsentNew, persistedNew
  <1>7. ASSUME NEW s \in Stream, NEW kind \in SUBSET OfSession(s)
        PROVE  /\ persistedNew(kind) <= Number(rows'[s], kind)
               /\ Number(bus', kind) + unsentNew(kind) <= Number(rows'[s], kind)
    <2>1. kind \in SUBSET Event
      BY OfSessionType
    <2>2. persisted(kind) <= Number(rows[s], kind)
      BY DEF Durable, persisted
    <2>3. Number(bus, kind) + unsent(kind) <= Number(rows[s], kind)
      BY DEF Ahead, unsent
    <2>4. Number(rows'[s], kind) = Number(rows[s], kind) + n(kind)
      BY PersistRows DEF n
    <2>5. Number(bus, kind) \in Nat /\ Number(rows[s], kind) \in Nat
      BY <2>1, Counts
    <2> QED BY <1>4, <1>5, <2>1, <2>2, <2>3, <2>4, <2>5
  <1>8. Durable' /\ Ahead'
    BY <1>7, Primed DEF persistedNew, unsentNew
  <1> QED BY <1>4, <1>6, <1>8

\* A receiver has read the same after events are sent.
LEMMA ReadSame ==
  ASSUME NEW a \in Seq(Event), NEW b \in Seq(Event), NEW w, w.at \in Nat, w.at <= Len(a), NEW kind
  PROVE  Read(a \o b, w, kind) = Read(a, w, kind)
  <1>1. /\ Len(a \o b) = Len(a) + Len(b) /\ Len(a) \in Nat /\ Len(b) \in Nat
        /\ \A i \in 1..Len(a) : (a \o b)[i] = a[i]
    BY ConcatProperties, LenProperties
  <1> DEFINE at == w.at
  <1>2. at \in Nat /\ at <= Len(a)
    OBVIOUS
  <1> HIDE DEF at
  <1>3. SubSeq(a \o b, 1, at) = SubSeq(a, 1, at)
    BY <1>1, <1>2
  <1> QED BY <1>3 DEF Read, at

\* Finish: the events of the request go from the handler to the channel.
LEMMA FinishCounts ==
  ASSUME TypeOK, Finite, Durable, Ahead, NEW r \in RequestId, Finish(r)
  PROVE  /\ Finite' /\ Durable' /\ Ahead'
         /\ \A w \in View : w.at <= Len(bus) /\ ShowsWhatItRead(w, bus) => ShowsWhatItRead(w, bus')
         /\ UNCHANGED <<rows, views>>
  <1> DEFINE n(kind) == Number(reqs[r].events, kind)
             unsent(kind) == Cardinality(At(reqs, Unsent(reqs), kind))
             unsentNew(kind) == Cardinality(At(reqs', Unsent(reqs'), kind))
  <1>1. /\ reqs[r].events \in Seq(Event)
        /\ \A x \in RequestId : reqs'[x].events = reqs[x].events
        /\ Persisted(reqs') = Persisted(reqs)
        /\ Unsent(reqs) = Unsent(reqs') \cup {r} /\ r \notin Unsent(reqs')
    BY FinishRequests
  <1>2. Persisted(reqs) \subseteq RequestId /\ Unsent(reqs') \subseteq RequestId
    BY DEF Persisted, Unsent
  <1>3. Len(reqs[r].events) \in Nat
    BY <1>1, LenProperties
  <1>4. bus' = bus \o reqs[r].events /\ UNCHANGED <<rows, views>>
    BY DEF Finish
  <1>5. bus \in Seq(Event)
    BY Zenon DEF TypeOK
  <1>6. ASSUME NEW kind
        PROVE  At(reqs', Persisted(reqs'), kind) = At(reqs, Persisted(reqs), kind)
    BY <1>1, <1>2, AtSame
  <1>7. ASSUME NEW kind \in SUBSET Event
        PROVE  /\ n(kind) \in Nat /\ unsentNew(kind) \in Nat
               /\ unsent(kind) = unsentNew(kind) + n(kind)
               /\ Number(bus', kind) = Number(bus, kind) + n(kind)
    <2>1. n(kind) \in Nat
      BY <1>3, NumberType
    <2>2. At(reqs', Unsent(reqs'), kind) = At(reqs, Unsent(reqs'), kind)
      BY <1>1, <1>2, AtSame
    <2>3. IsFiniteSet(At(reqs, Unsent(reqs), kind))
      BY Counts
    <2>4. /\ IsFiniteSet(At(reqs, Unsent(reqs'), kind))
          /\ Cardinality(At(reqs, Unsent(reqs'), kind)) \in Nat
      <3>1. Unsent(reqs') \subseteq Unsent(reqs)
        BY <1>1
      <3> QED BY <2>3, <3>1, AtFewer
    <2>5. Cardinality(At(reqs, Unsent(reqs') \cup {r}, kind))
            = Cardinality(At(reqs, Unsent(reqs'), kind)) + Number(reqs[r].events, kind)
      BY <1>1, <1>2, <1>3, <2>4, AtAdd
    <2>6. unsent(kind) = unsentNew(kind) + n(kind) /\ unsentNew(kind) \in Nat
      BY <1>1, <2>2, <2>4, <2>5
    <2>7. Number(bus', kind) = Number(bus, kind) + n(kind)
      BY <1>1, <1>4, <1>5, NumberConcat
    <2> QED BY <2>1, <2>6, <2>7
  <1>8. Finite'
    BY <1>6, Primed DEF Finite
  <1>9. Durable'
    BY <1>4, <1>6, Primed DEF Durable
  <1> HIDE DEF n, unsent, unsentNew
  <1>10. ASSUME NEW s \in Stream, NEW kind \in SUBSET OfSession(s)
         PROVE  Number(bus', kind) + unsentNew(kind) <= Number(rows'[s], kind)
    <2>1. kind \in SUBSET Event
      BY OfSessionType
    <2>2. Number(bus, kind) + unsent(kind) <= Number(rows[s], kind)
      BY DEF Ahead, unsent
    <2>3. Number(bus, kind) \in Nat /\ Number(rows[s], kind) \in Nat
      BY <2>1, Counts
    <2> QED BY <1>4, <1>7, <2>1, <2>2, <2>3
  <1>11. Ahead'
    BY <1>10, Primed DEF unsentNew
  <1>12. ASSUME NEW w \in View, w.at <= Len(bus), NEW kind
         PROVE  Read(bus', w, kind) = Read(bus, w, kind)
    <2>1. w.at \in Nat
      BY DEF View
    <2> QED BY <1>1, <1>4, <1>5, <1>12, <2>1, ReadSame
  <1>13. ASSUME NEW w \in View, w.at <= Len(bus), ShowsWhatItRead(w, bus)
         PROVE  ShowsWhatItRead(w, bus')
    BY <1>12, <1>13 DEF ShowsWhatItRead
  <1> QED BY <1>4, <1>8, <1>9, <1>11, <1>13

\* Restart: nothing is left to be broadcast.
LEMMA RestartCounts ==
  ASSUME TypeOK, Finite, Durable, Restart
  PROVE  Finite' /\ Durable' /\ Ahead'
  <1>1. /\ \A x \in RequestId : reqs'[x].events = reqs[x].events
        /\ Persisted(reqs') \subseteq Persisted(reqs)
        /\ Unsent(reqs') = {}
    BY RestartRequests
  <1>2. rows' = rows /\ bus' = << >>
    BY DEF Restart
  <1>3. ASSUME NEW kind \in SUBSET Event
        PROVE  /\ IsFiniteSet(At(reqs', Persisted(reqs'), kind))
               /\ Cardinality(At(reqs', Persisted(reqs'), kind)) \in Nat
               /\ Cardinality(At(reqs', Persisted(reqs'), kind)) <= Cardinality(At(reqs, Persisted(reqs), kind))
               /\ Cardinality(At(reqs', Unsent(reqs'), kind)) = 0
    <2>1. IsFiniteSet(At(reqs, Persisted(reqs), kind))
      BY Counts
    <2>2. Persisted(reqs') \subseteq RequestId
      BY DEF Persisted
    <2>3. At(reqs', Persisted(reqs'), kind) = At(reqs, Persisted(reqs'), kind)
      BY <1>1, <2>2, AtSame
    <2>4. At(reqs', Unsent(reqs'), kind) = {}
      BY <1>1 DEF At
    <2> QED BY <1>1, <2>1, <2>3, <2>4, AtFewer, FS_EmptySet
  <1>4. Finite'
    BY <1>3, Primed
  <1>5. ASSUME NEW s \in Stream, NEW kind \in SUBSET OfSession(s)
        PROVE  /\ Cardinality(At(reqs', Persisted(reqs'), kind)) <= Number(rows'[s], kind)
               /\ Number(bus', kind) + Cardinality(At(reqs', Unsent(reqs'), kind))
                    <= Number(rows'[s], kind)
    <2>1. kind \in SUBSET Event
      BY OfSessionType
    <2>2. Cardinality(At(reqs, Persisted(reqs), kind)) <= Number(rows[s], kind)
      BY DEF Durable
    <2>3. Number(rows[s], kind) \in Nat /\ Cardinality(At(reqs, Persisted(reqs), kind)) \in Nat
      BY <2>1, Counts
    <2>4. Number(bus', kind) = 0
      BY <1>2, NumberEmpty
    <2> QED BY <1>2, <1>3, <2>1, <2>2, <2>3, <2>4
  <1> QED BY <1>4, <1>5, Primed
--------------------------------------------------------------------------------
(* What each step does to a view *)

\* What a receiver has read is a number.
LEMMA ReadType ==
  ASSUME NEW channel \in Seq(Event), NEW w, w.at \in Nat, w.at <= Len(channel), NEW kind
  PROVE  Read(channel, w, kind) \in Nat
  <1> DEFINE at == w.at
  <1>1. at \in Nat /\ at <= Len(channel) /\ Len(channel) \in Nat
    BY LenProperties
  <1> HIDE DEF at
  <1>2. Len(SubSeq(channel, 1, at)) \in Nat
    BY <1>1
  <1> QED BY <1>2, NumberType DEF Read, at

\* No view: nothing is shown.
LEMMA NoViewShows ==
  ASSUME NEW channel \in Seq(Event)
  PROVE  ShowsWhatItRead(NoView, channel)
  <1>1. NoView.at = 0 /\ NoView.got = << >> /\ NoView.on = FALSE
    BY DEF NoView
  <1>2. Len(channel) \in Nat
    BY LenProperties
  <1>3. \A kind : Read(channel, NoView, kind) \in Nat
    BY <1>1, <1>2, ReadType
  <1>4. \A kind : Number(NoView.got, kind) = 0
    BY <1>1, NumberEmpty
  <1>5. NoView.got \in Seq(OfSession(NoView.sid))
    BY <1>1
  <1> QED BY <1>3, <1>4, <1>5 DEF ShowsWhatItRead

\* A new view shows nothing yet.
LEMMA SubscribeShows ==
  ASSUME TypeOK, NEW v \in Viewer, NEW s \in Session, Subscribe(v, s)
  PROVE  ShowsWhatItRead(views'[v], bus)
  <1> DEFINE old == {r \in RequestId : Stored(r)}
             w == [NoView EXCEPT !.on = TRUE, !.sid = s, !.at = Len(bus), !.before = old]
  <1>1. bus \in Seq(Event) /\ views \in [Viewer -> View]
    BY Zenon DEF TypeOK
  <1>3. views' = [views EXCEPT ![v] = w]
    BY Zenon DEF Subscribe
  <1> HIDE DEF old
  <1>2. w.at = Len(bus) /\ w.got = << >> /\ w.sid = s
    BY DEF NoView
  <1> HIDE DEF w
  <1>4. views'[v] = w
    BY <1>1, <1>3
  <1>5. Len(bus) \in Nat
    BY <1>1, LenProperties
  <1>6. SubSeq(bus, 1, w.at) = bus
    BY <1>1, <1>2, <1>5
  <1>7. ASSUME NEW kind
        PROVE  Read(bus, w, kind) = Number(bus, kind) /\ Number(bus, kind) \in Nat
    BY <1>5, <1>6, NumberType DEF Read
  <1>8. w.got \in Seq(OfSession(w.sid))
    BY <1>2
  <1>9. ShowsWhatItRead(w, bus)
    BY <1>2, <1>7, <1>8, NumberEmpty DEF ShowsWhatItRead
  <1> QED BY <1>4, <1>9

\* A view that lags shows no more than it has passed.
LEMMA LagShows ==
  ASSUME TypeOK, NEW v \in Viewer, Lag(v), ShowsWhatItRead(views[v], bus)
  PROVE  ShowsWhatItRead(views'[v], bus)
  <1> DEFINE w == [views[v] EXCEPT !.at = Oldest, !.lagged = TRUE]
  <1>1. bus \in Seq(Event) /\ views \in [Viewer -> View]
    BY Zenon DEF TypeOK
  <1>2. views[v] \in View
    BY <1>1
  <1>3. views[v].at \in Nat /\ views[v].at < Oldest /\ Len(bus) \in Nat
    BY <1>1, <1>2, LenProperties DEF View, Lag
  <1>4. Oldest \in Nat /\ Oldest <= Len(bus)
    BY <1>3, CollectorAssumption DEF Oldest
  <1>5. w.at = Oldest /\ w.got = views[v].got /\ w.sid = views[v].sid /\ w.lagged = TRUE
    BY <1>2 DEF View
  <1>6. views' = [views EXCEPT ![v] = w]
    BY DEF Lag
  <1> HIDE DEF w
  <1>7. views'[v] = w
    BY <1>1, <1>6
  <1> DEFINE at == views[v].at
             got == views[v].got
             sid == views[v].sid
  <1>8. at \in Nat /\ at <= Oldest
    BY <1>3, <1>4
  <1>9. got \in Seq(OfSession(sid))
    BY DEF ShowsWhatItRead
  <1>10. ASSUME NEW kind \in SUBSET OfSession(sid)
         PROVE  Number(got, kind) <= Read(bus, w, kind)
    <2>1. Number(got, kind) <= Number(SubSeq(bus, 1, at), kind)
      BY DEF ShowsWhatItRead, Read
    <2>2. Number(SubSeq(bus, 1, at), kind) <= Number(SubSeq(bus, 1, Oldest), kind)
      <3> HIDE DEF at
      <3> QED BY <1>3, <1>4, <1>8, NumberUpTo
    <2>3. Len(SubSeq(bus, 1, at)) \in Nat /\ Len(SubSeq(bus, 1, Oldest)) \in Nat
      <3> HIDE DEF at
      <3> QED BY <1>1, <1>3, <1>4, <1>8
    <2>4. /\ Number(SubSeq(bus, 1, at), kind) \in Nat
          /\ Number(SubSeq(bus, 1, Oldest), kind) \in Nat
      BY <2>3, NumberType
    <2>5. Len(got) \in Nat
      BY <1>9, LenProperties
    <2>6. Number(got, kind) \in Nat
      BY <2>5, NumberType
    <2>7. Number(got, kind) <= Number(SubSeq(bus, 1, Oldest), kind)
      BY <2>1, <2>2, <2>4, <2>6
    <2> QED BY <1>5, <2>7 DEF Read
  <1> HIDE DEF at, got, sid
  <1>11. ShowsWhatItRead(w, bus)
    BY <1>5, <1>9, <1>10 DEF ShowsWhatItRead, got, sid
  <1> QED BY <1>7, <1>11

\* One more event is read, and shown if it is of the session.
LEMMA DeliverShows ==
  ASSUME TypeOK, NEW v \in Viewer, Deliver(v), ShowsWhatItRead(views[v], bus)
  PROVE  ShowsWhatItRead(views'[v], bus)
  <1> DEFINE view == views[v]
             at == view.at
             got == view.got
             sid == view.sid
             e == bus[at + 1]
             gotNew == IF e.sid = sid THEN Append(got, e) ELSE got
             seenNew == IF e.sid = sid THEN view.seen \cup {origin[at + 1]} ELSE view.seen
             w == [view EXCEPT !.at = @ + 1, !.got = gotNew, !.seen = seenNew]
  <1>1. bus \in Seq(Event) /\ views \in [Viewer -> View]
    BY Zenon DEF TypeOK
  <1>2. view \in View
    BY <1>1
  <1>3. at \in Nat /\ got \in Seq(Event) /\ sid \in Stream /\ at < Len(bus)
    BY <1>2 DEF View, Deliver
  <1>4. Len(bus) \in Nat /\ at + 1 \in 1..Len(bus) /\ at + 1 \in Nat
    BY <1>1, <1>3, LenProperties
  <1>5. e \in Event
    BY <1>1, <1>4
  <1>6. w.at = at + 1 /\ w.got = gotNew /\ w.sid = sid
    <2> HIDE DEF gotNew, seenNew
    <2> QED BY <1>2 DEF View
  <1>7. views' = [views EXCEPT ![v] = w]
    BY DEF Deliver
  <1> HIDE DEF w
  <1>8. views'[v] = w
    BY <1>1, <1>7
  <1>9. got \in Seq(OfSession(sid))
    BY DEF ShowsWhatItRead
  <1>10. e.sid = sid <=> e \in OfSession(sid)
    BY <1>5 DEF OfSession
  <1> DEFINE one(kind) == IF e \in kind THEN 1 ELSE 0
  <1>11. ASSUME NEW kind \in SUBSET OfSession(sid)
         PROVE  /\ Read(bus, w, kind) = Read(bus, view, kind) + one(kind)
                /\ Read(bus, view, kind) \in Nat
                /\ Number(gotNew, kind) = Number(got, kind) + one(kind)
                /\ Number(got, kind) \in Nat
    <2>1. /\ SubSeq(bus, 1, at) \in Seq(Event)
          /\ SubSeq(bus, 1, at + 1) = Append(SubSeq(bus, 1, at), e)
      <3> HIDE DEF at
      <3> QED BY <1>1, <1>3, <1>4 DEF e
    <2>2. Number(SubSeq(bus, 1, at + 1), kind) = Number(SubSeq(bus, 1, at), kind) + one(kind)
      <3> DEFINE first == SubSeq(bus, 1, at)
      <3>1. first \in Seq(Event) /\ SubSeq(bus, 1, at + 1) = Append(first, e)
        BY <2>1
      <3> HIDE DEF at, e, first
      <3>2. Number(Append(first, e), kind) = Number(first, kind) + (IF e \in kind THEN 1 ELSE 0)
        BY <1>5, <3>1, NumberAppend
      <3> QED BY <3>1, <3>2 DEF first
    <2>3. Len(SubSeq(bus, 1, at)) \in Nat
      BY <2>1, LenProperties
    <2>4. Number(SubSeq(bus, 1, at), kind) \in Nat
      BY <2>3, NumberType
    <2>5. Read(bus, w, kind) = Read(bus, view, kind) + one(kind) /\ Read(bus, view, kind) \in Nat
      BY <1>6, <2>2, <2>4 DEF Read
    <2>6. Len(got) \in Nat
      BY <1>3, LenProperties
    <2>7. Number(got, kind) \in Nat
      BY <2>6, NumberType
    <2>8. Number(gotNew, kind) = Number(got, kind) + one(kind)
      <3>1. CASE e.sid = sid
        <4>1. gotNew = Append(got, e)
          BY <3>1
        <4> HIDE DEF got, e, gotNew
        <4> QED BY <1>3, <1>5, <4>1, NumberAppend
      <3>2. CASE e.sid # sid
        <4>1. gotNew = got /\ one(kind) = 0
          BY <1>10, <3>2
        <4> HIDE DEF got, gotNew, one
        <4> QED BY <2>7, <4>1
      <3> QED BY <3>1, <3>2
    <2> QED BY <2>5, <2>7, <2>8
  <1>12. gotNew \in Seq(OfSession(sid))
    <2>1. CASE e.sid = sid
      <3>1. gotNew = Append(got, e) /\ e \in OfSession(sid)
        BY <1>10, <2>1
      <3> HIDE DEF got, e, gotNew, sid
      <3> QED BY <1>9, <3>1, AppendProperties
    <2>2. CASE e.sid # sid
      BY <1>9, <2>2
    <2> QED BY <2>1, <2>2
  <1>14. \A kind \in SUBSET OfSession(sid) : Number(got, kind) <= Read(bus, view, kind)
    BY DEF ShowsWhatItRead
  <1>15. \A kind : one(kind) \in Nat
    OBVIOUS
  <1> HIDE DEF at, got, sid, e, gotNew, seenNew, one, view
  <1>16. ShowsWhatItRead(w, bus)
    <2>1. ASSUME NEW kind \in SUBSET OfSession(sid)
          PROVE  Number(gotNew, kind) <= Read(bus, w, kind)
      BY <1>11, <1>14, <1>15
    <2> QED BY <1>6, <1>12, <2>1 DEF ShowsWhatItRead
  <1> QED BY <1>8, <1>16
--------------------------------------------------------------------------------
(* The invariant *)

\* The invariant holds before the first request.
LEMMA InitIInv == Init => IInv
  <1> SUFFICES ASSUME Init PROVE IInv
    OBVIOUS
  <1>1. /\ rows = [s \in Stream |-> << >>] /\ reqs = [r \in RequestId |-> NoRequest]
        /\ killed = {} /\ bus = << >> /\ origin = << >> /\ views = [v \in Viewer |-> NoView]
    BY DEF Init
  <1>2. NoView \in View /\ NoView.at = 0
    BY DEF NoView, View, Stream
  <1>3. NoRequest \in Request /\ NoRequest.st = "free" /\ NoRequest.status = 0
    <2>1. "free" \in States /\ "good" \in Forms /\ 0 \in Codes /\ FALSE \in Flags
      BY FlagTypes, ZenonT(60) DEF States, Forms, Codes
    <2> DEFINE no == FALSE
    <2>3. NoRequest = [st |-> "free", form |-> "good", events |-> << >>, status |-> 0, kill |-> no]
      BY Zenon DEF NoRequest
    <2>4. no \in Flags
      BY FlagTypes, Zenon
    <2>5. << >> \in Seq(Event)
      OBVIOUS
    <2> HIDE DEF no
    <2>2. NoRequest \in Request
      BY <2>1, <2>3, <2>4, <2>5, RequestFields
    <2> QED BY <2>2 DEF NoRequest
  <1>4. bus \in Seq(Event) /\ Len(bus) = 0
    BY <1>1
  <1>5. TypeOK
    <2>1. rows \in [Stream -> Seq(Event)]
      BY <1>1
    <2>2. reqs \in [RequestId -> Request]
      BY <1>1, <1>3
    <2>3. views \in [Viewer -> View] /\ \A v \in Viewer : views[v].at <= Len(bus)
      BY <1>1, <1>2, <1>4
    <2>4. killed \subseteq Session
      BY <1>1
    <2>5. origin \in Seq(RequestId \X Nat) /\ Len(origin) = Len(bus)
      BY <1>1
    <2> QED BY <1>4, <2>1, <2>2, <2>3, <2>4, <2>5, Zenon DEF TypeOK
  <1>6. Persisted(reqs) = {} /\ Unsent(reqs) = {}
    BY <1>1, <1>3 DEF Persisted, Unsent
  <1>7. \A kind : At(reqs, Persisted(reqs), kind) = {} /\ At(reqs, Unsent(reqs), kind) = {}
    BY <1>6 DEF At
  <1>8. IsFiniteSet({}) /\ Cardinality({}) = 0
    BY FS_EmptySet
  <1>9. \A kind : Number(bus, kind) = 0 /\ \A s \in Stream : Number(rows[s], kind) = 0
    BY <1>1, NumberEmpty
  <1>10. Finite /\ Durable /\ Ahead
    <2>1. Finite
      BY <1>7, <1>8 DEF Finite
    <2>2. Durable
      BY <1>7, <1>8, <1>9 DEF Durable
    <2>3. Ahead
      BY <1>7, <1>8, <1>9 DEF Ahead
    <2> QED BY <2>1, <2>2, <2>3
  <1>11. Shown
    <2>1. ASSUME NEW v \in Viewer
          PROVE  ShowsWhatItRead(views[v], bus)
      <3>1. views[v] = NoView
        BY <1>1
      <3> QED BY <1>4, <3>1, NoViewShows
    <2> QED BY <2>1 DEF Shown
  <1> QED BY <1>5, <1>10, <1>11 DEF IInv

\* Every step preserves it.
LEMMA StepIInv ==
  ASSUME IInv, [Next]_collectorVars
  PROVE  IInv'
  <1>1. TypeOK /\ Finite /\ Durable /\ Ahead /\ Shown
    BY DEF IInv
  <1>2. TypeOK'
    BY <1>1, TypeStep
  <1>3. /\ views \in [Viewer -> View] /\ bus \in Seq(Event)
        /\ \A v \in Viewer : views[v] \in View /\ views[v].at <= Len(bus)
    BY <1>1, Zenon DEF TypeOK
  <1>4. \A v \in Viewer : ShowsWhatItRead(views[v], bus)
    BY <1>1 DEF Shown
  <1>5. SUFFICES Finite' /\ Durable' /\ Ahead' /\ Shown'
    BY <1>2 DEF IInv
  \* A step that counts nothing new and leaves the views.
  <1>6. ASSUME SameUnsent, UNCHANGED <<rows, bus, views>>
        PROVE  Finite' /\ Durable' /\ Ahead' /\ Shown'
    <2>1. Finite' /\ Durable' /\ Ahead'
      BY <1>1, <1>6, SameUnsentStep
    <2>2. Shown'
      BY <1>4, <1>6, Primed
    <2> QED BY <2>1, <2>2
  \* A step that changes one view.
  <1>7. ASSUME NEW v \in Viewer, UNCHANGED <<rows, reqs, bus>>,
               \A u \in Viewer : u # v => views'[u] = views[u],
               ShowsWhatItRead(views'[v], bus)
        PROVE  Finite' /\ Durable' /\ Ahead' /\ Shown'
    <2>1. SameUnsent
      BY <1>7 DEF SameUnsent
    <2>2. Finite' /\ Durable' /\ Ahead'
      BY <1>1, <1>7, <2>1, SameUnsentStep
    <2>3. ASSUME NEW u \in Viewer
          PROVE  ShowsWhatItRead(views'[u], bus')
      BY <1>4, <1>7
    <2>4. Shown'
      BY <2>3, Primed
    <2> QED BY <2>2, <2>4
  <1>8. ASSUME NEW r \in RequestId, NEW events, NEW form, Arrive(r, events, form)
        PROVE  Finite' /\ Durable' /\ Ahead' /\ Shown'
    BY <1>1, <1>6, <1>8, ArriveCounts
  <1>9. ASSUME NEW r \in RequestId, Refuse(r) \/ PersistFails(r)
        PROVE  Finite' /\ Durable' /\ Ahead' /\ Shown'
    BY <1>1, <1>6, <1>9, RefuseCounts
  <1>10. ASSUME NEW r \in RequestId, Persist(r)
         PROVE  Finite' /\ Durable' /\ Ahead' /\ Shown'
    <2>1. /\ Finite' /\ Durable' /\ Ahead'
          /\ UNCHANGED <<bus, views>>
      BY <1>1, <1>10, PersistCounts
    <2>2. Shown'
      BY <1>3, <1>4, <2>1, Primed
    <2> QED BY <2>1, <2>2
  <1>11. ASSUME NEW r \in RequestId, Finish(r)
         PROVE  Finite' /\ Durable' /\ Ahead' /\ Shown'
    <2>1. /\ Finite' /\ Durable' /\ Ahead'
          /\ \A w \in View : w.at <= Len(bus) /\ ShowsWhatItRead(w, bus) => ShowsWhatItRead(w, bus')
          /\ UNCHANGED <<rows, views>>
      BY <1>1, <1>11, FinishCounts
    <2>2. Shown'
      BY <1>3, <1>4, <2>1, Primed
    <2> QED BY <2>1, <2>2
  <1>12. ASSUME NEW s \in Session, kill_session(s)
         PROVE  Finite' /\ Durable' /\ Ahead' /\ Shown'
    <2>1. UNCHANGED <<rows, reqs, bus, views>>
      BY <1>12 DEF kill_session
    <2>2. SameUnsent
      BY <2>1 DEF SameUnsent
    <2> QED BY <1>6, <2>1, <2>2
  <1>13. ASSUME NEW v \in Viewer, NEW s \in Session, Subscribe(v, s)
         PROVE  Finite' /\ Durable' /\ Ahead' /\ Shown'
    <2>1. UNCHANGED <<rows, reqs, bus>> /\ \A u \in Viewer : u # v => views'[u] = views[u]
      BY <1>3, <1>13 DEF Subscribe
    <2>2. ShowsWhatItRead(views'[v], bus)
      BY <1>1, <1>13, SubscribeShows
    <2> QED BY <1>7, <2>1, <2>2
  <1>14. ASSUME NEW v \in Viewer, Lag(v)
         PROVE  Finite' /\ Durable' /\ Ahead' /\ Shown'
    <2>1. UNCHANGED <<rows, reqs, bus>> /\ \A u \in Viewer : u # v => views'[u] = views[u]
      BY <1>3, <1>14 DEF Lag
    <2>2. ShowsWhatItRead(views'[v], bus)
      BY <1>1, <1>4, <1>14, LagShows
    <2> QED BY <1>7, <2>1, <2>2
  <1>15. ASSUME NEW v \in Viewer, Deliver(v)
         PROVE  Finite' /\ Durable' /\ Ahead' /\ Shown'
    <2>1. UNCHANGED <<rows, reqs, bus>> /\ \A u \in Viewer : u # v => views'[u] = views[u]
      BY <1>3, <1>15 DEF Deliver
    <2>2. ShowsWhatItRead(views'[v], bus)
      BY <1>1, <1>4, <1>15, DeliverShows
    <2> QED BY <1>7, <2>1, <2>2
  <1>16. ASSUME NEW v \in Viewer, Unsubscribe(v)
         PROVE  Finite' /\ Durable' /\ Ahead' /\ Shown'
    <2>1. UNCHANGED <<rows, reqs, bus>> /\ \A u \in Viewer : u # v => views'[u] = views[u]
      BY <1>3, <1>16 DEF Unsubscribe
    <2>2. views'[v] = NoView
      BY <1>3, <1>16 DEF Unsubscribe
    <2>3. ShowsWhatItRead(views'[v], bus)
      BY <1>3, <2>2, NoViewShows
    <2> QED BY <1>7, <2>1, <2>3
  <1>17. CASE Restart
    <2>1. Finite' /\ Durable' /\ Ahead'
      BY <1>1, <1>17, RestartCounts
    <2>2. bus' \in Seq(Event) /\ views' = [v \in Viewer |-> NoView]
      BY <1>17 DEF Restart
    <2>3. ASSUME NEW v \in Viewer
          PROVE  ShowsWhatItRead(views'[v], bus')
      <3>1. views'[v] = NoView
        BY <2>2
      <3> QED BY <2>2, <3>1, NoViewShows
    <2> QED BY <2>1, <2>3, Primed
  <1>18. CASE UNCHANGED collectorVars
    <2>1. UNCHANGED <<rows, reqs, bus, views>>
      BY <1>18 DEF collectorVars
    <2>2. SameUnsent
      BY <2>1 DEF SameUnsent
    <2> QED BY <1>6, <2>1, <2>2
  <1> QED BY <1>8, <1>9, <1>10, <1>11, <1>12, <1>13, <1>14, <1>15, <1>16, <1>17, <1>18
     DEF Next, Handler, LiveStream

\* The collector's counts agree, at all times, whatever the requests, the
\* failures of insert_batch, the viewers and the restarts.
THEOREM Invariant == Spec => []IInv
  <1>1. Init => IInv
    BY InitIInv
  <1>2. IInv /\ [Next]_collectorVars => IInv'
    BY StepIInv
  <1> QED BY <1>1, <1>2, PTL DEF Spec

\* The state of the collector has its types; a receiver is never ahead of the
\* channel.
THEOREM Typing == Spec => []TypeOK
  <1>1. IInv => TypeOK
    BY DEF IInv
  <1> QED BY <1>1, Invariant, PTL
--------------------------------------------------------------------------------
(* What follows *)

\* What live_session_sse_handler shows is in the store, as often.
THEOREM LiveIsStored == Spec => []LiveShowsOnlyStored
  <1>1. ASSUME IInv, NEW v \in Viewer, NEW e \in ToSet(views[v].got)
        PROVE  Count(views[v].got, e) <= Count(rows[views[v].sid], e)
    <2> DEFINE view == views[v]
               kind == {e}
    <2>1. TypeOK /\ Finite /\ Ahead /\ Shown
      BY <1>1 DEF IInv
    <2>2. view \in View /\ view.at <= Len(bus) /\ bus \in Seq(Event)
      BY <2>1, Zenon DEF TypeOK
    <2>3. view.sid \in Stream /\ view.got \in Seq(Event) /\ view.at \in Nat
      BY <2>2 DEF View
    <2>4. view.got \in Seq(OfSession(view.sid))
      BY <2>1 DEF Shown, ShowsWhatItRead
    <2>5. kind \in SUBSET OfSession(view.sid)
      <3>1. e \in {view.got[i] : i \in DOMAIN view.got}
        BY <1>1 DEF ToSet
      <3>2. PICK i \in DOMAIN view.got : e = view.got[i]
        BY <3>1
      <3> HIDE DEF view
      <3>3. e \in OfSession(view.sid)
        BY <2>4, <3>2
      <3> QED BY <3>3
    <2>6. kind \in SUBSET Event
      BY <2>5, OfSessionType
    <2>7. Number(view.got, kind) <= Read(bus, view, kind)
      BY <2>1, <2>5 DEF Shown, ShowsWhatItRead
    <2>8. Number(bus, kind) + Cardinality(At(reqs, Unsent(reqs), kind)) <= Number(rows[view.sid], kind)
      BY <2>1, <2>3, <2>5 DEF Ahead
    <2>9. /\ Number(bus, kind) \in Nat /\ Cardinality(At(reqs, Unsent(reqs), kind)) \in Nat
          /\ Number(rows[view.sid], kind) \in Nat
      BY <2>1, <2>3, <2>6, Counts
    <2>10. Read(bus, view, kind) <= Number(bus, kind) /\ Read(bus, view, kind) \in Nat
      <3> DEFINE at == view.at
      <3>1. Len(bus) \in Nat /\ at \in Nat /\ at <= Len(bus)
        BY <2>2, <2>3, LenProperties
      <3>2. Read(bus, view, kind) \in Nat
        BY <2>2, <2>3, ReadType
      <3> HIDE DEF at, kind, view
      <3>3. Number(SubSeq(bus, 1, at), kind) <= Number(SubSeq(bus, 1, Len(bus)), kind)
        BY <3>1, NumberUpTo
      <3>4. SubSeq(bus, 1, Len(bus)) = bus
        BY <2>2, <3>1
      <3> QED BY <3>2, <3>3, <3>4 DEF Read, at
    <2>11. Len(view.got) \in Nat
      BY <2>3, LenProperties
    <2>12. Number(view.got, kind) \in Nat
      BY <2>11, NumberType
    <2> HIDE DEF view, kind
    <2>13. Number(view.got, kind) <= Number(rows[view.sid], kind)
      BY <2>7, <2>8, <2>9, <2>10, <2>12
    <2> QED BY <2>13 DEF Count, view, kind
  <1>2. IInv => LiveShowsOnlyStored
    BY <1>1 DEF LiveShowsOnlyStored
  <1> QED BY <1>2, Invariant, PTL

\* The events of every request answered 202 are in the store, as often.
THEOREM AcceptedIsStored == Spec => []AcceptedIsDurable
  <1>1. ASSUME IInv, NEW e \in Event
        PROVE  Cardinality(Accepted(e)) <= Count(rows[e.sid], e)
    <2> DEFINE kind == {e}
               all == At(reqs, Persisted(reqs), kind)
    <2>1. TypeOK /\ Finite /\ Durable
      BY <1>1 DEF IInv
    <2>2. e.sid \in Stream /\ kind \in SUBSET OfSession(e.sid)
      BY CollectorAssumption DEF OfSession
    <2>3. kind \in SUBSET Event
      OBVIOUS
    <2>4. Cardinality(all) <= Number(rows[e.sid], kind)
      BY <2>1, <2>2 DEF Durable
    <2>5. IsFiniteSet(all) /\ Cardinality(all) \in Nat /\ Number(rows[e.sid], kind) \in Nat
      BY <2>1, <2>2, <2>3, Counts
    <2>6. Accepted(e) \subseteq all
      BY CollectorAssumption DEF Accepted, At, Persisted
    <2> HIDE DEF kind, all
    <2>7. Cardinality(Accepted(e)) <= Cardinality(all) /\ Cardinality(Accepted(e)) \in Nat
      BY <2>5, <2>6, FS_Subset, FS_CardinalityType
    <2>8. Cardinality(Accepted(e)) <= Number(rows[e.sid], kind)
      BY <2>4, <2>5, <2>7
    <2> QED BY <2>8 DEF Count, kind
  <1>2. IInv => AcceptedIsDurable
    BY <1>1 DEF AcceptedIsDurable
  <1> QED BY <1>2, Invariant, PTL
--------------------------------------------------------------------------------
(* What a live viewer has still to come *)

\* 202 is the end of a request.
Answers == \A r \in RequestId : reqs[r].status = 202 => reqs[r].st = "answered"

\* What is in the channel is what the request answered 202 has there.
Traced ==
  \A j \in 1..Len(origin) : \A r \in RequestId : \A i \in Nat :
    origin[j] = <<r, i>> => reqs[r].status = 202 /\ bus[j] = reqs[r].events[i]

\* It was sent, or it lies ahead in the channel.
SentOrAhead(view, places, r, i) ==
  <<r, i>> \in view.seen \/ \E j \in (view.at + 1)..Len(places) : places[j] = <<r, i>>

\* So it is with each event of the view's session in the requests that were stored
\* after the viewer subscribed and that were answered 202.
StillToCome(view, requests, places) ==
  view.on /\ ~view.lagged =>
    \A r \in RequestId \ view.before : requests[r].status = 202 =>
      \A i \in Positions(requests[r].events, OfSession(view.sid)) :
        SentOrAhead(view, places, r, i)

Missing == \A v \in Viewer : StillToCome(views[v], reqs, origin)

LiveInv == TypeOK /\ Answers /\ Traced /\ Missing

\* The requests answered 202 are the same ones.
SameAccepted ==
  \A r \in RequestId :
    /\ reqs'[r].status = 202 <=> reqs[r].status = 202
    /\ reqs[r].status = 202 => reqs'[r].events = reqs[r].events /\ reqs'[r].st = "answered"

\* The conjuncts in the next state.
LEMMA LivePrimed ==
  /\ Answers' <=> \A r \in RequestId : reqs'[r].status = 202 => reqs'[r].st = "answered"
  /\ Traced' <=> \A j \in 1..Len(origin') : \A r \in RequestId : \A i \in Nat :
                   origin'[j] = <<r, i>> => reqs'[r].status = 202 /\ bus'[j] = reqs'[r].events[i]
  /\ Missing' <=> \A v \in Viewer : StillToCome(views'[v], reqs', origin')
  <1>1. \A v : StillToCome(views[v], reqs, origin)' <=> StillToCome(views'[v], reqs', origin')
    BY Zenon DEF StillToCome, SentOrAhead, Positions, OfSession
  <1> QED BY <1>1 DEF Answers, Traced, Missing

\* Then everything that is still to come is still to come.
LEMMA SameAcceptedStep ==
  ASSUME Answers, Traced, SameAccepted, UNCHANGED <<bus, origin>>
  PROVE  /\ Answers' /\ Traced'
         /\ \A view : StillToCome(view, reqs, origin) => StillToCome(view, reqs', origin')
  <1>1. Answers'
    BY LivePrimed, Zenon DEF SameAccepted
  <1>2. Traced'
    <2>1. ASSUME NEW j \in 1..Len(origin), NEW r \in RequestId, NEW i \in Nat,
                 origin[j] = <<r, i>>
          PROVE  reqs'[r].status = 202 /\ bus[j] = reqs'[r].events[i]
      BY <2>1 DEF Traced, SameAccepted
    <2> QED BY <2>1, LivePrimed
  <1>3. ASSUME NEW view, StillToCome(view, reqs, origin)
        PROVE  StillToCome(view, reqs', origin')
    <2>1. SUFFICES ASSUME view.on, ~view.lagged, NEW r \in RequestId \ view.before,
                          reqs'[r].status = 202,
                          NEW i \in Positions(reqs'[r].events, OfSession(view.sid))
                   PROVE  SentOrAhead(view, origin', r, i)
      BY Zenon DEF StillToCome
    <2>2. reqs[r].status = 202 /\ reqs'[r].events = reqs[r].events
      BY <2>1 DEF SameAccepted
    <2>3. i \in Positions(reqs[r].events, OfSession(view.sid))
      BY <2>2
    <2>4. SentOrAhead(view, origin, r, i)
      BY <1>3, <2>1, <2>2, <2>3, Zenon DEF StillToCome
    <2> QED BY <2>4, Zenon
  <1> QED BY <1>1, <1>2, <1>3

\* A request that is taken in, stored or turned down was not answered 202, and is
\* not now.
LEMMA OtherRequests ==
  ASSUME TypeOK, Answers, NEW r \in RequestId,
         \/ \E events, form : Arrive(r, events, form)
         \/ Refuse(r) \/ PersistFails(r)
         \/ Persist(r)
  PROVE  SameAccepted /\ UNCHANGED <<bus, origin, views>>
  <1>1. reqs \in [RequestId -> Request]
    BY Zenon DEF TypeOK
  <1>2. reqs[r] \in Request
    BY <1>1
  <1>3. UNCHANGED <<bus, origin, views>> /\ reqs[r].st \in {"free", "arrived"}
    BY DEF Arrive, Refuse, PersistFails, Persist
  <1>4. reqs[r].status # 202
    BY <1>3 DEF Answers
  \* What is left to show of the request that changed.
  <1>5. ASSUME NEW q, reqs' = [reqs EXCEPT ![r] = q], q.status # 202
        PROVE  SameAccepted
    <2>1. reqs'[r] = q /\ \A x \in RequestId : x # r => reqs'[x] = reqs[x]
      BY <1>1, <1>5
    <2>2. ASSUME NEW x \in RequestId
          PROVE  /\ reqs'[x].status = 202 <=> reqs[x].status = 202
                 /\ reqs[x].status = 202 => reqs'[x].events = reqs[x].events
                                            /\ reqs'[x].st = "answered"
      BY <1>4, <1>5, <2>1 DEF Answers
    <2> QED BY <2>2, Zenon DEF SameAccepted
  <1>6. CASE \E events, form : Arrive(r, events, form)
    <2>1. PICK events, form : Arrive(r, events, form)
      BY <1>6
    <2> DEFINE q == [NoRequest EXCEPT !.st = "arrived", !.events = events, !.form = form]
    <2>2. q.status = 0
      BY DEF NoRequest
    <2>3. reqs' = [reqs EXCEPT ![r] = q]
      BY <2>1 DEF Arrive
    <2> HIDE DEF q
    <2>4. q.status # 202
      BY <2>2
    <2> QED BY <1>3, <1>5, <2>3, <2>4
  <1>7. CASE Refuse(r) \/ PersistFails(r)
    <2> DEFINE no == FALSE
    <2>1. no \in Flags
      BY FlagTypes
    <2>2. PICK code \in Refusals : Answered(r, code, no)
      BY <1>7, RefusalCode
    <2>3. code \in Codes /\ code # 202
      BY DEF Refusals
    <2> HIDE DEF no
    <2> DEFINE q == WithAnswer(reqs[r], code, no)
    <2>4. reqs' = [reqs EXCEPT ![r] = q]
      BY <1>1, <2>1, <2>2, <2>3, AnsweredType
    <2>5. q.status = code
      BY <1>2, <2>1, <2>3, WithAnswerType
    <2> HIDE DEF q
    <2>6. q.status # 202
      BY <2>3, <2>5
    <2> QED BY <1>3, <1>5, <2>4, <2>6
  <1>8. CASE Persist(r)
    <2> DEFINE q == InState(reqs[r], "stored")
    <2>1. reqs' = [reqs EXCEPT ![r] = q]
      BY <1>8 DEF Persist, InState
    <2>2. q.status = reqs[r].status
      BY <1>2, InStateType DEF States
    <2> HIDE DEF q
    <2>3. q.status # 202
      BY <1>4, <2>2
    <2> QED BY <1>3, <1>5, <2>1, <2>3
  <1> QED BY <1>3, <1>6, <1>7, <1>8

\* A handler that finishes sends each event of its request, behind every receiver.
LEMMA FinishSends ==
  ASSUME TypeOK, Answers, Traced, Missing, NEW r \in RequestId, Finish(r)
  PROVE  Answers' /\ Traced' /\ Missing'
  <1>1. /\ reqs \in [RequestId -> Request] /\ views \in [Viewer -> View]
        /\ bus \in Seq(Event) /\ origin \in Seq(RequestId \X Nat) /\ Len(origin) = Len(bus)
        /\ \A v \in Viewer : views[v].at <= Len(bus)
    BY Zenon DEF TypeOK
  <1>2. reqs[r] \in Request
    BY <1>1
  <1> DEFINE kill == MustKill(reqs[r].events)
             q == WithAnswer(reqs[r], 202, kill)
             events == reqs[r].events
  <1>3. 202 \in Codes /\ kill \in Flags
    BY FlagTypes DEF Codes
  <1>4. Answered(r, 202, kill) /\ reqs[r].st = "stored" /\ views' = views
    BY DEF Finish
  <1>5. bus' = bus \o events /\ origin' = origin \o Places(r)
    BY DEF Finish
  <1> HIDE DEF kill
  <1>6. reqs' = [reqs EXCEPT ![r] = q]
    BY <1>1, <1>3, <1>4, AnsweredType
  <1>7. q.st = "answered" /\ q.status = 202 /\ q.events = events
    BY <1>2, <1>3, WithAnswerType
  <1>8. events \in Seq(Event)
    BY <1>2, RequestFields
  <1> HIDE DEF q
  <1>9. reqs'[r] = q /\ \A x \in RequestId : x # r => reqs'[x] = reqs[x]
    BY <1>1, <1>6
  <1>10. reqs[r].status # 202
    BY <1>4 DEF Answers
  <1>11. \A x \in RequestId : reqs'[x].status = 202 <=> reqs[x].status = 202 \/ x = r
    BY <1>7, <1>9
  <1>12. \A x \in RequestId : reqs'[x].events = reqs[x].events
    BY <1>7, <1>9
  <1> HIDE DEF events
  <1>13. /\ Places(r) \in Seq(RequestId \X Nat) /\ Len(Places(r)) = Len(events)
         /\ \A i \in 1..Len(events) : Places(r)[i] = <<r, i>>
    BY <1>8, PlacesType DEF events
  <1> DEFINE m == Len(bus)
             n == Len(events)
  <1>14. m \in Nat /\ n \in Nat
    BY <1>1, <1>8, LenProperties
  <1>15. /\ Len(origin') = m + n
         /\ \A j \in 1..m : origin'[j] = origin[j]
         /\ \A i \in 1..n : origin'[m + i] = <<r, i>>
    <2>1. /\ Len(origin \o Places(r)) = Len(origin) + Len(Places(r))
          /\ \A j \in 1..Len(origin) : (origin \o Places(r))[j] = origin[j]
          /\ \A j \in 1..Len(Places(r)) : (origin \o Places(r))[Len(origin) + j] = Places(r)[j]
      <3> DEFINE new == Places(r)
      <3>1. new \in Seq(RequestId \X Nat) /\ Len(origin) \in Nat /\ Len(new) \in Nat
        BY <1>1, <1>13, LenProperties
      <3> HIDE DEF new
      <3>2. /\ Len(origin \o new) = Len(origin) + Len(new)
            /\ \A j \in 1..(Len(origin) + Len(new)) :
                 (origin \o new)[j] = IF j <= Len(origin) THEN origin[j] ELSE new[j - Len(origin)]
        BY <1>1, <3>1, ConcatProperties
      <3>3. /\ \A j \in 1..Len(origin) : (origin \o new)[j] = origin[j]
            /\ \A j \in 1..Len(new) : (origin \o new)[Len(origin) + j] = new[j]
        BY <3>1, <3>2
      <3> QED BY <3>2, <3>3 DEF new
    <2> QED BY <1>1, <1>5, <1>13, <2>1
  <1>16. /\ \A j \in 1..m : bus'[j] = bus[j]
         /\ \A i \in 1..n : bus'[m + i] = events[i]
    BY <1>1, <1>5, <1>8, ConcatProperties
  <1>17. Len(origin) = m
    BY <1>1
  <1> HIDE DEF m, n
  <1>18. \A j \in 1..(m + n) : j \in 1..m \/ (j - m \in 1..n /\ j = m + (j - m))
    BY <1>14
  <1>19. Answers'
    <2>1. ASSUME NEW x \in RequestId, reqs'[x].status = 202
          PROVE  reqs'[x].st = "answered"
      BY <1>7, <1>9, <2>1 DEF Answers
    <2> QED BY <2>1, LivePrimed
  <1>20. Traced'
    <2>1. ASSUME NEW j \in 1..(m + n), NEW x \in RequestId, NEW i \in Nat, origin'[j] = <<x, i>>
          PROVE  reqs'[x].status = 202 /\ bus'[j] = reqs'[x].events[i]
      <3>1. CASE j \in 1..m
        <4>1. origin[j] = <<x, i>>
          BY <1>15, <2>1, <3>1
        <4>2. reqs[x].status = 202 /\ bus[j] = reqs[x].events[i]
          BY <1>17, <3>1, <4>1 DEF Traced
        <4> QED BY <1>11, <1>12, <1>16, <3>1, <4>2
      <3>2. CASE j - m \in 1..n /\ j = m + (j - m)
        <4> DEFINE k == j - m
        <4>1. k \in 1..n /\ j = m + k
          BY <3>2
        <4> HIDE DEF k
        <4>2. <<x, i>> = <<r, k>> /\ bus'[j] = events[k]
          BY <1>15, <1>16, <2>1, <4>1
        <4>3. x = r /\ i = k
          BY <4>2
        <4> QED BY <1>11, <1>12, <4>2, <4>3 DEF events
      <3> QED BY <1>18, <2>1, <3>1, <3>2
    <2> QED BY <1>15, <2>1, LivePrimed
  <1>21. Missing'
    <2>1. ASSUME NEW v \in Viewer
          PROVE  StillToCome(views[v], reqs', origin')
      <3> DEFINE view == views[v]
      <3>1. view \in View /\ view.at <= m
        BY <1>1 DEF m
      <3>2. view.at \in Nat
        BY <3>1 DEF View
      <3>3. StillToCome(view, reqs, origin)
        BY DEF Missing
      <3> HIDE DEF view
      <3>4. SUFFICES ASSUME view.on, ~view.lagged, NEW x \in RequestId \ view.before,
                            reqs'[x].status = 202,
                            NEW i \in Positions(reqs'[x].events, OfSession(view.sid))
                     PROVE  SentOrAhead(view, origin', x, i)
        BY Zenon DEF StillToCome, view
      <3>5. i \in Positions(reqs[x].events, OfSession(view.sid))
        BY <1>12
      <3>6. CASE x = r
        <4>1. i \in 1..n
          BY <3>5, <3>6 DEF Positions, events, n
        <4>2. m + i \in (view.at + 1)..(m + n)
          BY <1>14, <3>1, <3>2, <4>1
        <4>3. origin'[m + i] = <<x, i>>
          BY <1>15, <3>6, <4>1
        <4> QED BY <1>15, <4>2, <4>3 DEF SentOrAhead
      <3>7. CASE x # r
        <4>1. reqs[x].status = 202
          BY <1>11, <3>4, <3>7
        <4>2. SentOrAhead(view, origin, x, i)
          BY <3>3, <3>4, <3>5, <4>1, Zenon DEF StillToCome
        <4>3. \A j \in (view.at + 1)..m : j \in (view.at + 1)..(m + n) /\ j \in 1..m
          BY <1>14, <3>2
        <4> QED BY <1>15, <1>17, <4>2, <4>3 DEF SentOrAhead
      <3> QED BY <3>6, <3>7
    <2> QED BY <1>4, <2>1, LivePrimed
  <1> QED BY <1>19, <1>20, <1>21

\* A new view waits for nothing that was answered before.
LEMMA SubscribeMisses ==
  ASSUME TypeOK, NEW v \in Viewer, NEW s \in Session, Subscribe(v, s)
  PROVE  StillToCome(views'[v], reqs, origin)
  <1> DEFINE old == {r \in RequestId : Stored(r)}
             w == [NoView EXCEPT !.on = TRUE, !.sid = s, !.at = Len(bus), !.before = old]
  <1>1. views \in [Viewer -> View]
    BY Zenon DEF TypeOK
  <1>2. views' = [views EXCEPT ![v] = w]
    BY Zenon DEF Subscribe
  <1>3. \A r \in RequestId : reqs[r].status = 202 => r \in old
    BY DEF Stored
  <1> HIDE DEF old
  <1>4. w.before = old
    BY DEF NoView
  <1> HIDE DEF w
  <1>5. views'[v] = w
    BY <1>1, <1>2
  <1> QED BY <1>3, <1>4, <1>5, Zenon DEF StillToCome

\* The next value of the channel: if it is what the viewer waits for, it is shown.
LEMMA DeliverMisses ==
  ASSUME TypeOK, Traced, NEW v \in Viewer, Deliver(v), StillToCome(views[v], reqs, origin)
  PROVE  StillToCome(views'[v], reqs, origin)
  <1> DEFINE view == views[v]
             at == view.at
             e == bus[at + 1]
             gotNew == IF e.sid = view.sid THEN Append(view.got, e) ELSE view.got
             seenNew == IF e.sid = view.sid THEN view.seen \cup {origin[at + 1]} ELSE view.seen
             w == [view EXCEPT !.at = @ + 1, !.got = gotNew, !.seen = seenNew]
  <1>1. /\ views \in [Viewer -> View] /\ bus \in Seq(Event) /\ Len(origin) = Len(bus)
        /\ reqs \in [RequestId -> Request]
    BY Zenon DEF TypeOK
  <1>2. view \in View
    BY <1>1
  <1>3. at \in Nat /\ at < Len(bus) /\ Len(bus) \in Nat
    BY <1>1, <1>2, LenProperties DEF View, Deliver
  <1>4. views' = [views EXCEPT ![v] = w]
    BY DEF Deliver
  <1>5. /\ w.at = at + 1 /\ w.sid = view.sid /\ w.seen = seenNew
        /\ w.on = view.on /\ w.lagged = view.lagged /\ w.before = view.before
    <2> HIDE DEF gotNew, seenNew
    <2> QED BY <1>2 DEF View
  <1> HIDE DEF w
  <1>6. views'[v] = w
    BY <1>1, <1>4
  <1>7. view.seen \subseteq seenNew
    OBVIOUS
  <1>8. e.sid = view.sid => origin[at + 1] \in seenNew
    OBVIOUS
  <1>9. StillToCome(view, reqs, origin)
    OBVIOUS
  <1> HIDE DEF seenNew, view
  <1> SUFFICES StillToCome(w, reqs, origin)
    BY <1>6
  <1>10. SUFFICES ASSUME w.on, ~w.lagged, NEW r \in RequestId \ w.before,
                         reqs[r].status = 202,
                         NEW i \in Positions(reqs[r].events, OfSession(w.sid))
                  PROVE  SentOrAhead(w, origin, r, i)
    BY Zenon DEF StillToCome
  <1>11. view.on /\ ~view.lagged /\ r \in RequestId \ view.before
         /\ i \in Positions(reqs[r].events, OfSession(view.sid))
    BY <1>5, <1>10
  <1>12. SentOrAhead(view, origin, r, i)
    <2>1. \A x \in RequestId \ view.before : reqs[x].status = 202 =>
            \A k \in Positions(reqs[x].events, OfSession(view.sid)) : SentOrAhead(view, origin, x, k)
      BY <1>9, <1>11, Zenon DEF StillToCome
    <2> QED BY <1>10, <1>11, <2>1
  <1>13. CASE <<r, i>> \in view.seen
    BY <1>5, <1>7, <1>13 DEF SentOrAhead
  <1>14. CASE \E j \in (at + 1)..Len(origin) : origin[j] = <<r, i>>
    <2>1. PICK j \in (at + 1)..Len(origin) : origin[j] = <<r, i>>
      BY <1>14
    <2>2. CASE j = at + 1
      <3>1. j \in 1..Len(origin) /\ i \in Nat
        BY <1>1, <1>3, <1>11 DEF Positions
      <3>2. bus[j] = reqs[r].events[i]
        BY <2>1, <3>1 DEF Traced
      <3>3. e.sid = view.sid
        BY <1>11, <2>2, <3>2 DEF Positions, OfSession
      <3>4. <<r, i>> \in w.seen
        BY <1>5, <1>8, <2>1, <2>2, <3>3
      <3> QED BY <3>4 DEF SentOrAhead
    <2>3. CASE j # at + 1
      <3>1. j \in (w.at + 1)..Len(origin)
        BY <1>1, <1>3, <1>5, <2>3
      <3> QED BY <2>1, <3>1 DEF SentOrAhead
    <2> QED BY <2>2, <2>3
  <1> QED BY <1>12, <1>13, <1>14 DEF SentOrAhead

\* Every step keeps what is still to come.
LEMMA StepLive ==
  ASSUME LiveInv, [Next]_collectorVars
  PROVE  LiveInv'
  <1>1. TypeOK /\ Answers /\ Traced /\ Missing
    BY DEF LiveInv
  <1>2. TypeOK'
    BY <1>1, TypeStep
  <1>3. views \in [Viewer -> View]
    BY <1>1, Zenon DEF TypeOK
  <1>4. \A v \in Viewer : StillToCome(views[v], reqs, origin)
    BY <1>1 DEF Missing
  <1>5. SUFFICES Answers' /\ Traced' /\ Missing'
    BY <1>2 DEF LiveInv
  \* A step that leaves the views.
  <1>6. ASSUME SameAccepted, UNCHANGED <<bus, origin, views>>
        PROVE  Answers' /\ Traced' /\ Missing'
    <2>1. /\ Answers' /\ Traced'
          /\ \A view : StillToCome(view, reqs, origin) => StillToCome(view, reqs', origin')
      BY <1>1, <1>6, SameAcceptedStep
    <2>2. Missing'
      BY <1>4, <1>6, <2>1, LivePrimed
    <2> QED BY <2>1, <2>2
  \* A step that changes one view.
  <1>7. ASSUME NEW v \in Viewer, UNCHANGED <<reqs, bus, origin>>,
               \A u \in Viewer : u # v => views'[u] = views[u],
               StillToCome(views'[v], reqs, origin)
        PROVE  Answers' /\ Traced' /\ Missing'
    <2>1. SameAccepted
      BY <1>1, <1>7 DEF SameAccepted, Answers
    <2>2. Answers' /\ Traced'
      BY <1>1, <1>7, <2>1, SameAcceptedStep
    <2>3. ASSUME NEW u \in Viewer
          PROVE  StillToCome(views'[u], reqs', origin')
      BY <1>4, <1>7
    <2> QED BY <2>2, <2>3, LivePrimed
  <1>8. ASSUME NEW r \in RequestId,
               \/ \E events, form : Arrive(r, events, form)
               \/ Refuse(r) \/ PersistFails(r)
               \/ Persist(r)
        PROVE  Answers' /\ Traced' /\ Missing'
    BY <1>1, <1>6, <1>8, OtherRequests
  <1>9. ASSUME NEW r \in RequestId, Finish(r)
        PROVE  Answers' /\ Traced' /\ Missing'
    BY <1>1, <1>9, FinishSends
  <1>10. CASE (\E s \in Session : kill_session(s)) \/ UNCHANGED collectorVars
    <2>1. UNCHANGED <<reqs, bus, origin, views>>
      BY <1>10 DEF kill_session, collectorVars
    <2>2. SameAccepted
      BY <1>1, <2>1 DEF SameAccepted, Answers
    <2> QED BY <1>6, <2>1, <2>2
  <1>11. ASSUME NEW v \in Viewer, NEW s \in Session, Subscribe(v, s)
         PROVE  Answers' /\ Traced' /\ Missing'
    <2>1. UNCHANGED <<reqs, bus, origin>> /\ \A u \in Viewer : u # v => views'[u] = views[u]
      BY <1>3, <1>11 DEF Subscribe
    <2>2. StillToCome(views'[v], reqs, origin)
      BY <1>1, <1>11, SubscribeMisses
    <2> QED BY <1>7, <2>1, <2>2
  <1>12. ASSUME NEW v \in Viewer, Lag(v) \/ Unsubscribe(v)
         PROVE  Answers' /\ Traced' /\ Missing'
    <2>1. UNCHANGED <<reqs, bus, origin>> /\ \A u \in Viewer : u # v => views'[u] = views[u]
      BY <1>3, <1>12 DEF Lag, Unsubscribe
    <2>2. StillToCome(views'[v], reqs, origin)
      <3>1. CASE Lag(v)
        <4> DEFINE w == [views[v] EXCEPT !.at = Oldest, !.lagged = TRUE]
        <4>1. views[v] \in View /\ views' = [views EXCEPT ![v] = w]
          BY <1>3, <3>1 DEF Lag
        <4>2. w.lagged = TRUE
          BY <4>1 DEF View
        <4> HIDE DEF w
        <4>3. views'[v] = w
          BY <1>3, <4>1
        <4> QED BY <4>2, <4>3, Zenon DEF StillToCome
      <3>2. CASE Unsubscribe(v)
        <4>1. views'[v] = NoView
          BY <1>3, <3>2 DEF Unsubscribe
        <4>2. NoView.on = FALSE
          BY DEF NoView
        <4> QED BY <4>1, <4>2, Zenon DEF StillToCome
      <3> QED BY <1>12, <3>1, <3>2
    <2> QED BY <1>7, <2>1, <2>2
  <1>13. ASSUME NEW v \in Viewer, Deliver(v)
         PROVE  Answers' /\ Traced' /\ Missing'
    <2>1. UNCHANGED <<reqs, bus, origin>> /\ \A u \in Viewer : u # v => views'[u] = views[u]
      BY <1>3, <1>13 DEF Deliver
    <2>2. StillToCome(views'[v], reqs, origin)
      BY <1>1, <1>4, <1>13, DeliverMisses
    <2> QED BY <1>7, <2>1, <2>2
  <1>14. CASE Restart
    <2>1. bus' = << >> /\ origin' = << >> /\ views' = [v \in Viewer |-> NoView]
      BY <1>14 DEF Restart
    <2>2. reqs' = [r \in RequestId |-> IF reqs[r].st \in {"arrived", "stored"}
                                       THEN InState(reqs[r], "lost") ELSE reqs[r]]
      BY <1>14 DEF Restart, InState
    <2>3. Answers'
      <3>1. ASSUME NEW r \in RequestId, reqs'[r].status = 202
            PROVE  reqs'[r].st = "answered"
        <4>1. reqs[r] \in Request
          BY <1>1 DEF TypeOK
        <4>2. InState(reqs[r], "lost").status = reqs[r].status
          BY <4>1, InStateType DEF States
        <4>3. reqs[r].status = 202
          BY <2>2, <3>1, <4>2
        <4>4. reqs[r].st = "answered"
          BY <1>1, <4>3 DEF Answers
        <4> QED BY <2>2, <4>4
      <3> QED BY <3>1, LivePrimed
    <2>4. Traced'
      <3>1. Len(origin') = 0
        BY <2>1
      <3>2. 1..Len(origin') = {}
        BY <3>1
      <3> QED BY <3>2, LivePrimed
    <2>5. Missing'
      <3>1. NoView.on = FALSE
        BY DEF NoView
      <3>2. ASSUME NEW v \in Viewer
            PROVE  StillToCome(views'[v], reqs', origin')
        <4>1. views'[v] = NoView
          BY <2>1
        <4> QED BY <3>1, <4>1, Zenon DEF StillToCome
      <3> QED BY <3>2, LivePrimed
    <2> QED BY <2>3, <2>4, <2>5
  <1> QED BY <1>8, <1>9, <1>10, <1>11, <1>12, <1>13, <1>14 DEF Next, Handler, LiveStream

\* A viewer that was not overtaken and has read the channel to its end was sent
\* every event of its session that was stored after it subscribed and whose request
\* was answered 202: each one itself, not just as many.
THEOREM LiveIsComplete == Spec => []LiveMissesNothing
  <1>1. Init => LiveInv
    <2> SUFFICES ASSUME Init PROVE LiveInv
      OBVIOUS
    <2>1. TypeOK
      BY InitIInv DEF IInv
    <2>2. /\ reqs = [r \in RequestId |-> NoRequest] /\ origin = << >>
          /\ views = [v \in Viewer |-> NoView]
      BY DEF Init
    <2>3. NoView.on = FALSE /\ NoRequest.status = 0
      BY DEF NoView, NoRequest
    <2>4. Answers
      BY <2>2, <2>3 DEF Answers
    <2>5. Traced
      BY <2>2 DEF Traced
    <2>6. Missing
      <3>1. ASSUME NEW v \in Viewer
            PROVE  StillToCome(views[v], reqs, origin)
        <4>1. views[v] = NoView
          BY <2>2
        <4> QED BY <2>3, <4>1, Zenon DEF StillToCome
      <3> QED BY <3>1 DEF Missing
    <2> QED BY <2>1, <2>4, <2>5, <2>6 DEF LiveInv
  <1>2. LiveInv /\ [Next]_collectorVars => LiveInv'
    BY StepLive
  <1>3. LiveInv => LiveMissesNothing
    <2> SUFFICES ASSUME LiveInv, NEW v \in Viewer, views[v].on, ~views[v].lagged,
                        views[v].at = Len(bus), NEW r \in RequestId \ views[v].before,
                        reqs[r].status = 202,
                        NEW i \in Positions(reqs[r].events, OfSession(views[v].sid))
                 PROVE  <<r, i>> \in views[v].seen
      BY Zenon DEF LiveMissesNothing
    <2>1. bus \in Seq(Event) /\ Len(origin) = Len(bus)
      BY Zenon DEF LiveInv, TypeOK
    <2>2. Len(bus) \in Nat
      BY <2>1, LenProperties
    <2>3. StillToCome(views[v], reqs, origin)
      BY DEF LiveInv, Missing
    <2>4. SentOrAhead(views[v], origin, r, i)
      BY <2>3, Zenon DEF StillToCome
    <2>5. (views[v].at + 1)..Len(origin) = {}
      BY <2>1, <2>2
    <2> QED BY <2>4, <2>5 DEF SentOrAhead
  <1> QED BY <1>1, <1>2, <1>3, PTL DEF Spec
================================================================================
