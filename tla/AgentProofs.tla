------------------------------ MODULE AgentProofs ------------------------------
(***************************************************************************)
(* Proofs about Agent, for every length of a session and every batch size. *)
(*                                                                         *)
(* The argument: the events are numbered as they are sent, so the batch    *)
(* followed by the channel is always the run of numbers that ends at sent. *)
(* Whatever is numbered below the batch has been Settled: it is in acked   *)
(* or in spool, once.  A flush moves that border past the batch before the *)
(* batch is cleared, and every exit of flush_batch has to do so.           *)
(***************************************************************************)
EXTENDS Agent, SequenceTheorems, TLAPS

\* The numbers of the events of a list.
Numbers(s) == { s[i].n : i \in 1..Len(s) }

\* The events of a list are numbered one after the other, after number a.
Consecutive(s, a) == \A i \in 1..Len(s) : s[i].n = a + i

\* The last number the uploader has received, and the last one before its batch.
Received == sent - Len(chan)
BeforeBatch == Received - Len(batch)

\* The events up to here have been answered or spooled, or dropped.
Settled == IF up = "cleared" THEN Received ELSE BeforeBatch

\* The events up to here have been put into a request or spooled, or dropped.
Offered == IF up \in {"await", "cleared"} THEN Received ELSE BeforeBatch

\* Where the events are.
Numbered ==
  /\ Len(chan) <= sent
  /\ Len(batch) <= Received
  /\ Consecutive(chan, Received)
  /\ Consecutive(batch, BeforeBatch)
  /\ pty = "start" => sent = 0
  /\ pty = "loop" => sent >= 1

\* How far the uploader is.
Phases ==
  /\ leaving => /\ pty = "ended"
                /\ chan = << >>
                /\ up \in {"flush", "await", "cleared", "done"}
  /\ up = "done" => leaving /\ batch = << >>
  /\ up = "await" => hasUrl
  /\ proc = "exited" => up = "done"

\* What has become of the events that are no longer pending.
Accounts ==
  /\ InOrder(posted) /\ InOrder(acked) /\ InOrder(spool)
  /\ Numbers(posted) \subseteq 1..Offered
  /\ Numbers(acked) \subseteq 1..Settled
  /\ Numbers(spool) \subseteq 1..Settled
  /\ Numbers(acked) \cap Numbers(spool) = {}
  /\ hasSpool /\ ~spoolFailed => Numbers(acked) \cup Numbers(spool) = 1..Settled
  /\ HasOutlet => Numbers(posted) \cup Numbers(spool) = 1..Offered

IInv == TypeOK /\ Numbered /\ Phases /\ Accounts
--------------------------------------------------------------------------------
(* Lists of numbered events *)

\* The numbers of a list are the numbers of its elements.
LEMMA NumbersOfElements ==
  ASSUME NEW s \in Seq(Emission)
  PROVE  Numbers(s) = { e.n : e \in ToSet(s) }
BY DEF Numbers, ToSet

\* The numbers of two lists put together.
LEMMA NumbersConcat ==
  ASSUME NEW s \in Seq(Emission), NEW t \in Seq(Emission)
  PROVE  Numbers(s \o t) = Numbers(s) \cup Numbers(t)
<1>1. /\ s \o t \in Seq(Emission)
      /\ Len(s \o t) = Len(s) + Len(t)
      /\ \A i \in 1..Len(s) : (s \o t)[i] = s[i]
      /\ \A i \in 1..Len(t) : (s \o t)[i + Len(s)] = t[i]
  OBVIOUS
<1>2. Numbers(s \o t) \subseteq Numbers(s) \cup Numbers(t)
  <2> SUFFICES ASSUME NEW i \in 1..Len(s \o t)
               PROVE  (s \o t)[i].n \in Numbers(s) \cup Numbers(t)
    BY DEF Numbers
  <2>1. CASE i \in 1..Len(s)
    BY <1>1, <2>1 DEF Numbers
  <2>2. CASE i \notin 1..Len(s)
    <3>1. i - Len(s) \in 1..Len(t) /\ (i - Len(s)) + Len(s) = i
      BY <1>1, <2>2
    <3> QED
      BY <1>1, <3>1 DEF Numbers
  <2> QED
    BY <2>1, <2>2
<1>3. Numbers(s) \subseteq Numbers(s \o t)
  BY <1>1 DEF Numbers
<1>4. Numbers(t) \subseteq Numbers(s \o t)
  <2> SUFFICES ASSUME NEW i \in 1..Len(t)
               PROVE  t[i].n \in Numbers(s \o t)
    BY DEF Numbers
  <2>1. i + Len(s) \in 1..Len(s \o t)
    BY <1>1
  <2> QED
    BY <1>1, <2>1 DEF Numbers
<1> QED
  BY <1>2, <1>3, <1>4

\* Consecutive numbers after a are all the numbers from a + 1 on.
LEMMA NumbersConsecutive ==
  ASSUME NEW s \in Seq(Emission), NEW a \in Nat, Consecutive(s, a)
  PROVE  Numbers(s) = (a + 1)..(a + Len(s))
<1>1. Numbers(s) \subseteq (a + 1)..(a + Len(s))
  BY DEF Numbers, Consecutive
<1>2. ASSUME NEW k \in (a + 1)..(a + Len(s))
      PROVE  k \in Numbers(s)
  <2>1. k - a \in 1..Len(s) /\ a + (k - a) = k
    OBVIOUS
  <2> QED
    BY <2>1 DEF Numbers, Consecutive
<1> QED
  BY <1>1, <1>2

\* Consecutive events added behind a list of earlier ones keep its order.
LEMMA InOrderConcat ==
  ASSUME NEW s \in Seq(Emission), NEW t \in Seq(Emission), NEW a \in Nat,
         InOrder(s), Numbers(s) \subseteq 1..a, Consecutive(t, a)
  PROVE  InOrder(s \o t)
<1>1. /\ Len(s \o t) = Len(s) + Len(t)
      /\ \A i \in 1..Len(s) : (s \o t)[i] = s[i]
      /\ \A i \in 1..Len(s) + Len(t) : i > Len(s) => (s \o t)[i] = t[i - Len(s)]
      /\ Len(s) \in Nat /\ Len(t) \in Nat
  OBVIOUS
<1>2. \A i \in 1..Len(s) : s[i].n \in 1..a
  BY DEF Numbers
<1>3. \A i \in 1..Len(s) + Len(t) : i > Len(s) => (s \o t)[i].n = a + (i - Len(s))
  BY <1>1 DEF Consecutive
<1> SUFFICES ASSUME NEW i \in 1..Len(s) + Len(t), NEW j \in 1..Len(s) + Len(t), i < j
             PROVE  (s \o t)[i].n < (s \o t)[j].n
  BY <1>1 DEF InOrder
<1>4. CASE j <= Len(s)
  BY <1>1, <1>4 DEF InOrder
<1>5. CASE j > Len(s) /\ i <= Len(s)
  BY <1>1, <1>2, <1>3, <1>5
<1>6. CASE i > Len(s)
  <2>1. Len(s) \in Nat /\ Len(t) \in Nat
    OBVIOUS
  <2>2. j > Len(s)
    BY <1>6, <2>1
  <2>3. (s \o t)[i].n = a + (i - Len(s)) /\ (s \o t)[j].n = a + (j - Len(s))
    BY <1>3, <1>6, <2>2
  <2>4. a + (i - Len(s)) < a + (j - Len(s))
    BY <2>1
  <2> QED
    BY <2>3, <2>4
<1> QED
  BY <1>4, <1>5, <1>6

\* Adding no event, or the next one, to a consecutive list.
LEMMA ConsecutiveAppend ==
  ASSUME NEW s \in Seq(Emission), NEW a \in Nat, Consecutive(s, a),
         NEW e \in Emission, e.n = a + Len(s) + 1
  PROVE  Consecutive(Append(s, e), a)
<1>1. /\ Len(Append(s, e)) = Len(s) + 1
      /\ \A i \in 1..Len(s) : Append(s, e)[i] = s[i]
      /\ Append(s, e)[Len(s) + 1] = e
      /\ Len(s) \in Nat
  OBVIOUS
<1> SUFFICES ASSUME NEW i \in 1..Len(s) + 1
             PROVE  Append(s, e)[i].n = a + i
  BY <1>1 DEF Consecutive
<1>2. CASE i \in 1..Len(s)
  BY <1>1, <1>2 DEF Consecutive
<1>3. CASE i = Len(s) + 1
  BY <1>1, <1>3
<1> QED
  BY <1>1, <1>2, <1>3
--------------------------------------------------------------------------------
(* Type correctness *)

\* Sending an event of the session adds one numbered sent + 1 to the channel.
LEMMA SendType ==
  ASSUME TypeOK, NEW kind \in {"SessionInit", "KeystrokeInput", "SessionEnd"},
         sent < MaxEvents, Send(kind)
  PROVE  /\ sent' = sent + 1
         /\ sent' \in 0..MaxEvents
         /\ \E e \in Emission : e.n = sent + 1 /\ chan' = Append(chan, e)
         /\ chan' \in Seq(Emission)
<1> DEFINE e == [kind |-> kind, n |-> sent + 1]
<1>1. sent + 1 \in 1..MaxEvents
  BY AgentAssumption DEF TypeOK
<1>2. e \in Emission /\ e.n = sent + 1
  BY <1>1 DEF Emission
<1>3. chan' = Append(chan, e) /\ sent' = sent + 1
  BY DEF Send
<1> QED
  BY <1>1, <1>2, <1>3, SMTT(60) DEF TypeOK

\* The state of the agent keeps its types.  That the session starts with an
\* empty channel is what bounds the first Send.
THEOREM Typing == Spec => []TypeOK
<1> DEFINE Typed == TypeOK /\ (pty = "start" => sent = 0)
<1>1. Init => Typed
  <2> SUFFICES ASSUME Init
               PROVE  Typed
    OBVIOUS
  <2>1. /\ hasUrl \in BOOLEAN /\ hasSpool \in BOOLEAN /\ due \in BOOLEAN
        /\ leaving \in BOOLEAN /\ spoolFailed \in BOOLEAN
    BY DEF Init
  <2>2. 0 \in 0..MaxEvents /\ << >> \in Seq(Emission)
    BY AgentAssumption
  <2> QED
    BY <2>1, <2>2, Zenon DEF Init, TypeOK
<1>2. Typed /\ [Next]_vars => Typed'
  <2> SUFFICES ASSUME Typed, [Next]_vars
               PROVE  Typed'
    OBVIOUS
  <2> USE DEF ptyVars, config, spoolVars, uploaderVars
  <2>0. MaxEvents \in Nat \ {0}
    BY AgentAssumption
  <2>1. CASE StartSession
    <3>1. sent < MaxEvents
      BY <2>0, <2>1 DEF StartSession
    <3>2. sent' \in 0..MaxEvents /\ chan' \in Seq(Emission)
      BY <2>1, <3>1, SendType DEF StartSession
    <3> QED
      BY <2>1, <3>2 DEF StartSession, TypeOK
  <2>2. CASE RecordInput
    <3>1. sent < MaxEvents
      BY <2>0, <2>2 DEF RecordInput, TypeOK
    <3>2. sent' \in 0..MaxEvents /\ chan' \in Seq(Emission)
      BY <2>2, <3>1, SendType DEF RecordInput
    <3> QED
      BY <2>2, <3>2 DEF RecordInput, TypeOK
  <2>3. CASE EndSession
    <3>1. sent' \in 0..MaxEvents /\ chan' \in Seq(Emission)
      BY <2>3, SendType DEF EndSession
    <3> QED
      BY <2>3, <3>1 DEF EndSession, TypeOK
  <2>4. CASE ReceiveEvent
    <3>1. Head(chan) \in Emission /\ Tail(chan) \in Seq(Emission)
      BY <2>4 DEF ReceiveEvent, TypeOK
    <3> QED
      BY <2>4, <3>1 DEF ReceiveEvent, TypeOK
  <2>5. /\ spool \o batch \in Seq(Emission)
        /\ posted \o batch \in Seq(Emission)
        /\ acked \o batch \in Seq(Emission)
        /\ << >> \in Seq(Emission)
    BY ConcatProperties DEF TypeOK
  <2>6. CASE FlushOffline \/ AnswerRejected \/ RequestFails
    BY <2>5, <2>6, Zenon DEF FlushOffline, AnswerRejected, RequestFails, SpoolBatch, TypeOK
  <2>7. CASE Post \/ AnswerAccepted \/ ClearBatch
    BY <2>5, <2>7, Zenon DEF Post, AnswerAccepted, ClearBatch, TypeOK
  <2>8. CASE ExitProcess \/ Die \/ AnswerForceKill \/ TimePasses
               \/ ReceiveTimeout \/ ReceiveDisconnected
    BY <2>8, ZenonT(60) DEF ExitProcess, Die, AnswerForceKill, TimePasses, ReceiveTimeout,
                ReceiveDisconnected, TypeOK
  <2>9. CASE UNCHANGED vars
    BY <2>9 DEF vars, TypeOK
  <2> QED
    BY <2>1, <2>2, <2>3, <2>4, <2>5, <2>6, <2>7, <2>8, <2>9
    DEF Next, MainThread, Uploader, Answer
<1> QED
  BY <1>1, <1>2, PTL DEF Spec
--------------------------------------------------------------------------------
(* The inductive invariant *)

\* What is pending: the batch holds the events after BeforeBatch.
LEMMA BatchNumbers ==
  ASSUME TypeOK, Numbered
  PROVE  /\ Received \in Nat /\ BeforeBatch \in Nat
         /\ BeforeBatch + Len(batch) = Received
         /\ Numbers(batch) = (BeforeBatch + 1)..Received
<1>1. /\ sent \in Nat /\ Len(chan) \in Nat /\ Len(batch) \in Nat
      /\ batch \in Seq(Emission)
  BY AgentAssumption DEF TypeOK
<1>2. /\ Received \in Nat /\ BeforeBatch \in Nat
      /\ BeforeBatch + Len(batch) = Received
  BY <1>1 DEF Numbered, Received, BeforeBatch
<1>3. Consecutive(batch, BeforeBatch)
  BY DEF Numbered
<1> QED
  BY <1>1, <1>2, <1>3, NumbersConsecutive

\* Every step keeps the numbering.
LEMMA NumberedStep ==
  ASSUME TypeOK, Numbered, [Next]_vars
  PROVE  Numbered'
<1>0. /\ sent \in Nat /\ Len(chan) \in Nat /\ Len(batch) \in Nat
      /\ chan \in Seq(Emission) /\ batch \in Seq(Emission)
      /\ MaxEvents \in Nat \ {0}
  BY AgentAssumption DEF TypeOK
<1> USE DEF ptyVars, config, spoolVars, uploaderVars
<1>1. ASSUME NEW kind \in {"SessionInit", "KeystrokeInput", "SessionEnd"},
             sent < MaxEvents, Send(kind), UNCHANGED batch, pty' \in {"loop", "ended"}
      PROVE  Numbered'
  <2>1. PICK e \in Emission : e.n = sent + 1 /\ chan' = Append(chan, e)
    BY <1>1, SendType
  <2>2. Len(chan') = Len(chan) + 1 /\ sent' = sent + 1
    BY <1>0, <1>1, <2>1, AppendProperties, SendType
  <2>3. Received' = Received /\ BeforeBatch' = BeforeBatch
    BY <1>0, <1>1, <2>2 DEF Received, BeforeBatch
  <2>4. e.n = Received + Len(chan) + 1 /\ Received \in Nat
    BY <1>0, <2>1 DEF Numbered, Received
  <2>5. Consecutive(chan', Received)
    BY <1>0, <2>1, <2>4, ConsecutiveAppend DEF Numbered
  <2> QED
    BY <1>0, <1>1, <2>2, <2>3, <2>5 DEF Numbered
<1>2. CASE StartSession
  BY <1>0, <1>1, <1>2 DEF StartSession, Numbered
<1>3. CASE RecordInput
  <2>1. sent < MaxEvents
    BY <1>0, <1>3 DEF RecordInput
  <2> QED
    BY <1>1, <1>3, <2>1 DEF RecordInput
<1>4. CASE EndSession
  BY <1>1, <1>4 DEF EndSession
<1>5. CASE ReceiveEvent
  <2>1. /\ chan # << >> /\ batch' = Append(batch, Head(chan)) /\ chan' = Tail(chan)
        /\ sent' = sent /\ pty' = pty
    BY <1>5 DEF ReceiveEvent
  <2>2. /\ Head(chan) \in Emission /\ Head(chan) = chan[1] /\ Len(chan) >= 1
        /\ Len(Tail(chan)) = Len(chan) - 1
        /\ \A i \in 1..Len(Tail(chan)) : Tail(chan)[i] = chan[i + 1]
    BY <1>0, <2>1
  <2>3. Len(batch') = Len(batch) + 1 /\ Len(chan') = Len(chan) - 1
    BY <1>0, <2>1, <2>2, AppendProperties
  <2>4. Received' = Received + 1 /\ BeforeBatch' = BeforeBatch
    BY <1>0, <2>1, <2>3 DEF Received, BeforeBatch
  <2>5. Received \in Nat /\ BeforeBatch \in Nat /\ BeforeBatch + Len(batch) = Received
    BY BatchNumbers
  <2>6. Consecutive(chan', Received + 1)
    BY <1>0, <2>1, <2>2, <2>5 DEF Numbered, Consecutive
  <2>7. Head(chan).n = BeforeBatch + Len(batch) + 1
    BY <1>0, <2>2, <2>5 DEF Numbered, Consecutive
  <2>8. Consecutive(batch', BeforeBatch)
    BY <1>0, <2>1, <2>2, <2>5, <2>7, ConsecutiveAppend DEF Numbered
  <2>9. Len(chan') <= sent' /\ Len(batch') <= Received'
    BY <1>0, <2>1, <2>3, <2>4, <2>5 DEF Numbered
  <2> QED
    BY <2>1, <2>4, <2>6, <2>8, <2>9 DEF Numbered
<1>6. CASE ClearBatch
  <2>1. batch' = << >> /\ UNCHANGED <<chan, sent, pty>>
    BY <1>6 DEF ClearBatch
  <2>2. Received' = Received /\ Received \in Nat
    BY <2>1, BatchNumbers DEF Received
  <2> QED
    BY <1>0, <2>1, <2>2 DEF Numbered, Consecutive
<1>7. CASE UNCHANGED <<chan, sent, pty, batch>>
  BY <1>7 DEF Numbered, Received, BeforeBatch, Consecutive
<1> QED
  BY <1>2, <1>3, <1>4, <1>5, <1>6, <1>7, Zenon
  DEF Next, MainThread, Uploader, Answer, ExitProcess, Die, TimePasses, ReceiveTimeout,
      ReceiveDisconnected, FlushOffline, Post, AnswerAccepted, AnswerRejected,
      RequestFails, AnswerForceKill, vars

\* Every step keeps the phases of the uploader.
LEMMA PhasesStep ==
  ASSUME TypeOK, Phases, [Next]_vars
  PROVE  Phases'
<1> USE DEF ptyVars, config, spoolVars, uploaderVars, Phases
<1>1. CASE StartSession \/ RecordInput \/ EndSession
  BY <1>1 DEF StartSession, RecordInput, EndSession
<1>2. CASE ExitProcess \/ Die \/ AnswerForceKill \/ TimePasses
  BY <1>2 DEF ExitProcess, Die, AnswerForceKill, TimePasses
<1>3. CASE ReceiveEvent
  BY <1>3 DEF ReceiveEvent
<1>4. CASE ReceiveTimeout \/ ReceiveDisconnected
  BY <1>4 DEF ReceiveTimeout, ReceiveDisconnected
<1>5. CASE FlushOffline \/ Post \/ AnswerAccepted \/ AnswerRejected \/ RequestFails
  BY <1>5 DEF FlushOffline, Post, AnswerAccepted, AnswerRejected, RequestFails
<1>6. CASE ClearBatch
  BY <1>6 DEF ClearBatch
<1>7. CASE UNCHANGED vars
  BY <1>7 DEF vars
<1> QED
  BY <1>1, <1>2, <1>3, <1>4, <1>5, <1>6, <1>7 DEF Next, MainThread, Uploader, Answer

\* What spool_to_disk leaves behind when the batch is all that is not settled:
\* the spool keeps its order and its distance from acked, and unless this write
\* failed the batch is in it.
LEMMA SpoolBatchStep ==
  ASSUME TypeOK, Numbered, Accounts, up # "cleared", SpoolBatch, UNCHANGED <<hasSpool, acked>>
  PROVE  /\ InOrder(spool')
         /\ Numbers(spool') \subseteq 1..Received
         /\ Numbers(acked) \cap Numbers(spool') = {}
         /\ Numbers(spool) \subseteq Numbers(spool')
         /\ hasSpool /\ ~spoolFailed' =>
              /\ ~spoolFailed
              /\ Numbers(spool') = Numbers(spool) \cup ((BeforeBatch + 1)..Received)
<1>1. /\ Received \in Nat /\ BeforeBatch \in Nat /\ BeforeBatch <= Received
      /\ Numbers(batch) = (BeforeBatch + 1)..Received
  BY BatchNumbers DEF TypeOK
<1>2. /\ Settled = BeforeBatch
      /\ InOrder(spool)
      /\ Numbers(acked) \subseteq 1..BeforeBatch
      /\ Numbers(spool) \subseteq 1..BeforeBatch
      /\ Numbers(acked) \cap Numbers(spool) = {}
  BY DEF Accounts, Settled
<1>3. CASE spool' = spool \o batch /\ UNCHANGED spoolFailed
  <2>1. Numbers(spool') = Numbers(spool) \cup ((BeforeBatch + 1)..Received)
    BY <1>1, <1>3, NumbersConcat DEF TypeOK
  <2>2. InOrder(spool')
    BY <1>1, <1>2, <1>3, InOrderConcat DEF TypeOK, Numbered
  <2>3. Numbers(spool') \subseteq 1..Received
    BY <1>1, <1>2, <2>1
  <2>4. Numbers(acked) \cap Numbers(spool') = {}
    BY <1>1, <1>2, <2>1
  <2> QED
    BY <1>3, <2>1, <2>2, <2>3, <2>4, Zenon
<1>4. CASE spool' = spool /\ (~hasSpool \/ spoolFailed')
  <2>1. Numbers(spool) \subseteq 1..Received
    BY <1>1, <1>2
  <2> QED
    BY <1>2, <1>4, <2>1, Zenon
<1> QED
  BY <1>3, <1>4, Zenon DEF SpoolBatch, spoolVars

\* Every step keeps the accounts.
LEMMA AccountsStep ==
  ASSUME TypeOK, Numbered, Numbered', Phases, Accounts, [Next]_vars
  PROVE  Accounts'
<1> USE DEF ptyVars, config, spoolVars, uploaderVars
<1>0. /\ Received \in Nat /\ BeforeBatch \in Nat
      /\ BeforeBatch + Len(batch) = Received
      /\ Len(batch) \in Nat
      /\ Numbers(batch) = (BeforeBatch + 1)..Received
      /\ Consecutive(batch, BeforeBatch)
      /\ BeforeBatch <= Received
  BY BatchNumbers DEF TypeOK, Numbered
<1>a. /\ Numbers(posted)' = Numbers(posted') /\ Numbers(acked)' = Numbers(acked')
      /\ Numbers(spool)' = Numbers(spool') /\ InOrder(posted)' = InOrder(posted')
      /\ InOrder(acked)' = InOrder(acked') /\ InOrder(spool)' = InOrder(spool')
  BY DEF Numbers, InOrder
<1>1. ASSUME UNCHANGED <<config, spoolVars, posted, acked>>,
             Settled' = Settled, Offered' = Offered
      PROVE  Accounts'
  BY <1>1, <1>a, Zenon DEF Accounts, HasOutlet
<1>2. CASE StartSession \/ RecordInput \/ EndSession
  <2>1. Len(chan') = Len(chan) + 1 /\ sent' = sent + 1
    <3>1. \A k : Len(Append(chan, [kind |-> k, n |-> sent + 1])) = Len(chan) + 1
      BY DEF TypeOK
    <3> QED
      BY <1>2, <3>1 DEF StartSession, RecordInput, EndSession, Send
  <2>2. Received' = Received
    BY <2>1 DEF Received, TypeOK
  <2>3. UNCHANGED <<config, uploaderVars>>
    BY <1>2 DEF StartSession, RecordInput, EndSession
  <2> QED
    BY <1>1, <2>2, <2>3 DEF Settled, Offered, BeforeBatch
<1>3. CASE ReceiveEvent
  <2>1. /\ up = "recv" /\ up' \in {"flush", "recv"}
        /\ UNCHANGED <<config, spoolVars, posted, acked>>
    BY <1>3 DEF ReceiveEvent
  <2>2. Len(batch') = Len(batch) + 1 /\ Len(chan') = Len(chan) - 1 /\ sent' = sent
    BY <1>3 DEF ReceiveEvent, TypeOK
  <2>3. BeforeBatch' = BeforeBatch
    BY <2>2 DEF BeforeBatch, Received, TypeOK
  <2> QED
    BY <1>1, <2>1, <2>3 DEF Settled, Offered
<1>4. CASE ReceiveTimeout \/ ReceiveDisconnected
  <2>1. /\ up = "recv" /\ up' \in {"flush", "done"}
        /\ UNCHANGED <<config, sent, chan, batch, spoolVars, posted, acked>>
    BY <1>4 DEF ReceiveTimeout, ReceiveDisconnected
  <2>2. Received' = Received /\ BeforeBatch' = BeforeBatch
    BY <2>1 DEF Received, BeforeBatch
  <2> QED
    BY <1>1, <2>1, <2>2 DEF Settled, Offered
<1>5. CASE ExitProcess \/ Die \/ AnswerForceKill \/ TimePasses \/ UNCHANGED vars
  <2>1. UNCHANGED <<config, sent, chan, up, batch, spoolVars, posted, acked>>
    BY <1>5 DEF ExitProcess, Die, AnswerForceKill, TimePasses, vars
  <2> QED
    BY <1>1, <2>1 DEF Settled, Offered, Received, BeforeBatch
<1>6. CASE ClearBatch
  <2>1. /\ up = "cleared" /\ up' \in {"recv", "done"} /\ batch' = << >>
        /\ UNCHANGED <<config, sent, chan, spoolVars, posted, acked>>
    BY <1>6 DEF ClearBatch
  <2>2. Received' = Received /\ BeforeBatch' = Received
    BY <1>0, <2>1 DEF Received, BeforeBatch
  <2> QED
    BY <1>1, <2>1, <2>2 DEF Settled, Offered
<1>7. CASE FlushOffline
  <2>1. /\ up = "flush" /\ up' = "cleared" /\ ~hasUrl /\ SpoolBatch
        /\ UNCHANGED <<config, sent, chan, batch, posted, acked>>
    BY <1>7 DEF FlushOffline
  <2>2. Settled = BeforeBatch /\ Offered = BeforeBatch
    BY <2>1 DEF Settled, Offered
  <2>3. Settled' = Received /\ Offered' = Received
    BY <2>1 DEF Settled, Offered, Received
  <2>4. /\ InOrder(spool')
        /\ Numbers(spool') \subseteq 1..Received
        /\ Numbers(acked) \cap Numbers(spool') = {}
        /\ hasSpool /\ ~spoolFailed' =>
             /\ ~spoolFailed
             /\ Numbers(spool') = Numbers(spool) \cup ((BeforeBatch + 1)..Received)
    BY <2>1, SpoolBatchStep
  <2>5. 1..BeforeBatch \subseteq 1..Received
        /\ (1..BeforeBatch) \cup ((BeforeBatch + 1)..Received) = 1..Received
    BY <1>0
  <2>6. /\ InOrder(posted) /\ InOrder(acked)
        /\ Numbers(posted) \subseteq 1..BeforeBatch
        /\ Numbers(acked) \subseteq 1..BeforeBatch
        /\ hasSpool /\ ~spoolFailed => Numbers(acked) \cup Numbers(spool) = 1..BeforeBatch
        /\ hasSpool /\ ~spoolFailed => Numbers(posted) \cup Numbers(spool) = 1..BeforeBatch
    BY <2>2, Zenon DEF Accounts, HasOutlet
  <2>7. Numbers(posted) \subseteq 1..Received /\ Numbers(acked) \subseteq 1..Received
    BY <2>5, <2>6
  <2>8. ASSUME hasSpool, ~spoolFailed'
        PROVE  /\ Numbers(acked) \cup Numbers(spool') = 1..Received
               /\ Numbers(posted) \cup Numbers(spool') = 1..Received
    <3>1. Numbers(spool') = Numbers(spool) \cup ((BeforeBatch + 1)..Received)
      BY <2>4, <2>8, Zenon
    <3>2. /\ Numbers(acked) \cup Numbers(spool) = 1..BeforeBatch
          /\ Numbers(posted) \cup Numbers(spool) = 1..BeforeBatch
      BY <2>4, <2>6, <2>8, Zenon
    <3> QED
      BY <2>5, <3>1, <3>2, Zenon
  <2> QED
    BY <1>a, <2>1, <2>3, <2>4, <2>6, <2>7, <2>8, Zenon DEF Accounts, HasOutlet
<1>8. CASE Post
  <2>1. /\ up = "flush" /\ up' = "await" /\ hasUrl /\ posted' = posted \o batch
        /\ UNCHANGED <<config, sent, chan, batch, spoolVars, acked>>
    BY <1>8 DEF Post
  <2>2. Settled = BeforeBatch /\ Offered = BeforeBatch
    BY <2>1 DEF Settled, Offered
  <2>3. Settled' = BeforeBatch /\ Offered' = Received
    BY <2>1 DEF Settled, Offered, Received, BeforeBatch
  <2>4. Numbers(posted') = Numbers(posted) \cup ((BeforeBatch + 1)..Received)
    BY <1>0, <2>1, NumbersConcat, SMTT(60) DEF TypeOK
  <2>5. InOrder(posted')
    BY <1>0, <2>1, <2>2, InOrderConcat DEF TypeOK, Accounts
  <2>6. /\ Numbers(posted) \subseteq 1..BeforeBatch
        /\ Numbers(posted) \cup Numbers(spool) = 1..BeforeBatch
    BY <2>1, <2>2, Zenon DEF Accounts, HasOutlet
  <2>7. /\ Numbers(posted') \subseteq 1..Received
        /\ Numbers(posted') \cup Numbers(spool) = 1..Received
    BY <1>0, <2>4, <2>6
  <2> QED
    BY <1>a, <2>1, <2>2, <2>3, <2>5, <2>7, Zenon DEF Accounts, HasOutlet
<1>9. CASE AnswerAccepted
  <2>1. /\ up = "await" /\ up' = "cleared" /\ acked' = acked \o batch
        /\ UNCHANGED <<config, sent, chan, batch, spoolVars, posted>>
    BY <1>9 DEF AnswerAccepted
  <2>2. Settled = BeforeBatch /\ Offered = Received
    BY <2>1 DEF Settled, Offered
  <2>3. Settled' = Received /\ Offered' = Received
    BY <2>1 DEF Settled, Offered, Received
  <2>4. Numbers(acked') = Numbers(acked) \cup ((BeforeBatch + 1)..Received)
    BY <1>0, <2>1, NumbersConcat, SMTT(60) DEF TypeOK
  <2>5. InOrder(acked')
    BY <1>0, <2>1, <2>2, InOrderConcat DEF TypeOK, Accounts
  <2>6. /\ Numbers(acked) \subseteq 1..BeforeBatch
        /\ Numbers(spool) \subseteq 1..BeforeBatch
        /\ Numbers(acked) \cap Numbers(spool) = {}
        /\ hasSpool /\ ~spoolFailed => Numbers(acked) \cup Numbers(spool) = 1..BeforeBatch
    BY <2>2, Zenon DEF Accounts
  <2>7. /\ Numbers(acked') \subseteq 1..Received
        /\ Numbers(spool) \subseteq 1..Received
        /\ Numbers(acked') \cap Numbers(spool) = {}
    BY <1>0, <2>4, <2>6
  <2>8. ASSUME hasSpool /\ ~spoolFailed
        PROVE  Numbers(acked') \cup Numbers(spool) = 1..Received
    <3>1. Numbers(acked) \cup Numbers(spool) = 1..BeforeBatch
      BY <2>6, <2>8, Zenon
    <3> QED
      BY <1>0, <2>4, <3>1
  <2> QED
    BY <1>a, <2>1, <2>2, <2>3, <2>5, <2>7, <2>8, Zenon DEF Accounts, HasOutlet
<1>10. CASE AnswerRejected \/ RequestFails
  <2>1. /\ up = "await" /\ up' = "cleared" /\ SpoolBatch
        /\ UNCHANGED <<config, sent, chan, batch, posted, acked>>
    BY <1>10 DEF AnswerRejected, RequestFails
  <2>2. Settled = BeforeBatch /\ Offered = Received
    BY <2>1 DEF Settled, Offered
  <2>3. Settled' = Received /\ Offered' = Received
    BY <2>1 DEF Settled, Offered, Received
  <2>4. /\ InOrder(spool')
        /\ Numbers(spool') \subseteq 1..Received
        /\ Numbers(acked) \cap Numbers(spool') = {}
        /\ Numbers(spool) \subseteq Numbers(spool')
        /\ hasSpool /\ ~spoolFailed' =>
             /\ ~spoolFailed
             /\ Numbers(spool') = Numbers(spool) \cup ((BeforeBatch + 1)..Received)
    BY <2>1, SpoolBatchStep
  <2>5. hasUrl
    BY <2>1 DEF Phases
  <2>6. /\ InOrder(posted) /\ InOrder(acked)
        /\ Numbers(posted) \subseteq 1..Received
        /\ Numbers(acked) \subseteq 1..BeforeBatch
        /\ hasSpool /\ ~spoolFailed => Numbers(acked) \cup Numbers(spool) = 1..BeforeBatch
        /\ Numbers(posted) \cup Numbers(spool) = 1..Received
    BY <2>2, <2>5, Zenon DEF Accounts, HasOutlet
  <2>7. /\ Numbers(acked) \subseteq 1..Received
        /\ Numbers(posted) \cup Numbers(spool') = 1..Received
    BY <1>0, <2>4, <2>6
  <2>8. ASSUME hasSpool, ~spoolFailed'
        PROVE  Numbers(acked) \cup Numbers(spool') = 1..Received
    <3>1. /\ Numbers(spool') = Numbers(spool) \cup ((BeforeBatch + 1)..Received)
          /\ Numbers(acked) \cup Numbers(spool) = 1..BeforeBatch
      BY <2>4, <2>6, <2>8, Zenon
    <3> QED
      BY <1>0, <3>1
  <2> QED
    BY <1>a, <2>1, <2>3, <2>4, <2>6, <2>7, <2>8, Zenon DEF Accounts, HasOutlet
<1> QED
  BY <1>2, <1>3, <1>4, <1>5, <1>6, <1>7, <1>8, <1>9, <1>10
  DEF Next, MainThread, Uploader, Answer

\* The inductive invariant holds in every behaviour.
THEOREM Invariant == Spec => []IInv
<1>1. Init => Numbered /\ Phases /\ Accounts
  <2> SUFFICES ASSUME Init
               PROVE  Numbered /\ Phases /\ Accounts
    OBVIOUS
  <2>1. Numbers(<< >>) = {} /\ InOrder(<< >>)
    <3>1. 1..Len(<< >>) = {}
      OBVIOUS
    <3>2. \A x : x \notin Numbers(<< >>)
      BY <3>1, Zenon DEF Numbers
    <3>3. InOrder(<< >>)
      BY <3>1, Zenon DEF InOrder
    <3> QED
      BY <3>2, <3>3
  <2>2. Received = 0 /\ BeforeBatch = 0 /\ Settled = 0 /\ Offered = 0
    <3>1. sent = 0 /\ Len(chan) = 0 /\ Len(batch) = 0 /\ up = "recv"
      BY DEF Init
    <3> QED
      BY <3>1 DEF Received, BeforeBatch, Settled, Offered
  <2>3. Numbered
    BY <2>2 DEF Init, Numbered, Consecutive
  <2>4. Phases
    BY DEF Init, Phases
  <2>5. 1..0 = {}
    OBVIOUS
  <2>6. Accounts
    BY <2>1, <2>2, <2>5, Zenon DEF Init, Accounts
  <2> QED
    BY <2>3, <2>4, <2>6
<1>2. TypeOK /\ Numbered /\ Phases /\ Accounts /\ [Next]_vars
        => Numbered' /\ Phases' /\ Accounts'
  BY NumberedStep, PhasesStep, AccountsStep
<1> QED
  BY <1>1, <1>2, Typing, PTL DEF Spec, IInv
--------------------------------------------------------------------------------
(* What the runs check of an instance *)

\* With a spool file that can be written no event is dropped: while the process
\* lives each event sent is waiting, was accepted, or is in the spool.
THEOREM EventsAreKept == Spec => []NothingDropped
<1>1. IInv => NothingDropped
  <2> SUFFICES ASSUME IInv, hasSpool /\ ~spoolFailed
               PROVE  { e.n : e \in Handled \cup Waiting } = 1..sent
    BY DEF NothingDropped
  <2>1. /\ Received \in Nat /\ BeforeBatch \in Nat /\ BeforeBatch <= Received
        /\ Numbers(batch) = (BeforeBatch + 1)..Received
    BY BatchNumbers DEF IInv, TypeOK
  <2>2. Numbers(chan) = (Received + 1)..sent
    <3>1. chan \in Seq(Emission) /\ Consecutive(chan, Received) /\ sent \in Nat
      BY AgentAssumption DEF IInv, TypeOK, Numbered
    <3>2. Received + Len(chan) = sent
      BY <3>1 DEF Received
    <3> QED
      BY <2>1, <3>1, <3>2, NumbersConsecutive
  <2>3. Received <= sent /\ sent \in Nat
    BY AgentAssumption DEF IInv, TypeOK, Numbered, Received
  <2>4. Numbers(acked) \cup Numbers(spool) = 1..Settled
    BY Zenon DEF IInv, Accounts
  <2>5. { e.n : e \in Handled \cup Waiting }
          = Numbers(acked) \cup Numbers(spool) \cup Numbers(chan)
              \cup (IF up = "cleared" THEN {} ELSE Numbers(batch))
    <3>1. /\ Numbers(acked) = { e.n : e \in ToSet(acked) }
          /\ Numbers(spool) = { e.n : e \in ToSet(spool) }
          /\ Numbers(chan) = { e.n : e \in ToSet(chan) }
          /\ Numbers(batch) = { e.n : e \in ToSet(batch) }
      BY NumbersOfElements DEF IInv, TypeOK
    <3> QED
      BY <3>1, Zenon DEF Handled, Waiting
  <2>6. CASE up = "cleared"
    BY <2>1, <2>2, <2>3, <2>4, <2>5, <2>6 DEF Settled
  <2>7. CASE up # "cleared"
    BY <2>1, <2>2, <2>3, <2>4, <2>5, <2>7 DEF Settled
  <2> QED
    BY <2>6, <2>7
<1> QED
  BY <1>1, Invariant, PTL

\* No event is accepted twice, spooled twice, or both, and every list keeps the
\* order of the session.
THEOREM EventsAreHandledOnce == Spec => []HandledOnce
<1>1. IInv => HandledOnce
  <2> SUFFICES ASSUME IInv
               PROVE  HandledOnce
    OBVIOUS
  <2>1. InOrder(posted) /\ InOrder(acked) /\ InOrder(spool)
    BY DEF IInv, Accounts
  <2>2. Numbers(acked) \cap Numbers(spool) = {}
    BY DEF IInv, Accounts
  <2>3. /\ Numbers(acked) = { e.n : e \in ToSet(acked) }
        /\ Numbers(spool) = { e.n : e \in ToSet(spool) }
    BY NumbersOfElements DEF IInv, TypeOK
  <2>4. ToSet(acked) \cap ToSet(spool) = {}
    BY <2>2, <2>3
  <2> QED
    BY <2>1, <2>4 DEF HandledOnce
<1> QED
  BY <1>1, Invariant, PTL

\* A process that leaves through main leaves no event behind: each was put into a
\* request or into the spool.
THEOREM LeavingIsComplete == Spec => []ExitIsComplete
<1>1. IInv => ExitIsComplete
  <2> SUFFICES ASSUME IInv, proc = "exited", HasOutlet
               PROVE  { e.n : e \in ToSet(posted) \cup ToSet(spool) } = 1..sent
    BY DEF ExitIsComplete
  <2>1. up = "done" /\ chan = << >> /\ batch = << >>
    BY DEF IInv, Phases
  <2>2. Offered = sent
    BY <2>1, AgentAssumption DEF Offered, BeforeBatch, Received, IInv, TypeOK
  <2>3. Numbers(posted) \cup Numbers(spool) = 1..sent
    BY <2>2, Zenon DEF IInv, Accounts
  <2>4. /\ Numbers(posted) = { e.n : e \in ToSet(posted) }
        /\ Numbers(spool) = { e.n : e \in ToSet(spool) }
    BY NumbersOfElements DEF IInv, TypeOK
  <2> QED
    BY <2>3, <2>4, Zenon
<1> QED
  BY <1>1, Invariant, PTL
================================================================================
