------------------------------- MODULE PtyProofs -------------------------------
(***************************************************************************)
(* Proofs about Pty, for every number of keys and pieces of output and     *)
(* every size of the queues.                                               *)
(*                                                                         *)
(* The argument: most steps are Quiet.  Of the others, each read adds one  *)
(* chunk, the keys next to those read so far, and at most one event about  *)
(* it, numbered like the chunk; so what the record says of earlier chunks  *)
(* stays as it was (Agree), and in_password_mode says of the next one      *)
(* whether a password is being typed (InPassword).                         *)
(***************************************************************************)
EXTENDS Pty, SequenceTheorems, TLAPS

\* What an event and the history of a read look like.
EventRecord ==
  [kind : {"SessionInit", "KeystrokeInput", "SessionEnd"},
   what : {"init", "command", "keys", "placeholder", "end"},
   seq : Nat, keys : SUBSET Nat]

ReadRecord == [from : Nat, upTo : Nat, secret : BOOLEAN, stop : Nat]

Lists ==
  /\ events \in Seq(EventRecord)
  /\ reads \in Seq(ReadRecord)
  /\ forwarded \in Seq(Nat)

\* A chunk is being forwarded, or nothing of one is left.
Forwarding ==
  /\ pc = "forward" <=> left > 0
  /\ left <= total

\* The chunks are the keys read so far, without a gap and without a key twice.
Chunks ==
  /\ Len(reads) <= total
  /\ \A k \in 1..Len(reads) : reads[k].from <= reads[k].upTo /\ reads[k].upTo <= total
  /\ \A j, k \in 1..Len(reads) : j < k => reads[j].upTo < reads[k].from
  /\ \A n \in 1..total : \E k \in 1..Len(reads) : n \in ChunkOf(reads[k])

\* The keys forwarded are some of those before the rest of the chunk, in order.
Order ==
  /\ \A i \in 1..Len(forwarded) : forwarded[i] \in 1..(total - left)
  /\ \A i, j \in 1..Len(forwarded) : i < j => forwarded[i] < forwarded[j]

\* The k-th chunk falls into a password: since one that began in password input
\* mode none has ended it.
Hidden(chunks, k) ==
  \E j \in 1..k : chunks[j].secret /\ \A i \in j..(k - 1) : ~Ends(chunks[i])

\* After these chunks a password is still being typed.
InPassword(chunks) ==
  \E j \in 1..Len(chunks) : chunks[j].secret /\ \A i \in j..Len(chunks) : ~Ends(chunks[i])

\* What the record says of the k-th chunk.
RecordOf(record, k) ==
  { e \in ToSet(record) : e.what \in {"keys", "placeholder"} /\ e.seq = k }

Quotes(record, chunks, k) == \E e \in RecordOf(record, k) : e.keys = ChunkOf(chunks[k])

\* The record and the chunks agree: no event is ahead of the chunks, the hidden
\* chunks are those of passwords, and the end of a password left an event.
Agree(record, chunks) ==
  /\ \A i \in 1..Len(record) :
       record[i].what \in {"keys", "placeholder"} => record[i].seq \in 1..Len(chunks)
  /\ \A k \in 1..Len(chunks) : ~Quotes(record, chunks, k) <=> Hidden(chunks, k)
  /\ \A k \in 1..Len(chunks) :
       Quotes(record, chunks, k) \/ (Ends(chunks[k]) => RecordOf(record, k) # {})

\* Keys are quoted as they were typed, and a placeholder quotes none.
Wording ==
  \A i \in 1..Len(events) :
    /\ events[i].what = "keys" => events[i].keys = ChunkOf(reads[events[i].seq])
    /\ events[i].what = "placeholder" => events[i].keys = {}

Records ==
  /\ Agree(events, reads)
  /\ in_password_mode <=> InPassword(reads)

\* How many events there are: each chunk has one at most.
Count ==
  /\ pc = "start" => Len(events) = 0
  /\ pc = "command" => Len(events) <= 1
  /\ pc # "ended" => Len(events) <= 2 + Len(reads)

\* A size that is about to be applied is that of the window, or will be read anew; or
\* the resize is one of those missed.
Resizing ==
  /\ pc = "setsize" => ws \/ resizeFlag
  /\ pc = "open" => ws \/ missed
--------------------------------------------------------------------------------
(* What one read returns *)

\* The smaller of two numbers.
LEMMA MinOfTwo ==
  ASSUME NEW a \in Nat, NEW b \in Nat
  PROVE  Min({a, b}) = IF a <= b THEN a ELSE b
<1>1. CASE a <= b
  BY <1>1 DEF Min
<1>2. CASE ~(a <= b)
  BY <1>2 DEF Min
<1> QED
  BY <1>1, <1>2

\* A chunk that is not empty begins after the keys read so far, ends with a key
\* that was typed, and fits in the buffer.
LEMMA ChunkBounds ==
  ASSUME TypeOK, Chunk # {}
  PROVE  /\ ChunkEnd \in (total + 1)..typed
         /\ ChunkEnd - total \in 1..ReadSize
         /\ Chunk \in SUBSET Nat
<1>1. total \in Nat /\ typed \in Nat /\ ReadSize \in Nat \ {0} /\ total <= typed
  BY PtyAssumption DEF TypeOK
<1>2. ChunkEnd = IF total + ReadSize <= typed THEN total + ReadSize ELSE typed
  BY <1>1, MinOfTwo DEF ChunkEnd
<1>3. ChunkEnd >= total + 1
  BY <1>1, <1>2 DEF Chunk
<1> QED
  BY <1>1, <1>2, <1>3 DEF Chunk
--------------------------------------------------------------------------------
(* Type correctness *)

\* The Boolean variables.
Flags ==
  /\ direct \in BOOLEAN /\ resizeFlag \in BOOLEAN /\ ws \in BOOLEAN
  /\ sized \in BOOLEAN /\ stdin_open \in BOOLEAN /\ masterReady \in BOOLEAN
  /\ in_password_mode \in BOOLEAN /\ recent_child_output \in BOOLEAN
  /\ broken \in BOOLEAN /\ missed \in BOOLEAN

\* Where the main thread and the others stand.
Places ==
  /\ stdin \in {"open", "eof", "error"}
  /\ child \in {"none", "running", "exited"}
  /\ slave \in {"open", "closed"}
  /\ pc \in {"start", "command", "size", "open", "guard", "failed", "top", "getsize",
             "setsize", "select", "stdin", "forward", "master", "output", "wait", "ended"}

\* The counters.
Counters ==
  /\ typed \in 0..MaxTyped
  /\ unread \in 0..InCap
  /\ written \in 0..MaxOutput
  /\ total \in 0..typed
  /\ in_seq = Len(reads)
  /\ left \in 0..ReadSize
  /\ taken \in 0..written /\ written - taken <= OutCap
  /\ shown \in 0..taken /\ lost \in 0..(taken - shown)

\* These three are the type invariant.
LEMMA TypeParts == TypeOK <=> Flags /\ Places /\ Counters
<1>1. ASSUME NEW a, NEW b, NEW c, NEW d, NEW e, NEW f, NEW g, NEW h, NEW i,
             NEW j
      PROVE  {a, b, c, d, e, f, g, h, i, j} \subseteq BOOLEAN <=>
               /\ a \in BOOLEAN /\ b \in BOOLEAN /\ c \in BOOLEAN /\ d \in BOOLEAN
               /\ e \in BOOLEAN /\ f \in BOOLEAN /\ g \in BOOLEAN /\ h \in BOOLEAN
               /\ i \in BOOLEAN /\ j \in BOOLEAN
  <2> DEFINE B == BOOLEAN
  <2>1. {a, b, c, d, e, f, g, h, i, j} \subseteq B <=>
               /\ a \in B /\ b \in B /\ c \in B /\ d \in B
               /\ e \in B /\ f \in B /\ g \in B /\ h \in B
               /\ i \in B /\ j \in B
    <3> HIDE DEF B
    <3> QED
      OBVIOUS
  <2> QED
    BY <2>1
<1> QED
  BY <1>1, ZenonT(60) DEF TypeOK, Flags, Places, Counters

\* Every step keeps the Boolean variables.
LEMMA FlagsStep ==
  ASSUME Flags, [Next]_vars
  PROVE  Flags'
<1> USE DEF userVars, childVars, resizeVars, inputVars, outputVars, forwardVars, dataVars,
            loopVars, runVars, world, local, mainVars
<1>1. CASE User
  BY <1>1, ZenonT(60) DEF User, Type, CloseStdin, ResizeWindow, Flags
<1>2. CASE Child
  BY <1>2, ZenonT(60) DEF Child, ChildReads, Writes, ChildExits, SlaveCloses, Flags
<1>3. CASE Setup
  BY <1>3, ZenonT(60) DEF Setup, SendInit, RecordCommand, GetFirstSize, OpenAndFork,
                              EnterRawMode, Flags
<1>4. CASE EnterSelect \/ TakeResize \/ GetSize \/ SetSize
  BY <1>4, ZenonT(60) DEF EnterSelect, TakeResize, GetSize, SetSize, Flags
<1>14. CASE GetSizeFails
  BY <1>14, Zenon DEF GetSizeFails, Flags
<1>5. CASE SelectReady
  <2>1. masterReady' \in BOOLEAN
    BY <1>5, Zenon DEF SelectReady, MasterReadable
  <2> QED
    BY <1>5, <2>1, Zenon DEF SelectReady, Flags
<1>6. CASE RecordChunk
  BY <1>6, Zenon DEF RecordChunk, ReadChunk, Flags
<1>7. CASE HideChunk
  BY <1>7, Zenon DEF HideChunk, ReadChunk, Flags
<1>8. CASE EndPassword
  BY <1>8, Zenon DEF EndPassword, ReadChunk, Flags
<1>9. CASE StdinEnds \/ StdinFails \/ ForwardKey \/ WriteFails
  BY <1>9, ZenonT(60) DEF StdinEnds, StdinFails, ForwardKey, WriteFails, Flags
<1>10. CASE ReadOutput
  <2>1. recent_child_output' \in BOOLEAN
    BY <1>10, Zenon DEF ReadOutput
  <2> QED
    BY <1>10, <2>1, Zenon DEF ReadOutput, Flags
<1>11. CASE Screen \/ MasterEnds \/ WaitForChild
  BY <1>11, ZenonT(60)
  DEF Screen, WriteOutput, WriteOutputFails, MasterEnds, WaitForChild, Flags
<1>12. CASE Errors
  BY <1>12, ZenonT(60) DEF Errors, SetupFails, SelectInterrupted, SelectFails, Flags
<1>13. CASE UNCHANGED vars
  BY <1>13, Zenon DEF vars, Flags
<1> QED
  BY <1>1, <1>2, <1>3, <1>4, <1>5, <1>6, <1>7, <1>8, <1>9, <1>10, <1>11, <1>12, <1>13,
     <1>14
  DEF Next, Loop

\* Every step keeps the places.
LEMMA PlacesStep ==
  ASSUME Places, [Next]_vars
  PROVE  Places'
<1> USE DEF userVars, childVars, world, mainVars, local, Goto, AfterStdin, Places
<1>1. CASE User
  BY <1>1 DEF User, Type, CloseStdin, ResizeWindow
<1>2. CASE Child
  BY <1>2 DEF Child, ChildReads, Writes, ChildExits, SlaveCloses
<1>3. CASE Setup
  BY <1>3 DEF Setup, SendInit, RecordCommand, GetFirstSize, OpenAndFork, EnterRawMode
<1>4. CASE EnterSelect \/ TakeResize \/ GetSize \/ GetSizeFails \/ SetSize \/ SelectReady
  BY <1>4 DEF EnterSelect, TakeResize, GetSize, GetSizeFails, SetSize, SelectReady
<1>5. CASE RecordChunk \/ HideChunk \/ EndPassword
  BY <1>5 DEF RecordChunk, HideChunk, EndPassword, ReadChunk
<1>6. CASE StdinEnds \/ StdinFails \/ ForwardKey \/ WriteFails
  BY <1>6 DEF StdinEnds, StdinFails, ForwardKey, WriteFails
<1>7. CASE ReadOutput \/ Screen \/ MasterEnds \/ WaitForChild
  BY <1>7 DEF ReadOutput, Screen, WriteOutput, WriteOutputFails, MasterEnds, WaitForChild
<1>8. CASE Errors
  BY <1>8 DEF Errors, SetupFails, SelectInterrupted, SelectFails
<1>9. CASE UNCHANGED vars
  BY <1>9 DEF vars
<1> QED
  BY <1>1, <1>2, <1>3, <1>4, <1>5, <1>6, <1>7, <1>8, <1>9 DEF Next, Loop

\* What the main thread holds, with its types.
Typed == Flags /\ Places /\ Counters /\ Lists /\ Forwarding

\* One read: it appends one chunk, the keys after those read so far.
LEMMA ReadStep ==
  ASSUME Typed, NEW secret \in BOOLEAN, NEW stop \in Nat, ReadChunk(secret, stop)
  PROVE  \E r \in ReadRecord :
           /\ r.from = total + 1 /\ r.upTo = total'
           /\ r.secret = secret /\ r.stop = stop
           /\ reads' = Append(reads, r)
           /\ reads' \in Seq(ReadRecord)
           /\ Len(reads') = Len(reads) + 1
           /\ \A k \in 1..Len(reads) : reads'[k] = reads[k]
           /\ reads'[Len(reads) + 1] = r
           /\ in_seq' = Len(reads')
           /\ total' \in (total + 1)..typed
           /\ left' = total' - total /\ left' \in 1..ReadSize
           /\ left = 0
           /\ pc' = "forward"
           /\ Chunk = ChunkOf(r)
           /\ Chunk # {} /\ Chunk \in SUBSET Nat
           /\ UNCHANGED <<world, unread, taken, shown, lost, forwarded>>
<1> DEFINE r == [from |-> total + 1, upTo |-> ChunkEnd, secret |-> secret, stop |-> stop]
<1>1. /\ Chunk # {} /\ pc = "stdin" /\ in_seq' = in_seq + 1 /\ total' = ChunkEnd
      /\ reads' = Append(reads, r) /\ left' = ChunkEnd - total /\ pc' = "forward"
      /\ UNCHANGED <<world, unread, taken, shown, lost, forwarded>>
  BY Zenon DEF ReadChunk, Goto
<1>2. /\ ChunkEnd \in (total + 1)..typed
      /\ ChunkEnd - total \in 1..ReadSize
      /\ Chunk \in SUBSET Nat
  BY <1>1, TypeParts, ChunkBounds DEF Typed
<1>3. total \in Nat /\ typed \in Nat /\ reads \in Seq(ReadRecord) /\ in_seq = Len(reads)
  BY PtyAssumption DEF Typed, Counters, Lists
<1>4. r \in ReadRecord
  BY <1>2, <1>3 DEF ReadRecord
<1>5. /\ r.from = total + 1 /\ r.upTo = ChunkEnd
      /\ r.secret = secret /\ r.stop = stop
  OBVIOUS
<1> HIDE DEF r
<1>6. /\ Append(reads, r) \in Seq(ReadRecord)
      /\ Len(Append(reads, r)) = Len(reads) + 1
      /\ \A k \in 1..Len(reads) : Append(reads, r)[k] = reads[k]
      /\ Append(reads, r)[Len(reads) + 1] = r
  BY <1>3, <1>4, AppendProperties
<1>7. left = 0
  BY <1>1, PtyAssumption DEF Typed, Forwarding, Counters
<1>8. Chunk = ChunkOf(r)
  BY <1>5 DEF Chunk, ChunkOf
<1> QED
  BY <1>1, <1>2, <1>3, <1>4, <1>5, <1>6, <1>7, <1>8, Zenon

\* Each of the three ways to deal with what was read is a read.
LEMMA ReadKinds ==
  ASSUME Typed, RecordChunk \/ HideChunk \/ EndPassword
  PROVE  \E secret \in BOOLEAN, stop \in Nat : ReadChunk(secret, stop)
<1>1. CASE RecordChunk
  BY <1>1 DEF RecordChunk
<1>2. CASE HideChunk
  <2>1. PICK secret \in BOOLEAN : ReadChunk(secret, 0)
    BY <1>2, Zenon DEF HideChunk
  <2> QED
    BY <2>1
<1>3. CASE EndPassword
  <2>1. PICK secret \in BOOLEAN, stop \in Chunk : ReadChunk(secret, stop)
    BY <1>3, Zenon DEF EndPassword
  <2>2. Chunk \subseteq Nat
    BY <2>1, TypeParts, ChunkBounds DEF Typed
  <2> QED
    BY <2>1, <2>2, Zenon
<1> QED
  BY <1>1, <1>2, <1>3

\* An event of the record.
LEMMA EventRecordType ==
  ASSUME NEW kind \in {"SessionInit", "KeystrokeInput", "SessionEnd"},
         NEW what \in {"init", "command", "keys", "placeholder", "end"},
         NEW seq \in Nat, NEW keys \in SUBSET Nat
  PROVE  Event(kind, what, seq, keys) \in EventRecord
BY DEF Event, EventRecord

\* One event sent.
LEMMA SendStep ==
  ASSUME events \in Seq(EventRecord),
         NEW kind \in {"SessionInit", "KeystrokeInput", "SessionEnd"},
         NEW what \in {"init", "command", "keys", "placeholder", "end"},
         NEW seq \in Nat, NEW keys \in SUBSET Nat, Send(kind, what, seq, keys)
  PROVE  \E e \in EventRecord :
           /\ e.kind = kind /\ e.what = what /\ e.seq = seq /\ e.keys = keys
           /\ events' = Append(events, e)
           /\ events' \in Seq(EventRecord)
           /\ Len(events') = Len(events) + 1
           /\ \A i \in 1..Len(events) : events'[i] = events[i]
           /\ events'[Len(events) + 1] = e
<1> DEFINE e == Event(kind, what, seq, keys)
<1>1. e \in EventRecord
  BY EventRecordType
<1>2. e.kind = kind /\ e.what = what /\ e.seq = seq /\ e.keys = keys
  BY DEF Event
<1>3. events' = Append(events, e)
  BY DEF Send
<1> HIDE DEF e
<1> QED
  BY <1>1, <1>2, <1>3, AppendProperties

\* A step that sends nothing, reads nothing from standard input and forwards
\* nothing.
Quiet ==
  /\ UNCHANGED <<events, reads, forwarded, left, total, in_seq, in_password_mode>>
  /\ \A place \in {"start", "command", "forward", "ended"} : pc' = place <=> pc = place
  /\ pc = "failed" => pc' = "failed"

\* The other steps, by their names.
Noted ==
  \/ SendInit \/ RecordCommand \/ WaitForChild
  \/ RecordChunk \/ HideChunk \/ EndPassword
  \/ ForwardKey \/ WriteFails

\* Most steps are quiet.
LEMMA StepKinds ==
  ASSUME Places, [Next]_vars
  PROVE  Quiet \/ Noted
<1> USE DEF userVars, childVars, resizeVars, inputVars, outputVars, forwardVars, dataVars,
            loopVars, runVars, world, local, mainVars, Goto, AfterStdin, Quiet
<1>1. CASE User
  BY <1>1 DEF User, Type, CloseStdin, ResizeWindow
<1>2. CASE Child
  BY <1>2 DEF Child, ChildReads, Writes, ChildExits, SlaveCloses
<1>3. CASE (\E known \in BOOLEAN : GetFirstSize(known)) \/ OpenAndFork \/ EnterRawMode
  BY <1>3 DEF GetFirstSize, OpenAndFork, EnterRawMode
<1>4. CASE EnterSelect \/ TakeResize \/ GetSize \/ GetSizeFails \/ SetSize \/ SelectReady
  BY <1>4 DEF EnterSelect, TakeResize, GetSize, GetSizeFails, SetSize, SelectReady
<1>5. CASE StdinEnds \/ StdinFails
  BY <1>5 DEF StdinEnds, StdinFails
<1>6. CASE ReadOutput \/ Screen \/ MasterEnds
  BY <1>6 DEF ReadOutput, Screen, WriteOutput, WriteOutputFails, MasterEnds
<1>7. CASE Errors
  BY <1>7 DEF Errors, SetupFails, SelectInterrupted, SelectFails
<1>8. CASE UNCHANGED vars
  BY <1>8 DEF vars
<1> QED
  BY <1>1, <1>2, <1>3, <1>4, <1>5, <1>6, <1>7, <1>8, Zenon DEF Next, Setup, Loop, Noted

\* Every step keeps the counters.
LEMMA CountersStep ==
  ASSUME Typed, [Next]_vars
  PROVE  Counters'
<1>0. /\ typed \in Nat /\ unread \in Nat /\ written \in Nat /\ total \in Nat
      /\ left \in Nat /\ taken \in Nat /\ shown \in Nat /\ lost \in Nat
      /\ MaxTyped \in Nat /\ MaxOutput \in Nat
      /\ ReadSize \in Nat /\ InCap \in Nat /\ OutCap \in Nat
      /\ Counters
  BY PtyAssumption DEF Typed, Counters
<1> USE DEF userVars, childVars, resizeVars, inputVars, outputVars, forwardVars, dataVars,
            loopVars, runVars, world, local, mainVars
<1>1. CASE Type
  BY <1>0, <1>1 DEF Type, Counters
<1>2. CASE ChildReads
  BY <1>0, <1>2 DEF ChildReads, Counters
<1>3. CASE Writes
  BY <1>0, <1>3 DEF Writes, Counters
<1>4. CASE ReadOutput
  BY <1>0, <1>4 DEF ReadOutput, Counters
<1>14. CASE WriteOutput
  BY <1>0, <1>14 DEF WriteOutput, Counters
<1>15. CASE WriteOutputFails
  <2>1. PICK n \in shown..(taken - lost - 1) : shown' = n /\ lost' = taken - n
    BY <1>15, Zenon DEF WriteOutputFails
  <2>2. n \in 0..taken /\ taken - n \in 0..(taken - n)
    BY <1>0, <2>1 DEF Counters
  <2> QED
    BY <1>0, <1>15, <2>1, <2>2 DEF WriteOutputFails, Counters
<1>5. CASE ForwardKey
  <2>1. left > 0
    BY <1>5 DEF ForwardKey, Typed, Forwarding
  <2> QED
    BY <1>0, <1>5, <2>1 DEF ForwardKey, Counters
<1>6. CASE WriteFails
  BY <1>0, <1>6 DEF WriteFails, Counters
<1>7. ASSUME NEW secret \in BOOLEAN, NEW stop \in Nat, ReadChunk(secret, stop)
      PROVE  Counters'
  <2>1. /\ in_seq' = Len(reads')
        /\ total' \in (total + 1)..typed
        /\ left' \in 1..ReadSize
        /\ UNCHANGED <<typed, written, unread, taken, shown, lost>>
    BY <1>7, ReadStep, Zenon
  <2> QED
    BY <1>0, <2>1 DEF Counters
<1>8. CASE RecordChunk \/ HideChunk \/ EndPassword
  BY <1>7, <1>8, ReadKinds, Zenon
<1>9. CASE UNCHANGED <<typed, unread, written, total, in_seq, reads, left, taken, shown, lost>>
  BY <1>9 DEF Typed, Counters
<1>10. CASE User \/ Child
  BY <1>1, <1>2, <1>3, <1>9, <1>10, Zenon
  DEF User, Child, CloseStdin, ResizeWindow, ChildExits, SlaveCloses
<1>11. CASE Setup \/ Errors
  BY <1>9, <1>11, Zenon
  DEF Setup, Errors, SendInit, RecordCommand, GetFirstSize, OpenAndFork, EnterRawMode,
      SetupFails, SelectInterrupted, SelectFails
<1>12. CASE Loop
  BY <1>4, <1>5, <1>6, <1>8, <1>9, <1>12, Zenon
  DEF Loop, EnterSelect, TakeResize, GetSize, GetSizeFails, SetSize, SelectReady,
      StdinEnds, StdinFails, MasterEnds, WaitForChild
<1>13. CASE UNCHANGED vars
  BY <1>9, <1>13, Zenon DEF vars
<1> QED
  BY <1>10, <1>11, <1>12, <1>13, <1>14, <1>15 DEF Next, Screen

\* Every step keeps the types of the lists.
LEMMA ListsStep ==
  ASSUME Typed, [Next]_vars
  PROVE  Lists'
<1>0. /\ events \in Seq(EventRecord) /\ reads \in Seq(ReadRecord) /\ forwarded \in Seq(Nat)
      /\ total \in Nat /\ left \in Nat /\ in_seq \in Nat
  BY PtyAssumption DEF Typed, Lists, Counters
<1> USE DEF resizeVars, inputVars, outputVars, forwardVars, dataVars,
            loopVars, runVars, local
<1>1. CASE Quiet
  BY <1>0, <1>1 DEF Quiet, Lists
<1>2. CASE SendInit
  BY <1>0, <1>2, SendStep DEF SendInit, Lists
<1>3. CASE RecordCommand
  BY <1>0, <1>3, SendStep DEF RecordCommand, Lists
<1>4. CASE WaitForChild
  BY <1>0, <1>4, SendStep DEF WaitForChild, Lists
<1>5. ASSUME NEW secret \in BOOLEAN, NEW stop \in Nat, ReadChunk(secret, stop)
      PROVE  /\ reads' \in Seq(ReadRecord) /\ forwarded' = forwarded
             /\ in_seq' \in Nat /\ Chunk \in SUBSET Nat
  BY <1>5, ReadStep
<1>6. CASE RecordChunk
  <2>1. /\ reads' \in Seq(ReadRecord) /\ forwarded' = forwarded
        /\ in_seq' \in Nat /\ Chunk \in SUBSET Nat
        /\ Send("KeystrokeInput", "keys", in_seq', Chunk)
    BY <1>5, <1>6 DEF RecordChunk
  <2>2. events' \in Seq(EventRecord)
    BY <1>0, <2>1, SendStep
  <2> QED
    BY <1>0, <2>1, <2>2 DEF Lists
<1>7. CASE HideChunk
  <2>1. /\ reads' \in Seq(ReadRecord) /\ forwarded' = forwarded /\ events' = events
    BY <1>5, <1>7 DEF HideChunk
  <2> QED
    BY <1>0, <2>1 DEF Lists
<1>8. CASE EndPassword
  <2>1. /\ reads' \in Seq(ReadRecord) /\ forwarded' = forwarded
        /\ in_seq' \in Nat
        /\ Send("KeystrokeInput", "placeholder", in_seq', {})
    BY <1>5, <1>8, ReadKinds, Zenon DEF EndPassword
  <2>2. events' \in Seq(EventRecord)
    BY <1>0, <2>1, SendStep
  <2> QED
    BY <1>0, <2>1, <2>2 DEF Lists
<1>9. CASE ForwardKey
  <2>1. total - left + 1 \in Nat
    BY <1>0, <1>9 DEF ForwardKey, Typed, Forwarding
  <2> QED
    BY <1>0, <1>9, <2>1 DEF ForwardKey, Lists
<1>10. CASE WriteFails
  BY <1>0, <1>10 DEF WriteFails, Lists
<1> QED
  BY <1>1, <1>2, <1>3, <1>4, <1>6, <1>7, <1>8, <1>9, <1>10, StepKinds, Zenon DEF Noted, Typed

\* Every step keeps the rest of the chunk where it belongs.
LEMMA ForwardingStep ==
  ASSUME Typed, [Next]_vars
  PROVE  Forwarding'
<1>0. total \in Nat /\ left \in Nat /\ Forwarding
  BY PtyAssumption DEF Typed, Counters
<1> USE DEF resizeVars, inputVars, outputVars, forwardVars, dataVars,
            loopVars, runVars, local, Goto, AfterStdin
<1>1. CASE Quiet
  BY <1>0, <1>1 DEF Quiet, Forwarding
<1>2. CASE SendInit \/ RecordCommand \/ WaitForChild
  BY <1>0, <1>2 DEF SendInit, RecordCommand, WaitForChild, Forwarding
<1>3. ASSUME NEW secret \in BOOLEAN, NEW stop \in Nat, ReadChunk(secret, stop)
      PROVE  Forwarding'
  <2>1. /\ total' \in (total + 1)..typed
        /\ left' = total' - total /\ pc' = "forward"
    BY <1>3, ReadStep, Zenon
  <2>2. typed \in Nat
    BY PtyAssumption DEF Typed, Counters
  <2>3. \A t \in (total + 1)..typed : t - total > 0 /\ t - total <= t
    BY <1>0, <2>2
  <2>4. left' > 0 /\ left' <= total' /\ pc' = "forward"
    BY <2>1, <2>3, Zenon
  <2> QED
    BY <2>4, Zenon DEF Forwarding
<1>4. CASE RecordChunk \/ HideChunk \/ EndPassword
  BY <1>3, <1>4, ReadKinds, Zenon
<1>5. CASE ForwardKey
  BY <1>0, <1>5 DEF ForwardKey, Forwarding
<1>6. CASE WriteFails
  BY <1>0, <1>6 DEF WriteFails, Forwarding
<1> QED
  BY <1>1, <1>2, <1>4, <1>5, <1>6, StepKinds, Zenon DEF Noted, Typed

\* What the main thread holds keeps its types.
THEOREM TypingOfLists == Spec => []Typed
<1>1. Init => Typed
  <2> SUFFICES ASSUME Init
               PROVE  Typed
    OBVIOUS
  <2>1. Flags
    BY Zenon DEF Init, Flags
  <2>2. Places
    BY DEF Init, Places
  <2>3. Counters
    BY PtyAssumption DEF Init, Counters
  <2>4. Lists /\ Forwarding
    BY DEF Init, Lists, Forwarding
  <2> QED
    BY <2>1, <2>2, <2>3, <2>4 DEF Typed
<1>2. Typed /\ [Next]_vars => Typed'
  BY FlagsStep, PlacesStep, CountersStep, ListsStep, ForwardingStep DEF Typed
<1> QED
  BY <1>1, <1>2, PTL DEF Spec

\* The types and the bounds of the queues.
THEOREM Typing == Spec => []TypeOK
<1>1. Typed => TypeOK
  BY TypeParts DEF Typed
<1> QED
  BY <1>1, TypingOfLists, PTL
--------------------------------------------------------------------------------
(* The window size *)

\* No SIGWINCH is lost between the steps that read and apply the size; a resize that
\* is not applied and will not be came before there was a handler, or its size could
\* not be read.
THEOREM ResizesAreKept == Spec => []ResizeNotLost
<1> USE DEF userVars, childVars, resizeVars, inputVars, outputVars, forwardVars, dataVars,
            loopVars, runVars, world, local, mainVars, Goto, AfterStdin, Resizing,
            ResizeNotLost
<1>1. Init => ResizeNotLost /\ Resizing
  BY DEF Init
<1>2. ResizeNotLost /\ Resizing /\ [Next]_vars => (ResizeNotLost /\ Resizing)'
  <2> SUFFICES ASSUME ResizeNotLost, Resizing, [Next]_vars
               PROVE  (ResizeNotLost /\ Resizing)'
    OBVIOUS
  <2>1. CASE User
    BY <2>1 DEF User, Type, CloseStdin, ResizeWindow, HandlesResize
  <2>2. CASE Child
    BY <2>2 DEF Child, ChildReads, Writes, ChildExits, SlaveCloses
  <2>3. CASE Setup
    <3>1. CASE SendInit \/ RecordCommand \/ EnterRawMode
      BY <3>1 DEF SendInit, RecordCommand, EnterRawMode
    <3>2. ASSUME NEW known \in BOOLEAN, GetFirstSize(known)
          PROVE  (ResizeNotLost /\ Resizing)'
      BY <3>2 DEF GetFirstSize
    <3>3. CASE OpenAndFork
      BY <3>3 DEF OpenAndFork
    <3> QED
      BY <2>3, <3>1, <3>2, <3>3, Zenon DEF Setup
  <2>4. CASE EnterSelect \/ TakeResize \/ GetSize \/ SelectReady
    BY <2>4 DEF EnterSelect, TakeResize, GetSize, SelectReady
  <2>11. CASE GetSizeFails
    <3>1. CASE sized \/ resizeFlag
      BY <2>11, <3>1 DEF GetSizeFails
    <3>2. CASE ~(sized \/ resizeFlag)
      <4>1. missed' = TRUE
        BY <2>11, <3>2, Zenon DEF GetSizeFails
      <4> QED
        BY <2>11, <4>1 DEF GetSizeFails
    <3> QED
      BY <3>1, <3>2
  <2>5. CASE SetSize
    BY <2>5 DEF SetSize
  <2>6. CASE RecordChunk \/ HideChunk \/ EndPassword
    BY <2>6 DEF RecordChunk, HideChunk, EndPassword, ReadChunk
  <2>7. CASE StdinEnds \/ StdinFails \/ ForwardKey \/ WriteFails
    BY <2>7 DEF StdinEnds, StdinFails, ForwardKey, WriteFails
  <2>8. CASE ReadOutput \/ Screen \/ MasterEnds \/ WaitForChild
    BY <2>8 DEF ReadOutput, Screen, WriteOutput, WriteOutputFails, MasterEnds, WaitForChild
  <2>9. CASE Errors
    BY <2>9 DEF Errors, SetupFails, SelectInterrupted, SelectFails
  <2>10. CASE UNCHANGED vars
    BY <2>10 DEF vars
  <2> QED
    BY <2>1, <2>2, <2>3, <2>4, <2>5, <2>6, <2>7, <2>8, <2>9, <2>10, <2>11, Zenon
    DEF Next, Loop
<1> QED
  BY <1>1, <1>2, PTL DEF Spec
--------------------------------------------------------------------------------
(* What is hidden and what is recorded *)

\* One more chunk does not change what the earlier ones are.
LEMMA HiddenEarlier ==
  ASSUME NEW chunks \in Seq(ReadRecord), NEW r \in ReadRecord, NEW k \in 1..Len(chunks)
  PROVE  Hidden(Append(chunks, r), k) <=> Hidden(chunks, k)
<1>1. \A i \in 1..Len(chunks) : Append(chunks, r)[i] = chunks[i]
  BY AppendProperties
<1>2. \A j \in 1..k : j \in 1..Len(chunks) /\ j..(k - 1) \subseteq 1..Len(chunks)
  OBVIOUS
<1> QED
  BY <1>1, <1>2, Zenon DEF Hidden

\* A new chunk belongs to a password if it begins one or one is being typed.
LEMMA HiddenLast ==
  ASSUME NEW chunks \in Seq(ReadRecord), NEW r \in ReadRecord
  PROVE  Hidden(Append(chunks, r), Len(chunks) + 1) <=> r.secret \/ InPassword(chunks)
<1> DEFINE new == Append(chunks, r)
           n == Len(chunks)
<1>1. \A i \in 1..n : new[i] = chunks[i]
  BY AppendProperties
<1>2. new[n + 1] = r
  BY AppendProperties
<1>3. n \in Nat /\ (n + 1) - 1 = n /\ (n + 1)..n = {} /\ n + 1 \in 1..(n + 1)
  OBVIOUS
<1>4. ASSUME Hidden(new, n + 1)
      PROVE  r.secret \/ InPassword(chunks)
  <2>1. PICK j \in 1..(n + 1) : new[j].secret /\ \A i \in j..n : ~Ends(new[i])
    BY <1>3, <1>4 DEF Hidden
  <2>2. CASE j = n + 1
    BY <1>2, <2>1, <2>2, Zenon
  <2>3. CASE j # n + 1
    <3>1. j \in 1..n /\ j..n \subseteq 1..n
      BY <1>3, <2>3
    <3> HIDE DEF new
    <3> QED
      BY <1>1, <2>1, <3>1, Zenon DEF InPassword
  <2> QED
    BY <2>2, <2>3
<1>5. ASSUME r.secret
      PROVE  Hidden(new, n + 1)
  <2> HIDE DEF new
  <2> QED
    BY <1>2, <1>3, <1>5, Zenon DEF Hidden
<1>6. ASSUME InPassword(chunks)
      PROVE  Hidden(new, n + 1)
  <2>1. PICK j \in 1..n : chunks[j].secret /\ \A i \in j..n : ~Ends(chunks[i])
    BY <1>6 DEF InPassword
  <2>2. j \in 1..(n + 1) /\ j..n \subseteq 1..n
    BY <1>3
  <2>3. new[j].secret /\ \A i \in j..((n + 1) - 1) : ~Ends(new[i])
    BY <1>1, <1>3, <2>1, <2>2, Zenon
  <2> HIDE DEF new
  <2> QED
    BY <2>2, <2>3, Zenon DEF Hidden
<1> QED
  BY <1>4, <1>5, <1>6

\* A chunk that holds Enter or Ctrl-C ends the password, any other leaves things
\* as they are.
LEMMA InPasswordAppend ==
  ASSUME NEW chunks \in Seq(ReadRecord), NEW r \in ReadRecord
  PROVE  InPassword(Append(chunks, r)) <=> ~Ends(r) /\ (r.secret \/ InPassword(chunks))
<1> DEFINE new == Append(chunks, r)
           n == Len(chunks)
<1>1. Len(new) = n + 1 /\ new[n + 1] = r /\ n \in Nat
  BY AppendProperties
<1>2. InPassword(new) <=> ~Ends(new[n + 1]) /\ Hidden(new, n + 1)
  <2> HIDE DEF new, n
  <2>1. \A j \in 1..(n + 1) : j..(n + 1) = j..((n + 1) - 1) \cup {n + 1}
    BY <1>1
  <2>2. ASSUME NEW j \in 1..(n + 1)
        PROVE  (\A i \in j..(n + 1) : ~Ends(new[i]))
                 <=> ~Ends(new[n + 1]) /\ \A i \in j..((n + 1) - 1) : ~Ends(new[i])
    BY <2>1, Zenon
  <2> QED
    BY <1>1, <2>2, Zenon DEF InPassword, Hidden
<1>3. Hidden(new, n + 1) <=> r.secret \/ InPassword(chunks)
  BY HiddenLast
<1> QED
  BY <1>1, <1>2, <1>3, Zenon

\* One more event is one more of those of its chunk, if it is about a chunk.
LEMMA RecordOfAppend ==
  ASSUME NEW record \in Seq(EventRecord), NEW e \in EventRecord, NEW k
  PROVE  RecordOf(Append(record, e), k)
           = RecordOf(record, k) \cup
               (IF e.what \in {"keys", "placeholder"} /\ e.seq = k THEN {e} ELSE {})
<1>1. ToSet(Append(record, e)) = ToSet(record) \cup {e}
  <2>1. /\ Append(record, e) \in Seq(EventRecord)
        /\ Len(Append(record, e)) = Len(record) + 1
        /\ \A i \in 1..Len(record) : Append(record, e)[i] = record[i]
        /\ Append(record, e)[Len(record) + 1] = e
        /\ Len(record) \in Nat
    BY AppendProperties
  <2>2. DOMAIN Append(record, e) = 1..(Len(record) + 1) /\ DOMAIN record = 1..Len(record)
    BY <2>1, LenProperties
  <2>3. 1..(Len(record) + 1) = 1..Len(record) \cup {Len(record) + 1}
    BY <2>1
  <2>4. ASSUME NEW x
        PROVE  x \in ToSet(Append(record, e)) <=> x \in ToSet(record) \cup {e}
    <3>1. x \in ToSet(Append(record, e))
            <=> \E i \in 1..(Len(record) + 1) : x = Append(record, e)[i]
      BY <2>2, Zenon DEF ToSet
    <3>2. x \in ToSet(record) <=> \E i \in 1..Len(record) : x = record[i]
      BY <2>2, Zenon DEF ToSet
    <3> QED
      BY <2>1, <2>3, <3>1, <3>2, Zenon
  <2> QED
    BY <2>4
<1> QED
  BY <1>1, Zenon DEF RecordOf

\* Nothing is in the record about a chunk that has not been read.
LEMMA NothingAhead ==
  ASSUME NEW record \in Seq(EventRecord), NEW chunks \in Seq(ReadRecord),
         Agree(record, chunks)
  PROVE  RecordOf(record, Len(chunks) + 1) = {}
<1>1. DOMAIN record = 1..Len(record) /\ Len(chunks) + 1 \notin 1..Len(chunks)
  BY LenProperties
<1>2. \A i \in 1..Len(record) :
        record[i].what \in {"keys", "placeholder"} => record[i].seq \in 1..Len(chunks)
  BY Zenon DEF Agree
<1>3. \A e : e \notin RecordOf(record, Len(chunks) + 1)
  BY <1>1, <1>2, Zenon DEF RecordOf, ToSet
<1> QED
  BY <1>3

\* An event that is not about a chunk changes nothing.
LEMMA AgreeOther ==
  ASSUME NEW record \in Seq(EventRecord), NEW chunks \in Seq(ReadRecord),
         Agree(record, chunks), NEW e \in EventRecord,
         e.what \notin {"keys", "placeholder"}
  PROVE  Agree(Append(record, e), chunks)
<1> DEFINE new == Append(record, e)
<1>1. ASSUME NEW k
      PROVE  RecordOf(new, k) = RecordOf(record, k)
  <2>1. RecordOf(new, k) = RecordOf(record, k) \cup {}
    BY RecordOfAppend
  <2> QED
    BY <2>1
<1>2. \A i \in 1..Len(new) :
        new[i].what \in {"keys", "placeholder"} => new[i].seq \in 1..Len(chunks)
  BY AppendProperties DEF Agree
<1> HIDE DEF new
<1>3. \A k : Quotes(new, chunks, k) <=> Quotes(record, chunks, k)
  BY <1>1, Zenon DEF Quotes
<1>4. Agree(new, chunks)
  BY <1>1, <1>2, <1>3, Zenon DEF Agree
<1> QED
  BY <1>4 DEF new

\* A chunk is added, and at most events about it: they agree if they agree about
\* this chunk.
LEMMA AgreeChunk ==
  ASSUME NEW record \in Seq(EventRecord), NEW chunks \in Seq(ReadRecord),
         Agree(record, chunks), NEW r \in ReadRecord, NEW new,
         \A i \in 1..Len(new) :
           new[i].what \in {"keys", "placeholder"} => new[i].seq \in 1..(Len(chunks) + 1),
         \A k \in 1..Len(chunks) : RecordOf(new, k) = RecordOf(record, k),
         LET k == Len(chunks) + 1
             recorded == \E e \in RecordOf(new, k) : e.keys = ChunkOf(r)
         IN  /\ ~recorded <=> r.secret \/ InPassword(chunks)
             /\ recorded \/ (Ends(r) => RecordOf(new, k) # {})
  PROVE  Agree(new, Append(chunks, r))
<1> DEFINE longer == Append(chunks, r)
           n == Len(chunks)
<1>1. /\ \A i \in 1..n : longer[i] = chunks[i]
      /\ longer[n + 1] = r
      /\ Len(longer) = n + 1
      /\ n \in Nat
  BY AppendProperties
<1>2. ASSUME NEW k \in 1..n
      PROVE  /\ ~Quotes(new, longer, k) <=> Hidden(longer, k)
             /\ Quotes(new, longer, k) \/ (Ends(longer[k]) => RecordOf(new, k) # {})
  <2>1. Hidden(longer, k) <=> Hidden(chunks, k)
    BY HiddenEarlier
  <2> HIDE DEF longer
  <2>2. Quotes(new, longer, k) <=> Quotes(record, chunks, k)
    BY <1>1, Zenon DEF Quotes
  <2> QED
    BY <1>1, <2>1, <2>2, Zenon DEF Agree
<1>3. /\ ~Quotes(new, longer, n + 1) <=> Hidden(longer, n + 1)
      /\ Quotes(new, longer, n + 1) \/ (Ends(longer[n + 1]) => RecordOf(new, n + 1) # {})
  <2>1. Hidden(longer, n + 1) <=> r.secret \/ InPassword(chunks)
    BY HiddenLast
  <2> HIDE DEF longer
  <2> QED
    BY <1>1, <2>1, Zenon DEF Quotes
<1>4. 1..Len(longer) = 1..n \cup {n + 1}
  BY <1>1
<1>5. \A i \in 1..Len(new) :
        new[i].what \in {"keys", "placeholder"} => new[i].seq \in 1..Len(longer)
  BY <1>1
<1>6. Agree(new, longer)
  <2> HIDE DEF longer
  <2> QED
    BY <1>2, <1>3, <1>4, <1>5, Zenon DEF Agree
<1> QED
  BY <1>6
--------------------------------------------------------------------------------
(* The inductive invariant *)

\* Every step keeps the record and the chunks in agreement.
LEMMA RecordsStep ==
  ASSUME Typed, Records, [Next]_vars
  PROVE  Records'
<1>0. /\ events \in Seq(EventRecord) /\ reads \in Seq(ReadRecord)
      /\ total \in Nat /\ Agree(events, reads) /\ in_seq = Len(reads)
      /\ in_password_mode <=> InPassword(reads)
  <2>1. total \in Nat
    BY PtyAssumption DEF Typed, Counters
  <2> QED
    BY <2>1, Zenon DEF Typed, Lists, Counters, Records
<1>a. /\ Agree(events, reads)' <=> Agree(events', reads')
      /\ InPassword(reads)' <=> InPassword(reads')
  BY DEF Agree, Quotes, RecordOf, Hidden, InPassword, Ends, ChunkOf, ToSet
<1>b. Records' <=> /\ Agree(events', reads')
                   /\ in_password_mode' <=> InPassword(reads')
  BY <1>a, Zenon DEF Records
<1> USE DEF resizeVars, inputVars, outputVars, forwardVars, dataVars,
            loopVars, runVars, local
<1>1. ASSUME UNCHANGED <<events, reads, in_password_mode>>
      PROVE  Records'
  BY <1>0, <1>1, <1>b, Zenon
<1>2. ASSUME NEW kind \in {"SessionInit", "KeystrokeInput", "SessionEnd"},
             NEW what \in {"init", "command", "end"}, NEW seq \in Nat,
             Send(kind, what, seq, {}), UNCHANGED <<reads, in_password_mode>>
      PROVE  Records'
  <2>1. PICK e \in EventRecord : e.what = what /\ events' = Append(events, e)
    BY <1>0, <1>2, SendStep, SMTT(60)
  <2>2. e.what \notin {"keys", "placeholder"}
    BY <2>1
  <2>3. Agree(Append(events, e), reads)
    BY <1>0, <2>2, AgreeOther
  <2> QED
    BY <1>0, <1>2, <1>b, <2>1, <2>3, Zenon
<1>3. CASE SendInit \/ RecordCommand \/ WaitForChild
  <2>1. UNCHANGED <<reads, in_password_mode>>
    BY <1>3, Zenon DEF SendInit, RecordCommand, WaitForChild
  <2> QED
    BY <1>0, <1>2, <1>3, <2>1 DEF SendInit, RecordCommand, WaitForChild
<1>4. CASE HideChunk
  <2>1. PICK secret \in BOOLEAN : ReadChunk(secret, 0) /\ (secret \/ in_password_mode)
    BY <1>4, Zenon DEF HideChunk
  <2>2. in_password_mode' = TRUE /\ events' = events
    BY <1>4, Zenon DEF HideChunk
  <2>3. PICK r \in ReadRecord :
          r.secret = secret /\ ~Ends(r) /\ reads' = Append(reads, r)
          /\ ChunkOf(r) # {}
    <3>1. 0 \in Nat
      OBVIOUS
    <3> QED
      BY <2>1, <3>1, ReadStep, Zenon DEF Ends
  <2>4. r.secret \/ InPassword(reads)
    BY <1>0, <2>1, <2>3, Zenon
  <2>5. RecordOf(events, Len(reads) + 1) = {}
    BY <1>0, NothingAhead
  <2>6. \A i \in 1..Len(events) :
          events[i].what \in {"keys", "placeholder"} => events[i].seq \in 1..(Len(reads) + 1)
    BY <1>0 DEF Agree
  <2>7. Agree(events, Append(reads, r))
    BY <1>0, <2>3, <2>4, <2>5, <2>6, AgreeChunk, Zenon
  <2>8. InPassword(Append(reads, r))
    BY <1>0, <2>3, <2>4, InPasswordAppend, Zenon
  <2> QED
    BY <1>b, <2>2, <2>3, <2>7, <2>8, Zenon
<1>5. ASSUME NEW what \in {"keys", "placeholder"}, NEW keys \in SUBSET Nat,
             Send("KeystrokeInput", what, in_seq', keys), in_seq' = Len(reads) + 1
      PROVE  \E e \in EventRecord :
               /\ e.keys = keys /\ events' = Append(events, e)
               /\ RecordOf(events', Len(reads) + 1) = {e}
               /\ \A k \in 1..Len(reads) : RecordOf(events', k) = RecordOf(events, k)
               /\ \A i \in 1..Len(events') :
                    events'[i].what \in {"keys", "placeholder"}
                      => events'[i].seq \in 1..(Len(reads) + 1)
  <2>1. in_seq' \in Nat /\ Len(reads) \in Nat
    BY <1>0, <1>5
  <2>2. PICK e \in EventRecord :
          /\ e.what = what /\ e.seq = in_seq' /\ e.keys = keys
          /\ events' = Append(events, e)
          /\ Len(events') = Len(events) + 1
          /\ \A i \in 1..Len(events) : events'[i] = events[i]
          /\ events'[Len(events) + 1] = e
    BY <1>0, <1>5, <2>1, SendStep
  <2>3. RecordOf(events', Len(reads) + 1) = RecordOf(events, Len(reads) + 1) \cup {e}
    BY <1>0, <1>5, <2>2, RecordOfAppend
  <2>4. RecordOf(events, Len(reads) + 1) = {}
    BY <1>0, NothingAhead
  <2>5. ASSUME NEW k \in 1..Len(reads)
        PROVE  RecordOf(events', k) = RecordOf(events, k)
    <3>1. e.seq # k
      BY <1>5, <2>1, <2>2
    <3>2. RecordOf(events', k) = RecordOf(events, k) \cup {}
      BY <1>0, <2>2, <3>1, RecordOfAppend
    <3> QED
      BY <3>2
  <2>6. \A i \in 1..Len(events') :
          events'[i].what \in {"keys", "placeholder"} => events'[i].seq \in 1..(Len(reads) + 1)
    BY <1>0, <1>5, <2>1, <2>2 DEF Agree
  <2> QED
    BY <2>2, <2>3, <2>4, <2>5, <2>6
<1>6. CASE RecordChunk
  <2>1. ReadChunk(FALSE, 0) /\ 0 \in Nat /\ FALSE \in BOOLEAN
    BY <1>6 DEF RecordChunk
  <2>2. ~in_password_mode /\ in_password_mode' = in_password_mode
        /\ Send("KeystrokeInput", "keys", in_seq', Chunk)
    BY <1>6, Zenon DEF RecordChunk
  <2>3. PICK r \in ReadRecord :
          /\ r.secret = FALSE /\ ~Ends(r) /\ reads' = Append(reads, r)
          /\ ChunkOf(r) = Chunk /\ Chunk \in SUBSET Nat
          /\ in_seq' = Len(reads') /\ Len(reads') = Len(reads) + 1
    BY <2>1, ReadStep, Zenon DEF Ends
  <2>4. PICK e \in EventRecord :
          /\ e.keys = ChunkOf(r) /\ events' = Append(events, e)
          /\ RecordOf(events', Len(reads) + 1) = {e}
          /\ \A k \in 1..Len(reads) : RecordOf(events', k) = RecordOf(events, k)
          /\ \A i \in 1..Len(events') :
               events'[i].what \in {"keys", "placeholder"}
                 => events'[i].seq \in 1..(Len(reads) + 1)
    BY <1>5, <2>2, <2>3
  <2>5. ~(r.secret \/ InPassword(reads))
    BY <1>0, <2>2, <2>3, Zenon
  <2>6. Agree(events', Append(reads, r))
    BY <1>0, <2>4, <2>5, AgreeChunk
  <2>7. ~InPassword(Append(reads, r))
    BY <1>0, <2>5, InPasswordAppend, Zenon
  <2> QED
    BY <1>b, <2>2, <2>3, <2>6, <2>7, Zenon
<1>7. CASE EndPassword
  <2>1. PICK secret \in BOOLEAN, stop \in Chunk :
          ReadChunk(secret, stop) /\ (secret \/ in_password_mode)
    BY <1>7, Zenon DEF EndPassword
  <2>a. stop \in Nat /\ stop # 0
    <3>1. TypeOK /\ Chunk # {}
      BY <2>1, TypeParts DEF Typed
    <3>2. total \in Nat /\ Chunk \in SUBSET Nat
      BY <1>0, <3>1, ChunkBounds
    <3> QED
      BY <3>2 DEF Chunk
  <2>2. in_password_mode' = FALSE /\ Send("KeystrokeInput", "placeholder", in_seq', {})
    BY <1>7, Zenon DEF EndPassword
  <2>3. PICK r \in ReadRecord :
          /\ r.secret = secret /\ Ends(r) /\ reads' = Append(reads, r)
          /\ ChunkOf(r) # {}
          /\ in_seq' = Len(reads') /\ Len(reads') = Len(reads) + 1
    BY <2>1, <2>a, ReadStep, Zenon DEF Ends
  <2>4. PICK e \in EventRecord :
          /\ e.keys = {} /\ events' = Append(events, e)
          /\ RecordOf(events', Len(reads) + 1) = {e}
          /\ \A k \in 1..Len(reads) : RecordOf(events', k) = RecordOf(events, k)
          /\ \A i \in 1..Len(events') :
               events'[i].what \in {"keys", "placeholder"}
                 => events'[i].seq \in 1..(Len(reads) + 1)
    BY <1>5, <2>2, <2>3
  <2>5. r.secret \/ InPassword(reads)
    BY <1>0, <2>1, <2>3, Zenon
  <2>6. Agree(events', Append(reads, r))
    BY <1>0, <2>3, <2>4, <2>5, AgreeChunk
  <2>7. ~InPassword(Append(reads, r))
    BY <1>0, <2>3, InPasswordAppend, Zenon
  <2> QED
    BY <1>b, <2>2, <2>3, <2>6, <2>7, Zenon
<1>8. CASE Quiet \/ ForwardKey \/ WriteFails
  <2>1. UNCHANGED <<events, reads, in_password_mode>>
    BY <1>8, Zenon DEF Quiet, ForwardKey, WriteFails
  <2> QED
    BY <1>1, <2>1
<1> QED
  BY <1>3, <1>4, <1>6, <1>7, <1>8, StepKinds, Zenon DEF Noted, Typed

\* Every step keeps the wording of the events.
LEMMA WordingStep ==
  ASSUME Typed, Records, Wording, [Next]_vars
  PROVE  Wording'
<1>0. /\ events \in Seq(EventRecord) /\ reads \in Seq(ReadRecord)
      /\ in_seq \in Nat /\ total \in Nat /\ Len(events) \in Nat /\ Len(reads) \in Nat
      /\ \A i \in 1..Len(events) :
           events[i].what \in {"keys", "placeholder"} => events[i].seq \in 1..Len(reads)
  <2>1. /\ events \in Seq(EventRecord) /\ reads \in Seq(ReadRecord)
        /\ in_seq \in Nat /\ total \in Nat /\ Len(events) \in Nat /\ Len(reads) \in Nat
    BY PtyAssumption DEF Typed, Lists, Counters
  <2> QED
    BY <2>1, Zenon DEF Records, Agree
<1> USE DEF inputVars, outputVars, forwardVars, dataVars, loopVars, local
<1>1. ASSUME UNCHANGED <<events, reads>>
      PROVE  Wording'
  BY <1>1 DEF Wording, ChunkOf
<1>2. ASSUME \A k \in 1..Len(reads) : reads'[k] = reads[k],
             events' = events \/
               \E e \in EventRecord :
                 /\ Len(events') = Len(events) + 1
                 /\ \A i \in 1..Len(events) : events'[i] = events[i]
                 /\ events'[Len(events) + 1] = e
                 /\ e.what = "keys" => e.keys = ChunkOf(reads'[e.seq])
                 /\ e.what = "placeholder" => e.keys = {}
      PROVE  Wording'
  <2>1. ASSUME NEW i \in 1..Len(events), events'[i] = events[i]
        PROVE  /\ events'[i].what = "keys" => events'[i].keys = ChunkOf(reads'[events'[i].seq])
               /\ events'[i].what = "placeholder" => events'[i].keys = {}
    <3>1. CASE events[i].what = "keys"
      <4>1. reads'[events[i].seq] = reads[events[i].seq]
        BY <1>0, <1>2, <3>1
      <4> QED
        BY <2>1, <3>1, <4>1 DEF Wording
    <3>2. CASE events[i].what # "keys"
      BY <2>1, <3>2 DEF Wording
    <3> QED
      BY <3>1, <3>2
  <2>2. CASE events' = events
    BY <2>1, <2>2, Zenon DEF Wording, ChunkOf
  <2>3. CASE events' # events
    <3>1. PICK e \in EventRecord :
            /\ Len(events') = Len(events) + 1
            /\ \A i \in 1..Len(events) : events'[i] = events[i]
            /\ events'[Len(events) + 1] = e
            /\ e.what = "keys" => e.keys = ChunkOf(reads'[e.seq])
            /\ e.what = "placeholder" => e.keys = {}
      BY <1>2, <2>3, Zenon
    <3>2. \A i \in 1..Len(events') : i \in 1..Len(events) \/ i = Len(events) + 1
      BY <1>0, <3>1
    <3> QED
      BY <2>1, <3>1, <3>2, Zenon DEF Wording, ChunkOf
  <2> QED
    BY <2>2, <2>3
<1>3. ASSUME NEW kind, NEW what \in {"init", "command", "end"}, NEW seq,
             Send(kind, what, seq, {}), UNCHANGED reads
      PROVE  Wording'
  <2>1. /\ events' = Append(events, Event(kind, what, seq, {}))
        /\ Event(kind, what, seq, {}).what = what
    BY <1>3 DEF Send, Event
  <2>2. /\ Len(events') = Len(events) + 1
        /\ \A i \in 1..Len(events) : events'[i] = events[i]
        /\ events'[Len(events) + 1].what \in {"init", "command", "end"}
    BY <1>0, <1>3, <2>1
  <2>3. \A i \in 1..Len(events') : i \in 1..Len(events) \/ i = Len(events) + 1
    BY <1>0, <2>2
  <2> QED
    BY <1>3, <2>2, <2>3 DEF Wording, ChunkOf
<1>4. CASE SendInit \/ RecordCommand \/ WaitForChild
  <2>1. UNCHANGED reads
    BY <1>4, Zenon DEF SendInit, RecordCommand, WaitForChild
  <2> QED
    BY <1>3, <1>4, <2>1 DEF SendInit, RecordCommand, WaitForChild
<1>5. ASSUME NEW secret \in BOOLEAN, NEW stop \in Nat, ReadChunk(secret, stop)
      PROVE  /\ \A k \in 1..Len(reads) : reads'[k] = reads[k]
             /\ in_seq' \in Nat /\ Chunk \in SUBSET Nat
             /\ Chunk = ChunkOf(reads'[in_seq'])
  <2>1. PICK r \in ReadRecord :
          /\ \A k \in 1..Len(reads) : reads'[k] = reads[k]
          /\ reads'[Len(reads) + 1] = r /\ in_seq' = Len(reads')
          /\ Len(reads') = Len(reads) + 1
          /\ Chunk = ChunkOf(r) /\ Chunk \in SUBSET Nat
    BY <1>5, ReadStep, Zenon
  <2> QED
    BY <1>0, <2>1
<1>6. CASE RecordChunk
  <2>1. /\ \A k \in 1..Len(reads) : reads'[k] = reads[k]
        /\ in_seq' \in Nat /\ Chunk \in SUBSET Nat
        /\ Chunk = ChunkOf(reads'[in_seq'])
    BY <1>5, <1>6, ReadKinds, Zenon
  <2>2. Send("KeystrokeInput", "keys", in_seq', Chunk)
    BY <1>6, Zenon DEF RecordChunk
  <2>3. PICK e \in EventRecord :
          /\ e.what = "keys" /\ e.seq = in_seq' /\ e.keys = Chunk
          /\ Len(events') = Len(events) + 1
          /\ \A i \in 1..Len(events) : events'[i] = events[i]
          /\ events'[Len(events) + 1] = e
    BY <1>0, <2>1, <2>2, SendStep
  <2>4. e.what # "placeholder"
    BY <2>3
  <2> QED
    BY <1>2, <2>1, <2>3, <2>4, Zenon
<1>7. CASE EndPassword
  <2>1. /\ \A k \in 1..Len(reads) : reads'[k] = reads[k]
        /\ in_seq' \in Nat
    BY <1>5, <1>7, ReadKinds, Zenon
  <2>2. Send("KeystrokeInput", "placeholder", in_seq', {})
    BY <1>7, Zenon DEF EndPassword
  <2>3. PICK e \in EventRecord :
          /\ e.what = "placeholder" /\ e.keys = {}
          /\ Len(events') = Len(events) + 1
          /\ \A i \in 1..Len(events) : events'[i] = events[i]
          /\ events'[Len(events) + 1] = e
    BY <1>0, <2>1, <2>2, SendStep
  <2>4. e.what # "keys"
    BY <2>3
  <2> QED
    BY <1>2, <2>1, <2>3, <2>4, Zenon
<1>8. CASE HideChunk
  <2>1. \A k \in 1..Len(reads) : reads'[k] = reads[k]
    BY <1>5, <1>8, ReadKinds, Zenon
  <2>2. events' = events
    BY <1>8, Zenon DEF HideChunk
  <2> QED
    BY <1>2, <2>1, <2>2, Zenon
<1>9. CASE Quiet \/ ForwardKey \/ WriteFails
  <2>1. UNCHANGED <<events, reads>>
    BY <1>9, Zenon DEF Quiet, ForwardKey, WriteFails
  <2> QED
    BY <1>1, <2>1
<1> QED
  BY <1>4, <1>6, <1>7, <1>8, <1>9, StepKinds, Zenon DEF Noted, Typed

\* Every step keeps the chunks without a gap.
LEMMA ChunksStep ==
  ASSUME Typed, Chunks, [Next]_vars
  PROVE  Chunks'
<1>0. reads \in Seq(ReadRecord) /\ total \in Nat /\ typed \in Nat /\ Len(reads) \in Nat
  BY PtyAssumption DEF Typed, Lists, Counters
<1>1. ASSUME UNCHANGED <<reads, total>>
      PROVE  Chunks'
  BY <1>1 DEF Chunks, ChunkOf
<1>2. ASSUME NEW secret \in BOOLEAN, NEW stop \in Nat, ReadChunk(secret, stop)
      PROVE  Chunks'
  <2>1. PICK r \in ReadRecord :
          /\ r.from = total + 1 /\ r.upTo = total'
          /\ total' \in (total + 1)..typed
          /\ Len(reads') = Len(reads) + 1
          /\ \A k \in 1..Len(reads) : reads'[k] = reads[k]
          /\ reads'[Len(reads) + 1] = r
    BY <1>2, ReadStep, Zenon
  <2>2. total' \in Nat /\ total' >= total + 1
    BY <1>0, <2>1
  <2>3. Len(reads') <= total'
    BY <1>0, <2>1, <2>2 DEF Chunks
  <2>a. ASSUME NEW k \in 1..Len(reads')
        PROVE  k \in 1..Len(reads) \/ k = Len(reads) + 1
    <3>1. k \in 1..(Len(reads) + 1)
      BY <2>1, Zenon
    <3> QED
      BY <1>0, <3>1
  <2>b. ASSUME NEW k \in 1..Len(reads)
        PROVE  reads[k].from \in Nat /\ reads[k].upTo \in Nat
    <3>1. reads[k] \in ReadRecord
      BY <1>0, ElementOfSeq, Zenon
    <3> QED
      BY <3>1 DEF ReadRecord
  <2>4. ASSUME NEW k \in 1..Len(reads')
        PROVE  reads'[k].from <= reads'[k].upTo /\ reads'[k].upTo <= total'
    <3>1. CASE k \in 1..Len(reads)
      <4>1. reads[k].from <= reads[k].upTo /\ reads[k].upTo <= total
        BY <3>1 DEF Chunks
      <4>2. reads[k].upTo <= total'
        BY <1>0, <2>2, <2>b, <3>1, <4>1
      <4> QED
        BY <2>1, <3>1, <4>1, <4>2
    <3>2. CASE k = Len(reads) + 1
      BY <1>0, <2>1, <2>2, <3>2
    <3> QED
      BY <2>a, <3>1, <3>2
  <2>c. ASSUME NEW j \in 1..Len(reads'), NEW k \in 1..Len(reads'), j < k
        PROVE  reads'[j].upTo < reads'[k].from
    <3>1. j \in 1..Len(reads)
      BY <1>0, <2>1, <2>c
    <3>2. CASE k \in 1..Len(reads)
      <4>1. reads[j].upTo < reads[k].from
        BY <2>c, <3>1, <3>2 DEF Chunks
      <4> QED
        BY <2>1, <3>1, <3>2, <4>1
    <3>3. CASE k = Len(reads) + 1
      <4>1. reads[j].upTo <= total /\ reads[j].upTo \in Nat
        BY <2>b, <3>1 DEF Chunks
      <4>2. reads[j].upTo < total + 1
        BY <1>0, <4>1
      <4> QED
        BY <2>1, <3>1, <3>3, <4>2
    <3> QED
      BY <2>a, <3>2, <3>3
  <2>5. ASSUME NEW n \in 1..total'
        PROVE  \E k \in 1..Len(reads') : n \in ChunkOf(reads'[k])
    <3>1. CASE n <= total
      <4>1. n \in 1..total
        BY <1>0, <2>2, <3>1
      <4>2. PICK k \in 1..Len(reads) : n \in ChunkOf(reads[k])
        BY <4>1 DEF Chunks
      <4>3. k \in 1..Len(reads') /\ reads'[k] = reads[k]
        BY <1>0, <2>1
      <4> QED
        BY <4>2, <4>3
    <3>2. CASE n > total
      <4>1. n \in ChunkOf(r)
        BY <1>0, <2>1, <2>2, <3>2 DEF ChunkOf
      <4>2. Len(reads) + 1 \in 1..Len(reads')
        BY <1>0, <2>1
      <4> QED
        BY <2>1, <4>1, <4>2
    <3> QED
      BY <1>0, <2>2, <3>1, <3>2
  <2> QED
    BY <2>3, <2>4, <2>5, <2>c DEF Chunks, ChunkOf
<1>3. CASE RecordChunk \/ HideChunk \/ EndPassword
  BY <1>2, <1>3, ReadKinds, Zenon
<1>4. CASE Quiet \/ SendInit \/ RecordCommand \/ WaitForChild \/ ForwardKey \/ WriteFails
  <2>1. UNCHANGED <<reads, total>>
    BY <1>4 DEF Quiet, SendInit, RecordCommand, WaitForChild, ForwardKey, WriteFails,
                inputVars, outputVars, forwardVars, dataVars, loopVars, local
  <2> QED
    BY <1>1, <2>1
<1> QED
  BY <1>3, <1>4, StepKinds, Zenon DEF Noted, Typed

\* Every step keeps the keys forwarded in order, and behind the rest of the chunk.
LEMMA OrderStep ==
  ASSUME Typed, Order, [Next]_vars
  PROVE  Order'
<1>0. /\ forwarded \in Seq(Nat) /\ total \in Nat /\ left \in Nat /\ typed \in Nat
      /\ Len(forwarded) \in Nat
      /\ Forwarding
  BY PtyAssumption DEF Typed, Lists, Counters
<1> USE DEF inputVars, outputVars, forwardVars, dataVars, loopVars, local
<1>1. ASSUME UNCHANGED forwarded, total' - left' \in Nat, total' - left' >= total - left
      PROVE  Order'
  BY <1>0, <1>1 DEF Order, Forwarding
<1>2. ASSUME NEW secret \in BOOLEAN, NEW stop \in Nat, ReadChunk(secret, stop)
      PROVE  Order'
  <2>1. /\ total' \in (total + 1)..typed
        /\ left' = total' - total /\ left = 0 /\ forwarded' = forwarded
    BY <1>2, ReadStep, Zenon
  <2>2. \A t \in (total + 1)..typed : t - (t - total) = total
    BY <1>0
  <2>3. total' - left' = total
    BY <2>1, <2>2, Zenon
  <2>4. total - left = total
    BY <1>0, <2>1
  <2>5. total' - left' \in Nat /\ total' - left' >= total - left
    BY <1>0, <2>3, <2>4
  <2> QED
    BY <1>1, <2>1, <2>5
<1>3. CASE RecordChunk \/ HideChunk \/ EndPassword
  BY <1>2, <1>3, ReadKinds, Zenon
<1>4. CASE Quiet \/ SendInit \/ RecordCommand \/ WaitForChild
  <2>1. UNCHANGED <<forwarded, total, left>>
    BY <1>4 DEF Quiet, SendInit, RecordCommand, WaitForChild
  <2> QED
    BY <1>0, <1>1, <2>1 DEF Forwarding
<1>5. CASE WriteFails
  <2>1. forwarded' = forwarded /\ total' = total /\ left' = 0
    BY <1>5 DEF WriteFails
  <2> QED
    BY <1>0, <1>1, <2>1
<1>6. CASE ForwardKey
  <2> DEFINE key == total - left + 1
  <2>1. /\ forwarded' = Append(forwarded, key) /\ total' = total /\ left' = left - 1
        /\ left > 0 /\ left <= total
    BY <1>6 DEF ForwardKey, Typed, Forwarding
  <2>2. key \in Nat /\ total' - left' = key /\ key > total - left
    BY <1>0, <2>1
  <2>3. /\ Len(forwarded') = Len(forwarded) + 1
        /\ \A i \in 1..Len(forwarded) : forwarded'[i] = forwarded[i]
        /\ forwarded'[Len(forwarded) + 1] = key
    BY <1>0, <2>1, <2>2, AppendProperties
  <2> HIDE DEF key
  <2>4. \A i \in 1..Len(forwarded) : forwarded[i] \in 1..(total - left) /\ forwarded[i] < key
    BY <1>0, <2>1, <2>2 DEF Order
  <2>5. \A i \in 1..Len(forwarded') : i \in 1..Len(forwarded) \/ i = Len(forwarded) + 1
    BY <1>0, <2>3
  <2>6. \A i \in 1..Len(forwarded') : forwarded'[i] \in 1..(total' - left')
    BY <1>0, <2>1, <2>2, <2>3, <2>4, <2>5
  <2>7. ASSUME NEW i \in 1..Len(forwarded'), NEW j \in 1..Len(forwarded'), i < j
        PROVE  forwarded'[i] < forwarded'[j]
    <3>1. i \in 1..Len(forwarded)
      BY <1>0, <2>3, <2>7
    <3>2. CASE j \in 1..Len(forwarded)
      BY <2>3, <2>7, <3>1, <3>2 DEF Order
    <3>3. CASE j = Len(forwarded) + 1
      BY <2>3, <2>4, <3>1, <3>3
    <3> QED
      BY <2>5, <3>2, <3>3
  <2> QED
    BY <2>6, <2>7 DEF Order
<1> QED
  BY <1>3, <1>4, <1>5, <1>6, StepKinds, Zenon DEF Noted, Typed

\* Every step keeps the number of events within that of the chunks.
LEMMA CountStep ==
  ASSUME Typed, Count, [Next]_vars
  PROVE  Count'
<1>0. /\ events \in Seq(EventRecord) /\ Len(events) \in Nat /\ Len(reads) \in Nat
      /\ in_seq \in Nat /\ total \in Nat
  BY PtyAssumption DEF Typed, Lists, Counters
<1> USE DEF inputVars, outputVars, forwardVars, dataVars, loopVars, local, Goto, AfterStdin
<1>1. CASE Quiet
  BY <1>1 DEF Quiet, Count
<1>2. ASSUME NEW kind, NEW what, NEW seq, NEW keys, Send(kind, what, seq, keys)
      PROVE  Len(events') = Len(events) + 1
  BY <1>0, <1>2 DEF Send
<1>3. CASE SendInit
  <2>1. Len(events') = Len(events) + 1
    BY <1>2, <1>3 DEF SendInit
  <2> QED
    BY <1>0, <1>3, <2>1 DEF SendInit, Count
<1>4. CASE RecordCommand
  <2>1. Len(events') = Len(events) + 1
    BY <1>2, <1>4 DEF RecordCommand
  <2> QED
    BY <1>0, <1>4, <2>1 DEF RecordCommand, Count
<1>5. CASE WaitForChild
  BY <1>5 DEF WaitForChild, Count
<1>6. ASSUME NEW secret \in BOOLEAN, NEW stop \in Nat, ReadChunk(secret, stop),
             Len(events') \in {Len(events), Len(events) + 1}
      PROVE  Count'
  <2>1. Len(reads') = Len(reads) + 1 /\ pc' = "forward"
    BY <1>6, ReadStep, Zenon
  <2>2. pc # "ended"
    BY <1>6 DEF ReadChunk
  <2> QED
    BY <1>0, <1>6, <2>1, <2>2 DEF Count
<1>7. CASE RecordChunk \/ HideChunk \/ EndPassword
  <2>1. Len(events') \in {Len(events), Len(events) + 1}
    BY <1>2, <1>7, Zenon DEF RecordChunk, HideChunk, EndPassword
  <2>2. \E secret \in BOOLEAN, stop \in Nat : ReadChunk(secret, stop)
    BY <1>7, ReadKinds, Zenon
  <2> QED
    BY <1>6, <2>1, <2>2
<1>8. CASE ForwardKey \/ WriteFails
  BY <1>8 DEF ForwardKey, WriteFails, Count
<1> QED
  BY <1>1, <1>3, <1>4, <1>5, <1>7, <1>8, StepKinds, Zenon DEF Noted, Typed

\* The inductive invariant of the record and of what is forwarded.
IInv == Typed /\ Chunks /\ Order /\ Records /\ Wording /\ Count

\* The session keeps its record: what was read, in which mode, and what became of it.
THEOREM Invariant == Spec => []IInv
<1>1. Init => Chunks /\ Order /\ Records /\ Wording /\ Count
  <2> SUFFICES ASSUME Init
               PROVE  Chunks /\ Order /\ Records /\ Wording /\ Count
    OBVIOUS
  <2>1. /\ events = << >> /\ reads = << >> /\ forwarded = << >>
        /\ total = 0 /\ in_password_mode = FALSE /\ pc = "start"
    BY DEF Init
  <2>2. 1..Len(<< >>) = {} /\ Len(<< >>) = 0 /\ 1..0 = {}
    OBVIOUS
  <2>3. Chunks
    BY <2>1, <2>2 DEF Chunks
  <2>4. Order
    BY <2>1, <2>2, Zenon DEF Order
  <2>5. Records
    BY <2>1, <2>2, Zenon DEF Records, Agree, InPassword
  <2>6. Count
    BY <2>1, <2>2 DEF Count
  <2>7. Wording
    BY <2>1, <2>2, Zenon DEF Wording
  <2> QED
    BY <2>3, <2>4, <2>5, <2>6, <2>7
<1>2. Typed /\ Chunks /\ Order /\ Records /\ Wording /\ Count /\ [Next]_vars
        => (Chunks /\ Order /\ Records /\ Wording /\ Count)'
  BY ChunksStep, OrderStep, RecordsStep, WordingStep, CountStep
<1> QED
  BY <1>1, <1>2, TypingOfLists, PTL DEF Spec, IInv
--------------------------------------------------------------------------------
(* What the runs check of an instance *)

\* What is missing from the record are exactly the keys of passwords and those that
\* were read together with the end of one.
THEOREM PasswordsAreHidden == Spec => []HiddenKeys
<1>1. IInv => HiddenKeys
  <2> SUFFICES ASSUME IInv, NEW k \in DOMAIN reads, NEW n \in ChunkOf(reads[k])
               PROVE  ~InRecord(n) <=> OfPassword(k, n) \/ AfterPassword(k, n)
    BY Zenon DEF HiddenKeys
  <2>0. /\ k \in 1..Len(reads) /\ DOMAIN events = 1..Len(events)
        /\ reads \in Seq(ReadRecord) /\ Len(reads) \in Nat
        /\ \A j \in 1..Len(reads) : reads[j] \in ReadRecord
    BY LenProperties, ElementOfSeq DEF IInv, Typed, Lists
  <2>1. ~Quotes(events, reads, k) <=> InPasswordMode(k)
    BY <2>0, Zenon DEF IInv, Records, Agree, Hidden, InPasswordMode
  <2>2. OfPassword(k, n) \/ AfterPassword(k, n) <=> InPasswordMode(k)
    <3>1. reads[k].stop \in Nat /\ n \in Nat
      BY <2>0 DEF ReadRecord, ChunkOf
    <3>2. n <= reads[k].stop \/ n > reads[k].stop
      BY <3>1
    <3> QED
      BY <3>2, Zenon DEF OfPassword, AfterPassword
  <2>3. ASSUME Quotes(events, reads, k)
        PROVE  InRecord(n)
    <3>1. PICK e \in RecordOf(events, k) : e.keys = ChunkOf(reads[k])
      BY <2>3, Zenon DEF Quotes
    <3>2. e \in ToSet(events) /\ e.what \in {"keys", "placeholder"}
      BY Zenon DEF RecordOf
    <3>3. e.what = "placeholder" => e.keys = {}
      BY <2>0, <3>2, Zenon DEF ToSet, IInv, Wording
    <3>4. e.what = "keys"
      BY <3>1, <3>2, <3>3
    <3> QED
      BY <3>1, <3>2, <3>4, Zenon DEF InRecord
  <2>4. ASSUME InRecord(n)
        PROVE  Quotes(events, reads, k)
    <3>1. PICK e \in ToSet(events) : e.what = "keys" /\ n \in e.keys
      BY <2>4, Zenon DEF InRecord
    <3>2. PICK i \in 1..Len(events) : e = events[i]
      BY <2>0, Zenon DEF ToSet
    <3>3. e.keys = ChunkOf(reads[e.seq])
      BY <3>1, <3>2, Zenon DEF IInv, Wording
    <3>4. e.what \in {"keys", "placeholder"}
      BY <3>1
    <3>5. e.seq \in 1..Len(reads)
      BY <3>2, <3>4, Zenon DEF IInv, Records, Agree
    <3>6. e.seq = k
      <4>1. \A j \in 1..Len(reads) : reads[j].from \in Nat /\ reads[j].upTo \in Nat
        BY <2>0 DEF ReadRecord
      <4>2. n \in ChunkOf(reads[e.seq])
        BY <3>1, <3>3
      <4>3. ASSUME NEW j \in 1..Len(reads), NEW m \in 1..Len(reads), j < m,
                   n \in ChunkOf(reads[j]), n \in ChunkOf(reads[m])
            PROVE  FALSE
        <5>1. reads[j].upTo < reads[m].from
          BY <4>3 DEF IInv, Chunks
        <5>2. n <= reads[j].upTo /\ reads[m].from <= n /\ n \in Nat
          BY <4>1, <4>3 DEF ChunkOf
        <5> QED
          BY <4>1, <5>1, <5>2
      <4>4. e.seq < k \/ k < e.seq \/ e.seq = k
        BY <2>0, <3>5
      <4> QED
        BY <2>0, <3>5, <4>2, <4>3, <4>4
    <3> QED
      BY <3>1, <3>2, <3>3, <3>4, <3>6, Zenon DEF Quotes, RecordOf
  <2> QED
    BY <2>1, <2>2, <2>3, <2>4, Zenon
<1> QED
  BY <1>1, Invariant, PTL

\* No key reaches the child before the record has its chunk, or hides it in a
\* password whose end has an event; and the keys keep the order typed.
THEOREM KeysAreRecordedFirst == Spec => []ForwardedIsRecorded
<1>1. IInv => ForwardedIsRecorded
  <2> SUFFICES ASSUME IInv
               PROVE  ForwardedIsRecorded
    OBVIOUS
  <2>1. /\ DOMAIN reads = 1..Len(reads) /\ DOMAIN forwarded = 1..Len(forwarded)
        /\ total \in Nat /\ left \in Nat
    BY LenProperties, PtyAssumption DEF IInv, Typed, Lists, Counters
  <2>2. ASSUME NEW n \in ToSet(forwarded)
        PROVE  \E k \in DOMAIN reads :
                 /\ n \in ChunkOf(reads[k])
                 /\ Verbatim(k) \/ (Ends(reads[k]) => Recorded(k) # {})
    <3>1. n \in 1..(total - left)
      BY <2>1, <2>2 DEF ToSet, IInv, Order
    <3>2. n \in 1..total
      BY <2>1, <3>1
    <3>3. PICK k \in 1..Len(reads) : n \in ChunkOf(reads[k])
      BY <3>2 DEF IInv, Chunks
    <3>4. Quotes(events, reads, k) \/ (Ends(reads[k]) => RecordOf(events, k) # {})
      BY Zenon DEF IInv, Records, Agree
    <3> QED
      BY <2>1, <3>3, <3>4, Zenon DEF Verbatim, Recorded, Quotes, RecordOf
  <2>3. \A i, j \in DOMAIN forwarded : i < j => forwarded[i] < forwarded[j]
    BY <2>1 DEF IInv, Order
  <2> QED
    BY <2>2, <2>3, Zenon DEF ForwardedIsRecorded
<1> QED
  BY <1>1, Invariant, PTL
--------------------------------------------------------------------------------
(* The main thread of Agent *)

\* The channel as Agent sees it.
Channel(record) == [i \in DOMAIN record |-> [kind |-> record[i].kind, n |-> i]]

\* A function on 1..m is a sequence.
LEMMA FunctionIsSeq ==
  ASSUME NEW T, NEW m \in Nat, NEW f \in [1..m -> T]
  PROVE  f \in Seq(T) /\ Len(f) = m
<1>1. f \in Seq(T)
  BY SeqDef, Zenon
<1> QED
  BY <1>1

\* One more event here is one more event there, numbered next.
LEMMA ChannelAppend ==
  ASSUME NEW record \in Seq(EventRecord), NEW e \in EventRecord
  PROVE  Channel(Append(record, e))
           = Append(Channel(record), [kind |-> e.kind, n |-> Len(record) + 1])
<1> DEFINE S == [kind : {"SessionInit", "KeystrokeInput", "SessionEnd"}, n : Nat]
           longer == Append(record, e)
           x == [kind |-> e.kind, n |-> Len(record) + 1]
<1>1. /\ longer \in Seq(EventRecord) /\ Len(longer) = Len(record) + 1
      /\ \A i \in 1..Len(record) : longer[i] = record[i]
      /\ longer[Len(record) + 1] = e
      /\ DOMAIN longer = 1..(Len(record) + 1) /\ DOMAIN record = 1..Len(record)
      /\ Len(record) \in Nat
  BY AppendProperties, LenProperties
<1>2. \A i \in 1..Len(record) : record[i] \in EventRecord
  BY ElementOfSeq
<1>3. Channel(record) \in Seq(S) /\ Len(Channel(record)) = Len(record)
  <2>1. Channel(record) \in [1..Len(record) -> S]
    <3>1. ASSUME NEW i \in 1..Len(record)
          PROVE  [kind |-> record[i].kind, n |-> i] \in S
      BY <1>1, <1>2 DEF EventRecord
    <3> HIDE DEF S
    <3> QED
      BY <1>1, <3>1 DEF Channel
  <2> QED
    BY <1>1, <2>1, FunctionIsSeq
<1>4. Channel(longer) \in Seq(S) /\ Len(Channel(longer)) = Len(record) + 1
  <2>1. \A i \in 1..(Len(record) + 1) : longer[i] \in EventRecord
    BY <1>1, ElementOfSeq
  <2>2. Channel(longer) \in [1..(Len(record) + 1) -> S]
    <3>1. ASSUME NEW i \in 1..(Len(record) + 1)
          PROVE  [kind |-> longer[i].kind, n |-> i] \in S
      BY <1>1, <2>1 DEF EventRecord
    <3> HIDE DEF S, longer
    <3> QED
      BY <1>1, <3>1 DEF Channel
  <2>3. Len(record) + 1 \in Nat
    BY <1>1
  <2> HIDE DEF S, longer
  <2> QED
    BY <2>2, <2>3, FunctionIsSeq, Zenon
<1>5. x \in S
  BY <1>1 DEF EventRecord
<1>6. /\ Append(Channel(record), x) \in Seq(S)
      /\ Len(Append(Channel(record), x)) = Len(record) + 1
      /\ \A i \in 1..Len(record) : Append(Channel(record), x)[i] = Channel(record)[i]
      /\ Append(Channel(record), x)[Len(record) + 1] = x
  BY <1>3, <1>5, AppendProperties
<1>7. ASSUME NEW i \in 1..(Len(record) + 1)
      PROVE  Channel(longer)[i] = Append(Channel(record), x)[i]
  <2>1. Channel(longer)[i] = [kind |-> longer[i].kind, n |-> i]
    <3> HIDE DEF longer
    <3> QED
      BY <1>1 DEF Channel
  <2>2. CASE i \in 1..Len(record)
    <3>1. Channel(record)[i] = [kind |-> record[i].kind, n |-> i]
      BY <1>1, <2>2 DEF Channel
    <3> QED
      BY <1>1, <1>6, <2>1, <2>2, <3>1
  <2>3. CASE i = Len(record) + 1
    BY <1>1, <1>6, <2>1, <2>3
  <2>4. i \in 1..Len(record) \/ i = Len(record) + 1
    BY <1>1
  <2> QED
    BY <2>2, <2>3, <2>4
<1> HIDE DEF longer, x
<1>8. Channel(longer) = Append(Channel(record), x)
  BY <1>4, <1>6, <1>7, SeqEqual
<1> QED
  BY <1>8 DEF longer, x

\* One event sent here is one sent there.
LEMMA SendMapped ==
  ASSUME IInv, NEW kind \in {"SessionInit", "KeystrokeInput", "SessionEnd"},
         NEW what \in {"init", "command", "keys", "placeholder", "end"},
         NEW seq \in Nat, NEW keys \in SUBSET Nat, Send(kind, what, seq, keys)
  PROVE  Main!Send(kind)
<1>1. events \in Seq(EventRecord)
  BY DEF IInv, Typed, Lists
<1>2. PICK e \in EventRecord :
        /\ e.kind = kind /\ e.what = what /\ e.seq = seq /\ e.keys = keys
        /\ events' = Append(events, e)
        /\ events' \in Seq(EventRecord)
        /\ Len(events') = Len(events) + 1
        /\ \A i \in 1..Len(events) : events'[i] = events[i]
        /\ events'[Len(events) + 1] = e
  BY <1>1, SendStep, SMTT(60)
<1>3. Channel(events') = Append(Channel(events), [kind |-> kind, n |-> Len(events) + 1])
  BY <1>1, <1>2, ChannelAppend
<1>4. Len(events)' = Len(events) + 1
  BY <1>2, Zenon
<1> QED
  BY <1>3, <1>4, Zenon DEF Main!Send, Channel

\* The steps of Pty are steps of Agent's main thread, or none that it sees.
THEOREM MainThreadIsImplemented == Spec => ImplementsMainThread
<1>1. Init => Main!Init
  <2> SUFFICES ASSUME Init
               PROVE  Main!Init
    OBVIOUS
  <2>1. events = << >> /\ pc = "start"
    BY DEF Init
  <2> QED
    BY <2>1 DEF Main!Init
<1>2. IInv /\ [Next]_vars => [Main!Next]_(Main!vars)
  <2> SUFFICES ASSUME IInv, [Next]_vars
               PROVE  [Main!Next]_(Main!vars)
    OBVIOUS
  <2> USE DEF Main!vars, Main!ptyVars, Main!config, Main!uploaderVars, Main!spoolVars,
              local, loopVars, dataVars, inputVars, outputVars, forwardVars, Goto
  <2>0. /\ Len(events) \in Nat /\ Len(reads) \in Nat /\ total \in Nat /\ typed \in Nat
        /\ in_seq \in Nat /\ MaxTyped \in Nat
        /\ total <= typed /\ typed <= MaxTyped
        /\ Len(reads) <= total
    BY PtyAssumption DEF IInv, Typed, Counters, Lists, Chunks
  <2>1. CASE Quiet
    <3>1. CASE pc' = "failed" /\ pc # "failed"
      <4>1. Main!Die
        BY <2>1, <3>1 DEF Quiet, Main!Die
      <4> QED
        BY <4>1 DEF Main!Next, Main!MainThread
    <3>2. CASE pc' = "failed" <=> pc = "failed"
      BY <2>1, <3>2 DEF Quiet
    <3> QED
      BY <2>1, <3>1, <3>2 DEF Quiet
  <2>2. CASE SendInit
    <3>1. Main!Send("SessionInit")
      BY <2>2, SendMapped DEF SendInit
    <3>2. pc = "start" /\ pc' \in {"command", "size"}
      BY <2>2 DEF SendInit
    <3>3. Main!StartSession
      BY <3>1, <3>2 DEF Main!StartSession
    <3> QED
      BY <3>3 DEF Main!Next, Main!MainThread
  <2>3. ASSUME NEW what \in {"command", "keys", "placeholder"},
               NEW seq \in Nat, NEW keys \in SUBSET Nat,
               Send("KeystrokeInput", what, seq, keys),
               pc \in {"command", "stdin"}, pc' \in {"size", "forward"},
               Len(events) + 1 < MaxTyped + 3
        PROVE  [Main!Next]_(Main!vars)
    <3>1. Main!Send("KeystrokeInput")
      BY <2>3, SendMapped
    <3>2. Main!RecordInput
      BY <2>3, <3>1 DEF Main!RecordInput
    <3> QED
      BY <3>2 DEF Main!Next, Main!MainThread
  <2>4. CASE RecordCommand
    <3>1. Len(events) + 1 < MaxTyped + 3
      BY <2>0, <2>4 DEF RecordCommand, IInv, Count
    <3> QED
      BY <2>3, <2>4, <3>1 DEF RecordCommand
  <2>5. ASSUME NEW secret \in BOOLEAN, NEW stop \in Nat, ReadChunk(secret, stop)
        PROVE  /\ Len(events) + 1 < MaxTyped + 3
               /\ pc = "stdin" /\ pc' = "forward"
               /\ in_seq' \in Nat /\ Chunk \in SUBSET Nat
    <3>1. /\ total' \in (total + 1)..typed
          /\ in_seq' = Len(reads') /\ Len(reads') = Len(reads) + 1
          /\ Chunk \in SUBSET Nat /\ pc' = "forward"
      BY <2>5, ReadStep, Zenon DEF IInv
    <3>2. pc = "stdin"
      BY <2>5, Zenon DEF ReadChunk
    <3>3. total < typed
      BY <2>0, <3>1
    <3>4. Len(events) <= 2 + Len(reads)
      BY <3>2 DEF IInv, Count
    <3> QED
      BY <2>0, <3>1, <3>2, <3>3, <3>4
  <2>6. CASE RecordChunk
    <3>1. \E secret \in BOOLEAN, stop \in Nat : ReadChunk(secret, stop)
      BY <2>6, ReadKinds, Zenon DEF IInv
    <3>2. Send("KeystrokeInput", "keys", in_seq', Chunk)
      BY <2>6, Zenon DEF RecordChunk
    <3> QED
      BY <2>3, <2>5, <3>1, <3>2
  <2>7. CASE EndPassword
    <3>1. \E secret \in BOOLEAN, stop \in Nat : ReadChunk(secret, stop)
      BY <2>7, ReadKinds, Zenon DEF IInv
    <3>2. Send("KeystrokeInput", "placeholder", in_seq', {})
      BY <2>7, Zenon DEF EndPassword
    <3>3. /\ Len(events) + 1 < MaxTyped + 3
          /\ pc = "stdin" /\ pc' = "forward" /\ in_seq' \in Nat
      BY <2>5, <3>1
    <3> QED
      BY <2>3, <3>2, <3>3
  <2>8. CASE HideChunk
    <3>1. \E secret \in BOOLEAN, stop \in Nat : ReadChunk(secret, stop)
      BY <2>8, ReadKinds, Zenon DEF IInv
    <3>2. events' = events
      BY <2>8, Zenon DEF HideChunk
    <3>3. pc = "stdin" /\ pc' = "forward"
      BY <2>5, <3>1
    <3> QED
      BY <3>2, <3>3
  <2>9. CASE ForwardKey \/ WriteFails
    BY <2>9 DEF ForwardKey, WriteFails, AfterStdin
  <2>10. CASE WaitForChild
    <3>1. /\ Send("SessionEnd", "end", total, {}) /\ pc = "wait" /\ pc' = "ended"
      BY <2>10 DEF WaitForChild
    <3>2. Main!Send("SessionEnd")
      BY <2>0, <3>1, SendMapped
    <3>3. Len(events) < MaxTyped + 3
      BY <2>0, <3>1 DEF IInv, Count
    <3>4. Main!EndSession
      BY <3>1, <3>2, <3>3 DEF Main!EndSession
    <3> QED
      BY <3>4 DEF Main!Next, Main!MainThread
  <2> QED
    BY <2>1, <2>2, <2>4, <2>6, <2>7, <2>8, <2>9, <2>10, StepKinds, Zenon
    DEF Noted, IInv, Typed
<1> QED
  BY <1>1, <1>2, Invariant, PTL DEF Spec, ImplementsMainThread, Main!Spec
================================================================================
