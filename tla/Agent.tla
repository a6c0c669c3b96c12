--------------------------------- MODULE Agent ---------------------------------
(***************************************************************************)
(* The argus wrap process of argus-agent: the main thread, which emits the *)
(* events of one session (pty.rs) into an unbounded channel, and the       *)
(* uploader thread, which collects them into batches and sends each batch  *)
(* to the collector or appends it to the spool file (uploader.rs).         *)
(*                                                                         *)
(* What answers a POST is left open here: any answer is possible, and none *)
(* in time is too.  Pipeline puts the collector in that place.             *)
(***************************************************************************)
EXTENDS Naturals, Sequences, SequencesExt

CONSTANTS
  MaxEvents,        \* bound: events of the session, SessionInit and SessionEnd included
  BatchMaxSize      \* batch_max_size, 50 in EventUploader::new

ASSUME AgentAssumption ==
  /\ MaxEvents \in Nat \ {0}
  /\ BatchMaxSize \in Nat \ {0}

\* The n-th event of the session; what it says does not matter here.
Emission == [kind : {"SessionInit", "KeystrokeInput", "SessionEnd"}, n : 1..MaxEvents]

VARIABLES
  hasUrl,    \* a collector URL was given on the command line
  hasSpool,  \* a spool path was given
  proc,      \* the process: alive, exited through main, or killed
  pty,       \* the main thread: start, loop, or ended (Sender dropped)
  sent,      \* number of events sent into the channel
  chan,      \* the channel
  up,        \* the uploader thread: recv, flush, await (an answer), cleared, done
  batch,     \* the events it has collected
  due,       \* 500 ms or more have passed since last_flush
  leaving,   \* the current flush is the one of the Disconnected branch
  spool,     \* the spool file
  spoolFailed, \* history: the spool file could not be opened or written once
  posted,    \* history: every event put into a request, in order
  acked      \* history: every event answered with a 2xx status, in order

config == <<hasUrl, hasSpool>>
ptyVars == <<config, pty, sent>>
spoolVars == <<spool, spoolFailed>>
uploaderVars == <<up, batch, due, leaving, spoolVars, posted, acked>>
vars == <<proc, ptyVars, chan, uploaderVars>>

Init ==
  /\ hasUrl \in BOOLEAN
  /\ hasSpool \in BOOLEAN
  /\ proc = "alive"
  /\ pty = "start"
  /\ sent = 0
  /\ chan = << >>
  /\ up = "recv"
  /\ batch = << >>
  /\ due = FALSE
  /\ leaving = FALSE
  /\ spool = << >>
  /\ spoolFailed = FALSE
  /\ posted = << >>
  /\ acked = << >>
--------------------------------------------------------------------------------
(* The main thread *)

\* Send that numbers the events from 0.
SendFromZero(kind) ==
  /\ sent' = sent + 1
  /\ chan' = Append(chan, [kind |-> kind, n |-> sent])

Send(kind) ==
  /\ sent' = sent + 1
  /\ chan' = Append(chan, [kind |-> kind, n |-> sent + 1])

\* run: SessionInit is sent before the terminal is opened.
StartSession ==
  /\ proc = "alive"
  /\ pty = "start"
  /\ Send("SessionInit")
  /\ pty' = "loop"
  /\ UNCHANGED <<config, proc, uploaderVars>>

\* The direct command of run, or one chunk of standard input that event_loop
\* records.  The last event is kept for SessionEnd.
RecordInput ==
  /\ proc = "alive"
  /\ pty = "loop"
  /\ sent + 1 < MaxEvents
  /\ Send("KeystrokeInput")
  /\ UNCHANGED <<config, proc, pty, uploaderVars>>

\* The child is gone: event_loop sends SessionEnd and run, which owns the
\* Sender, returns; main goes on to join the uploader.
EndSession ==
  /\ proc = "alive"
  /\ pty = "loop"
  /\ sent < MaxEvents
  /\ Send("SessionEnd")
  /\ pty' = "ended"
  /\ UNCHANGED <<config, proc, uploaderVars>>

\* join returns and main calls exit.
ExitProcess ==
  /\ proc = "alive"
  /\ pty = "ended"
  /\ up = "done"
  /\ proc' = "exited"
  /\ UNCHANGED <<ptyVars, chan, uploaderVars>>

\* The process ends without main getting there: a hangup of the terminal, a
\* crash, or an error that ? returns from run while the uploader still runs.
Die ==
  /\ proc = "alive"
  /\ proc' = "killed"
  /\ UNCHANGED <<ptyVars, chan, uploaderVars>>
--------------------------------------------------------------------------------
(* The uploader thread: run_loop *)

\* 500 ms pass after a flush.
TimePasses ==
  /\ proc = "alive"
  /\ ~due
  /\ due' = TRUE
  /\ UNCHANGED <<proc, ptyVars, chan, up, batch, leaving, spoolVars, posted, acked>>

\* ReceiveEvent that puts the newest event first.
ReceiveEventFront ==
  /\ proc = "alive"
  /\ up = "recv"
  /\ chan # << >>
  /\ batch' = <<Head(chan)>> \o batch
  /\ chan' = Tail(chan)
  /\ up' = IF Len(batch') >= BatchMaxSize \/ due THEN "flush" ELSE "recv"
  /\ UNCHANGED <<proc, ptyVars, due, leaving, spoolVars, posted, acked>>

\* Ok(event) of recv_timeout.
ReceiveEvent ==
  /\ proc = "alive"
  /\ up = "recv"
  /\ chan # << >>
  /\ batch' = Append(batch, Head(chan))
  /\ chan' = Tail(chan)
  /\ up' = IF Len(batch') >= BatchMaxSize \/ due THEN "flush" ELSE "recv"
  /\ UNCHANGED <<proc, ptyVars, due, leaving, spoolVars, posted, acked>>

\* ReceiveTimeout that waits for a full batch.
ReceiveTimeoutFull ==
  /\ proc = "alive"
  /\ up = "recv"
  /\ chan = << >>
  /\ pty # "ended"
  /\ Len(batch) >= BatchMaxSize
  /\ due
  /\ up' = "flush"
  /\ UNCHANGED <<proc, ptyVars, chan, batch, due, leaving, spoolVars, posted, acked>>

\* Err(Timeout) with a batch that is due; without one it changes nothing.
ReceiveTimeout ==
  /\ proc = "alive"
  /\ up = "recv"
  /\ chan = << >>
  /\ pty # "ended"
  /\ batch # << >>
  /\ due
  /\ up' = "flush"
  /\ UNCHANGED <<proc, ptyVars, chan, batch, due, leaving, spoolVars, posted, acked>>

\* ReceiveDisconnected that leaves the loop without flushing.
LeaveWithoutFlush ==
  /\ proc = "alive"
  /\ up = "recv"
  /\ chan = << >>
  /\ pty = "ended"
  /\ up' = "done"
  /\ leaving' = TRUE
  /\ UNCHANGED <<proc, ptyVars, chan, batch, due, spoolVars, posted, acked>>

\* ReceiveDisconnected that breaks out of the loop only with a batch to flush.
DisconnectedWithBatch ==
  /\ proc = "alive"
  /\ up = "recv"
  /\ chan = << >>
  /\ pty = "ended"
  /\ batch # << >>
  /\ up' = "flush"
  /\ leaving' = TRUE
  /\ UNCHANGED <<proc, ptyVars, chan, batch, due, spoolVars, posted, acked>>

\* Err(Disconnected), which the channel reports only when it is empty.
ReceiveDisconnected ==
  /\ proc = "alive"
  /\ up = "recv"
  /\ chan = << >>
  /\ pty = "ended"
  /\ up' = IF batch = << >> THEN "done" ELSE "flush"
  /\ leaving' = TRUE
  /\ UNCHANGED <<proc, ptyVars, chan, batch, due, spoolVars, posted, acked>>

\* spool_to_disk, when a path is configured.  It drops every error.
SpoolBatch ==
  \/ /\ ~hasSpool
     /\ UNCHANGED spoolVars
  \/ /\ hasSpool
     /\ spool' = spool \o batch
     /\ UNCHANGED spoolFailed
  \/ /\ hasSpool
     /\ spoolFailed' = TRUE
     /\ UNCHANGED spool

\* flush_batch without a collector URL.
FlushOffline ==
  /\ proc = "alive"
  /\ up = "flush"
  /\ ~hasUrl
  /\ SpoolBatch
  /\ up' = "cleared"
  /\ UNCHANGED <<proc, ptyVars, chan, batch, due, leaving, posted, acked>>

\* flush_batch sends the request.
Post ==
  /\ proc = "alive"
  /\ up = "flush"
  /\ hasUrl
  /\ posted' = posted \o batch
  /\ up' = "await"
  /\ UNCHANGED <<proc, ptyVars, chan, batch, due, leaving, spoolVars, acked>>

\* A 2xx answer without the kill header.
AnswerAccepted ==
  /\ proc = "alive"
  /\ up = "await"
  /\ acked' = acked \o batch
  /\ up' = "cleared"
  /\ UNCHANGED <<proc, ptyVars, chan, batch, due, leaving, spoolVars, posted>>

\* AnswerRejected that forgets the spool: only a failed request is spooled.
AnswerRejectedUnspooled ==
  /\ proc = "alive"
  /\ up = "await"
  /\ up' = "cleared"
  /\ UNCHANGED <<proc, ptyVars, chan, batch, due, leaving, spoolVars, posted, acked>>

\* Any other status.
AnswerRejected ==
  /\ proc = "alive"
  /\ up = "await"
  /\ SpoolBatch
  /\ up' = "cleared"
  /\ UNCHANGED <<proc, ptyVars, chan, batch, due, leaving, posted, acked>>

\* The connection fails, or timeout_secs pass without an answer.  The collector
\* may have the request all the same.
RequestFails ==
  /\ proc = "alive"
  /\ up = "await"
  /\ SpoolBatch
  /\ up' = "cleared"
  /\ UNCHANGED <<proc, ptyVars, chan, batch, due, leaving, posted, acked>>

\* An answer with X-Argus-Force-Kill: kill(0, SIGKILL) ends the process with all
\* its threads, and the rest of its process group, at once.
AnswerForceKill ==
  /\ proc = "alive"
  /\ up = "await"
  /\ proc' = "killed"
  /\ UNCHANGED <<ptyVars, chan, uploaderVars>>

\* ClearBatch after which a later flush sends the old events again.
KeepBatch ==
  /\ proc = "alive"
  /\ up = "cleared"
  /\ due' = FALSE
  /\ up' = IF leaving THEN "done" ELSE "recv"
  /\ UNCHANGED <<proc, ptyVars, chan, batch, leaving, spoolVars, posted, acked>>

\* flush_batch has returned: whatever it says, run_loop clears the batch and
\* starts a new interval, or leaves the loop.
ClearBatch ==
  /\ proc = "alive"
  /\ up = "cleared"
  /\ batch' = << >>
  /\ due' = FALSE
  /\ up' = IF leaving THEN "done" ELSE "recv"
  /\ UNCHANGED <<proc, ptyVars, chan, leaving, spoolVars, posted, acked>>
--------------------------------------------------------------------------------
MainThread == StartSession \/ RecordInput \/ EndSession \/ ExitProcess \/ Die

\* The steps of run_loop that do not wait for the collector.
Uploader ==
  \/ TimePasses
  \/ ReceiveEvent
  \/ ReceiveTimeout
  \/ ReceiveDisconnected
  \/ FlushOffline
  \/ Post
  \/ ClearBatch

Answer == AnswerAccepted \/ AnswerRejected \/ RequestFails \/ AnswerForceKill

Next == MainThread \/ Uploader \/ Answer

Spec == Init /\ [][Next]_vars

\* The scheduler runs the uploader thread, the clock advances, every request is
\* answered or times out, and main, once it joins, exits.  Nothing makes the
\* user type or leave.
Fairness ==
  /\ WF_vars(TimePasses)
  /\ WF_vars(ReceiveEvent \/ ReceiveTimeout \/ ReceiveDisconnected
              \/ FlushOffline \/ Post \/ ClearBatch)
  /\ WF_vars(Answer)
  /\ WF_vars(ExitProcess)

FairSpec == Spec /\ Fairness
--------------------------------------------------------------------------------
(* Properties *)

\* Types of the agent's state.
TypeOK ==
  /\ hasUrl \in BOOLEAN
  /\ hasSpool \in BOOLEAN
  /\ proc \in {"alive", "exited", "killed"}
  /\ pty \in {"start", "loop", "ended"}
  /\ sent \in 0..MaxEvents
  /\ chan \in Seq(Emission)
  /\ up \in {"recv", "flush", "await", "cleared", "done"}
  /\ batch \in Seq(Emission)
  /\ due \in BOOLEAN
  /\ leaving \in BOOLEAN
  /\ spool \in Seq(Emission)
  /\ spoolFailed \in BOOLEAN
  /\ posted \in Seq(Emission)
  /\ acked \in Seq(Emission)

InOrder(events) ==
  \A i, j \in 1..Len(events) : i < j => events[i].n < events[j].n

\* An event the uploader has done with left through an answer or the spool.
Handled == ToSet(acked) \cup ToSet(spool)

\* What the uploader still holds: the channel, and the batch unless the flush
\* that clears it next has already settled it.
Waiting == ToSet(chan) \cup (IF up = "cleared" THEN {} ELSE ToSet(batch))

\* With a spool file that can be written no event is ever dropped: while the process lives
\* every event sent is still waiting, or was accepted by the collector or
\* written to the spool.  run_loop clears the batch whatever flush_batch
\* returned, so each exit of flush_batch must have put it somewhere.
NothingDropped ==
  hasSpool /\ ~spoolFailed => { e.n : e \in Handled \cup Waiting } = 1..sent

\* No event is accepted twice, spooled twice, or both accepted and spooled, and
\* each list keeps the order of the session: a batch is sent at most once.
HandledOnce ==
  /\ InOrder(posted)
  /\ InOrder(acked)
  /\ InOrder(spool)
  /\ ToSet(acked) \cap ToSet(spool) = {}

\* There is somewhere to leave the events.
HasOutlet == hasUrl \/ (hasSpool /\ ~spoolFailed)

\* When the process leaves through main it leaves nothing behind: with a
\* collector or a spool configured, every event up to and including SessionEnd
\* was offered to the one or written to the other.
ExitIsComplete ==
  proc = "exited" /\ HasOutlet =>
    { e.n : e \in ToSet(posted) \cup ToSet(spool) } = 1..sent

\* An event that was recorded does not stay with the agent for ever, however
\* busy or idle the session is: it is offered to the collector or spooled unless
\* the process ends first.
EventsLeave ==
  \A n \in 1..MaxEvents :
    sent >= n ~> \/ \E e \in ToSet(posted) \cup ToSet(spool) : e.n = n
                 \/ proc # "alive"
                 \/ ~HasOutlet

\* Once the session has ended the process ends, whatever the collector does.
AgentTerminates == pty = "ended" ~> proc # "alive"
================================================================================
