---------------------------------- MODULE Pty ----------------------------------
(***************************************************************************)
(* The main thread of argus wrap (pty.rs): it opens a pseudo terminal,     *)
(* starts the command on it, and then copies standard input to the         *)
(* terminal and the terminal's output to standard output, recording what   *)
(* is typed except while a password is read.                               *)
(*                                                                         *)
(* The other actors are the person who types and resizes the window, the   *)
(* child (with whatever else keeps its terminal open), whoever reads       *)
(* standard output, and the kernel, whose queues are bounded in both       *)
(* directions.  A key is known by its position in what was typed.          *)
(***************************************************************************)
EXTENDS Naturals, FiniteSets, Sequences, SequencesExt

CONSTANTS
  MaxTyped,    \* bound: keys typed
  MaxOutput,   \* bound: pieces of output the child writes
  ReadSize,    \* keys one read takes, 4096 bytes in the code
  InCap,       \* keys the terminal holds for the child
  OutCap       \* pieces of output it holds for the main thread

ASSUME PtyAssumption ==
  /\ MaxTyped \in Nat /\ MaxOutput \in Nat
  /\ {ReadSize, InCap, OutCap} \subseteq Nat \ {0}

\* The modes of the terminal: echo on; echo off but line by line (getpass, sudo);
\* echo off and raw (editors).  The child sets them as it likes.
TermMode == {"echo", "secret", "raw"}

VARIABLES
  typed,        \* number of keys typed or pasted
  stdin,        \* the other end of standard input: open, eof or error
  child,        \* none, running or exited
  slave,        \* the terminal's other side: some process has it open, or closed
  unread,       \* forwarded keys the child has not read
  written,      \* number of pieces of output written
  sized,        \* the terminal has the size of the window
  pc,           \* where the main thread stands
  direct,       \* a command was given that is not a shell
  resizeFlag,   \* RESIZE_FLAG
  ws,           \* the size it has read is still that of the window
  missed,       \* history: a resize that no later step will notice
  stdin_open,
  masterReady,  \* select has reported the master
  total,        \* total_bytes: keys read from standard input
  in_seq,
  in_password_mode,
  recent_child_output, \* it holds a text that asks for a password
  events,       \* history: what it sent into the channel
  forwarded,    \* history: the keys it wrote to the terminal
  left,         \* keys of the last chunk that are still to be forwarded
  reads,        \* history: of each chunk its first and last key, whether the terminal
                \* was in password input mode, and its first Enter or Ctrl-C, where
                \* the code looks for one, or 0
  broken,       \* history: a call that failed made it leave
  taken,        \* number of pieces of output it has read
  shown,        \* number of those it has written to standard output
  lost          \* history: number of those a failed write to it has dropped

userVars == <<typed, stdin>>
childVars == <<child, slave, written>>
resizeVars == <<resizeFlag, ws, sized, missed>>
inputVars == <<stdin_open, total, in_seq, in_password_mode, reads>>
outputVars == <<recent_child_output, taken, shown, lost>>
forwardVars == <<left, unread, forwarded>>
dataVars == <<inputVars, outputVars, forwardVars>>
loopVars == <<resizeVars, dataVars, masterReady>>
runVars == <<direct, broken>>
world == <<userVars, childVars>>
local == <<loopVars, runVars>>
mainVars == <<local, pc, events>>
vars == <<world, mainVars>>

Init ==
  /\ typed = 0 /\ stdin = "open"
  /\ child = "none" /\ slave = "open" /\ written = 0
  /\ resizeFlag = FALSE /\ ws = FALSE /\ sized = FALSE /\ missed = FALSE
  /\ stdin_open = TRUE /\ total = 0 /\ in_seq = 0
  /\ in_password_mode = FALSE /\ reads = << >>
  /\ recent_child_output = FALSE /\ taken = 0 /\ shown = 0 /\ lost = 0
  /\ left = 0 /\ unread = 0 /\ forwarded = << >>
  /\ pc = "start"
  /\ direct \in BOOLEAN
  /\ masterReady = FALSE
  /\ broken = FALSE
  /\ events = << >>
--------------------------------------------------------------------------------
(* The person at the terminal *)

Running == pc \notin {"ended", "failed"}

Type ==
  /\ Running
  /\ stdin = "open"
  /\ typed < MaxTyped
  /\ typed' = typed + 1
  /\ UNCHANGED <<stdin, childVars, mainVars>>

\* Standard input ends, as a pipe does, or fails, as a terminal that hung up.
CloseStdin(how) ==
  /\ Running
  /\ stdin = "open"
  /\ stdin' = how
  /\ UNCHANGED <<typed, childVars, mainVars>>

\* The handler of SIGWINCH is installed last; until then the signal is ignored.
HandlesResize == pc \notin {"start", "command", "size", "open", "guard"}

\* The window is resized.  A size read before is old now, and without the handler
\* nothing makes the main thread read it again; with it, it will read the size of
\* this resize and of any it has missed.
ResizeWindow ==
  /\ Running
  /\ sized' = FALSE
  /\ ws' = FALSE
  /\ resizeFlag' = (resizeFlag \/ HandlesResize)
  /\ missed' = (~HandlesResize /\ (missed \/ pc \in {"open", "guard"}))
  /\ UNCHANGED <<world, dataVars, masterReady, runVars, pc, events>>
--------------------------------------------------------------------------------
(* The child and the processes that share its terminal *)

ChildReads ==
  /\ child = "running" /\ slave = "open"
  /\ unread > 0
  /\ unread' = unread - 1
  /\ UNCHANGED <<world, resizeVars, inputVars, outputVars, left, forwarded, masterReady,
                 runVars, pc, events>>

Writes ==
  /\ child # "none" /\ slave = "open"
  /\ written < MaxOutput
  /\ written - taken < OutCap
  /\ written' = written + 1
  /\ UNCHANGED <<userVars, child, slave, mainVars>>

\* The child ends; a process it left behind may keep the terminal open.
ChildExits ==
  /\ child = "running"
  /\ child' = "exited"
  /\ slave' \in {slave, "closed"}
  /\ UNCHANGED <<userVars, written, mainVars>>

\* The last process closes the terminal, which the child may survive.
SlaveCloses ==
  /\ child # "none" /\ slave = "open"
  /\ slave' = "closed"
  /\ UNCHANGED <<userVars, child, written, mainVars>>
--------------------------------------------------------------------------------
(* The main thread: run *)

Event(kind, what, seq, keys) ==
  [kind |-> kind, what |-> what, seq |-> seq, keys |-> keys]

Send(kind, what, seq, keys) ==
  events' = Append(events, Event(kind, what, seq, keys))

Goto(place) == pc' = place

\* SessionInit goes out before there is a terminal.
SendInit ==
  /\ pc = "start"
  /\ Send("SessionInit", "init", 0, {})
  /\ Goto(IF direct THEN "command" ELSE "size")
  /\ UNCHANGED <<world, local>>

\* A direct command is recorded as if it had been pasted, with seq 1.
RecordCommand ==
  /\ pc = "command"
  /\ Send("KeystrokeInput", "command", 1, {})
  /\ Goto("size")
  /\ UNCHANGED <<world, local>>

\* The size of the window is asked for: known, or not, when standard output is not
\* a terminal or the ioctl fails.
GetFirstSize(known) ==
  /\ pc = "size"
  /\ ws' = known
  /\ missed' = ~known
  /\ Goto("open")
  /\ UNCHANGED <<world, resizeFlag, sized, dataVars, masterReady, runVars, events>>

\* openpty makes the terminal with that size, and fork the child.
OpenAndFork ==
  /\ pc = "open"
  /\ child' = "running"
  /\ sized' = ws
  /\ ws' = FALSE
  /\ Goto("guard")
  /\ UNCHANGED <<userVars, slave, written, resizeFlag, missed, dataVars, masterReady,
                 runVars, events>>

\* RawTerminalGuard and the handler of SIGWINCH.
EnterRawMode ==
  /\ pc = "guard"
  /\ Goto("top")
  /\ UNCHANGED <<world, local, events>>

\* openpty, fork, tcgetattr, tcsetattr or signal fails: ? returns from run.
SetupFails ==
  /\ pc \in {"open", "guard"}
  /\ Goto("failed")
  /\ broken' = TRUE
  /\ UNCHANGED <<world, loopVars, direct, events>>
--------------------------------------------------------------------------------
(* The main thread: event_loop *)

\* The top of the loop with RESIZE_FLAG false.
EnterSelect ==
  /\ pc = "top"
  /\ ~resizeFlag
  /\ Goto("select")
  /\ UNCHANGED <<world, local, events>>

\* RESIZE_FLAG.swap(false).
TakeResize ==
  /\ pc = "top"
  /\ resizeFlag
  /\ resizeFlag' = FALSE
  /\ Goto("getsize")
  /\ UNCHANGED <<world, ws, sized, missed, dataVars, masterReady, runVars, events>>

GetSize ==
  /\ pc = "getsize"
  /\ ws' = TRUE
  /\ missed' = FALSE
  /\ Goto("setsize")
  /\ UNCHANGED <<world, resizeFlag, sized, dataVars, masterReady, runVars, events>>

\* Standard output is not a terminal, or the ioctl fails: the flag is cleared all
\* the same, and the terminal keeps its size.
GetSizeFails ==
  /\ pc = "getsize"
  /\ missed' = ~(sized \/ resizeFlag)
  /\ Goto("select")
  /\ UNCHANGED <<world, resizeFlag, ws, sized, dataVars, masterReady, runVars, events>>

\* SetSize with the flag cleared when the size has been applied.
SetSizeThenClear ==
  /\ pc = "setsize"
  /\ sized' = ws
  /\ ws' = FALSE
  /\ resizeFlag' = FALSE
  /\ Goto("select")
  /\ UNCHANGED <<world, missed, dataVars, masterReady, runVars, events>>

SetSize ==
  /\ pc = "setsize"
  /\ sized' = ws
  /\ ws' = FALSE
  /\ Goto("select")
  /\ UNCHANGED <<world, resizeFlag, missed, dataVars, masterReady, runVars, events>>

StdinReady == stdin_open /\ (total < typed \/ stdin # "open")
MasterReadable == taken < written \/ slave = "closed"

\* SelectReady that watches the master only once standard input is closed.
SelectStdinFirst ==
  /\ pc = "select"
  /\ IF stdin_open THEN StdinReady ELSE MasterReadable
  /\ masterReady' = (~stdin_open /\ MasterReadable)
  /\ Goto(IF StdinReady THEN "stdin" ELSE "master")
  /\ UNCHANGED <<world, resizeVars, dataVars, runVars, events>>

\* select returns.  What it says of the master is used after standard input
\* has been served.
SelectReady ==
  /\ pc = "select"
  /\ StdinReady \/ MasterReadable
  /\ masterReady' = MasterReadable
  /\ Goto(IF StdinReady THEN "stdin" ELSE "master")
  /\ UNCHANGED <<world, resizeVars, dataVars, runVars, events>>

\* SIGWINCH arrives while select waits: EINTR.  One that arrives just before does
\* not wake it.
SelectInterrupted ==
  /\ pc = "select"
  /\ ~StdinReady /\ ~MasterReadable
  /\ resizeFlag
  /\ Goto("top")
  /\ UNCHANGED <<world, local, events>>

\* select fails in another way.
SelectFails ==
  /\ pc = "select"
  /\ Goto("wait")
  /\ broken' = TRUE
  /\ UNCHANGED <<world, loopVars, direct, events>>

matches_password_prompt == recent_child_output

\* tcgetattr on the master: it may fail once the terminal is closed.
is_password_input_mode(modes) ==
  \/ modes = "secret"
  \/ modes \in {"raw", "unknown"} /\ matches_password_prompt

ModesRead == TermMode \cup (IF slave = "closed" THEN {"unknown"} ELSE {})

\* The keys one read returns, by their positions.
ChunkEnd == Min({total + ReadSize, typed})
Chunk == (total + 1)..ChunkEnd

\* ReadChunk that counts the size of the buffer instead of what was read.
ReadChunkFull(secret, stop) ==
  /\ pc = "stdin"
  /\ Chunk # {}
  /\ stop \in Chunk \cup {0}
  /\ \E modes \in ModesRead : secret = is_password_input_mode(modes)
  /\ in_seq' = in_seq + 1
  /\ total' = total + ReadSize
  /\ reads' = Append(reads, [from |-> total + 1, upTo |-> ChunkEnd,
                           secret |-> secret, stop |-> stop])
  /\ left' = ChunkEnd - total
  /\ Goto("forward")
  /\ UNCHANGED <<world, resizeVars, stdin_open, taken, shown, lost, unread, forwarded,
                 masterReady, runVars>>

\* What every successful read does: the modes are looked up, seq and total_bytes
\* count the chunk whether it is recorded or not, and it is forwarded next.
ReadChunk(secret, stop) ==
  /\ pc = "stdin"
  /\ Chunk # {}
  /\ stop \in Chunk \cup {0}
  /\ \E modes \in ModesRead : secret = is_password_input_mode(modes)
  /\ in_seq' = in_seq + 1
  /\ total' = ChunkEnd
  /\ reads' = Append(reads, [from |-> total + 1, upTo |-> ChunkEnd,
                           secret |-> secret, stop |-> stop])
  /\ left' = ChunkEnd - total
  /\ Goto("forward")
  /\ UNCHANGED <<world, resizeVars, stdin_open, taken, shown, lost, unread, forwarded,
                 masterReady, runVars>>

\* Outside password mode the chunk is recorded, with secrets in it masked.
RecordChunk ==
  /\ ReadChunk(FALSE, 0)
  /\ ~in_password_mode
  /\ Send("KeystrokeInput", "keys", in_seq', Chunk)
  /\ UNCHANGED <<in_password_mode, recent_child_output>>

\* Part of a password: nothing is recorded.
HideChunk ==
  /\ \E secret \in BOOLEAN : ReadChunk(secret, 0) /\ (secret \/ in_password_mode)
  /\ in_password_mode' = TRUE
  /\ UNCHANGED <<recent_child_output, events>>

\* EndPassword that does not leave password mode.
EndPasswordKeepsMode ==
  /\ \E secret \in BOOLEAN, stop \in Chunk :
       ReadChunk(secret, stop) /\ (secret \/ in_password_mode)
  /\ Send("KeystrokeInput", "placeholder", in_seq', {})
  /\ in_password_mode' = TRUE
  /\ recent_child_output' = FALSE

\* EndPassword that records nothing.
EndPasswordSilently ==
  /\ \E secret \in BOOLEAN, stop \in Chunk :
       ReadChunk(secret, stop) /\ (secret \/ in_password_mode)
  /\ UNCHANGED events
  /\ in_password_mode' = FALSE
  /\ recent_child_output' = FALSE

\* The end of a password stands for all of it, as [REDACTED:PASSWORD] or ^C; what
\* follows the end in the same chunk is not recorded either.
EndPassword ==
  /\ \E secret \in BOOLEAN, stop \in Chunk :
       ReadChunk(secret, stop) /\ (secret \/ in_password_mode)
  /\ Send("KeystrokeInput", "placeholder", in_seq', {})
  /\ in_password_mode' = FALSE
  /\ recent_child_output' = FALSE

\* The second half of an iteration is for the master, if select reported it.
AfterStdin == IF masterReady THEN "master" ELSE "top"

\* read returns 0: standard input is not looked at any more, and the child is
\* not told.
StdinEnds ==
  /\ pc = "stdin"
  /\ Chunk = {} /\ stdin = "eof"
  /\ stdin_open' = FALSE
  /\ Goto(AfterStdin)
  /\ UNCHANGED <<world, resizeVars, total, in_seq, in_password_mode, reads, outputVars,
                 forwardVars, masterReady, runVars, events>>

\* StdinFails that reports the end of the session before the wait does so again.
StdinFailsEnds ==
  /\ pc = "stdin"
  /\ stdin = "error"
  /\ Send("SessionEnd", "end", total, {})
  /\ Goto("wait")
  /\ broken' = TRUE
  /\ UNCHANGED <<world, loopVars, direct>>

\* read fails: the loop ends at once, whatever the master has.
StdinFails ==
  /\ pc = "stdin"
  /\ stdin = "error"
  /\ Goto("wait")
  /\ broken' = TRUE
  /\ UNCHANGED <<world, loopVars, direct, events>>

\* write copies as long as the terminal has room, and blocks when it has none.
ForwardKey ==
  /\ pc = "forward"
  /\ slave = "open"
  /\ unread < InCap
  /\ forwarded' = Append(forwarded, total - left + 1)
  /\ unread' = unread + 1
  /\ left' = left - 1
  /\ Goto(IF left = 1 THEN AfterStdin ELSE "forward")
  /\ UNCHANGED <<world, resizeVars, inputVars, outputVars, masterReady, runVars, events>>

\* The rest of the chunk is dropped: EIO from a closed terminal, or a short
\* count when SIGWINCH interrupts a write that has begun.  The result is not
\* looked at.
WriteFails ==
  /\ pc = "forward"
  /\ \/ slave = "closed"
     \/ unread = InCap /\ resizeFlag /\ left < Last(reads).upTo - Last(reads).from + 1
  /\ left' = 0
  /\ Goto(AfterStdin)
  /\ UNCHANGED <<world, resizeVars, inputVars, outputVars, unread, forwarded, masterReady,
                 runVars, events>>

\* Some of the output there is is read and remembered: it may ask for a password,
\* and it may push what did out of the last 1024 bytes.
ReadOutput ==
  /\ pc = "master"
  /\ \E n \in (taken + 1)..written : taken' = n
  /\ \E asks \in BOOLEAN, forgets \in BOOLEAN :
       recent_child_output' = (asks \/ (recent_child_output /\ ~forgets))
  /\ Goto("output")
  /\ UNCHANGED <<world, resizeVars, inputVars, shown, lost, forwardVars, masterReady,
                 runVars, events>>

\* It is written to standard output.  write waits until somebody takes it, which
\* may be never (a full pipe, a terminal that is held).
WriteOutput ==
  /\ pc = "output"
  /\ shown' = taken - lost
  /\ Goto("top")
  /\ UNCHANGED <<world, resizeVars, inputVars, recent_child_output, taken, lost, forwardVars,
                 masterReady, runVars, events>>

\* write fails or writes a part only (an error of the terminal or the pipe, a
\* signal): its result is not looked at, and the rest is never written.
WriteOutputFails ==
  /\ pc = "output"
  /\ \E n \in shown..(taken - lost - 1) : shown' = n /\ lost' = taken - n
  /\ Goto("top")
  /\ UNCHANGED <<world, resizeVars, inputVars, recent_child_output, taken, forwardVars,
                 masterReady, runVars, events>>

\* MasterEnds that tries again after EIO.
MasterRetries ==
  /\ pc = "master"
  /\ taken = written /\ slave = "closed"
  /\ Goto("top")
  /\ UNCHANGED <<world, local, events>>

\* The terminal is closed and nothing is left to read: 0 or EIO.
MasterEnds ==
  /\ pc = "master"
  /\ taken = written /\ slave = "closed"
  /\ Goto("wait")
  /\ UNCHANGED <<world, local, events>>

\* waitpid returns, SessionEnd is sent and the Sender is dropped.
WaitForChild ==
  /\ pc = "wait"
  /\ child = "exited"
  /\ Send("SessionEnd", "end", total, {})
  /\ Goto("ended")
  /\ UNCHANGED <<world, local>>
--------------------------------------------------------------------------------
User ==
  \/ Type
  \/ \E how \in {"eof", "error"} : CloseStdin(how)
  \/ ResizeWindow

Child ==
  \/ ChildReads
  \/ Writes
  \/ ChildExits
  \/ SlaveCloses

Setup ==
  \/ SendInit \/ RecordCommand
  \/ \E known \in BOOLEAN : GetFirstSize(known)
  \/ OpenAndFork \/ EnterRawMode

Loop ==
  \/ EnterSelect \/ TakeResize \/ GetSize \/ GetSizeFails \/ SetSize
  \/ SelectReady
  \/ RecordChunk \/ HideChunk \/ EndPassword
  \/ StdinEnds \/ StdinFails
  \/ ForwardKey \/ WriteFails
  \/ ReadOutput \/ MasterEnds
  \/ WaitForChild

\* The steps the reader of standard output has a part in.
Screen == WriteOutput \/ WriteOutputFails

Errors == SetupFails \/ SelectInterrupted \/ SelectFails

Next == User \/ Child \/ Setup \/ Loop \/ Screen \/ Errors

Spec == Init /\ [][Next]_vars

\* The main thread runs whenever it is not blocked.  Nothing makes anybody type or
\* take standard output, the child read its input or end, or a call fail.
FairSpec == Spec /\ WF_vars(Setup \/ Loop)
--------------------------------------------------------------------------------
(* Properties *)

\* Types, and the bounds of the queues.
TypeOK ==
  /\ typed \in 0..MaxTyped
  /\ stdin \in {"open", "eof", "error"}
  /\ child \in {"none", "running", "exited"}
  /\ slave \in {"open", "closed"}
  /\ unread \in 0..InCap
  /\ written \in 0..MaxOutput
  /\ pc \in {"start", "command", "size", "open", "guard", "failed", "top", "getsize",
             "setsize", "select", "stdin", "forward", "master", "output", "wait", "ended"}
  /\ {direct, resizeFlag, ws, sized, missed, stdin_open, masterReady, in_password_mode,
      recent_child_output, broken} \subseteq BOOLEAN
  /\ total \in 0..typed
  /\ in_seq = Len(reads)
  /\ left \in 0..ReadSize
  /\ taken \in 0..written /\ written - taken <= OutCap
  /\ shown \in 0..taken /\ lost \in 0..(taken - shown)

ChunkOf(r) == r.from..r.upTo

\* The events of the k-th chunk: seq is the number of the chunk, counted from 1.
Recorded(k) == { e \in ToSet(events) : e.what \in {"keys", "placeholder"} /\ e.seq = k }

Verbatim(k) == \E e \in Recorded(k) : e.keys = ChunkOf(reads[k])

\* Enter or Ctrl-C is in the chunk.
Ends(r) == r.stop # 0

\* The k-th chunk is read in password mode: some chunk up to it began a password
\* and none since has ended it.
InPasswordMode(k) ==
  \E j \in 1..k : reads[j].secret /\ \A i \in j..(k - 1) : ~Ends(reads[i])

\* A key of the k-th chunk is one of a password, its Enter or Ctrl-C included.
OfPassword(k, n) == InPasswordMode(k) /\ (Ends(reads[k]) => n <= reads[k].stop)

\* It was typed or pasted after the end of a password and read together with it.
AfterPassword(k, n) == InPasswordMode(k) /\ Ends(reads[k]) /\ n > reads[k].stop

InRecord(n) == \E e \in ToSet(events) : e.what = "keys" /\ n \in e.keys

\* Every key of a password is kept out of the record, from the first chunk read in
\* password input mode to the Enter or Ctrl-C, although the terminal may have
\* changed its mode meanwhile; and the keys after it are recorded again, but not
\* those that were read in the same chunk as the end: a command pasted together
\* with the password is missing from the record as well, and nothing else is.
HiddenKeys ==
  \A k \in DOMAIN reads : \A n \in ChunkOf(reads[k]) :
    ~InRecord(n) <=> OfPassword(k, n) \/ AfterPassword(k, n)

\* What reaches the child is in the record before it does: each key forwarded
\* belongs to a chunk that was recorded, or hidden in password mode, whose end
\* has an event of its own; and keys are forwarded in the order typed.
ForwardedIsRecorded ==
  /\ \A n \in ToSet(forwarded) : \E k \in DOMAIN reads :
       /\ n \in ChunkOf(reads[k])
       /\ Verbatim(k) \/ (Ends(reads[k]) => Recorded(k) # {})
  /\ \A i, j \in DOMAIN forwarded : i < j => forwarded[i] < forwarded[j]

\* A change of the window size is applied, or about to be, or still flagged: a
\* SIGWINCH between two of the steps is not lost.  Missed are only a resize
\* between the first look at the window and the installation of the handler, and
\* one whose size could not be read, until the next that can.
ResizeNotLost ==
  \/ sized
  \/ resizeFlag
  \/ missed
  \/ pc \in {"start", "command", "size", "failed", "getsize"}
  \/ pc \in {"open", "setsize"} /\ ws

LoopLeft == pc \in {"wait", "ended", "failed"}

\* The child lets its input queue fill up, and the write to the master waits.
Stuck == pc = "forward" /\ unread = InCap /\ slave = "open"

\* No write to standard output waits for ever.
OutputIsTaken == []<>(pc # "output")

\* As long as the child takes its input and standard output is taken, everything
\* typed is read, and everything the child writes is read and shown, however much
\* comes from the other side: also its last words, which are still in the terminal
\* when it is gone.  Output is lost only where a write to standard output failed.
Responsive ==
  OutputIsTaken =>
    /\ \A n \in 1..MaxTyped : typed >= n ~> total >= n \/ LoopLeft \/ Stuck
    /\ \A n \in 1..MaxOutput : written >= n ~> shown + lost >= n \/ broken \/ Stuck

\* Once the child is gone and its terminal is closed the session ends with
\* SessionEnd, whatever standard input does, if its last output is taken.
SessionEnds ==
  OutputIsTaken =>
    (child = "exited" /\ slave = "closed" ~> pc \in {"ended", "failed"})

\* The main thread of Agent, which knows the events only by their kinds.
Main == INSTANCE Agent WITH
  MaxEvents <- MaxTyped + 3, BatchMaxSize <- 1,
  hasUrl <- FALSE, hasSpool <- FALSE,
  proc <- IF pc = "failed" THEN "killed" ELSE "alive",
  pty <- IF pc \in {"start", "ended"} THEN pc ELSE "loop",
  sent <- Len(events),
  chan <- [i \in DOMAIN events |-> [kind |-> events[i].kind, n |-> i]],
  up <- "recv", batch <- << >>, due <- FALSE, leaving <- FALSE,
  spool <- << >>, spoolFailed <- FALSE, posted <- << >>, acked <- << >>

\* The loop emits what Agent's main thread may emit: SessionInit first and once,
\* input, and SessionEnd last and once, after which nothing follows.
ImplementsMainThread == Main!Spec
================================================================================
