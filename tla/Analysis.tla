-------------------------------- MODULE Analysis -------------------------------
(***************************************************************************)
(* A session as argus analyze and argus tree see it: the lines that        *)
(* reconstructor.rs finds in the chunks of input, the timeline into which  *)
(* correlator.rs merges them with the other events, and the process tree.  *)
(* An event is dated by its number.                                        *)
(***************************************************************************)
EXTENDS Naturals, FiniteSets, Sequences, Reconstructor, ProcessTree

CONSTANTS
  Pid,         \* process ids
  AiPid,       \* those that run an AI tool
  Outside,     \* the pid of a process that is not in the session
  MaxChunk,    \* bound: bytes in one chunk
  MaxWork      \* bound: what the session holds, see Work

ASSUME AnalysisAssumption ==
  /\ Pid \subseteq Nat /\ AiPid \subseteq Pid /\ Outside \in Nat \ Pid
  /\ MaxChunk \in Nat /\ MaxWork \in Nat

VARIABLES
  now,      \* number of events
  s,        \* the reconstructor after them
  input,    \* every byte, with the number and the kind of its event
  execs,    \* the ProcessExec events
  ended     \* the number of SessionEnd, 0 before

vars == <<now, s, input, execs, ended>>

\* SessionInit is event 1.
Init ==
  /\ now = 1
  /\ s = EmptySession
  /\ input = << >>
  /\ execs = << >>
  /\ ended = 0

\* A byte and a prompt count for three, an exec for four.
Work == 3 * Len(input) + 3 * Number(s.activities, PromptActivity) + 4 * Len(execs)

NextEvent(work) ==
  /\ ended = 0
  /\ Work + work <= MaxWork
  /\ now' = now + 1

\* The pieces of n bytes into which reads can cut UTF-8.
Chunks ==
  [n \in 1..MaxChunk |->
    { data \in [1..n -> Byte] :
        \A i \in 1..(n - 1) : data[i] = "lead" <=> data[i + 1] = "trail" }]

Input(n, paste) ==
  /\ NextEvent(3 * n)
  /\ \E data \in Chunks[n] :
       /\ data[1] = "trail" <=> input # << >> /\ Last(input).byte = "lead"
       /\ s' = IF paste THEN Paste(s, data, now') ELSE Keys(s, data, now')
       /\ input' = input \o [i \in 1..n |-> [byte |-> data[i], at |-> now', paste |-> paste]]
  /\ UNCHANGED <<execs, ended>>

ProcessExec(pid, ppid) ==
  /\ NextEvent(4)
  /\ s' = Exec(s, pid \in AiPid)
  /\ execs' = Append(execs, [pid |-> pid, ppid |-> ppid, at |-> now'])
  /\ UNCHANGED <<input, ended>>

PromptTrace ==
  /\ NextEvent(3)
  /\ s' = Prompt(s, now')
  /\ UNCHANGED <<input, execs, ended>>

SessionEnd ==
  /\ NextEvent(0)
  /\ s' = Finish(s, now')
  /\ ended' = now'
  /\ UNCHANGED <<input, execs>>

Next ==
  \/ \E n \in 1..MaxChunk, paste \in BOOLEAN : Input(n, paste)
  \/ \E pid \in Pid : \E ppid \in (Pid \cup {Outside}) \ {pid} : ProcessExec(pid, ppid)
  \/ PromptTrace
  \/ SessionEnd

Spec == Init /\ [][Next]_vars
--------------------------------------------------------------------------------
(* correlate_session *)

\* reconstruct(events) for the events so far; what is left at their end goes by the
\* last of them.
reconstruct == Finish(s, now)

\* The first byte of the line that ended with event n.
Since(n) ==
  LET earlier == { i \in DOMAIN input : input[i].byte = "enter" /\ input[i].at < n }
  IN  input[1 + Max({0} \cup earlier)].at

\* What an entry tells of began and was done at these events, which only the
\* property below looks at.
Entry(at, began, done) == [at |-> at, began |-> began, done |-> done]

TimelineEntry == [at : Nat, began : Nat, done : Nat]

\* In the order in which they are collected: login, execs, logout, activities.
Collected ==
  LET Of(a) == Entry(a.at, IF a \in PromptActivity THEN a.at ELSE Since(a.done), a.done)
      activities == reconstruct.activities
  IN  <<Entry(1, 1, 1)>>
      \o [i \in DOMAIN execs |-> Entry(execs[i].at, execs[i].at, execs[i].at)]
      \o (IF ended = 0 THEN << >> ELSE <<Entry(ended, ended, ended)>>)
      \o [i \in DOMAIN activities |-> Of(activities[i])]

\* sort_by_key is stable: an entry comes after all that are not later.
Sorted ==
  [t \in Seq(TimelineEntry) |-> [e \in TimelineEntry |->
     LET k == CHOOSE k \in 0..Len(t) : \A i \in DOMAIN t : t[i].at <= e.at <=> i <= k
     IN  InsertAt(t, k + 1, e)]]

timeline == Fold(Sorted, << >>, Collected)
--------------------------------------------------------------------------------
(* Properties *)

Bytes == [i \in DOMAIN input |-> input[i].byte]

\* Two events meet after the i-th byte, within an escape sequence, or within a
\* character of which one half was pasted.
CutAt(i) ==
  /\ input[i].at # input[i + 1].at
  /\ \/ Continues(Place(SubSeq(Bytes, 1, i)), Bytes[i + 1])
     \/ Bytes[i] = "lead" /\ (input[i].paste \/ input[i + 1].paste)

WellCut == \A i \in 1..(Len(input) - 1) : ~CutAt(i)

\* The lines found, without the prompts.
Lines(activities) ==
  LET typed == Filter(activities, TypedActivity)
  IN  [i \in DOMAIN typed |-> typed[i].line]

\* It does not matter how reads cut the input into events, within a line or within
\* a character: the lines found are those of the whole input read at once.  Only
\* an escape sequence must stay in one event, and a character in one paste.
ReadAsTyped ==
  WellCut => Lines(reconstruct.activities)
             = Lines(Finish(Keys(EmptySession, Bytes, 1), 1).activities)

\* Whatever was over before something else began stands before it in the timeline:
\* a line goes by its first key, so that it comes before what it started and after
\* what was finished before it was begun.
TimelineInOrder ==
  WellCut => LET t == timeline
             IN  \A i, j \in DOMAIN t : t[i].done < t[j].began => i < j

\* Every pid was always seen with the same parent.
OneParent == \A i, j \in DOMAIN execs : execs[i].pid = execs[j].pid => execs[i].ppid = execs[j].ppid

\* The k-th ancestor, as far as the session knows them.
Ancestor(pid, k) ==
  Repeat([child \in Nat |-> [n \in Nat |->
            IF child \in all_pids(execs) THEN nodes_ppid(execs, child) ELSE Outside]], pid, k)

Depth == Cardinality(all_pids(execs))

Execs(pid) == Number(execs, { e \in ExecEvent : e.pid = pid })

\* The nodes above the given depth.
Nodes(depth) ==
  Repeat([above \in Seq(ProcessNode) |-> [n \in Nat |-> above \o build_tree(execs, n - 1)]],
         << >>, depth)

\* How many of them are shown for a pid.
Shown(pid, depth) == Number(Nodes(depth), { path \in ProcessNode : Last(path) = pid })

\* Among the processes that are reached from the roots, none is below itself: they
\* can be given heights so that each is lower than every process it was started by.
NoCircle ==
  \E below \in SUBSET all_pids(execs) : \E height \in [below -> 0..(Depth - 1)] :
    /\ ToSet(root_pids(execs)) \subseteq below
    /\ \A i \in DOMAIN execs :
         execs[i].ppid \in below =>
           execs[i].pid \in below /\ height[execs[i].pid] < height[execs[i].ppid]

\* The recursion ends exactly when no process below a root is below itself, which
\* pids that are used again can bring about.  A process is left out only if its
\* ancestors, however far up, are all in the session: they form a circle, and no
\* root is above it.  When no pid changes its parent, a process is shown for each
\* of its execs below each node of its parent: twice for two execs, and four times
\* below a parent with two.
TreeShowsEveryProcess ==
  /\ build_tree(execs, Depth) = << >> <=> NoCircle
  /\ \A pid \in all_pids(execs) : Shown(pid, Depth) = 0 => Ancestor(pid, Depth) \in all_pids(execs)
  /\ OneParent =>
       \A pid \in all_pids(execs) :
         LET parent == nodes_ppid(execs, pid) IN
           Shown(pid, Depth)
           = Execs(pid) * (IF parent \in all_pids(execs) THEN Shown(parent, Depth) ELSE 1)
================================================================================
