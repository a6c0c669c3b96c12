-------------------------------- MODULE Watcher --------------------------------
(***************************************************************************)
(* The notifier process, argus notify --daemon: SessionWatcher of          *)
(* argus-analyzer/src/watcher.rs.  Each cycle lists the sessions and takes *)
(* them one by one: read the events, read the checkpoint, decide, send the *)
(* report to Telegram, record a new checkpoint.  The collector stores      *)
(* events all the while, so what one step has read may be old at the next. *)
(*                                                                         *)
(* All sessions are on one host, so that a summary alone is the key of the *)
(* debounce map.                                                           *)
(***************************************************************************)
EXTENDS Trigger, FiniteSetsExt

CONSTANTS
  Session,          \* session ids: numbers, the newer the larger
  Input,            \* the classes of events that follow SessionInit
  ListLimit,        \* sessions of a cycle, 100 in check_all_sessions
  MaxCommands,      \* commands of a summary, 10 in NotificationReport::build
  MaxEvents,        \* bound: stored events, of all sessions together
  MaxFaults         \* bound: failed reads, sends and writes, and restarts

ASSUME WatcherAssumption ==
  /\ Session \subseteq Nat
  /\ Input \subseteq EventClass
  /\ ListLimit \in Nat /\ MaxEvents \in Nat /\ MaxFaults \in Nat
  /\ MaxCommands \in Nat \ {0}

VARIABLES
  stored,    \* the events of each session, as get_session_events returns them
  idle,      \* how long each session has been quiet
  damaged,   \* sessions whose verify_session_integrity fails
  notified,  \* what get_last_notified_seq returns for each session
  dry_run,   \* --dry-run
  pc,        \* sleep, fetch, decide, send or record
  queue,     \* the sessions the cycle has still to look at
  events,    \* the events read for the first of them
  report,    \* the report about them
  hot, warm, \* recent_dispatches: the summaries less than 30 s and less than
             \* 180 s old; an older one no longer counts
  handled,   \* history: the events covered by a report that send_report was
             \* done with, well or with an error, or that was dropped as a
             \* duplicate or as empty
  times,     \* history: for how many reports with the event it returned Ok
  made,      \* history: the reports that were made of each session
  attempted, \* history: the summaries of the reports given to send_report
  faults     \* failures of a read, a send or a write, and restarts, so far

envVars == <<stored, idle, damaged>>
debounceVars == <<hot, warm>>
cycleVars == <<pc, queue, events, report>>
historyVars == <<handled, times, made, attempted>>
vars == <<envVars, notified, dry_run, cycleVars, debounceVars, historyVars, faults>>

\* shown: the entries of the first commands; omitted: how many more there were.
NoSummary == [shown |-> << >>, omitted |-> 0]

\* first and latest: the events it is about.
NoReport ==
  [first |-> 1, latest |-> 0, summary |-> NoSummary, security |-> FALSE, ai |-> FALSE]

Init ==
  /\ stored = [s \in Session |-> << >>]
  /\ idle = [s \in Session |-> "busy"]
  /\ damaged = {}
  /\ notified = [s \in Session |-> 0]
  /\ dry_run \in BOOLEAN
  /\ pc = "sleep"
  /\ queue = << >>
  /\ events = << >>
  /\ report = NoReport
  /\ hot = {}
  /\ warm = {}
  /\ handled = [s \in Session |-> {}]
  /\ times = [s \in Session |-> [i \in 1..MaxEvents |-> 0]]
  /\ made = [s \in Session |-> {}]
  /\ attempted = {}
  /\ faults = 0
--------------------------------------------------------------------------------
(* The collector, the clock and the database file *)

Total == SumFunction([s \in Session |-> Len(stored[s])])

\* insert_batch commits one more event of a session.
StoreEvent(s, e) ==
  /\ Total < MaxEvents
  /\ stored[s] = << >> <=> e = "init"
  /\ stored' = [stored EXCEPT ![s] = Append(@, e)]
  /\ idle' = [idle EXCEPT ![s] = "busy"]
  /\ UNCHANGED <<damaged, notified, dry_run, cycleVars, debounceVars, historyVars, faults>>

\* A session stays quiet past the next threshold.
GrowIdle(s) ==
  /\ stored[s] # << >>
  /\ idle[s] # "ai"
  /\ idle' = [idle EXCEPT ![s] = IF @ = "busy" THEN "shell" ELSE "ai"]
  /\ UNCHANGED <<stored, damaged, notified, dry_run, cycleVars, debounceVars, historyVars, faults>>

\* 30 s, then 180 s, pass after a summary was put into recent_dispatches.
Cool(x) ==
  /\ \/ x \in hot /\ warm' = warm \cup {x}
     \/ x \in warm /\ warm' = warm \ {x}
  /\ hot' = hot \ {x}
  /\ UNCHANGED <<envVars, notified, dry_run, cycleVars, historyVars, faults>>

\* The session does not verify any more: a stored row is changed behind the
\* collector's back, or was committed after a failed SELECT (Misreads of AuditStore).
Damage(s) ==
  /\ stored[s] # << >>
  /\ s \notin damaged
  /\ damaged' = damaged \cup {s}
  /\ UNCHANGED <<stored, idle, notified, dry_run, cycleVars, debounceVars, historyVars, faults>>
--------------------------------------------------------------------------------
(* One cycle: check_all_sessions *)

\* The listings of the k newest sessions of a set, newest first: there is one.
Newest(sids, k) ==
  { list \in SeqOf(sids, k) :
      /\ \A i, j \in 1..Len(list) : i < j => list[i] > list[j]
      /\ \A s \in sids \ ToSet(list) : Len(list) = k /\ \A i \in 1..k : s < list[i] }

\* list_sessions
Tick ==
  /\ pc = "sleep"
  /\ pc' = "fetch"
  /\ UNCHANGED <<envVars, notified, dry_run, events, report, debounceVars, historyVars, faults>>
  /\ queue' \in Newest({s \in Session : stored[s] # << >>}, ListLimit)
  /\ queue' # << >>

\* Where the loop goes after it has done with a session.
NextSession ==
  /\ queue' = Tail(queue)
  /\ pc' = IF Tail(queue) = << >> THEN "sleep" ELSE "fetch"
  /\ events' = << >>
  /\ report' = NoReport

\* get_session_events
Fetch ==
  /\ pc = "fetch"
  /\ events' = stored[Head(queue)]
  /\ pc' = "decide"
  /\ UNCHANGED <<envVars, notified, dry_run, queue, report, debounceVars, historyVars, faults>>

Fault ==
  /\ faults < MaxFaults
  /\ faults' = faults + 1

\* get_session_events fails: continue.
FetchFails ==
  /\ pc = "fetch"
  /\ Fault
  /\ NextSession
  /\ UNCHANGED <<envVars, notified, dry_run, debounceVars, historyVars>>

\* What is left of a command: its first 100 characters.
entry(command) == IF command = "longalert" THEN "long" ELSE command

\* key_activities: of the distinct activities, in the order of their first
\* occurrence, the entries of the first MaxCommands and the number of the others.
key_activities(acts) ==
  LET items == Distinct(acts)
      n == IF Len(items) > MaxCommands THEN MaxCommands ELSE Len(items)
  IN  [shown |-> [i \in 1..n |-> entry(items[i])], omitted |-> Len(items) - n]

\* NotificationReport::build, and is_security.
Build(last, tampered) ==
  LET new == unnotified_events(events, last) IN
    [ first    |-> last + 1,
      latest   |-> latest_seq(events, last),
      summary  |-> key_activities(activities(new)),
      security |-> has_alert(new) \/ tampered,
      ai       |-> is_ai(events, last) ]

\* should_notify of check_all_sessions.
Triggered(s, last) ==
  \/ should_notify(events, last, idle[s])
  \/ s \in damaged /\ unnotified_events(events, last) # << >>

\* is_duplicate with the host alone as the key.
DuplicateOnHost(r) == hot # {} \/ (~r.security /\ warm # {})

\* The entry of recent_dispatches is younger than debounce_limit.
is_duplicate(r) == r.summary \in hot \/ (~r.security /\ r.summary \in warm)

Covered(r) == r.first .. r.latest

\* is_empty without the security section.
EmptyDespiteAlert(r) == r.summary.shown = << >>

\* There is nothing to tell: no command and nothing for the security section.
is_empty(r) == r.summary.shown = << >> /\ ~r.security

\* What happens to a report before it is sent: it is dropped as empty or as a
\* duplicate, or its summary is entered into recent_dispatches.
Debounce(s, r) ==
  \/ /\ is_empty(r) \/ is_duplicate(r)
     /\ handled' = [handled EXCEPT ![s] = @ \cup Covered(r)]
     /\ pc' = "record"
     /\ UNCHANGED <<debounceVars, attempted>>
  \/ /\ ~is_empty(r)
     /\ ~is_duplicate(r)
     /\ hot' = hot \cup {r.summary}
     /\ warm' = warm \ {r.summary}
     /\ attempted' = attempted \cup {r.summary}
     /\ pc' = "send"
     /\ UNCHANGED handled

\* Everything from the checkpoint read, here with its result, to the send.
DecideFrom(last) ==
  LET s == Head(queue) IN
    /\ pc = "decide"
    /\ UNCHANGED <<envVars, notified, dry_run, times>>
    /\ \/ /\ ~Triggered(s, last) \/ dry_run
          /\ NextSession
          /\ UNCHANGED <<debounceVars, handled, made, attempted>>
       \/ /\ Triggered(s, last)
          /\ ~dry_run
          /\ report' = Build(last, s \in damaged)
          /\ made' = [made EXCEPT ![s] = @ \cup {report'}]
          /\ Debounce(s, report')
          /\ UNCHANGED <<queue, events>>

Decide == DecideFrom(notified[Head(queue)]) /\ UNCHANGED faults

\* get_last_notified_seq turns every error into 0.
DecideWithoutCheckpoint == Fault /\ DecideFrom(0)

\* send_report returns Ok: Telegram took the message, or no bot token is set and
\* nothing is sent.
Send ==
  /\ pc = "send"
  /\ handled' = [handled EXCEPT ![Head(queue)] = @ \cup Covered(report)]
  /\ times' = [times EXCEPT ![Head(queue)] =
                 [i \in 1..MaxEvents |-> IF i \in Covered(report) THEN @[i] + 1 ELSE @[i]]]
  /\ pc' = "record"
  /\ UNCHANGED <<envVars, notified, dry_run, queue, events, report, debounceVars, made, attempted,
                 faults>>

\* send_report returns an error, which is logged.
SendFails ==
  /\ pc = "send"
  /\ Fault
  /\ handled' = [handled EXCEPT ![Head(queue)] = @ \cup Covered(report)]
  /\ pc' = "record"
  /\ UNCHANGED <<envVars, notified, dry_run, queue, events, report, debounceVars, times, made,
                 attempted>>

\* Record that asks for the latest sequence again.
RecordLatest ==
  /\ pc = "record"
  /\ notified' = [notified EXCEPT ![Head(queue)] = Len(stored[Head(queue)])]
  /\ NextSession
  /\ UNCHANGED <<envVars, dry_run, debounceVars, historyVars, faults>>

\* Record of the first event of the report.
RecordFirst ==
  /\ pc = "record"
  /\ notified' = [notified EXCEPT ![Head(queue)] = report.first]
  /\ NextSession
  /\ UNCHANGED <<envVars, dry_run, debounceVars, historyVars, faults>>

\* record_notification
Record ==
  /\ pc = "record"
  /\ notified' = [notified EXCEPT ![Head(queue)] = report.latest]
  /\ NextSession
  /\ UNCHANGED <<envVars, dry_run, debounceVars, historyVars, faults>>

\* record_notification returns an error, which is logged.
RecordFails ==
  /\ pc = "record"
  /\ Fault
  /\ NextSession
  /\ UNCHANGED <<envVars, notified, dry_run, debounceVars, historyVars>>

\* The process ends anywhere in the cycle and is started again.
Restart ==
  /\ Fault
  /\ pc' = "sleep"
  /\ queue' = << >>
  /\ events' = << >>
  /\ report' = NoReport
  /\ hot' = {}
  /\ warm' = {}
  /\ UNCHANGED <<envVars, notified, dry_run, historyVars>>
--------------------------------------------------------------------------------
Environment ==
  \/ \E s \in Session, e \in {"init"} \cup Input : StoreEvent(s, e)
  \/ \E s \in Session : GrowIdle(s) \/ Damage(s)
  \/ \E x \in hot \cup warm : Cool(x)

LocalStep ==
  \/ Tick
  \/ Fetch
  \/ FetchFails
  \/ Decide
  \/ DecideWithoutCheckpoint
  \/ Record
  \/ RecordFails

Cycle == LocalStep \/ Send \/ SendFails

Next == Environment \/ Cycle \/ Restart

Spec == Init /\ [][Next]_vars

\* The ticker goes on, what a cycle does on this host comes to its end, and a
\* quiet session gets older.  Nothing makes send_report return: its request has no
\* timeout.
Fairness ==
  /\ WF_vars(LocalStep)
  /\ \A s \in Session : WF_vars(GrowIdle(s))

FairSpec == Spec /\ Fairness
--------------------------------------------------------------------------------
(* Properties *)

Summary == [shown : Seq(EventClass), omitted : Nat]

Report ==
  [ first : Nat \ {0}, latest : Nat, summary : Summary, security : BOOLEAN, ai : BOOLEAN ]

\* Types of the watcher's state; no checkpoint is ahead of the session.
TypeOK ==
  /\ stored \in [Session -> Seq(EventClass)]
  /\ idle \in [Session -> IdleLevel]
  /\ damaged \subseteq Session
  /\ notified \in [Session -> Nat]
  /\ dry_run \in BOOLEAN
  /\ pc \in {"sleep", "fetch", "decide", "send", "record"}
  /\ queue \in Seq(Session)
  /\ events \in Seq(EventClass)
  /\ report \in Report
  /\ hot \cap warm = {}
  /\ handled \in [Session -> SUBSET Nat]
  /\ times \in [Session -> [1..MaxEvents -> Nat]]
  /\ made \in [Session -> SUBSET Report]
  /\ faults \in 0..MaxFaults
  /\ \A s \in Session : notified[s] <= Len(stored[s])

\* No event is passed over: a checkpoint covers an event only when the event was
\* in a report that send_report has returned from, well or with an error, or in one
\* that was dropped as empty or as a duplicate.  Events stored while the cycle runs,
\* and a restart between the report and the checkpoint, make no exception.
NothingSkipped ==
  \A s \in Session : 1..notified[s] \subseteq handled[s]

\* send_report returns Ok for at most one report with an event, unless a failure lies between: a
\* restart before the checkpoint is written, or a checkpoint that could not be
\* read or written.
ReportedOnce ==
  \A s \in Session : \A i \in 1..MaxEvents : times[s][i] <= 1 + faults

\* What the rules object to, a command or an exec, is not suppressed as noise or
\* because there is no command to show: once a checkpoint covers it, there is a
\* report about it that was given to send_report, or that the debounce map dropped
\* for one with the same summary that was.  The code gives no more: the summary has
\* no execs, MaxCommands commands and 100 characters of each, so that the other
\* report may have been about harmless commands.
AlertIsReported ==
  \A s \in Session : \A i \in 1..notified[s] :
    inspect_event(stored[s][i]) =>
      \E r \in made[s] : i \in Covered(r) /\ r.summary \in attempted

\* A checkpoint never moves back, whatever was read or could not be read before
\* it was written.
CheckpointMonotone ==
  [][\A s \in Session : notified'[s] >= notified[s]]_vars

\* A command or an alert above the checkpoint, one that is worth a report.
Pending(s) ==
  \E i \in notified[s] + 1 .. Len(stored[s]) :
    stored[s][i] \in {"cmd", "ai", "alert", "long", "longalert", "execalert"}

\* There are so many newer sessions that list_sessions leaves it out.
Unlisted(s) == Cardinality({t \in Session : t > s /\ stored[t] # << >>}) >= ListLimit

\* No call of send_report hangs for ever.
SendsReturn == []<>(pc # "send")

\* Every command worth a report and every alert gets its checkpoint in the end, at
\* once, when the session ends, or when it has been quiet long enough: as long as
\* every call of send_report returns, and unless the session falls off the list
\* before.  The code guarantees neither.
WorkIsReported ==
  SendsReturn => \A s \in Session : Pending(s) ~> ~Pending(s) \/ dry_run \/ Unlisted(s)

(* What a comment says and the program does not do *)

\* AI involvement is detected across the entire history of the session
\* (trigger.rs:167): a report of a session in which an AI tool was run is that
\* of an AI session.
AiIsGlobal ==
  pc \in {"send", "record"} /\ has_ai_activity(events) => report.ai
================================================================================
