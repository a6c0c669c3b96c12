-------------------------------- MODULE Trigger --------------------------------
(***************************************************************************)
(* The decision of argus-analyzer/src/trigger.rs: does what a session did  *)
(* since its last checkpoint call for a notification now?                  *)
(*                                                                         *)
(* An event is reduced to what the decision tells apart.  A keystroke      *)
(* event stands for complete lines: how keystrokes become commands         *)
(* (reconstructor.rs) is left out.                                         *)
(***************************************************************************)
EXTENDS Naturals, Sequences, SequencesExt, Subsequences

\* init, end       SessionInit, SessionEnd
\* keys            keystrokes that make no command: focus reports, queries
\* cmd             a command of no special kind
\* ai              a command that runs an AI tool
\* trivial, env    exit, pwd, w, ...; source, export, set -a && source
\* alert           a command the rules raise an alert for
\* long, longalert two commands of more than 100 characters that begin with the
\*                 same 100; the rules raise an alert for the second
\* exec, execai, execalert   ProcessExec: plain, of an AI tool, with an alert
\* prompt          PromptTrace
Command == {"cmd", "ai", "trivial", "env", "alert", "long", "longalert"}
EventClass ==
  Command \cup {"init", "end", "keys", "exec", "execai", "execalert", "prompt"}

\* How long the session has been quiet: less than shell_idle_secs, at least
\* that, at least ai_idle_secs.
IdleLevel == {"busy", "shell", "ai"}

\* RuleEngine::inspect_event returns an alert.
inspect_event(e) == e \in {"alert", "longalert", "execalert"}

\* The activities of KeystrokeReconstructor::reconstruct.
activities(events) == Filter(events, Command \cup {"prompt"})

total_commands(events) == Number(events, Command)

has_ai_activity(events) == \E e \in ToSet(events) : e \in {"ai", "execai", "prompt"}

has_alert(events) == \E e \in ToSet(events) : inspect_event(e)

check_noise(events) ==
  /\ ~has_alert(events)
  /\ LET done == ToSet(activities(events)) IN
       \/ total_commands(events) = 0
       \/ done \subseteq {"trivial"}
       \/ done \subseteq {"env"} /\ Len(activities(events)) <= 2

\* evaluate's unnotified_events: those numbered above the checkpoint.
unnotified_events(events, last) == SubSeq(events, last + 1, Len(events))

\* latest_seq counted on from the checkpoint, as if only new events were read.
LatestFromCheckpoint(events, last) == last + Len(events)

\* latest_seq numbered within the new events.
LatestOfNew(events, last) == Len(unnotified_events(events, last))

latest_seq(events, last) == IF Len(events) > last THEN Len(events) ELSE last

\* session_type.is_ai(): an AI process or a prompt anywhere in the session, or
\* any AI activity since the checkpoint.
is_ai(events, last) ==
  \/ \E e \in ToSet(events) : e \in {"execai", "prompt"}
  \/ has_ai_activity(unnotified_events(events, last))

\* IdleTimeout that must meet the threshold exactly.
IdleTimeoutExact(events, last, idle) ==
  idle = IF is_ai(events, last) THEN "ai" ELSE "shell"

\* The idle time reaches the threshold of the session's type.
IdleTimeout(events, last, idle) ==
  IF is_ai(events, last) THEN idle = "ai" ELSE idle \in {"shell", "ai"}

should_notify(events, last, idle) ==
  LET new == unnotified_events(events, last) IN
    /\ ~check_noise(new)
    /\ \/ has_alert(new)
       \/ "end" \in ToSet(events)
       \/ IdleTimeout(events, last, idle)
================================================================================
