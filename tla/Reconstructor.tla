------------------------------ MODULE Reconstructor ----------------------------
(***************************************************************************)
(* KeystrokeReconstructor of argus-analyzer/src/reconstructor.rs: the lines *)
(* a person entered, from the bytes of the recorded chunks.                *)
(*                                                                         *)
(* A byte is one of seven: a letter, Backspace, Enter, ESC, [, and the two *)
(* bytes of a character that takes two.  s is the state of reconstruct     *)
(* between two events; it is dated by the number of the event.             *)
(***************************************************************************)
EXTENDS Naturals, Sequences, SequencesExt, Subsequences

Byte == {"letter", "backspace", "enter", "esc", "[", "lead", "trail"}

\* What bytes are read as; "bad" is U+FFFD.
Char == (Byte \ {"lead", "trail"}) \cup {"wide", "bad"}

\* A recorded line; done, the event that ended it, is for the properties only.
Activity(kind, line, at, now) == [kind |-> kind, line |-> line, at |-> at, done |-> now]

ActivityKind == {"AiPrompt", "Command"}

TypedActivity == [kind : ActivityKind, line : Seq(Char), at : Nat, done : Nat]

PromptActivity == [kind : ActivityKind, line : {<<"prompt">>}, at : Nat, done : Nat]

\* s.raw is raw_bytes_buffer, s.line line_buffer, s.start line_start_time (0 for
\* None) and s.ai in_ai_session_mode.
State ==
  [raw : Seq(Byte), line : Seq(Char), start : Nat, ai : BOOLEAN,
   activities : Seq(TypedActivity \cup PromptActivity)]

EmptySession == [raw |-> << >>, line |-> << >>, start |-> 0, ai |-> FALSE, activities |-> << >>]
--------------------------------------------------------------------------------
(* Text *)

Decoded == [text : Seq(Char), rest : Seq(Byte), is : {"valid", "invalid"}]

\* After the first invalid sequence the rest is kept as it is.
Decode ==
  [acc \in Decoded |-> [b \in Byte |->
     IF acc.is = "invalid" THEN [acc EXCEPT !.rest = Append(acc.rest, b)]
     ELSE IF acc.rest # << >>
     THEN IF b = "trail" THEN [acc EXCEPT !.text = Append(acc.text, "wide"), !.rest = << >>]
          ELSE [acc EXCEPT !.rest = <<b>>, !.is = "invalid"]
     ELSE IF b = "lead" THEN [acc EXCEPT !.rest = <<b>>]
     ELSE IF b = "trail" THEN [acc EXCEPT !.is = "invalid"]
     ELSE [acc EXCEPT !.text = Append(acc.text, b)]]]

\* std::str::from_utf8: the characters before the first invalid sequence, and
\* what is kept for the next event: an unfinished character, or what follows
\* the invalid sequence.
from_utf8(bytes) == Fold(Decode, [text |-> << >>, rest |-> << >>, is |-> "valid"], bytes)

Replaced == [text : Seq(Char), rest : {"open", "none"}]

\* A lead byte is open until the next byte.
DecodeLossy ==
  [acc \in Replaced |-> [b \in Byte |->
     LET text == IF acc.rest = "open" /\ b # "trail" THEN Append(acc.text, "bad") ELSE acc.text
     IN  [text |-> CASE b = "lead"  -> text
                     [] b = "trail" -> Append(text, IF acc.rest = "open" THEN "wide" ELSE "bad")
                     [] OTHER       -> Append(text, b),
          rest |-> IF b = "lead" THEN "open" ELSE "none"]]]

\* String::from_utf8_lossy.
from_utf8_lossy(bytes) ==
  LET all == Fold(DecodeLossy, [text |-> << >>, rest |-> "none"], bytes)
  IN  IF all.rest = "open" THEN Append(all.text, "bad") ELSE all.text

Places == {"plain", "esc", "csi"}

\* Where a text stands: plain, after ESC, or after ESC [.
After(place, c) ==
  CASE c = "esc"                                   -> "esc"
    [] place = "esc" /\ c = "["                    -> "csi"
    [] OTHER                                       -> "plain"

\* c belongs to the escape sequence that was begun.
Continues(place, c) == place # "plain" /\ c \in {"letter", "["}

\* Where a text stands at its end.
Place(text) ==
  Fold([place \in Places |-> [c \in Byte \cup Char |-> After(place, c)]], "plain", text)

Sanitized == [place : Places, out : Seq(Char)]

Sanitize ==
  [acc \in Sanitized |-> [c \in Char |->
     [place |-> After(acc.place, c),
      out   |-> IF c = "esc" \/ Continues(acc.place, c) THEN acc.out ELSE Append(acc.out, c)]]]

\* sanitize_terminal_text: ESC [ and a final byte, ESC and a byte, or a bare ESC.
sanitize_terminal_text(text) == Fold(Sanitize, [place |-> "plain", out |-> << >>], text).out
--------------------------------------------------------------------------------
(* Lines *)

Width(c) == CASE c = "wide" -> 2 [] c = "bad" -> 3 [] OTHER -> 1

\* One character repeated over four bytes or more, as when moving in an editor.
\* The other kinds of noise need characters that are not among the seven.
is_terminal_noise_or_navigation(line) ==
  /\ \A i \in DOMAIN line : line[i] = line[1]
  /\ Width(line[1]) * Len(line) >= 4

\* flush_line_buffer without the reset of line_start_time.
FlushKeepsStart(s, now) ==
  [s EXCEPT !.line = << >>,
            !.activities =
              IF s.line = << >> \/ is_terminal_noise_or_navigation(s.line) THEN @
              ELSE Append(@, Activity(IF s.ai THEN "AiPrompt" ELSE "Command", s.line, s.start, now))]

flush_line_buffer(s, now) ==
  [s EXCEPT !.line = << >>, !.start = 0,
            !.activities =
              IF s.line = << >> \/ is_terminal_noise_or_navigation(s.line) THEN @
              ELSE Append(@, Activity(IF s.ai THEN "AiPrompt" ELSE "Command", s.line, s.start, now))]

TypeChar(now) ==
  [t \in State |-> [c \in Char |->
     LET begun == [t EXCEPT !.start = IF @ = 0 THEN now ELSE @]
     IN  CASE c = "enter"     -> flush_line_buffer(begun, now)
           [] c = "backspace" -> [begun EXCEPT !.line = IF @ = << >> THEN @ ELSE Front(@)]
           [] OTHER           -> [begun EXCEPT !.line = Append(@, c)]]]

process_typed_chars(s, text, now) == Fold(TypeChar(now), s, sanitize_terminal_text(text))

\* What is left of an unfinished character is read as it is.
FlushRaw(s, now) == [process_typed_chars(s, from_utf8_lossy(s.raw), now) EXCEPT !.raw = << >>]
--------------------------------------------------------------------------------
(* reconstruct, one event at a time *)

\* Keys that forgets the bytes of an unfinished character.
KeysDropsRest(s, data, now) ==
  [process_typed_chars(s, from_utf8(s.raw \o data).text, now) EXCEPT !.raw = << >>]

\* KeystrokeInput: bytes are kept until they make a character.
Keys(s, data, now) ==
  LET decoded == from_utf8(s.raw \o data)
  IN  [process_typed_chars(s, decoded.text, now) EXCEPT !.raw = decoded.rest]

\* KeystrokeInput with is_paste, whose text stands for itself.
Paste(s, data, now) ==
  process_typed_chars(FlushRaw(s, now), from_utf8_lossy(data), now)

\* ProcessExec.
Exec(s, ai) == [s EXCEPT !.ai = @ \/ ai]

\* PromptTrace, which becomes an activity before the line that is being typed.
Prompt(s, now) ==
  [s EXCEPT !.ai = TRUE, !.activities = Append(@, Activity("AiPrompt", <<"prompt">>, now, now))]

\* SessionEnd, and the end of the events.
Finish(s, now) == flush_line_buffer(FlushRaw(s, now), now)
================================================================================
