-------------------------------- MODULE LogStore --------------------------------
(***************************************************************************)
(* The log that the Logs window shows (logging.rs, app.rs): threads that    *)
(* log write bytes to a capturing writer one after the other, which keeps   *)
(* the last whole lines within two limits, while the window looks at them.  *)
(*                                                                          *)
(* A text is a sequence of its bytes.  A byte that is no UTF-8 is shown as  *)
(* a replacement character of three.                                        *)
(***************************************************************************)
EXTENDS Naturals, Sequences, SequencesExt

CONSTANTS
  MAX_LOG_LINES, MAX_LOG_BYTES,
  Marker,           \* TRUNCATION_MARKER
  MaxWritten        \* bound of the model: bytes written

Byte == {"a", "invalid", "cr", "newline"}
Newline == <<"newline">>
Replacement == <<"lead", "continuation", "continuation">>

\* Every byte that begins a character of three is followed by the other two.
WholeCharacters(text) ==
  \A n \in DOMAIN text :
    text[n] = "lead" => n + 2 <= Len(text) /\ SubSeq(text, n, n + 2) = Replacement

ASSUME LimitAssumption ==
  /\ MAX_LOG_LINES \in Nat \ {0} /\ MAX_LOG_BYTES \in Nat /\ MaxWritten \in Nat
  /\ Marker \in Seq(STRING) /\ Len(Marker) + 1 <= MAX_LOG_BYTES
  /\ WholeCharacters(Marker) /\ \A n \in DOMAIN Marker : Marker[n] # "newline"

VARIABLES
  fragment, fragment_truncated,       \* CapturingWriter: the line that is not finished
  lines, rendered, bytes, revision,   \* LogStoreState
  logs_cached_revision, logs_cached_text,
  looking,                            \* the window has seen another revision
  count,                              \* bytes written so far
  written                             \* history: all lines, as they were rendered

writerVars == <<fragment, fragment_truncated, count>>
storeVars == <<lines, rendered, bytes, revision, written>>
windowVars == <<logs_cached_revision, logs_cached_text, looking>>
logVars == <<writerVars, storeVars, windowVars>>

--------------------------------------------------------------------------------
(* render_line. *)

Lossy(raw) ==
  FlattenSeq([i \in DOMAIN raw |-> IF raw[i] = "invalid" THEN Replacement ELSE <<raw[i]>>])

\* The bytes up to the limit.
Cut(text, max_bytes) == SubSeq(text, 1, max_bytes)

\* utf8_prefix: whole characters only.
Prefix(text, max_bytes) ==
  IF Len(text) <= max_bytes THEN text
  ELSE LET boundaries == {n \in 0 .. max_bytes : text[n + 1] # "continuation"}
       IN  SubSeq(text, 1, CHOOSE n \in boundaries : \A k \in boundaries : k <= n)

Render(raw, force_truncated) ==
  IF ~force_truncated /\ Len(Lossy(raw)) + 1 <= MAX_LOG_BYTES
  THEN Lossy(raw) \o Newline
  ELSE Prefix(Lossy(raw), MAX_LOG_BYTES - Len(Marker) - 1) \o Marker \o Newline

--------------------------------------------------------------------------------
(* The store. *)

\* How many of the oldest lines go: until both limits are kept.
Evicted(all) ==
  LET fits == {n \in 0 .. Len(all) :
                 /\ Len(all) - n <= MAX_LOG_LINES
                 /\ Len(FlattenSeq(SubSeq(all, n + 1, Len(all)))) <= MAX_LOG_BYTES}
  IN  CHOOSE n \in fits : \A k \in fits : n <= k

\* The revision counts lines only while there is room for them.
NextRevisionByLength(text) == IF Len(text) > bytes THEN revision + 1 ELSE revision

\* The revision changes when the text does.
NextRevision(text) == IF text # rendered THEN revision + 1 ELSE revision

\* What is cut off is one line.
CutoffOfOldest(all) == IF Evicted(all) = 0 THEN 0 ELSE Len(Head(all))

Cutoff(all) == Len(FlattenSeq(SubSeq(all, 1, Evicted(all))))

\* append_rendered_line: what is evicted is cut from the text by its length.
AppendLine(line) ==
  LET all == Append(lines, line)
      text == rendered \o line
  IN  /\ lines' = SubSeq(all, Evicted(all) + 1, Len(all))
      /\ rendered' = SubSeq(text, Cutoff(all) + 1, Len(text))
      /\ bytes' = bytes + Len(line) - Cutoff(all)
      /\ revision' = NextRevision(rendered')
      /\ written' = Append(written, line)

--------------------------------------------------------------------------------
(* CapturingWriter::write, byte by byte. *)

WriteByte(b) ==
  /\ count < MaxWritten
  /\ count' = count + 1
  /\ b # "newline"
  /\ IF fragment_truncated
     THEN UNCHANGED <<fragment, fragment_truncated>>
     ELSE IF Len(fragment) < MAX_LOG_BYTES
          THEN fragment' = Append(fragment, b) /\ UNCHANGED fragment_truncated
          ELSE fragment_truncated' = TRUE /\ UNCHANGED fragment
  /\ UNCHANGED <<storeVars, windowVars>>

\* finish_fragment, at a newline.
FinishFragment ==
  /\ count < MaxWritten
  /\ count' = count + 1
  /\ LET raw == IF fragment # <<>> /\ Last(fragment) = "cr" THEN Front(fragment) ELSE fragment
     IN  AppendLine(Render(raw, fragment_truncated))
  /\ fragment' = <<>>
  /\ fragment_truncated' = FALSE
  /\ UNCHANGED windowVars

--------------------------------------------------------------------------------
(* draw_logs_window. *)

LookAtRevision ==
  /\ ~looking
  /\ revision # logs_cached_revision
  /\ looking' = TRUE
  /\ UNCHANGED <<writerVars, storeVars, logs_cached_revision, logs_cached_text>>

TakeSnapshot ==
  /\ looking
  /\ looking' = FALSE
  /\ logs_cached_revision' = revision
  /\ logs_cached_text' = rendered
  /\ UNCHANGED <<writerVars, storeVars>>

--------------------------------------------------------------------------------

LogInit ==
  /\ fragment = <<>> /\ fragment_truncated = FALSE
  /\ lines = <<>> /\ rendered = <<>> /\ bytes = 0 /\ revision = 0
  /\ logs_cached_revision = 0 /\ logs_cached_text = <<>>
  /\ looking = FALSE
  /\ count = 0 /\ written = <<>>

Draw == LookAtRevision \/ TakeSnapshot

LogNext ==
  \/ \E b \in Byte : WriteByte(b)
  \/ FinishFragment
  \/ Draw

\* The open window draws itself again four times a second.
LogSpec == LogInit /\ [][LogNext]_logVars /\ WF_logVars(Draw)

--------------------------------------------------------------------------------
(* Correctness. *)

\* The text is the longest tail of the log that keeps both limits, cut at the end of a line
\* also behind lines that were shortened or hold characters of several bytes, and never less
\* than the newest line: one as long as the limit loses its end and not its place.
LongestTailKept ==
  /\ IsSuffix(lines, written)
  /\ rendered = FlattenSeq(lines)
  /\ bytes = Len(rendered) /\ bytes <= MAX_LOG_BYTES
  /\ Len(lines) <= MAX_LOG_LINES
  /\ written # <<>> => lines # <<>>
  /\ Len(lines) < Len(written) =>
       \/ Len(lines) = MAX_LOG_LINES
       \/ bytes + Len(written[Len(written) - Len(lines)]) > MAX_LOG_BYTES

\* Every line is whole characters that end in one newline.
LinesAreWhole ==
  \A i \in DOMAIN lines :
    /\ \A n \in DOMAIN lines[i] : (lines[i][n] = "newline") = (n = Len(lines[i]))
    /\ WholeCharacters(lines[i])

\* The open window comes to show the log, or the log changes again.
WindowCatchesUp == <>[](logs_cached_text = rendered)
================================================================================
