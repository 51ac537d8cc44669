-------------------------- MODULE ConsoleLogListener --------------------------
(***************************************************************************)
(* The log listener (companion/src/bridge_listener.rs) tailing console.log  *)
(* while the game writes it: every system call of a poll is a step of its   *)
(* own, so the file may grow, be truncated, replaced or deleted between     *)
(* the metadata, the open, the check and the reads of one poll.             *)
(*                                                                          *)
(* A file is a sequence of cells, each of the size of the tail checkpoint:  *)
(* line n is its first cells and an "end" cell with the newline.  Lines are *)
(* all different, as their session and sequence make them.                  *)
(***************************************************************************)
EXTENDS Naturals, Sequences, FiniteSets

CONSTANTS
  MaxLine,              \* MAX_INCOMPLETE_LINE_BYTES, in cells
  LastLine,             \* bound of the model: the lines the game writes
  File,                 \* bound of the model: the files that come to lie at the path
  OpenMayFail,          \* start's own open may fail, though the file is there
  TruncateWhileReading, \* the file may be truncated between a check and its reads
  None

ASSUME LineAssumption ==
  /\ MaxLine \in Nat \ {0}
  /\ LastLine \in Nat

Line == 1 .. LastLine

ASSUME SwitchAssumption == OpenMayFail \in BOOLEAN /\ TruncateWhileReading \in BOOLEAN

Cell == [line : Line, part : {"record", "junk", "end"}]

\* file is the open file's identity; base is where its reading began.
Log == [file : File, offset : Nat, checkpoint : Cell \cup {None},
        incomplete : Seq(Cell), discarding : BOOLEAN, base : Nat]

ASSUME NoneAssumption == None \notin File \cup Line \cup Cell \cup Log

VARIABLES
  content,    \* what each file holds
  path,       \* the file at the configured path, or None
  used,       \* the files that have been at the path
  unwritten,  \* the cells of the line the game is writing
  written,    \* the last line it began
  pc,         \* where the worker is in its poll
  log,        \* open_log
  skip,       \* skip_first_success
  len,        \* path_metadata.len()
  phase,      \* ListenerStatus::phase
  observed,   \* ListenerStatus::mod_version, as the line that reported it
  broadcast,  \* history: the lines broadcast since start, in order
  history,    \* history: the lines in the file when start was called
  deferred    \* history: start could not open the file that was there

gameVars     == <<content, path, used, unwritten, written>>
listenerVars == <<pc, log, skip, len, phase, observed, broadcast, history, deferred>>
vars         == <<gameVars, listenerVars>>

--------------------------------------------------------------------------------
(* The game. *)

Cells(n, part, count) == [i \in 1 .. count |-> [line |-> n, part |-> part]]

\* A bridge record, or a line too long for the listener.
RecordLine(n) == Cells(n, "record", 1) \o Cells(n, "end", 1)
LongLine(n)   == Cells(n, "junk", MaxLine + 1) \o Cells(n, "end", 1)

BeginLine ==
  /\ path # None
  /\ unwritten = <<>>
  /\ written + 1 \in Line
  /\ written' = written + 1
  /\ unwritten' \in {RecordLine(written + 1), LongLine(written + 1)}
  /\ UNCHANGED <<content, path, used, listenerVars>>

WriteCell ==
  /\ path # None
  /\ unwritten # <<>>
  /\ content' = [content EXCEPT ![path] = Append(@, Head(unwritten))]
  /\ unwritten' = Tail(unwritten)
  /\ UNCHANGED <<path, used, written, listenerVars>>

\* A restarted game truncates its log and drops the line it was writing.
Truncate ==
  /\ path # None
  /\ pc = "read" => TruncateWhileReading
  /\ content' = [content EXCEPT ![path] = <<>>]
  /\ unwritten' = <<>>
  /\ UNCHANGED <<path, used, written, listenerVars>>

\* The log is created, or replaced by another file.
Create ==
  /\ \E f \in File \ used : path' = f /\ used' = used \cup {f}
  /\ unwritten' = <<>>
  /\ UNCHANGED <<content, written, listenerVars>>

Delete ==
  /\ path # None
  /\ path' = None
  /\ unwritten' = <<>>
  /\ UNCHANGED <<content, used, written, listenerVars>>

Game == BeginLine \/ WriteCell \/ Truncate \/ Create \/ Delete

--------------------------------------------------------------------------------
(* The files as the listener sees them. *)

Contents(file) == IF file = None THEN <<>> ELSE content[file]

\* The lines that lie whole in cells: an unbroken record.
WholeRecords(cells) ==
  {n \in Line : \E i \in 1 .. Len(cells) - 1 :
     /\ cells[i] = [line |-> n, part |-> "record"]
     /\ cells[i + 1] = [line |-> n, part |-> "end"]}

Newest(lines) == IF lines = {} THEN None ELSE CHOOSE n \in lines : \A k \in lines : k <= n

\* seed_metadata_from_tail: the newest record among the first cells of a file.
NewestRecord(cells) == Newest(WholeRecords(cells))

\* What the file holds before an offset, as far as it still goes.
Before(file, offset) ==
  SubSeq(content[file], 1, IF offset <= Len(content[file]) THEN offset ELSE Len(content[file]))

Tailing(file, offset) ==
  [file |-> file, offset |-> offset,
   checkpoint |-> IF offset = 0 THEN None ELSE content[file][offset],
   incomplete |-> <<>>, discarding |-> FALSE, base |-> offset]

\* open_log_file that reads an existing file from its start.
OpenAtStart(skipExisting) == Tailing(path, 0)

\* open_log_file: at the end of the file as it is now, or at its start.
OpenLogFile(skipExisting) == Tailing(path, IF skipExisting THEN Len(content[path]) ELSE 0)

--------------------------------------------------------------------------------
(* ConsoleLogListener::start and stop, called by the companion's frame. *)

\* The first open, on the frame's own thread, skips what is there.
Start ==
  /\ pc = "stopped"
  /\ \/ /\ path # None
        /\ log' = OpenLogFile(TRUE)
        /\ skip' = FALSE
        /\ phase' = "listening"
        /\ observed' = NewestRecord(SubSeq(content[path], 1, log'.offset))
     \/ /\ path = None
        /\ log' = None
        /\ skip' = FALSE
        /\ phase' = "waiting"
        /\ observed' = None
     \/ /\ path # None /\ OpenMayFail
        /\ log' = None
        /\ skip' = TRUE
        /\ phase' = "waiting"
        /\ observed' = None
  /\ pc' = IF log' = None THEN "inspect" ELSE "seed"
  /\ broadcast' = <<>>
  /\ history' = {c.line : c \in {Contents(path)[i] : i \in 1 .. Len(Contents(path))}}
  /\ deferred' = skip'
  /\ UNCHANGED <<len, gameVars>>

\* The worker's thread could not be spawned.
StartFails ==
  /\ pc = "stopped"
  /\ phase' = "failed"
  /\ observed' \in {None, NewestRecord(Contents(path))}
  /\ UNCHANGED <<pc, log, skip, len, broadcast, history, deferred, gameVars>>

\* stop sends and joins: the frame waits until the worker is between two polls.
Stop ==
  /\ pc = "inspect"
  /\ pc' = "stopped"
  /\ log' = None
  /\ phase' = "stopped"
  /\ observed' = None
  /\ broadcast' = <<>>
  /\ history' = {}
  /\ deferred' = FALSE
  /\ UNCHANGED <<skip, len, gameVars>>

--------------------------------------------------------------------------------
(* worker_loop: seed once more, then inspect, open, check and read, again and again. *)

\* The worker repeats the frame's look at the tail.
Seed ==
  /\ pc = "seed"
  /\ LET seed == NewestRecord(Before(log.file, log.offset))
     IN  observed' = IF seed = None THEN observed ELSE seed
  /\ pc' = "inspect"
  /\ UNCHANGED <<log, skip, len, phase, broadcast, history, deferred, gameVars>>

\* fs::metadata finds nothing, fails, or finds a directory.
InspectFails ==
  /\ pc = "inspect"
  /\ observed' = None
  /\ \/ /\ path = None
        /\ phase' = "waiting"
        /\ skip' = FALSE
        /\ log' = None
     \/ /\ phase' = "failed"
        /\ UNCHANGED <<skip, log>>
     \/ /\ path = None
        /\ phase' = "failed"
        /\ log' = None
        /\ UNCHANGED skip
  /\ UNCHANGED <<pc, len, broadcast, history, deferred, gameVars>>

\* A replaced file whose version stays on the page.
ObservedKept(replaced) == observed

\* clear_mod_observation, when another file lies at the path.
ObservedAfter(replaced) == IF replaced THEN None ELSE observed

Inspect ==
  /\ pc = "inspect"
  /\ path # None
  /\ len' = Len(content[path])
  /\ LET replaced == log # None /\ log.file # path
     IN  /\ log' = IF replaced THEN None ELSE log
         /\ observed' = ObservedAfter(replaced)
  /\ pc' = IF log' = None THEN "open" ELSE "check"
  /\ UNCHANGED <<skip, phase, broadcast, history, deferred, gameVars>>

\* The second open, of whatever lies at the path by now.
Open ==
  /\ pc = "open"
  /\ \/ /\ path # None
        /\ log' = OpenLogFile(skip)
        /\ observed' = IF skip
                       THEN LET seed == NewestRecord(SubSeq(content[path], 1, log'.offset))
                            IN  IF seed = None THEN observed ELSE seed
                       ELSE observed
        /\ skip' = FALSE
        /\ phase' = "listening"
        /\ pc' = "check"
     \/ /\ phase' = "failed"
        /\ pc' = "inspect"
        /\ UNCHANGED <<log, skip, observed>>
  /\ UNCHANGED <<len, broadcast, history, deferred, gameVars>>

\* checkpoint_matches, on the open file.
CheckpointMatches ==
  \/ log.checkpoint = None
  \/ /\ log.offset <= Len(content[log.file])
     /\ content[log.file][log.offset] = log.checkpoint

\* ensure_not_truncated with one comparison too many.
NotLonger == len <= log.offset \/ ~CheckpointMatches

\* The condition of ensure_not_truncated.
Truncated == len < log.offset \/ ~CheckpointMatches

\* A reset that keeps the line that was cut.
ResetKeepingLine == [log EXCEPT !.offset = 0, !.checkpoint = None, !.base = 0]

\* reset_after_truncation
ResetLog == Tailing(log.file, 0)

\* The look at the checkpoint fails where the file ends before the offset.
Check ==
  /\ pc = "check"
  /\ \/ /\ Truncated
        /\ len >= log.offset => log.offset <= Len(content[log.file])
        /\ log' = ResetLog
        /\ observed' = None
        /\ pc' = "read"
        /\ UNCHANGED phase
     \/ /\ ~Truncated
        /\ pc' = "read"
        /\ UNCHANGED <<log, observed, phase>>
     \/ /\ log.checkpoint # None
        /\ len >= log.offset
        /\ observed' = None
        /\ phase' = "failed"
        /\ pc' = "inspect"
        /\ UNCHANGED log
  /\ UNCHANGED <<skip, len, broadcast, history, deferred, gameVars>>

\* consume_bytes_with_metadata, on one cell.
Consume(cell) ==
  LET full == Len(log.incomplete) >= MaxLine
  IN  [file |-> log.file, offset |-> log.offset + 1, checkpoint |-> cell,
       incomplete |-> IF log.discarding \/ cell.part = "end" \/ full
                      THEN <<>> ELSE Append(log.incomplete, cell),
       discarding |-> cell.part # "end" /\ (log.discarding \/ full),
       base |-> log.base]

\* The line the cell completes is a record that parses.
Completes(cell) ==
  /\ ~log.discarding
  /\ cell.part = "end"
  /\ log.incomplete = <<[line |-> cell.line, part |-> "record"]>>

\* read_available: one read of the file, up to the length inspected.
Read ==
  /\ pc = "read"
  /\ log.offset < len
  /\ log.offset < Len(content[log.file])
  /\ LET cell == content[log.file][log.offset + 1]
     IN  /\ log' = Consume(cell)
         /\ IF Completes(cell)
            THEN /\ observed' = cell.line
                 /\ broadcast' = Append(broadcast, cell.line)
            ELSE UNCHANGED <<observed, broadcast>>
  /\ UNCHANGED <<pc, skip, len, phase, history, deferred, gameVars>>

\* There is no more to read, or the read fails.
ReadEnds ==
  /\ pc = "read"
  /\ \/ /\ log.offset >= len \/ log.offset >= Len(content[log.file])
        /\ phase' = "listening"
     \/ /\ log.offset < len
        /\ phase' = "failed"
  /\ pc' = "inspect"
  /\ UNCHANGED <<log, skip, len, observed, broadcast, history, deferred, gameVars>>

Worker == Seed \/ InspectFails \/ Inspect \/ Open \/ Check \/ Read \/ ReadEnds

--------------------------------------------------------------------------------

Init ==
  /\ content = [f \in File |-> <<>>]
  /\ path = None
  /\ used = {}
  /\ unwritten = <<>>
  /\ written = 0
  /\ pc = "stopped"
  /\ log = None
  /\ skip = FALSE
  /\ len = 0
  /\ phase = "stopped"
  /\ observed = None
  /\ broadcast = <<>>
  /\ history = {}
  /\ deferred = FALSE

Next == Game \/ Start \/ StartFails \/ Stop \/ Worker

Spec == Init /\ [][Next]_vars

\* The worker polls as long as it is not stopped.
FairSpec == Spec /\ WF_vars(Worker)

--------------------------------------------------------------------------------
(* Correctness. *)

TypeOK ==
  /\ content \in [File -> Seq(Cell)]
  /\ path \in File \cup {None}
  /\ used \in SUBSET File
  /\ unwritten \in Seq(Cell)
  /\ written \in Nat
  /\ pc \in {"stopped", "seed", "inspect", "open", "check", "read"}
  /\ log \in Log \cup {None}
  /\ log # None => Len(log.incomplete) <= MaxLine
  /\ skip \in BOOLEAN
  /\ len \in Nat
  /\ phase \in {"stopped", "waiting", "listening", "failed"}
  /\ observed \in Line \cup {None}
  /\ broadcast \in Seq(Line)
  /\ history \in SUBSET Line
  /\ deferred \in BOOLEAN

\* However the log is truncated, replaced or recreated under the reader, no record
\* is broadcast twice and none before an older one.
OnceInOrder ==
  \A i, k \in 1 .. Len(broadcast) : i < k => broadcast[i] < broadcast[k]

\* What the log already held when the listener was started is history: it is never
\* acted on (test existing_history_seeds_only_metadata_and_activity_requires_new_bytes).
HistorySkipped == \A i \in 1 .. Len(broadcast) : broadcast[i] \notin history

\* The same of a listener whose start opened the file, or found none: what a later
\* truncation, replacement or reopening brings up is never that history.
OpenedHistorySkipped == ~deferred => HistorySkipped

\* The records the listener has come by: those of the tail it skipped when it opened
\* the file, and those it has read since.
Seen ==
  WholeRecords(SubSeq(content[log.file], 1, log.base)) \cup
  WholeRecords(SubSeq(content[log.file], log.base + 1, log.offset))

\* The mod version on the page, when there is one, is the one the newest record the
\* listener has come by reports, never one of a file that was truncated, rewritten or
\* replaced before the last poll.
ObservedIsNewest ==
  pc = "inspect" /\ log # None /\ log.file = path /\ CheckpointMatches =>
    observed \in {None, Newest(Seen)}

\* The records of the file at the path that the listener has to report: those it did
\* not skip when it opened the file.
Due ==
  IF log = None \/ path = None \/ log.file # path THEN {}
  ELSE WholeRecords(SubSeq(content[path], log.base + 1, Len(content[path])))

\* A listener that says it is listening reports every record of its file, the first
\* lines of a truncated or replaced file included (test
\* truncation_and_replacement_are_consumed_from_zero).
EveryRecord ==
  <>[](phase = "listening") =>
    \A n \in Line : <>[](n \in Due => \E i \in 1 .. Len(broadcast) : broadcast[i] = n)
================================================================================
