----------------------------- MODULE ListenerProof -----------------------------
(***************************************************************************)
(* The log listener reports no record twice and none before an older one,   *)
(* for any number of files and lines, and however the file is truncated,    *)
(* between the reads of a poll too; it never reports what start found in    *)
(* the file; and what it has observed is the newest record it has seen.     *)
(***************************************************************************)
EXTENDS ConsoleLogListener, WellFoundedInduction, TLAPS

--------------------------------------------------------------------------------
(* The inductive invariant. *)

Older(n, cells) == \A i \in 1 .. Len(cells) : n < cells[i].line

Reported == {broadcast[i] : i \in 1 .. Len(broadcast)}

\* The cells of a file: none later than the last line begun, none before an older one, and
\* nothing behind the end of a line but later lines.
Ordered(cells, last) ==
  \A i \in 1 .. Len(cells) :
    /\ cells[i].line <= last
    /\ \A k \in i + 1 .. Len(cells) :
         /\ cells[i].line <= cells[k].line
         /\ cells[i].part = "end" => cells[i].line < cells[k].line

\* Lines lie in the order in which the game wrote them, within a file and from one file
\* at the path to the next.
FileInv ==
  /\ \A f \in File \ used : content[f] = <<>>
  /\ path \in used \cup {None}
  /\ \A f \in File :
       /\ Ordered(content[f], written)
       /\ path # None /\ f # path =>
            \A i \in 1 .. Len(content[f]) : Older(content[f][i].line, content[path])

\* The line the game is writing ends with the cell it has to write last, so that no file
\* holds its end yet.
LineInv ==
  /\ \A i \in 1 .. Len(unwritten) :
       /\ unwritten[i].line = written
       /\ unwritten[i].part = "end" => i = Len(unwritten)
  /\ unwritten # <<>> =>
       \A f \in File : \A i \in 1 .. Len(content[f]) :
         content[f][i].part = "end" \/ f # path => content[f][i].line < written

\* The file was truncated after the last record reported, or is another one.
Renewed == \A n \in Reported : Older(n, content[log.file])

\* A log that is to be opened behind what it holds has reported nothing.
ControlInv ==
  /\ skip => log = None /\ Reported = {}
  /\ pc = "open" => log = None
  /\ pc \in {"seed", "check", "read"} => log # None

WrittenInv == \A n \in Reported : n <= written /\ (unwritten # <<>> => n < written)

\* A file that is to be opened holds nothing reported.
OtherFileInv ==
  path # None /\ (log = None \/ log.file # path) =>
    \A n \in Reported : Older(n, content[path])

\* What lies beyond the offset is later than what was reported; where the checkpoint does
\* not match, or the file was found shorter than the offset, all of it is.
LogInv ==
  log # None =>
    /\ log.checkpoint = None <=> log.offset = 0
    /\ \A n \in Reported : \A i \in log.offset + 1 .. Len(content[log.file]) :
         n < content[log.file][i].line
    /\ CheckpointMatches \/ Renewed
    /\ pc = "check" /\ len < log.offset => Renewed

ReportInv == ControlInv /\ WrittenInv /\ OtherFileInv /\ LogInv

IInv ==
  /\ TypeOK
  /\ FileInv
  /\ LineInv
  /\ ReportInv
  /\ OnceInOrder

--------------------------------------------------------------------------------
(* Types. *)

LEMMA Least ==
  ASSUME NEW T, T \subseteq Nat, T # {}
  PROVE  \E x \in T : \A y \in T : x <= y
<1> DEFINE R == {pair \in Nat \X Nat : pair[1] < pair[2]}
<1>1. IsWellFoundedOn(R, Nat)
  BY NatLessThanWellFounded DEF OpToRel
<1>2. \A x, y \in Nat : <<y, x>> \notin R => x <= y
  OBVIOUS
<1> HIDE DEF R
<1>3. PICK x \in T : \A y \in T : <<y, x>> \notin R
  BY <1>1, WFMin
<1>4. QED
  BY <1>2, <1>3

LEMMA NewestType ==
  ASSUME NEW lines \in SUBSET Line
  PROVE  Newest(lines) \in Line \cup {None}
<1>1. CASE lines = {}
  BY <1>1 DEF Newest
<1>2. CASE lines # {}
  <2> DEFINE gaps == {LastLine - n : n \in lines}
  <2>1. gaps \subseteq Nat /\ gaps # {}
    <3>1. \A n \in lines : LastLine - n \in Nat
      BY LineAssumption DEF Line
    <3>2. PICK n \in lines : TRUE
      BY <1>2
    <3>3. LastLine - n \in gaps
      BY <3>2
    <3>4. QED
      BY <3>1, <3>3
  <2> HIDE DEF gaps
  <2>2. PICK gap \in gaps : \A other \in gaps : gap <= other
    BY <2>1, Least
  <2> USE DEF gaps
  <2>3. PICK n \in lines : gap = LastLine - n
    BY <2>2
  <2>4. \A k \in lines : k <= n
    <3>1. ASSUME NEW k \in lines PROVE k <= n
      <4>1. LastLine - n <= LastLine - k
        BY <2>2, <2>3
      <4>2. QED
        BY <4>1, LineAssumption DEF Line
    <3>2. QED
      BY <3>1
  <2>5. Newest(lines) \in lines
    BY <1>2, <2>4 DEF Newest
  <2>6. QED
    BY <2>5
<1>3. QED
  BY <1>1, <1>2

LEMMA NewestRecordType == \A cells : NewestRecord(cells) \in Line \cup {None}
<1>1. ASSUME NEW cells PROVE NewestRecord(cells) \in Line \cup {None}
  BY NewestType DEF NewestRecord, WholeRecords
<1>2. QED
  BY <1>1

LEMMA TailingType ==
  ASSUME TypeOK, path # None, NEW all \in BOOLEAN
  PROVE  /\ OpenLogFile(all) \in Log /\ OpenLogFile(all) # None
         /\ OpenLogFile(all).file = path
         /\ OpenLogFile(all).offset = (IF all THEN Len(content[path]) ELSE 0)
         /\ OpenLogFile(all).checkpoint = None <=> OpenLogFile(all).offset = 0
         /\ OpenLogFile(all).offset # 0 =>
              OpenLogFile(all).checkpoint = content[path][OpenLogFile(all).offset]
         /\ OpenLogFile(all).incomplete = <<>>
<1> DEFINE n == IF all THEN Len(content[path]) ELSE 0
<1>1. path \in File /\ content[path] \in Seq(Cell)
  BY DEF TypeOK
<1>2. n \in Nat /\ n <= Len(content[path])
  BY <1>1
<1> HIDE DEF n
<1>3. n # 0 => content[path][n] \in Cell
  BY <1>1, <1>2
<1>4. Tailing(path, n) \in Log
  BY <1>1, <1>2, <1>3 DEF Tailing, Log
<1>5. OpenLogFile(all) = Tailing(path, n)
  BY DEF OpenLogFile, n
<1>6. n # 0 => content[path][n] # None
  BY <1>3, NoneAssumption
<1>7. Tailing(path, n) # None
  BY <1>4, NoneAssumption
<1>8. /\ Tailing(path, n).file = path
      /\ Tailing(path, n).offset = n
      /\ Tailing(path, n).checkpoint = None <=> n = 0
      /\ n # 0 => Tailing(path, n).checkpoint = content[path][n]
      /\ Tailing(path, n).incomplete = <<>>
  BY <1>6 DEF Tailing
<1>9. n = IF all THEN Len(content[path]) ELSE 0
  BY DEF n
<1>10. QED
  BY <1>4, <1>5, <1>7, <1>8, <1>9

LEMMA LinesType ==
  ASSUME NEW n \in Line
  PROVE  /\ RecordLine(n) \in Seq(Cell) /\ Len(RecordLine(n)) = 2
         /\ \A i \in 1 .. 2 : /\ RecordLine(n)[i].line = n
                              /\ RecordLine(n)[i].part = "end" => i = 2
         /\ LongLine(n) \in Seq(Cell) /\ Len(LongLine(n)) = MaxLine + 2
         /\ \A i \in 1 .. MaxLine + 2 : /\ LongLine(n)[i].line = n
                                        /\ LongLine(n)[i].part = "end" => i = MaxLine + 2
         /\ RecordLine(n)[1].part = "record" /\ RecordLine(n)[2].part = "end"
         /\ \A i \in 1 .. MaxLine + 1 : LongLine(n)[i].part = "junk"
         /\ LongLine(n)[MaxLine + 2].part = "end"
<1>1. ASSUME NEW part \in {"record", "junk", "end"}, NEW count \in Nat
      PROVE  /\ Cells(n, part, count) \in Seq(Cell) /\ Len(Cells(n, part, count)) = count
             /\ \A i \in 1 .. count : Cells(n, part, count)[i] = [line |-> n, part |-> part]
  BY DEF Cells, Cell
<1>2. ASSUME NEW a \in Seq(Cell), NEW b \in Seq(Cell)
      PROVE  /\ a \o b \in Seq(Cell) /\ Len(a \o b) = Len(a) + Len(b)
             /\ \A i \in 1 .. Len(a) : (a \o b)[i] = a[i]
             /\ \A i \in 1 .. Len(b) : (a \o b)[Len(a) + i] = b[i]
  OBVIOUS
<1>3. ASSUME NEW part \in {"record", "junk"}, NEW count \in Nat
      PROVE  LET whole == Cells(n, part, count) \o Cells(n, "end", 1)
             IN  /\ whole \in Seq(Cell) /\ Len(whole) = count + 1
                 /\ \A i \in 1 .. count + 1 : /\ whole[i].line = n
                                              /\ whole[i].part = "end" => i = count + 1
                 /\ \A i \in 1 .. count : whole[i].part = part
                 /\ whole[count + 1].part = "end"
  <2> DEFINE a == Cells(n, part, count)
             b == Cells(n, "end", 1)
             whole == a \o b
  <2>1. /\ a \in Seq(Cell) /\ Len(a) = count
        /\ \A i \in 1 .. count : a[i] = [line |-> n, part |-> part]
    BY <1>1
  <2>2. /\ b \in Seq(Cell) /\ Len(b) = 1 /\ b[1] = [line |-> n, part |-> "end"]
    <3>1. 1 \in Nat /\ 1 \in 1 .. 1
      OBVIOUS
    <3>2. QED
      BY <1>1, <3>1
  <2> HIDE DEF a, b
  <2>3. /\ whole \in Seq(Cell) /\ Len(whole) = Len(a) + Len(b)
        /\ \A i \in 1 .. Len(a) : whole[i] = a[i]
        /\ \A i \in 1 .. Len(b) : whole[Len(a) + i] = b[i]
    BY <1>2, <2>1, <2>2
  <2> HIDE DEF whole
  <2>4. whole[count + 1] = [line |-> n, part |-> "end"]
    BY <2>1, <2>2, <2>3
  <2>5. \A i \in 1 .. count + 1 : i \in 1 .. count \/ i = count + 1
    OBVIOUS
  <2>6. \A i \in 1 .. count + 1 : whole[i].line = n /\ (whole[i].part = "end" => i = count + 1)
    BY <2>1, <2>3, <2>4, <2>5
  <2>7. (\A i \in 1 .. count : whole[i].part = part) /\ whole[count + 1].part = "end"
    BY <2>1, <2>3, <2>4
  <2>8. QED
    BY <2>1, <2>2, <2>3, <2>6, <2>7 DEF whole, a, b
<1>4. MaxLine + 1 \in Nat /\ (MaxLine + 1) + 1 = MaxLine + 2
  BY LineAssumption
<1>5. /\ RecordLine(n) \in Seq(Cell) /\ Len(RecordLine(n)) = 1 + 1
      /\ \A i \in 1 .. 1 + 1 : /\ RecordLine(n)[i].line = n
                               /\ RecordLine(n)[i].part = "end" => i = 1 + 1
      /\ \A i \in 1 .. 1 : RecordLine(n)[i].part = "record"
      /\ RecordLine(n)[1 + 1].part = "end"
  <2>1. "record" \in {"record", "junk"} /\ 1 \in Nat
    OBVIOUS
  <2>2. QED
    BY <1>3, <2>1, Zenon DEF RecordLine
<1>6. /\ LongLine(n) \in Seq(Cell) /\ Len(LongLine(n)) = (MaxLine + 1) + 1
      /\ \A i \in 1 .. (MaxLine + 1) + 1 : /\ LongLine(n)[i].line = n
                                           /\ LongLine(n)[i].part = "end" => i = (MaxLine + 1) + 1
      /\ \A i \in 1 .. MaxLine + 1 : LongLine(n)[i].part = "junk"
      /\ LongLine(n)[(MaxLine + 1) + 1].part = "end"
  <2>1. "junk" \in {"record", "junk"}
    OBVIOUS
  <2>2. QED
    BY <1>3, <1>4, <2>1, Zenon DEF LongLine
<1>7. QED
  BY <1>4, <1>5, <1>6

LEMMA ResetParts ==
  ASSUME log \in Log
  PROVE  /\ ResetLog \in Log /\ ResetLog.file = log.file /\ ResetLog.offset = 0
         /\ ResetLog.checkpoint = None /\ ResetLog.incomplete = <<>>
<1>1. log.file \in File /\ <<>> \in Seq(Cell) /\ None \in Cell \cup {None}
  BY DEF Log
<1>2. QED
  BY <1>1 DEF ResetLog, Tailing, Log

LEMMA ConsumeParts ==
  ASSUME log \in Log, NEW cell \in Cell, Len(log.incomplete) <= MaxLine
  PROVE  /\ Consume(cell) \in Log /\ Consume(cell).file = log.file
         /\ Consume(cell).offset = log.offset + 1 /\ Consume(cell).checkpoint = cell
         /\ Len(Consume(cell).incomplete) <= MaxLine
<1> DEFINE full == log.discarding \/ cell.part = "end" \/ Len(log.incomplete) >= MaxLine
           kept == IF full THEN <<>> ELSE Append(log.incomplete, cell)
           drop == cell.part # "end" /\ (log.discarding \/ Len(log.incomplete) >= MaxLine)
<1>1. log.incomplete \in Seq(Cell) /\ log.offset \in Nat /\ log.base \in Nat /\ log.file \in File
  BY DEF Log
<1>2. /\ <<>> \in Seq(Cell) /\ Len(<<>>) = 0
      /\ Append(log.incomplete, cell) \in Seq(Cell)
      /\ Len(Append(log.incomplete, cell)) = Len(log.incomplete) + 1
      /\ Len(log.incomplete) \in Nat
  BY <1>1
<1>3. kept \in Seq(Cell) /\ Len(kept) <= MaxLine
  <2>1. CASE full
    <3>1. kept = <<>>
      BY <2>1
    <3>2. QED
      BY <3>1, <1>2, LineAssumption
  <2>2. CASE ~full
    <3>1. kept = Append(log.incomplete, cell) /\ ~(Len(log.incomplete) >= MaxLine)
      BY <2>2
    <3> HIDE DEF full, kept
    <3>2. QED
      BY <3>1, <1>2, LineAssumption
  <2>3. QED
    BY <2>1, <2>2
<1>4. drop \in BOOLEAN
  BY Zenon
<1>5. log.offset + 1 \in Nat
  BY <1>1
<1>6. Consume(cell) = [file |-> log.file, offset |-> log.offset + 1, checkpoint |-> cell,
                       incomplete |-> kept, discarding |-> drop, base |-> log.base]
  BY Zenon DEF Consume
<1> HIDE DEF full, kept, drop
<1>7. QED
  BY <1>1, <1>3, <1>4, <1>5, <1>6 DEF Log

\* An open log that is read, checked or seeded is there.
LEMMA OpenLog ==
  ASSUME IInv, pc \in {"seed", "check", "read"}
  PROVE  /\ log \in Log /\ log # None /\ log.file \in File /\ log.offset \in Nat
         /\ log.checkpoint \in Cell \cup {None}
         /\ log.incomplete \in Seq(Cell) /\ Len(log.incomplete) <= MaxLine
         /\ content[log.file] \in Seq(Cell)
BY DEF IInv, TypeOK, ReportInv, ControlInv, Log

\* A cell of the line in progress is a cell, and what remains is a sequence of them.
LEMMA NextCell ==
  ASSUME IInv, WriteCell
  PROVE  /\ path \in File /\ unwritten \in Seq(Cell) /\ Len(unwritten) \in Nat \ {0}
         /\ Head(unwritten) \in Cell /\ Head(unwritten) = unwritten[1]
         /\ Head(unwritten).line = written
         /\ Head(unwritten).part = "end" => Len(unwritten) = 1
         /\ Tail(unwritten) \in Seq(Cell) /\ Len(Tail(unwritten)) = Len(unwritten) - 1
         /\ \A i \in 1 .. Len(unwritten) - 1 : Tail(unwritten)[i] = unwritten[i + 1]
         /\ content' = [content EXCEPT ![path] = Append(content[path], Head(unwritten))]
<1>1. path \in File /\ unwritten \in Seq(Cell) /\ unwritten # <<>>
  BY DEF IInv, TypeOK, WriteCell
<1>2. Len(unwritten) \in Nat \ {0} /\ Head(unwritten) = unwritten[1] /\ Head(unwritten) \in Cell
  BY <1>1
<1>3. 1 \in 1 .. Len(unwritten)
  BY <1>2
<1>4. Head(unwritten).line = written /\ (Head(unwritten).part = "end" => Len(unwritten) = 1)
  BY <1>2, <1>3 DEF IInv, LineInv
<1>5. /\ Tail(unwritten) \in Seq(Cell) /\ Len(Tail(unwritten)) = Len(unwritten) - 1
      /\ \A i \in 1 .. Len(unwritten) - 1 : Tail(unwritten)[i] = unwritten[i + 1]
  BY <1>1
<1>6. QED
  BY <1>1, <1>2, <1>4, <1>5 DEF WriteCell

LEMMA GameTypes ==
  ASSUME IInv, Game
  PROVE  TypeOK'
<1> USE DEF listenerVars
<1>1. CASE BeginLine
  <2>1. written + 1 \in Line /\ written' = written + 1
        /\ unwritten' \in {RecordLine(written + 1), LongLine(written + 1)}
    BY <1>1 DEF BeginLine
  <2>2. unwritten' \in Seq(Cell) /\ written' \in Nat
    BY <2>1, LinesType DEF IInv, TypeOK
  <2>3. QED
    BY <1>1, <2>2 DEF BeginLine, IInv, TypeOK
<1>2. CASE WriteCell
  <2>1. Append(content[path], Head(unwritten)) \in Seq(Cell)
    BY <1>2, NextCell DEF IInv, TypeOK
  <2>2. content' \in [File -> Seq(Cell)]
    BY <1>2, <2>1, NextCell DEF IInv, TypeOK
  <2>3. unwritten' \in Seq(Cell)
    BY <1>2, NextCell DEF WriteCell
  <2>4. QED
    BY <1>2, <2>2, <2>3 DEF WriteCell, IInv, TypeOK
<1>3. CASE Truncate
  <2>1. content' \in [File -> Seq(Cell)] /\ unwritten' \in Seq(Cell)
    BY <1>3 DEF Truncate, IInv, TypeOK
  <2>2. QED
    BY <1>3, <2>1 DEF Truncate, IInv, TypeOK
<1>4. CASE Create
  BY <1>4 DEF Create, IInv, TypeOK
<1>5. CASE Delete
  BY <1>5 DEF Delete, IInv, TypeOK
<1>6. QED
  BY <1>1, <1>2, <1>3, <1>4, <1>5 DEF Game

\* What start does when it spawns its worker.
LEMMA StartParts ==
  ASSUME IInv, Start
  PROVE  /\ UNCHANGED <<gameVars, len>>
         /\ broadcast' = <<>> /\ pc' = IF log' = None THEN "inspect" ELSE "seed"
         /\ \/ path # None /\ log' = OpenLogFile(TRUE) /\ skip' = FALSE
            \/ log' = None /\ skip' \in BOOLEAN
         /\ phase' \in {"listening", "waiting"} /\ observed' \in Line \cup {None}
         /\ history' \in SUBSET Line /\ deferred' \in BOOLEAN
<1>1. observed' \in Line \cup {None}
  BY NewestRecordType DEF Start
<1>2. history' \in SUBSET Line
  <2>1. \A i \in 1 .. Len(Contents(path)) : Contents(path)[i].line \in Line
    <3>1. Contents(path) \in Seq(Cell)
      BY DEF Contents, IInv, TypeOK
    <3>2. \A i \in 1 .. Len(Contents(path)) : Contents(path)[i] \in Cell
      BY <3>1
    <3>3. QED
      BY <3>2 DEF Cell
  <2>2. QED
    BY <2>1 DEF Start
<1>3. QED
  BY <1>1, <1>2 DEF Start

LEMMA StartStopTypes ==
  ASSUME IInv, Start \/ StartFails \/ Stop
  PROVE  TypeOK'
<1>0. <<>> \in Seq(Line) /\ Len(<<>>) = 0
  OBVIOUS
<1>1. CASE Start
  <2>1. log' \in Log \cup {None} /\ (log' # None => Len(log'.incomplete) <= MaxLine)
        /\ skip' \in BOOLEAN
    <3>1. CASE path # None /\ log' = OpenLogFile(TRUE) /\ skip' = FALSE
      <4>1. TRUE \in BOOLEAN /\ FALSE \in BOOLEAN
        OBVIOUS
      <4>2. log' \in Log /\ log'.incomplete = <<>>
        BY <3>1, <4>1, TailingType DEF IInv
      <4>3. Len(log'.incomplete) = 0 /\ 0 <= MaxLine
        BY <4>2, <1>0, LineAssumption
      <4>4. QED
        BY <3>1, <4>1, <4>2, <4>3
    <3>2. CASE log' = None /\ skip' \in BOOLEAN
      BY <3>2
    <3>3. QED
      BY <1>1, <3>1, <3>2, StartParts
  <2>2. content' = content /\ path' = path /\ used' = used /\ unwritten' = unwritten
        /\ written' = written /\ len' = len
    BY <1>1, StartParts DEF gameVars
  <2>3. pc' \in {"inspect", "seed"} /\ broadcast' \in Seq(Line)
        /\ phase' \in {"listening", "waiting"} /\ observed' \in Line \cup {None}
        /\ history' \in SUBSET Line /\ deferred' \in BOOLEAN
    BY <1>0, <1>1, StartParts
  <2>4. TypeOK
    BY DEF IInv
  <2>5. QED
    BY <2>1, <2>2, <2>3, <2>4 DEF TypeOK
<1>2. CASE StartFails
  BY <1>2, NewestRecordType DEF StartFails, IInv, TypeOK, gameVars
<1>3. CASE Stop
  <2>1. content' = content /\ path' = path /\ used' = used /\ unwritten' = unwritten
        /\ written' = written /\ len' = len /\ skip' = skip /\ log' = None
    BY <1>3 DEF Stop, gameVars
  <2>2. pc' = "stopped" /\ broadcast' \in Seq(Line) /\ phase' = "stopped" /\ observed' = None
        /\ history' \in SUBSET Line /\ deferred' \in BOOLEAN
    BY <1>0, <1>3 DEF Stop
  <2>3. TypeOK
    BY DEF IInv
  <2>4. QED
    BY <2>1, <2>2, <2>3 DEF TypeOK
<1>4. QED
  BY <1>1, <1>2, <1>3

LEMMA ReadParts ==
  ASSUME IInv, Read
  PROVE  LET cell == content[log.file][log.offset + 1]
         IN  /\ cell \in Cell /\ log.offset + 1 \in 1 .. Len(content[log.file])
             /\ log' = Consume(cell) /\ log' \in Log /\ log' # None
             /\ Len(log'.incomplete) <= MaxLine
             /\ log'.file = log.file /\ log'.offset = log.offset + 1
             /\ log'.checkpoint = cell
             /\ \/ /\ cell.part = "end" /\ cell.line \in Line
                   /\ broadcast' = Append(broadcast, cell.line) /\ observed' = cell.line
                \/ broadcast' = broadcast /\ observed' = observed
<1> DEFINE cell == content[log.file][log.offset + 1]
<1>1. /\ log \in Log /\ log.offset \in Nat /\ content[log.file] \in Seq(Cell)
      /\ Len(log.incomplete) <= MaxLine
  BY OpenLog DEF Read
<1>2. log.offset + 1 \in 1 .. Len(content[log.file])
  BY <1>1 DEF Read
<1>3. cell \in Cell
  BY <1>1, <1>2
<1>4. /\ log' = Consume(cell)
      /\ \/ Completes(cell) /\ broadcast' = Append(broadcast, cell.line) /\ observed' = cell.line
         \/ broadcast' = broadcast /\ observed' = observed
  BY DEF Read
<1> HIDE DEF cell
<1>5. Completes(cell) => cell.part = "end"
  BY DEF Completes
<1>6. cell.line \in Line
  BY <1>3 DEF Cell
<1>7. log' # None
  BY <1>1, <1>3, <1>4, ConsumeParts, NoneAssumption
<1>8. QED
  BY <1>1, <1>2, <1>3, <1>4, <1>5, <1>6, <1>7, ConsumeParts DEF cell

LEMMA WorkerTypes ==
  ASSUME IInv, Worker
  PROVE  TypeOK'
<1> USE DEF gameVars
<1>1. CASE Seed
  BY <1>1, NewestRecordType DEF Seed, IInv, TypeOK
<1>2. CASE InspectFails
  BY <1>2 DEF InspectFails, IInv, TypeOK
<1>3. CASE Inspect
  <2>1. len' \in Nat
    BY <1>3 DEF Inspect, IInv, TypeOK
  <2>2. QED
    BY <1>3, <2>1 DEF Inspect, ObservedAfter, IInv, TypeOK
<1>4. CASE Open
  <2>1. log' = log \/ (path # None /\ log' = OpenLogFile(skip))
    BY <1>4 DEF Open
  <2>2. log' \in Log \cup {None} /\ (log' # None => Len(log'.incomplete) <= MaxLine)
    BY <2>1, TailingType, LineAssumption DEF IInv, TypeOK
  <2>3. observed' \in Line \cup {None}
    BY <1>4, NewestRecordType DEF Open, IInv, TypeOK
  <2>4. QED
    BY <1>4, <2>2, <2>3 DEF Open, IInv, TypeOK
<1>5. CASE Check
  <2>1. log \in Log /\ Len(log.incomplete) <= MaxLine
    BY <1>5, OpenLog DEF Check
  <2>2. ResetLog \in Log /\ Len(ResetLog.incomplete) <= MaxLine
    <3>1. Len(<<>>) = 0
      OBVIOUS
    <3>2. QED
      BY <2>1, <3>1, ResetParts, LineAssumption
  <2>3. log' = log \/ log' = ResetLog
    BY <1>5 DEF Check
  <2>4. log' \in Log /\ Len(log'.incomplete) <= MaxLine
    BY <2>1, <2>2, <2>3
  <2>5. QED
    BY <1>5, <2>4 DEF Check, IInv, TypeOK
<1>6. CASE Read
  <2>1. log' \in Log /\ Len(log'.incomplete) <= MaxLine
    BY <1>6, ReadParts
  <2>2. broadcast \in Seq(Line) /\ observed \in Line \cup {None}
    BY DEF IInv, TypeOK
  <2>3. broadcast' \in Seq(Line) /\ observed' \in Line \cup {None}
    BY <1>6, <2>2, ReadParts
  <2>4. QED
    BY <1>6, <2>1, <2>3 DEF Read, IInv, TypeOK
<1>7. CASE ReadEnds
  BY <1>7 DEF ReadEnds, IInv, TypeOK
<1>8. QED
  BY <1>1, <1>2, <1>3, <1>4, <1>5, <1>6, <1>7 DEF Worker

LEMMA TypeStep ==
  ASSUME IInv, Next
  PROVE  TypeOK'
BY GameTypes, StartStopTypes, WorkerTypes DEF Next

--------------------------------------------------------------------------------
(* The files. *)

LEMMA CellTypes ==
  ASSUME TypeOK
  PROVE  \A f \in File : /\ content[f] \in Seq(Cell) /\ Len(content[f]) \in Nat
                         /\ \A i \in 1 .. Len(content[f]) : content[f][i].line \in Nat
<1>1. ASSUME NEW f \in File
      PROVE  /\ content[f] \in Seq(Cell) /\ Len(content[f]) \in Nat
             /\ \A i \in 1 .. Len(content[f]) : content[f][i].line \in Nat
  <2>1. content[f] \in Seq(Cell)
    BY DEF TypeOK
  <2>2. Len(content[f]) \in Nat /\ \A i \in 1 .. Len(content[f]) : content[f][i] \in Cell
    BY <2>1
  <2>3. \A c \in Cell : c.line \in Nat
    BY DEF Cell, Line
  <2>4. QED
    BY <2>1, <2>2, <2>3
<1>2. QED
  BY <1>1

\* A cell that is later than all complete lines keeps a file in order.
LEMMA AppendOrdered ==
  ASSUME NEW cells \in Seq(Cell), NEW cell \in Cell, Ordered(cells, cell.line),
         \A i \in 1 .. Len(cells) : cells[i].part = "end" => cells[i].line < cell.line
  PROVE  Ordered(Append(cells, cell), cell.line)
<1> DEFINE longer == Append(cells, cell)
<1>1. /\ Len(cells) \in Nat /\ Len(longer) = Len(cells) + 1
      /\ longer[Len(cells) + 1] = cell
      /\ \A i \in 1 .. Len(cells) : longer[i] = cells[i]
  OBVIOUS
<1>2. cell.line \in Nat
  BY DEF Cell, Line
<1> HIDE DEF longer
<1>3. ASSUME NEW i \in 1 .. Len(longer)
      PROVE  longer[i].line <= cell.line
  <2>1. CASE i \in 1 .. Len(cells)
    BY <1>1, <2>1 DEF Ordered
  <2>2. CASE i = Len(cells) + 1
    BY <1>1, <1>2, <2>2
  <2>3. QED
    BY <1>1, <2>1, <2>2
<1>4. ASSUME NEW i \in 1 .. Len(longer), NEW k \in i + 1 .. Len(longer)
      PROVE  /\ longer[i].line <= longer[k].line
             /\ longer[i].part = "end" => longer[i].line < longer[k].line
  <2>1. i \in 1 .. Len(cells) /\ longer[i] = cells[i]
    BY <1>1
  <2>2. CASE k \in i + 1 .. Len(cells)
    <3>1. longer[k] = cells[k]
      BY <1>1, <2>2
    <3>2. QED
      BY <2>1, <2>2, <3>1 DEF Ordered
  <2>3. CASE k = Len(cells) + 1
    <3>1. longer[k] = cell
      BY <1>1, <2>3
    <3>2. QED
      BY <2>1, <3>1 DEF Ordered
  <2>4. QED
    BY <1>1, <2>2, <2>3
<1>5. Ordered(longer, cell.line)
  BY <1>3, <1>4 DEF Ordered
<1>6. QED
  BY <1>5 DEF longer

LEMMA FileWrite ==
  ASSUME IInv, WriteCell
  PROVE  FileInv'
<1> DEFINE cell == Head(unwritten)
<1>1. /\ path \in File /\ path # None /\ cell \in Cell /\ cell.line = written
      /\ content[path] \in Seq(Cell)
      /\ content' = [content EXCEPT ![path] = Append(content[path], cell)]
  BY NextCell, CellTypes DEF WriteCell, IInv
<1> HIDE DEF cell
<1>2. /\ path' = path /\ used' = used /\ written' = written
      /\ content'[path] = Append(content[path], cell)
      /\ \A f \in File \ {path} : content'[f] = content[f]
  BY <1>1 DEF WriteCell, IInv, TypeOK
<1>3. \A f \in File : \A i \in 1 .. Len(content[f]) :
        content[f][i].part = "end" \/ f # path => content[f][i].line < written
  BY DEF IInv, LineInv, WriteCell
<1>4. \A f \in File \ used' : content'[f] = <<>>
  BY <1>1, <1>2 DEF IInv, FileInv
<1>5. Ordered(content'[path], written)
  <2>1. Ordered(content[path], cell.line)
    BY <1>1 DEF IInv, FileInv
  <2>2. QED
    BY <1>1, <1>2, <1>3, <2>1, AppendOrdered
<1>6. ASSUME NEW f \in File, f # path
      PROVE  /\ Ordered(content'[f], written)
             /\ \A i \in 1 .. Len(content'[f]) : Older(content'[f][i].line, content'[path])
  <2>1. /\ Ordered(content[f], written)
        /\ \A i \in 1 .. Len(content[f]) : Older(content[f][i].line, content[path])
    BY <1>1, <1>6 DEF IInv, FileInv
  <2>2. ASSUME NEW i \in 1 .. Len(content[f]) PROVE Older(content[f][i].line, content'[path])
    <3>1. Older(content[f][i].line, content[path]) /\ content[f][i].line < cell.line
      BY <1>1, <1>3, <1>6, <2>1
    <3>2. /\ Len(content'[path]) = Len(content[path]) + 1
          /\ Len(content[path]) \in Nat
          /\ content'[path][Len(content[path]) + 1] = cell
          /\ \A k \in 1 .. Len(content[path]) : content'[path][k] = content[path][k]
      BY <1>1, <1>2
    <3>3. ASSUME NEW k \in 1 .. Len(content'[path])
          PROVE  content[f][i].line < content'[path][k].line
      <4>1. CASE k \in 1 .. Len(content[path])
        BY <3>1, <3>2, <4>1 DEF Older
      <4>2. CASE k = Len(content[path]) + 1
        BY <3>1, <3>2, <4>2
      <4>3. QED
        BY <3>2, <4>1, <4>2
    <3>4. QED
      BY <3>3 DEF Older
  <2>3. content'[f] = content[f]
    BY <1>2, <1>6
  <2>4. QED
    BY <2>1, <2>2, <2>3
<1>7. path' \in used' \cup {None}
  BY <1>2 DEF IInv, FileInv
<1>8. QED
  BY <1>2, <1>4, <1>5, <1>6, <1>7 DEF FileInv

LEMMA FileStep ==
  ASSUME IInv, Next
  PROVE  FileInv'
<1>1. /\ \A f \in File \ used : content[f] = <<>>
      /\ path \in used \cup {None} /\ path \in File \cup {None} /\ None \notin File
      /\ \A f \in File :
           /\ Ordered(content[f], written)
           /\ path # None /\ f # path =>
                \A i \in 1 .. Len(content[f]) : Older(content[f][i].line, content[path])
  BY NoneAssumption DEF IInv, FileInv, TypeOK
<1>2. Len(<<>>) = 0 /\ (\A n : Older(n, <<>>)) /\ (\A last : Ordered(<<>>, last))
  BY DEF Older, Ordered
<1>3. CASE BeginLine
  <2>1. content' = content /\ path' = path /\ used' = used /\ written' = written + 1
    BY <1>3 DEF BeginLine
  <2>2. ASSUME NEW f \in File PROVE Ordered(content[f], written + 1)
    <3>1. Ordered(content[f], written) /\ written \in Nat
      BY <1>1 DEF IInv, TypeOK
    <3>2. Len(content[f]) \in Nat /\ \A i \in 1 .. Len(content[f]) : content[f][i].line \in Nat
      BY CellTypes DEF IInv
    <3>3. \A i \in 1 .. Len(content[f]) : content[f][i].line <= written + 1
      BY <3>1, <3>2 DEF Ordered
    <3>4. QED
      BY <3>1, <3>3 DEF Ordered
  <2>3. QED
    BY <1>1, <2>1, <2>2 DEF FileInv
<1>4. CASE WriteCell
  BY <1>4, FileWrite
<1>5. CASE Truncate
  <2>1. path' = path /\ used' = used /\ written' = written /\ path # None
        /\ content'[path] = <<>> /\ \A f \in File \ {path} : content'[f] = content[f]
    BY <1>5, <1>1 DEF Truncate, IInv, TypeOK
  <2>2. \A f \in File \ used' : content'[f] = <<>>
    BY <1>1, <2>1
  <2>3. ASSUME NEW f \in File
        PROVE  /\ Ordered(content'[f], written')
               /\ path' # None /\ f # path' =>
                    \A i \in 1 .. Len(content'[f]) : Older(content'[f][i].line, content'[path'])
    <3>1. CASE f = path
      BY <1>2, <2>1, <3>1
    <3>2. CASE f # path
      BY <1>1, <1>2, <2>1, <3>2
    <3>3. QED
      BY <3>1, <3>2
  <2>4. QED
    BY <1>1, <2>1, <2>2, <2>3 DEF FileInv
<1>6. CASE Create
  <2>1. PICK g \in File \ used : path' = g /\ used' = used \cup {g}
    BY <1>6 DEF Create
  <2>2. content' = content /\ written' = written /\ content[g] = <<>>
    BY <1>1, <1>6 DEF Create
  <2>3. ASSUME NEW f \in File, f # path'
        PROVE  \A i \in 1 .. Len(content'[f]) : Older(content'[f][i].line, content'[path'])
    BY <1>2, <2>1, <2>2
  <2>4. QED
    BY <1>1, <2>1, <2>2, <2>3 DEF FileInv
<1>7. CASE Delete
  <2>1. content' = content /\ written' = written /\ used' = used /\ path' = None
    BY <1>7 DEF Delete
  <2>2. QED
    BY <1>1, <2>1 DEF FileInv
<1>8. CASE UNCHANGED gameVars
  <2>1. content' = content /\ written' = written /\ used' = used /\ path' = path
    BY <1>8 DEF gameVars
  <2>2. QED
    BY <1>1, <2>1 DEF FileInv
<1>9. Next => Game \/ UNCHANGED gameVars
  BY DEF Next, Start, StartFails, Stop, Worker, Seed, InspectFails, Inspect, Open, Check,
         Read, ReadEnds
<1>10. QED
  BY <1>3, <1>4, <1>5, <1>6, <1>7, <1>8, <1>9 DEF Game

LEMMA LineStep ==
  ASSUME IInv, Next
  PROVE  LineInv'
<1>1. /\ \A f \in File : /\ content[f] \in Seq(Cell) /\ Len(content[f]) \in Nat
                         /\ \A i \in 1 .. Len(content[f]) : content[f][i].line \in Nat
      /\ written \in Nat /\ unwritten \in Seq(Cell)
  BY CellTypes DEF IInv, TypeOK
<1>2. CASE unwritten' = <<>>
  BY <1>2 DEF LineInv
<1>3. CASE BeginLine
  <2>1. /\ content' = content /\ path' = path /\ written' = written + 1 /\ written + 1 \in Line
        /\ unwritten' \in {RecordLine(written + 1), LongLine(written + 1)}
    BY <1>3 DEF BeginLine
  <2>2. \A i \in 1 .. Len(unwritten') : /\ unwritten'[i].line = written'
                                        /\ unwritten'[i].part = "end" => i = Len(unwritten')
    <3>1. CASE unwritten' = RecordLine(written + 1)
      <4>1. /\ Len(unwritten') = 2
            /\ \A i \in 1 .. 2 : /\ unwritten'[i].line = written + 1
                                 /\ unwritten'[i].part = "end" => i = 2
        BY <2>1, <3>1, LinesType
      <4>2. QED
        BY <2>1, <4>1
    <3>2. CASE unwritten' = LongLine(written + 1)
      <4>1. /\ Len(unwritten') = MaxLine + 2
            /\ \A i \in 1 .. MaxLine + 2 : /\ unwritten'[i].line = written + 1
                                           /\ unwritten'[i].part = "end" => i = MaxLine + 2
        BY <2>1, <3>2, LinesType
      <4>2. QED
        BY <2>1, <4>1
    <3>3. QED
      BY <2>1, <3>1, <3>2
  <2>3. ASSUME NEW f \in File, NEW i \in 1 .. Len(content[f])
        PROVE  content[f][i].line < written + 1
    BY <1>1, <2>3 DEF IInv, FileInv, Ordered
  <2>4. QED
    BY <2>1, <2>2, <2>3 DEF LineInv
<1>4. CASE WriteCell
  <2> DEFINE cell == Head(unwritten)
  <2>1. /\ path \in File /\ Len(unwritten) \in Nat \ {0}
        /\ content' = [content EXCEPT ![path] = Append(content[path], cell)]
        /\ cell.part = "end" => Len(unwritten) = 1
        /\ Len(Tail(unwritten)) = Len(unwritten) - 1
        /\ \A i \in 1 .. Len(unwritten) - 1 : Tail(unwritten)[i] = unwritten[i + 1]
    BY <1>4, NextCell
  <2> HIDE DEF cell
  <2>2. unwritten' = Tail(unwritten) /\ written' = written /\ path' = path /\ unwritten # <<>>
    BY <1>4 DEF WriteCell
  <2>3. \A i \in 1 .. Len(unwritten') : /\ unwritten'[i].line = written'
                                        /\ unwritten'[i].part = "end" => i = Len(unwritten')
    <3>1. ASSUME NEW i \in 1 .. Len(unwritten')
          PROVE  unwritten'[i].line = written' /\ (unwritten'[i].part = "end" => i = Len(unwritten'))
      <4>1. i \in 1 .. Len(unwritten) - 1 /\ i + 1 \in 1 .. Len(unwritten)
            /\ unwritten'[i] = unwritten[i + 1] /\ Len(unwritten') = Len(unwritten) - 1
        BY <2>1, <2>2
      <4>2. /\ unwritten[i + 1].line = written
            /\ unwritten[i + 1].part = "end" => i + 1 = Len(unwritten)
        BY <4>1 DEF IInv, LineInv
      <4>3. unwritten'[i].line = written'
        BY <2>2, <4>1, <4>2
      <4>4. ASSUME unwritten'[i].part = "end" PROVE i = Len(unwritten')
        <5>1. i + 1 = Len(unwritten)
          BY <4>1, <4>2, <4>4
        <5>2. i \in Nat /\ Len(unwritten) \in Nat /\ Len(unwritten') = Len(unwritten) - 1
          BY <2>1, <4>1
        <5>3. QED
          BY <5>1, <5>2
      <4>5. QED
        BY <4>3, <4>4
    <3>2. QED
      BY <3>1
  <2>4. CASE unwritten' # <<>>
    <3>1. cell.part # "end"
      <4>1. Len(unwritten) # 1
        BY <1>1, <2>1, <2>2, <2>4
      <4>2. QED
        BY <2>1, <4>1
    <3>2. ASSUME NEW f \in File, NEW i \in 1 .. Len(content'[f]),
                 content'[f][i].part = "end" \/ f # path
          PROVE  content'[f][i].line < written
      <4>1. CASE f # path
        BY <2>1, <2>2, <3>2, <4>1 DEF IInv, LineInv, TypeOK
      <4>2. CASE f = path
        <5>1. /\ content[path] \in Seq(Cell) /\ content'[f] = Append(content[path], cell)
          BY <1>1, <2>1, <4>2 DEF IInv, TypeOK
        <5>2. i \in 1 .. Len(content[path]) /\ content'[f][i] = content[path][i]
          BY <3>1, <3>2, <4>2, <5>1
        <5>3. QED
          BY <2>1, <2>2, <3>2, <4>2, <5>2 DEF IInv, LineInv
      <4>3. QED
        BY <4>1, <4>2
    <3>3. QED
      BY <2>2, <2>3, <3>2 DEF LineInv
  <2>5. QED
    BY <1>2, <2>4
<1>5. CASE UNCHANGED gameVars
  BY <1>5 DEF IInv, LineInv, gameVars
<1>6. Next => \/ unwritten' = <<>> \/ BeginLine \/ WriteCell \/ UNCHANGED gameVars
  BY DEF Next, Game, Truncate, Create, Delete, Start, StartFails, Stop, Worker, Seed,
         InspectFails, Inspect, Open, Check, Read, ReadEnds
<1>7. QED
  BY <1>2, <1>3, <1>4, <1>5, <1>6

--------------------------------------------------------------------------------
(* What was reported. *)

\* What a step of the game does to a file: nothing, the next cell of its line, or it is
\* emptied.
LEMMA GameEffect ==
  ASSUME IInv, Game
  PROVE  /\ UNCHANGED listenerVars
         /\ written' \in Nat /\ written <= written'
         /\ unwritten' # <<>> => (unwritten # <<>> /\ written' = written) \/ written < written'
         /\ path' # None => path' = path \/ content'[path'] = <<>>
         /\ \A f \in File :
              \/ content'[f] = content[f]
              \/ content'[f] = <<>>
              \/ unwritten # <<>> /\ \E cell \in Cell :
                   cell.line = written /\ content'[f] = Append(content[f], cell)
<1>1. written \in Nat /\ content \in [File -> Seq(Cell)] /\ path \in File \cup {None}
  BY DEF IInv, TypeOK
<1>2. CASE BeginLine
  BY <1>1, <1>2 DEF BeginLine
<1>3. CASE WriteCell
  <2>1. /\ path \in File /\ Head(unwritten) \in Cell /\ Head(unwritten).line = written
        /\ content' = [content EXCEPT ![path] = Append(content[path], Head(unwritten))]
    BY <1>3, NextCell
  <2>2. ASSUME NEW f \in File
        PROVE  content'[f] = content[f] \/ content'[f] = Append(content[f], Head(unwritten))
    BY <1>1, <2>1
  <2>3. QED
    BY <1>1, <1>3, <2>1, <2>2 DEF WriteCell
<1>4. CASE Truncate
  BY <1>1, <1>4 DEF Truncate
<1>5. CASE Create
  BY <1>1, <1>5 DEF Create, IInv, FileInv
<1>6. CASE Delete
  BY <1>1, <1>6 DEF Delete
<1>7. QED
  BY <1>2, <1>3, <1>4, <1>5, <1>6 DEF Game

\* What is older than the line begun stays older than what a file holds.
LEMMA OlderKept ==
  ASSUME IInv, Game, NEW f \in File, NEW n \in Line, NEW from \in Nat,
         unwritten # <<>> => n < written,
         \A i \in from + 1 .. Len(content[f]) : n < content[f][i].line
  PROVE  \A i \in from + 1 .. Len(content'[f]) : n < content'[f][i].line
<1>1. content[f] \in Seq(Cell)
  BY DEF IInv, TypeOK
<1>2. CASE content'[f] = content[f]
  BY <1>2
<1>3. CASE content'[f] = <<>>
  BY <1>3
<1>4. CASE unwritten # <<>> /\ \E cell \in Cell :
             cell.line = written /\ content'[f] = Append(content[f], cell)
  <2>1. PICK cell \in Cell : cell.line = written /\ content'[f] = Append(content[f], cell)
    BY <1>4
  <2>2. ASSUME NEW i \in from + 1 .. Len(content'[f])
        PROVE  n < content'[f][i].line
    <3>1. /\ Len(content'[f]) = Len(content[f]) + 1 /\ Len(content[f]) \in Nat
          /\ content'[f][Len(content[f]) + 1] = cell
          /\ \A k \in 1 .. Len(content[f]) : content'[f][k] = content[f][k]
      BY <1>1, <2>1
    <3>2. CASE i = Len(content[f]) + 1
      BY <1>4, <2>1, <3>1, <3>2
    <3>3. CASE i \in from + 1 .. Len(content[f])
      <4>1. i \in 1 .. Len(content[f])
        BY <3>3
      <4>2. QED
        BY <3>1, <3>3, <4>1
    <3>4. QED
      BY <3>1, <3>2, <3>3
  <2>3. QED
    BY <2>2
<1>5. QED
  BY <1>2, <1>3, <1>4, GameEffect

LEMMA ReportedLines ==
  ASSUME TypeOK
  PROVE  Reported \in SUBSET Line
BY DEF TypeOK, Reported

LEMMA GameReports ==
  ASSUME IInv, Game
  PROVE  ReportInv'
<1>1. UNCHANGED <<pc, log, skip, len, broadcast>> /\ Reported' = Reported
  BY GameEffect DEF listenerVars, Reported
<1>2. Reported \in SUBSET Line /\ \A n \in Reported : n <= written /\ (unwritten # <<>> => n < written)
  BY ReportedLines DEF IInv, ReportInv, WrittenInv
<1>3. ControlInv'
  BY <1>1 DEF IInv, ReportInv, ControlInv
<1>4. WrittenInv'
  <2>1. /\ written \in Nat /\ written' \in Nat /\ written <= written'
        /\ unwritten' # <<>> => (unwritten # <<>> /\ written' = written) \/ written < written'
    BY GameEffect DEF IInv, TypeOK
  <2>2. ASSUME NEW n \in Reported PROVE n <= written' /\ (unwritten' # <<>> => n < written')
    <3>1. n \in Nat
      BY <1>2 DEF Line
    <3>2. QED
      BY <1>2, <2>1, <3>1
  <2>3. QED
    BY <1>1, <2>2 DEF WrittenInv
\* What was older than a whole file stays older than it.
<1>5. ASSUME NEW f \in File, NEW n \in Reported, Older(n, content[f])
      PROVE  Older(n, content'[f])
  <2>1. 0 \in Nat /\ \A i \in 0 + 1 .. Len(content[f]) : n < content[f][i].line
    BY <1>5 DEF Older
  <2>2. \A i \in 0 + 1 .. Len(content'[f]) : n < content'[f][i].line
    BY <1>2, <2>1, OlderKept
  <2>3. QED
    BY <2>2 DEF Older
<1>6. OtherFileInv'
  <2>1. ASSUME path' # None, log = None \/ log.file # path', NEW n \in Reported
        PROVE  Older(n, content'[path'])
    <3>1. path' \in File
      BY <2>1, TypeStep DEF TypeOK, Next
    <3>2. CASE path' = path
      BY <1>5, <2>1, <3>1, <3>2 DEF IInv, ReportInv, OtherFileInv
    <3>3. CASE content'[path'] = <<>>
      BY <3>3 DEF Older
    <3>4. QED
      BY <2>1, <3>2, <3>3, GameEffect
  <2>2. QED
    BY <1>1, <2>1 DEF OtherFileInv
<1>7. LogInv'
  <2>1. SUFFICES ASSUME log # None
                 PROVE  /\ log.checkpoint = None <=> log.offset = 0
                        /\ \A n \in Reported : \A i \in log.offset + 1 .. Len(content'[log.file]) :
                             n < content'[log.file][i].line
                        /\ CheckpointMatches' \/ Renewed'
                        /\ pc = "check" /\ len < log.offset => Renewed'
    BY <1>1 DEF LogInv
  <2>2. /\ log.file \in File /\ log.offset \in Nat
        /\ content[log.file] \in Seq(Cell)
    BY <2>1 DEF IInv, TypeOK, Log
  <2>3. /\ log.checkpoint = None <=> log.offset = 0
        /\ \A n \in Reported : \A i \in log.offset + 1 .. Len(content[log.file]) :
             n < content[log.file][i].line
        /\ CheckpointMatches \/ Renewed
        /\ pc = "check" /\ len < log.offset => Renewed
    BY <2>1 DEF IInv, ReportInv, LogInv
  <2>4. \A n \in Reported : \A i \in log.offset + 1 .. Len(content'[log.file]) :
          n < content'[log.file][i].line
    BY <1>2, <2>2, <2>3, OlderKept
  <2>5. Renewed => Renewed'
    BY <1>1, <1>5, <2>2 DEF Renewed
  <2>6. CheckpointMatches => CheckpointMatches' \/ Renewed'
    <3>1. CASE content'[log.file] = content[log.file]
      BY <1>1, <3>1 DEF CheckpointMatches
    <3>2. CASE content'[log.file] = <<>>
      BY <1>1, <3>2 DEF Renewed, Older
    <3>3. CASE unwritten # <<>> /\ \E cell \in Cell :
                 cell.line = written /\ content'[log.file] = Append(content[log.file], cell)
      <4>1. /\ Len(content'[log.file]) = Len(content[log.file]) + 1
            /\ Len(content[log.file]) \in Nat
            /\ \A k \in 1 .. Len(content[log.file]) :
                 content'[log.file][k] = content[log.file][k]
        BY <2>2, <3>3
      <4>2. ASSUME CheckpointMatches PROVE CheckpointMatches'
        <5>1. CASE log.checkpoint = None
          BY <1>1, <5>1 DEF CheckpointMatches
        <5>2. CASE log.checkpoint # None
          <6>1. log.offset \in 1 .. Len(content[log.file])
                /\ content[log.file][log.offset] = log.checkpoint
            BY <2>2, <2>3, <4>1, <4>2, <5>2 DEF CheckpointMatches
          <6>2. log.offset <= Len(content'[log.file])
                /\ content'[log.file][log.offset] = log.checkpoint
            BY <4>1, <6>1
          <6>3. QED
            BY <1>1, <6>2 DEF CheckpointMatches
        <5>3. QED
          BY <5>1, <5>2
      <4>3. QED
        BY <4>2
    <3>4. QED
      BY <2>2, <3>1, <3>2, <3>3, GameEffect
  <2>7. QED
    BY <2>3, <2>4, <2>5, <2>6
<1>8. QED
  BY <1>3, <1>4, <1>6, <1>7 DEF ReportInv

LEMMA StartStopReports ==
  ASSUME IInv, Start \/ StartFails \/ Stop
  PROVE  ReportInv' /\ OnceInOrder'
<1>0. Len(<<>>) = 0
  OBVIOUS
<1>1. CASE Start
  <2>1. /\ content' = content /\ path' = path /\ broadcast' = <<>>
        /\ pc' = IF log' = None THEN "inspect" ELSE "seed"
        /\ \/ path # None /\ log' = OpenLogFile(TRUE) /\ skip' = FALSE
           \/ log' = None /\ skip' \in BOOLEAN
    BY <1>1, StartParts DEF gameVars
  <2>2. Reported' = {}
    BY <1>0, <2>1 DEF Reported
  <2>3. ControlInv' /\ WrittenInv' /\ OtherFileInv'
    <3>1. path # None /\ log' = OpenLogFile(TRUE) => log' # None /\ skip' \in BOOLEAN
      BY <1>1, TailingType, StartStopTypes DEF IInv, TypeOK
    <3>2. QED
      BY <2>1, <2>2, <3>1 DEF ControlInv, WrittenInv, OtherFileInv
  <2>4. LogInv'
    <3>1. log' # None => (log'.checkpoint = None <=> log'.offset = 0)
      <4>1. TRUE \in BOOLEAN
        OBVIOUS
      <4>2. QED
        BY <2>1, <4>1, TailingType DEF IInv
    <3>2. Renewed'
      BY <2>2 DEF Renewed
    <3>3. QED
      BY <2>2, <3>1, <3>2 DEF LogInv
  <2>5. OnceInOrder'
    BY <1>0, <2>1 DEF OnceInOrder
  <2>6. QED
    BY <2>3, <2>4, <2>5 DEF ReportInv
<1>2. CASE StartFails
  BY <1>2 DEF StartFails, gameVars, IInv, ReportInv, ControlInv, WrittenInv, OtherFileInv, LogInv,
              Reported, Renewed, CheckpointMatches, OnceInOrder
<1>3. CASE Stop
  <2>1. pc' = "stopped" /\ log' = None /\ broadcast' = <<>>
    BY <1>3 DEF Stop
  <2>2. Reported' = {} /\ OnceInOrder'
    BY <1>0, <2>1 DEF Reported, OnceInOrder
  <2>3. QED
    BY <2>1, <2>2 DEF ReportInv, ControlInv, WrittenInv, OtherFileInv, LogInv
<1>4. QED
  BY <1>1, <1>2, <1>3

\* A step that neither reports nor moves the log keeps what was reported in place.
LEMMA StillReports ==
  ASSUME IInv, UNCHANGED gameVars, log' = log, broadcast' = broadcast
  PROVE  /\ Reported' = Reported /\ WrittenInv' /\ OtherFileInv'
         /\ Renewed' <=> Renewed
         /\ CheckpointMatches' <=> CheckpointMatches
         /\ (pc' = "check" /\ log # None /\ len' < log.offset => Renewed) => LogInv'
<1>1. content' = content /\ path' = path /\ written' = written /\ unwritten' = unwritten
  BY DEF gameVars
<1>2. Reported' = Reported
  BY DEF Reported
<1>3. (Renewed' <=> Renewed) /\ (CheckpointMatches' <=> CheckpointMatches)
  BY <1>1, <1>2 DEF Renewed, CheckpointMatches
<1>4. WrittenInv' /\ OtherFileInv'
  BY <1>1, <1>2 DEF IInv, ReportInv, WrittenInv, OtherFileInv
<1>5. ASSUME pc' = "check" /\ log # None /\ len' < log.offset => Renewed
      PROVE  LogInv'
  BY <1>1, <1>2, <1>3, <1>5 DEF IInv, ReportInv, LogInv
<1>6. QED
  BY <1>2, <1>3, <1>4, <1>5

LEMMA InspectReports ==
  ASSUME IInv, Inspect
  PROVE  ReportInv'
<1>1. /\ UNCHANGED gameVars /\ broadcast' = broadcast /\ skip' = skip
      /\ content' = content /\ path' = path /\ path # None /\ path \in File
      /\ len' = Len(content[path])
      /\ log' = IF log # None /\ log.file # path THEN None ELSE log
      /\ pc' = IF log' = None THEN "open" ELSE "check"
  BY DEF Inspect, gameVars, IInv, TypeOK
<1>2. Reported' = Reported
  BY <1>1 DEF Reported
<1>3. ControlInv'
  BY <1>1, <1>2 DEF IInv, ReportInv, ControlInv
<1>4. WrittenInv'
  BY <1>1, <1>2 DEF IInv, ReportInv, WrittenInv, gameVars
<1>5. OtherFileInv'
  BY <1>1, <1>2 DEF IInv, ReportInv, OtherFileInv
<1>6. LogInv'
  <2>1. CASE log' = None
    BY <2>1 DEF LogInv
  <2>2. CASE log' # None
    <3>1. log' = log /\ log # None /\ log.file = path
      BY <1>1, <2>2
    <3>2. log.offset \in Nat /\ content[path] \in Seq(Cell) /\ Len(content[path]) \in Nat
      BY <1>1, <3>1, CellTypes DEF IInv, TypeOK, Log
    <3>3. len' < log.offset => Renewed
      <4>1. ASSUME len' < log.offset PROVE ~CheckpointMatches
        <5>1. log.offset # 0 /\ ~(log.offset <= Len(content[log.file]))
          BY <1>1, <3>1, <3>2, <4>1
        <5>2. QED
          BY <3>1, <5>1 DEF IInv, ReportInv, LogInv, CheckpointMatches
      <4>2. QED
        BY <3>1, <4>1 DEF IInv, ReportInv, LogInv
    <3>4. QED
      BY <1>1, <3>1, <3>3, StillReports
  <2>3. QED
    BY <2>1, <2>2
<1>7. QED
  BY <1>3, <1>4, <1>5, <1>6 DEF ReportInv

LEMMA OpenReports ==
  ASSUME IInv, Open
  PROVE  ReportInv'
<1>1. /\ UNCHANGED gameVars /\ content' = content /\ path' = path
      /\ broadcast' = broadcast /\ log = None /\ skip \in BOOLEAN
  BY DEF Open, gameVars, IInv, TypeOK, ReportInv, ControlInv
<1>2. Reported' = Reported
  BY <1>1 DEF Reported
<1>3. WrittenInv'
  BY <1>1, <1>2 DEF IInv, ReportInv, WrittenInv, gameVars
<1>4. CASE path # None /\ log' = OpenLogFile(skip) /\ skip' = FALSE /\ pc' = "check"
  <2>1. /\ log' # None /\ log'.file = path
        /\ log'.offset = (IF skip THEN Len(content[path]) ELSE 0)
        /\ log'.checkpoint = None <=> log'.offset = 0
    BY <1>1, <1>4, TailingType DEF IInv
  <2>2. ControlInv' /\ OtherFileInv'
    BY <1>1, <1>4, <2>1 DEF ControlInv, OtherFileInv
  <2>3. CASE Reported = {}
    BY <1>2, <1>3, <2>1, <2>2, <2>3 DEF ReportInv, LogInv, Renewed
  <2>4. CASE Reported # {}
    <3>1. ~skip /\ log'.offset = 0 /\ log'.checkpoint = None
      BY <2>1, <2>4 DEF IInv, ReportInv, ControlInv
    <3>2. \A n \in Reported : Older(n, content[path])
      BY <1>1, <1>4 DEF IInv, ReportInv, OtherFileInv
    <3>3. Renewed' /\ CheckpointMatches'
      BY <1>1, <1>2, <2>1, <3>1, <3>2 DEF Renewed, CheckpointMatches
    <3>4. \A n \in Reported : \A i \in 0 + 1 .. Len(content[path]) : n < content[path][i].line
      BY <3>2 DEF Older
    <3>5. LogInv'
      BY <1>1, <1>2, <2>1, <3>1, <3>3, <3>4 DEF LogInv
    <3>6. QED
      BY <1>3, <2>2, <3>5 DEF ReportInv
  <2>5. QED
    BY <2>3, <2>4
<1>5. CASE log' = log /\ skip' = skip /\ pc' = "inspect"
  <2>1. ControlInv'
    BY <1>1, <1>2, <1>5 DEF IInv, ReportInv, ControlInv
  <2>2. LogInv' /\ OtherFileInv'
    BY <1>1, <1>5, StillReports
  <2>3. QED
    BY <1>3, <2>1, <2>2 DEF ReportInv
<1>6. QED
  BY <1>4, <1>5 DEF Open

LEMMA CheckReports ==
  ASSUME IInv, Check
  PROVE  ReportInv'
<1>1. /\ UNCHANGED gameVars /\ content' = content /\ path' = path
      /\ broadcast' = broadcast /\ skip' = skip /\ len' = len /\ pc = "check"
      /\ log \in Log /\ log # None /\ log.file \in File
  BY OpenLog DEF Check, gameVars
<1>2. Reported' = Reported
  BY <1>1 DEF Reported
<1>3. CASE Truncated /\ log' = ResetLog /\ pc' = "read"
  <2>1. /\ log' \in Log /\ log'.file = log.file /\ log'.offset = 0 /\ log'.checkpoint = None
        /\ log' # None
    BY <1>1, <1>3, ResetParts, NoneAssumption
  <2>2. Renewed
    BY <1>1, <1>3 DEF Truncated, IInv, ReportInv, LogInv
  <2>3. Renewed' /\ CheckpointMatches'
    BY <1>1, <1>2, <2>1, <2>2 DEF Renewed, CheckpointMatches
  <2>4. \A n \in Reported : \A i \in 0 + 1 .. Len(content[log.file]) :
          n < content[log.file][i].line
    BY <2>2 DEF Renewed, Older
  <2>5. LogInv'
    BY <1>1, <1>2, <2>1, <2>3, <2>4 DEF LogInv
  <2>6. ControlInv' /\ OtherFileInv'
    BY <1>1, <1>2, <1>3, <2>1 DEF IInv, ReportInv, ControlInv, OtherFileInv
  <2>7. WrittenInv'
    BY <1>1, <1>2 DEF IInv, ReportInv, WrittenInv, gameVars
  <2>8. QED
    BY <2>5, <2>6, <2>7 DEF ReportInv
<1>4. CASE log' = log /\ pc' \in {"read", "inspect"}
  <2>1. ControlInv'
    BY <1>1, <1>2, <1>4 DEF IInv, ReportInv, ControlInv
  <2>2. LogInv' /\ OtherFileInv' /\ WrittenInv'
    BY <1>1, <1>4, StillReports
  <2>3. QED
    BY <2>1, <2>2 DEF ReportInv
<1>5. QED
  BY <1>3, <1>4 DEF Check

\* The cell that is read is later than all that was reported, and what follows the end of
\* a line is later than that line.
LEMMA ReadReports ==
  ASSUME IInv, Read
  PROVE  ReportInv' /\ OnceInOrder'
<1> DEFINE cell == content[log.file][log.offset + 1]
           next == log.offset + 1
<1>1. /\ UNCHANGED gameVars /\ content' = content /\ path' = path /\ written' = written
      /\ unwritten' = unwritten /\ skip' = skip /\ pc = "read" /\ pc' = pc
  BY DEF Read, gameVars
<1>2. /\ log # None /\ log.file \in File /\ log.offset \in Nat /\ content[log.file] \in Seq(Cell)
  BY <1>1, OpenLog
<1>3. /\ cell \in Cell /\ next \in 1 .. Len(content[log.file])
      /\ log' \in Log /\ log' # None
      /\ log'.file = log.file /\ log'.offset = next /\ log'.checkpoint = cell
      /\ \/ /\ cell.part = "end" /\ cell.line \in Line
            /\ broadcast' = Append(broadcast, cell.line)
         \/ broadcast' = broadcast
  BY ReadParts
<1>4. \A n \in Reported : \A i \in log.offset + 1 .. Len(content[log.file]) :
        n < content[log.file][i].line
  BY <1>2 DEF IInv, ReportInv, LogInv
<1>5. \A n \in Reported : n < cell.line
  BY <1>2, <1>3, <1>4
<1>6. broadcast \in Seq(Line) /\ written \in Nat
  BY DEF IInv, TypeOK
\* What holds of the lines reported before still holds, and of the new one it holds too.
<1>7. ASSUME NEW n \in Reported
      PROVE  /\ n <= written /\ (unwritten # <<>> => n < written)
             /\ path # None /\ log.file # path => Older(n, content[path])
             /\ \A i \in next + 1 .. Len(content[log.file]) : n < content[log.file][i].line
  <2>1. n <= written /\ (unwritten # <<>> => n < written)
    BY DEF IInv, ReportInv, WrittenInv
  <2>2. path # None /\ log.file # path => Older(n, content[path])
    BY DEF IInv, ReportInv, OtherFileInv
  <2>3. \A i \in next + 1 .. Len(content[log.file]) : i \in log.offset + 1 .. Len(content[log.file])
    BY <1>2
  <2>4. QED
    BY <1>4, <2>1, <2>2, <2>3
<1>8. ASSUME cell.part = "end"
      PROVE  /\ cell.line <= written /\ (unwritten # <<>> => cell.line < written)
             /\ path # None /\ log.file # path => Older(cell.line, content[path])
             /\ \A i \in next + 1 .. Len(content[log.file]) :
                  cell.line < content[log.file][i].line
  <2>1. /\ Ordered(content[log.file], written)
        /\ path # None /\ log.file # path =>
             \A i \in 1 .. Len(content[log.file]) :
               Older(content[log.file][i].line, content[path])
    BY <1>2 DEF IInv, FileInv
  <2>2. unwritten # <<>> => cell.line < written
    BY <1>2, <1>3, <1>8 DEF IInv, LineInv
  <2>3. QED
    BY <1>3, <1>8, <2>1, <2>2 DEF Ordered
<1>9. /\ Reported' = Reported \/ (Reported' = Reported \cup {cell.line} /\ cell.part = "end")
      /\ OnceInOrder'
  <2>1. CASE broadcast' = broadcast
    BY <2>1 DEF Reported, IInv, OnceInOrder
  <2>2. CASE cell.part = "end" /\ cell.line \in Line /\ broadcast' = Append(broadcast, cell.line)
    <3> HIDE DEF cell
    <3>1. /\ Len(broadcast') = Len(broadcast) + 1 /\ Len(broadcast) \in Nat
          /\ broadcast'[Len(broadcast) + 1] = cell.line
          /\ \A i \in 1 .. Len(broadcast) : broadcast'[i] = broadcast[i]
      BY <1>6, <2>2
    <3>2. \A i \in 1 .. Len(broadcast') : i \in 1 .. Len(broadcast) \/ i = Len(broadcast) + 1
      BY <3>1
    <3>3. 1 .. Len(broadcast) \subseteq 1 .. Len(broadcast')
          /\ Len(broadcast) + 1 \in 1 .. Len(broadcast')
      BY <3>1
    <3>4. Reported' = Reported \cup {cell.line}
      BY <3>1, <3>2, <3>3 DEF Reported
    <3>5. ASSUME NEW i \in 1 .. Len(broadcast'), NEW k \in 1 .. Len(broadcast'), i < k
          PROVE  broadcast'[i] < broadcast'[k]
      <4>1. i \in 1 .. Len(broadcast)
        BY <3>1, <3>5
      <4>2. CASE k \in 1 .. Len(broadcast)
        BY <3>1, <3>5, <4>1, <4>2 DEF IInv, OnceInOrder
      <4>3. CASE k = Len(broadcast) + 1
        BY <1>5, <3>1, <4>1, <4>3 DEF Reported
      <4>4. QED
        BY <3>2, <4>2, <4>3
    <3>6. QED
      BY <2>2, <3>4, <3>5 DEF OnceInOrder
  <2>3. QED
    BY <1>3, <2>1, <2>2
<1>10. ASSUME NEW n \in Reported'
       PROVE  /\ n <= written /\ (unwritten # <<>> => n < written)
              /\ path # None /\ log.file # path => Older(n, content[path])
              /\ \A i \in next + 1 .. Len(content[log.file]) : n < content[log.file][i].line
  <2>1. CASE n \in Reported
    BY <1>7, <2>1
  <2>2. CASE n = cell.line /\ cell.part = "end"
    BY <1>8, <2>2
  <2>3. QED
    BY <1>9, <2>1, <2>2
<1>11. ControlInv'
  BY <1>1, <1>2, <1>3 DEF IInv, ReportInv, ControlInv
<1>12. WrittenInv' /\ OtherFileInv'
  BY <1>1, <1>3, <1>10 DEF WrittenInv, OtherFileInv
<1>13. LogInv'
  <2>1. CheckpointMatches'
    BY <1>1, <1>3 DEF CheckpointMatches
  <2>2. log'.checkpoint # None /\ log'.offset # 0
    BY <1>3, NoneAssumption
  <2>3. QED
    BY <1>1, <1>3, <1>10, <2>1, <2>2 DEF LogInv
<1>14. QED
  BY <1>9, <1>11, <1>12, <1>13 DEF ReportInv

LEMMA WorkerReports ==
  ASSUME IInv, Worker
  PROVE  ReportInv'
<1>1. ASSUME UNCHANGED gameVars, log' = log, broadcast' = broadcast, skip' = skip,
             pc' = "inspect"
      PROVE  ReportInv'
  <2>1. Reported' = Reported /\ WrittenInv' /\ OtherFileInv' /\ LogInv'
    BY <1>1, StillReports
  <2>2. ControlInv'
    BY <1>1, <2>1 DEF IInv, ReportInv, ControlInv
  <2>3. QED
    BY <2>1, <2>2 DEF ReportInv
<1>2. CASE Seed
  BY <1>1, <1>2 DEF Seed
<1>3. CASE InspectFails
  <2>1. CASE log' = None /\ path = None
    <3>1. Reported' = Reported /\ path' = path /\ written' = written /\ unwritten' = unwritten
          /\ pc' = "inspect" /\ (skip' => skip)
      BY <1>3 DEF InspectFails, gameVars, Reported
    <3>2. QED
      BY <2>1, <3>1 DEF IInv, ReportInv, ControlInv, WrittenInv, OtherFileInv, LogInv
  <2>2. CASE log' = log /\ skip' = skip
    BY <1>1, <1>3, <2>2 DEF InspectFails
  <2>3. QED
    BY <1>3, <2>1, <2>2 DEF InspectFails
<1>4. CASE ReadEnds
  BY <1>1, <1>4 DEF ReadEnds
<1>5. QED
  BY <1>2, <1>3, <1>4, InspectReports, OpenReports, CheckReports, ReadReports DEF Worker

LEMMA OnceStep ==
  ASSUME IInv, Next
  PROVE  OnceInOrder'
<1>1. CASE broadcast' = broadcast
  BY <1>1 DEF IInv, OnceInOrder
<1>2. Next => broadcast' = broadcast \/ Start \/ Stop \/ Read
  BY GameEffect DEF Next, StartFails, Worker, Seed, InspectFails, Inspect, Open, Check, ReadEnds,
                    listenerVars
<1>3. QED
  BY <1>1, <1>2, StartStopReports, ReadReports

--------------------------------------------------------------------------------

LEMMA InitIInv == Init => IInv
<1>1. ASSUME Init PROVE TypeOK
  <2>1. <<>> \in Seq(Cell) /\ <<>> \in Seq(Line)
    OBVIOUS
  <2>2. QED
    BY <1>1, <2>1 DEF Init, TypeOK
<1>2. ASSUME Init PROVE FileInv /\ LineInv /\ OnceInOrder
  BY <1>2 DEF Init, FileInv, Ordered, LineInv, OnceInOrder
<1>3. ASSUME Init PROVE ReportInv
  <2>1. Reported = {}
    BY <1>3 DEF Init, Reported
  <2>2. QED
    BY <1>3, <2>1 DEF Init, ReportInv, ControlInv, WrittenInv, OtherFileInv, LogInv
<1>4. QED
  BY <1>1, <1>2, <1>3 DEF IInv

LEMMA StepIInv == IInv /\ [Next]_vars => IInv'
<1>1. ASSUME IInv, Next PROVE IInv'
  <2>1. ReportInv'
    BY <1>1, GameReports, StartStopReports, WorkerReports DEF Next
  <2>2. QED
    BY <1>1, <2>1, TypeStep, FileStep, LineStep, OnceStep DEF IInv
<1>2. ASSUME IInv, UNCHANGED vars PROVE IInv'
  <2>1. UNCHANGED gameVars /\ UNCHANGED listenerVars
    BY <1>2 DEF vars
  <2>2. TypeOK' /\ FileInv' /\ LineInv' /\ OnceInOrder'
    BY <1>2, <2>1 DEF gameVars, listenerVars, IInv, TypeOK, FileInv, LineInv, OnceInOrder
  <2>3. LogInv' /\ Reported' = Reported /\ WrittenInv' /\ OtherFileInv'
    BY <1>2, <2>1, StillReports DEF listenerVars, IInv, ReportInv, LogInv
  <2>4. ControlInv'
    BY <1>2, <2>1, <2>3 DEF listenerVars, IInv, ReportInv, ControlInv
  <2>5. QED
    BY <2>2, <2>3, <2>4 DEF IInv, ReportInv
<1>3. QED
  BY <1>1, <1>2

\* The worker's state has its types, and the line it keeps never exceeds the limit
\* (MAX_INCOMPLETE_LINE_BYTES in consume_bytes_with_metadata).
THEOREM TypeCorrect == Spec => []TypeOK
<1>1. IInv => TypeOK
  BY DEF IInv
<1>2. QED
  BY <1>1, InitIInv, StepIInv, PTL DEF Spec

\* For any number of files and lines, and however the log is truncated, replaced or
\* recreated, between the check and the reads of one poll too, no record is broadcast
\* twice and none before an older one (ensure_not_truncated, read_available).
THEOREM OnceCorrect == Spec => []OnceInOrder
<1>1. IInv => OnceInOrder
  BY DEF IInv
<1>2. QED
  BY <1>1, InitIInv, StepIInv, PTL DEF Spec

--------------------------------------------------------------------------------
(* What start skipped, and what is observed. *)

\* A line that is older than what a file holds, and than what will be written to it.
Past(n, f) == Older(n, content[f]) /\ (unwritten # <<>> => n < written)

\* A line lies in its file from its first cell on: the game drops what is left of a line
\* only with the file, or when it empties it.
ShapeInv ==
  /\ \A i \in 1 .. Len(unwritten) :
       /\ i = Len(unwritten) => unwritten[i].part = "end"
       /\ unwritten[i].part = "record" =>
            i = 1 /\ \A f \in File : \A k \in 1 .. Len(content[f]) : content[f][k].line < written
  /\ \A f \in File : \A i \in 1 .. Len(content[f]) :
       content[f][i].part = "record" => i = 1 \/ content[f][i - 1].part = "end"
  /\ path # None /\ (unwritten = <<>> \/ unwritten[1].part = "record") =>
       content[path] = <<>> \/ content[path][Len(content[path])].part = "end"

\* What was in the file when start opened it: it lies before the offset, or the file is
\* another one by now; of a line that was being written only the rest is read.
HistoryInv ==
  /\ pc = "stopped" => history = {}
  /\ \A n \in history : n <= written
  /\ \A i \in 1 .. Len(unwritten) : unwritten[i].part = "record" => written \notin history
  /\ ~deferred =>
       /\ pc # "stopped" => ~skip
       /\ Reported \cap history = {}
       /\ path # None /\ (log = None \/ log.file # path) => \A n \in history : Past(n, path)
       /\ log # None =>
            /\ \A i \in log.offset + 1 .. Len(content[log.file]) :
                 content[log.file][i].part = "record" => content[log.file][i].line \notin history
            /\ \A i \in 1 .. Len(log.incomplete) :
                 log.incomplete[i].part = "record" => log.incomplete[i].line \notin history
            /\ CheckpointMatches \/ \A n \in history : Past(n, log.file)
            /\ pc = "check" /\ len < log.offset => \A n \in history : Past(n, log.file)

\* A checkpoint that does not match never will again.
CheckpointInv ==
  log # None =>
    /\ log.base <= log.offset
    /\ log.checkpoint # None => log.checkpoint.line <= written
    /\ CheckpointMatches \/ Past(log.checkpoint.line, log.file)

\* The line a log keeps begins where a line of its file does.
Kept(l, cells) ==
  /\ l.offset = l.base \/ cells[l.offset].part = "end" =>
       l.incomplete = <<>> /\ ~l.discarding
  /\ l.offset # l.base /\ cells[l.offset].part = "record" =>
       l.incomplete = <<cells[l.offset]>> /\ ~l.discarding
  /\ l.incomplete # <<>> =>
       l.offset # l.base /\ l.incomplete[Len(l.incomplete)] = cells[l.offset]

\* The lines that lie whole from one cell of a file to another.
Between(cells, first, last) ==
  {n \in Line : \E i \in first .. last - 1 :
     /\ cells[i] = [line |-> n, part |-> "record"]
     /\ cells[i + 1] = [line |-> n, part |-> "end"]}

\* Seen, of a log and the cells of its file.
SeenOf(l, cells) == Between(cells, 1, l.base) \cup Between(cells, l.base + 1, l.offset)

\* The observation is of what was read, as long as the checkpoint matches.
ObservedInv ==
  /\ pc = "stopped" => log = None
  /\ log = None /\ pc # "stopped" => observed = None
  /\ pc = "seed" => log.base = log.offset
  /\ ~TruncateWhileReading =>
       /\ pc = "read" => CheckpointMatches
       /\ log # None /\ CheckpointMatches =>
            /\ Kept(log, content[log.file])
            /\ observed \in {None, Newest(SeenOf(log, content[log.file]))}

ListenerInv == IInv /\ ShapeInv /\ HistoryInv /\ CheckpointInv /\ ObservedInv

\* What a line begun is made of.
LEMMA BegunShape ==
  ASSUME IInv, BeginLine
  PROVE  /\ Len(unwritten') \in Nat \ {0, 1} /\ unwritten' # <<>>
         /\ unwritten'[Len(unwritten')].part = "end"
         /\ \A i \in 1 .. Len(unwritten') : unwritten'[i].part = "record" => i = 1
<1>1. written + 1 \in Line /\ MaxLine \in Nat \ {0}
  BY LineAssumption DEF BeginLine
<1>2. CASE unwritten' = RecordLine(written + 1)
  <2>1. /\ Len(unwritten') = 2 /\ unwritten'[2].part = "end"
        /\ \A i \in 1 .. 2 : i = 1 \/ i = 2
    BY <1>1, <1>2, LinesType
  <2>2. QED
    BY <2>1
<1>3. CASE unwritten' = LongLine(written + 1)
  <2>1. /\ Len(unwritten') = MaxLine + 2 /\ unwritten'[MaxLine + 2].part = "end"
        /\ \A i \in 1 .. MaxLine + 1 : unwritten'[i].part = "junk"
    BY <1>1, <1>3, LinesType
  <2>2. \A i \in 1 .. MaxLine + 2 : i \in 1 .. MaxLine + 1 \/ i = MaxLine + 2
    BY <1>1
  <2>3. QED
    BY <1>1, <2>1, <2>2
<1>4. QED
  BY <1>2, <1>3 DEF BeginLine

LEMMA ShapeStep ==
  ASSUME IInv, ShapeInv, Next
  PROVE  ShapeInv'
<1>1. /\ content \in [File -> Seq(Cell)] /\ path \in File \cup {None} /\ written \in Nat
      /\ unwritten \in Seq(Cell) /\ None \notin File
      /\ \A f \in File : /\ Len(content[f]) \in Nat
                         /\ \A i \in 1 .. Len(content[f]) : content[f][i].line \in Nat
  BY NoneAssumption, CellTypes DEF IInv, TypeOK
<1>2. CASE UNCHANGED gameVars
  BY <1>2 DEF ShapeInv, gameVars
<1>3. CASE BeginLine
  <2>1. /\ content' = content /\ path' = path /\ written' = written + 1 /\ unwritten = <<>>
    BY <1>3 DEF BeginLine
  <2>2. ASSUME NEW f \in File, NEW k \in 1 .. Len(content[f])
        PROVE  content[f][k].line < written + 1
    BY <1>1 DEF IInv, FileInv, Ordered
  <2>3. QED
    BY <1>3, <2>1, <2>2, BegunShape DEF ShapeInv
<1>4. CASE WriteCell
  <2> DEFINE cell == Head(unwritten)
             n == Len(unwritten)
  <2>1. /\ path \in File /\ n \in Nat \ {0} /\ cell = unwritten[1]
        /\ Len(Tail(unwritten)) = n - 1
        /\ \A i \in 1 .. n - 1 : Tail(unwritten)[i] = unwritten[i + 1]
        /\ content' = [content EXCEPT ![path] = Append(content[path], cell)]
    BY <1>4, NextCell
  <2>2. unwritten' = Tail(unwritten) /\ written' = written /\ path' = path /\ unwritten # <<>>
    BY <1>4 DEF WriteCell
  <2> HIDE DEF cell, n
  <2>3. /\ content'[path] = Append(content[path], cell)
        /\ \A f \in File \ {path} : content'[f] = content[f]
        /\ Len(content[path]) \in Nat /\ content[path] \in Seq(Cell)
        /\ Len(content'[path]) = Len(content[path]) + 1
        /\ content'[path][Len(content[path]) + 1] = cell
        /\ \A i \in 1 .. Len(content[path]) : content'[path][i] = content[path][i]
    BY <1>1, <2>1
  <2>4. ASSUME NEW i \in 1 .. n - 1
        PROVE  /\ Tail(unwritten)[i].part # "record"
               /\ i = n - 1 => Tail(unwritten)[i].part = "end"
    <3>1. i + 1 \in 1 .. n /\ i + 1 # 1 /\ (i = n - 1 => i + 1 = n)
      BY <2>1
    <3>2. QED
      BY <2>1, <3>1 DEF ShapeInv, n
  <2>5. \A i \in 1 .. Len(unwritten') :
          /\ i = Len(unwritten') => unwritten'[i].part = "end"
          /\ unwritten'[i].part # "record"
    BY <2>1, <2>2, <2>4
  <2>6. ASSUME NEW f \in File, NEW i \in 1 .. Len(content'[f]), content'[f][i].part = "record"
        PROVE  i = 1 \/ content'[f][i - 1].part = "end"
    <3>1. CASE f # path
      BY <2>3, <2>6, <3>1 DEF ShapeInv
    <3>2. CASE f = path /\ i \in 1 .. Len(content[path])
      <4>1. i = 1 \/ content[path][i - 1].part = "end"
        BY <2>1, <2>3, <2>6, <3>2 DEF ShapeInv
      <4>2. i = 1 \/ i - 1 \in 1 .. Len(content[path])
        BY <2>3, <3>2
      <4>3. QED
        BY <2>3, <3>2, <4>1, <4>2
    <3>3. CASE f = path /\ i = Len(content[path]) + 1
      <4>1. unwritten[1].part = "record"
        BY <2>1, <2>3, <2>6, <3>3
      <4>2. content[path] = <<>> \/ content[path][Len(content[path])].part = "end"
        BY <1>1, <2>1, <4>1 DEF ShapeInv
      <4>3. CASE content[path] = <<>>
        BY <3>3, <4>3
      <4>4. CASE content[path] # <<>> /\ content[path][Len(content[path])].part = "end"
        <5>1. Len(content[path]) \in 1 .. Len(content[path]) /\ i - 1 = Len(content[path])
          BY <2>3, <3>3, <4>4
        <5>2. QED
          BY <2>3, <3>3, <4>4, <5>1
      <4>5. QED
        BY <4>2, <4>3, <4>4
    <3>4. QED
      BY <2>3, <3>1, <3>2, <3>3
  <2>7. unwritten' = <<>> \/ unwritten'[1].part = "record" => unwritten' = <<>>
    <3>1. ASSUME unwritten' # <<>> PROVE 1 \in 1 .. Len(unwritten')
      <4>1. unwritten' \in Seq(Cell)
        BY <1>4, NextCell, <2>2
      <4>2. QED
        BY <3>1, <4>1
    <3>2. QED
      BY <2>5, <3>1
  <2>8. unwritten' = <<>> => content'[path][Len(content'[path])].part = "end"
    <3>1. ASSUME unwritten' = <<>> PROVE cell.part = "end"
      <4>1. n = 1 /\ 1 \in 1 .. n
        BY <2>1, <2>2, <3>1
      <4>2. QED
        BY <2>1, <4>1 DEF ShapeInv, n
    <3>2. QED
      BY <2>3, <3>1
  <2>9. QED
    BY <2>2, <2>5, <2>6, <2>7, <2>8 DEF ShapeInv
<1>5. CASE Truncate \/ Create \/ Delete
  <2>1. unwritten' = <<>>
    BY <1>5 DEF Truncate, Create, Delete
  <2>2. \A f \in File : content'[f] = content[f] \/ content'[f] = <<>>
    BY <1>1, <1>5 DEF Truncate, Create, Delete
  <2>3. path' # None => content'[path'] = <<>>
    BY <1>1, <1>5 DEF Truncate, Create, Delete, IInv, FileInv
  <2>4. \A f \in File : \A i \in 1 .. Len(content'[f]) :
          content'[f][i].part = "record" => i = 1 \/ content'[f][i - 1].part = "end"
    BY <2>2 DEF ShapeInv
  <2>5. QED
    BY <2>1, <2>3, <2>4 DEF ShapeInv
<1>6. Next => Game \/ UNCHANGED gameVars
  BY DEF Next, Start, StartFails, Stop, Worker, Seed, InspectFails, Inspect, Open, Check,
         Read, ReadEnds
<1>7. QED
  BY <1>2, <1>3, <1>4, <1>5, <1>6 DEF Game

\* What a step of the game does to a file, and to the line in progress.
LEMMA GameOnFile ==
  ASSUME IInv, Game, NEW f \in File
  PROVE  \/ content'[f] = content[f]
         \/ content'[f] = <<>> /\ unwritten' = <<>>
         \/ f = path /\ unwritten # <<>>
            /\ \E cell \in Cell : /\ cell = unwritten[1] /\ cell.line = written
                                  /\ content'[f] = Append(content[f], cell)
<1>1. content \in [File -> Seq(Cell)] /\ path \in File \cup {None}
  BY DEF IInv, TypeOK
<1>2. CASE WriteCell
  <2>1. /\ path \in File /\ Head(unwritten) \in Cell /\ Head(unwritten).line = written
        /\ Head(unwritten) = unwritten[1] /\ unwritten # <<>>
        /\ content' = [content EXCEPT ![path] = Append(content[path], Head(unwritten))]
    BY <1>2, NextCell DEF WriteCell
  <2>2. QED
    BY <1>1, <2>1
<1>3. CASE Truncate
  BY <1>1, <1>3 DEF Truncate
<1>4. CASE BeginLine \/ Create \/ Delete
  BY <1>4 DEF BeginLine, Create, Delete
<1>5. QED
  BY <1>2, <1>3, <1>4 DEF Game

\* What is past stays past, and what the game has written is past once a file is emptied.
LEMMA PastKept ==
  ASSUME IInv, Game, NEW f \in File, NEW n \in Line, n <= written,
         Past(n, f) \/ (content'[f] = <<>> /\ unwritten' = <<>>)
  PROVE  Older(n, content'[f]) /\ (unwritten' # <<>> => n < written')
<1>1. CASE content'[f] = <<>> /\ unwritten' = <<>>
  BY <1>1 DEF Older
<1>2. CASE Past(n, f)
  <2>1. 0 \in Nat /\ \A i \in 0 + 1 .. Len(content[f]) : n < content[f][i].line
    BY <1>2 DEF Past, Older
  <2>2. \A i \in 0 + 1 .. Len(content'[f]) : n < content'[f][i].line
    BY <1>2, <2>1, OlderKept DEF Past
  <2>3. /\ written \in Nat /\ written' \in Nat /\ n \in Nat
        /\ unwritten' # <<>> => (unwritten # <<>> /\ written' = written) \/ written < written'
    BY GameEffect DEF IInv, TypeOK, Line
  <2>4. unwritten' # <<>> => n < written'
    BY <1>2, <2>3 DEF Past
  <2>5. QED
    BY <2>2, <2>4 DEF Older
<1>3. QED
  BY <1>1, <1>2

\* The open log, of which the game changes nothing.
LEMMA LogParts ==
  ASSUME IInv, log # None
  PROVE  /\ log \in Log /\ log.file \in File /\ log.offset \in Nat /\ log.base \in Nat
         /\ log.checkpoint \in Cell \cup {None} /\ log.incomplete \in Seq(Cell)
         /\ log.checkpoint = None <=> log.offset = 0
         /\ log.checkpoint # None => log.checkpoint \in Cell /\ log.checkpoint.line \in Line
         /\ content[log.file] \in Seq(Cell) /\ Len(content[log.file]) \in Nat
<1>1. /\ log \in Log /\ content \in [File -> Seq(Cell)]
      /\ log.checkpoint = None <=> log.offset = 0
  BY DEF IInv, TypeOK, ReportInv, LogInv
<1>2. /\ log.file \in File /\ log.offset \in Nat /\ log.base \in Nat
      /\ log.checkpoint \in Cell \cup {None} /\ log.incomplete \in Seq(Cell)
  BY <1>1 DEF Log
<1>3. content[log.file] \in Seq(Cell) /\ Len(content[log.file]) \in Nat
  BY <1>1, <1>2
<1>4. log.checkpoint # None => log.checkpoint \in Cell /\ log.checkpoint.line \in Line
  BY <1>2 DEF Cell
<1>5. QED
  BY <1>1, <1>2, <1>3, <1>4

\* A checkpoint the game breaks stays broken, and breaks only where the file is emptied.
LEMMA MatchKept ==
  ASSUME IInv, CheckpointInv, Game, log # None
  PROVE  /\ log' = log
         /\ ~CheckpointMatches => ~CheckpointMatches'
         /\ \/ ~CheckpointMatches
            \/ content'[log.file] = <<>> /\ unwritten' = <<>>
            \/ CheckpointMatches' /\ \A i \in 1 .. log.offset : content'[log.file][i] = content[log.file][i]
         /\ CheckpointMatches /\ log.offset # 0 =>
              log.offset \in 1 .. Len(content[log.file])
         /\ log.checkpoint # None =>
              (~CheckpointMatches' =>
                 /\ Older(log.checkpoint.line, content'[log.file])
                 /\ unwritten' # <<>> => log.checkpoint.line < written')
<1> DEFINE f == log.file
<1>1. log' = log
  BY GameEffect DEF listenerVars
<1>2. /\ f \in File /\ log.offset \in Nat /\ log.checkpoint \in Cell \cup {None}
      /\ log.checkpoint = None <=> log.offset = 0
      /\ log.checkpoint # None => log.checkpoint.line \in Line
      /\ content[f] \in Seq(Cell) /\ Len(content[f]) \in Nat
  BY LogParts
<1>3. \/ content'[f] = content[f]
      \/ content'[f] = <<>> /\ unwritten' = <<>>
      \/ \E cell \in Cell : content'[f] = Append(content[f], cell)
  BY <1>2, GameOnFile
<1>4. ASSUME log.checkpoint # None, Past(log.checkpoint.line, f) \/ (content'[f] = <<>> /\ unwritten' = <<>>)
      PROVE  /\ Older(log.checkpoint.line, content'[f])
             /\ (unwritten' # <<>> => log.checkpoint.line < written')
  BY <1>2, <1>4, PastKept DEF CheckpointInv
<1>5. ASSUME log.checkpoint # None, Older(log.checkpoint.line, content'[f])
      PROVE  ~CheckpointMatches'
  <2>1. \A i \in 1 .. Len(content'[f]) : content'[f][i] # log.checkpoint
    <3>1. log.checkpoint.line \in Nat /\ ~(log.checkpoint.line < log.checkpoint.line)
      BY <1>2, <1>5 DEF Line
    <3>2. QED
      BY <1>5, <3>1 DEF Older
  <2>2. log.offset <= Len(content'[f]) => log.offset \in 1 .. Len(content'[f])
    <3>1. log.offset \in Nat /\ log.offset # 0
      BY <1>2, <1>5
    <3>2. QED
      BY <3>1
  <2>3. QED
    BY <1>1, <1>5, <2>1, <2>2 DEF CheckpointMatches
<1>6. ASSUME ~CheckpointMatches
      PROVE  /\ ~CheckpointMatches' /\ log.checkpoint # None
             /\ Past(log.checkpoint.line, f)
  <2>1. log.checkpoint # None /\ Past(log.checkpoint.line, f)
    BY <1>6 DEF CheckpointInv, CheckpointMatches
  <2>2. QED
    BY <1>4, <1>5, <2>1
<1>7. CheckpointMatches /\ log.offset # 0 => log.offset \in 1 .. Len(content[f])
  BY <1>2 DEF CheckpointMatches
<1>8. ASSUME CheckpointMatches, ~(content'[f] = <<>> /\ unwritten' = <<>>)
      PROVE  CheckpointMatches' /\ \A i \in 1 .. log.offset : content'[f][i] = content[f][i]
  <2>1. \A i \in 1 .. log.offset : i \in 1 .. Len(content[f])
    BY <1>2, <1>7, <1>8
  <2>2. /\ Len(content'[f]) \in Nat /\ Len(content[f]) <= Len(content'[f])
        /\ \A i \in 1 .. Len(content[f]) : content'[f][i] = content[f][i]
    BY <1>2, <1>3, <1>8
  <2>3. log.offset # 0 => log.offset <= Len(content'[f]) /\ content'[f][log.offset] = content[f][log.offset]
    BY <1>2, <1>7, <1>8, <2>2
  <2>4. QED
    BY <1>1, <1>2, <1>8, <2>1, <2>2, <2>3 DEF CheckpointMatches
<1>9. QED
  BY <1>1, <1>4, <1>6, <1>7, <1>8

LEMMA GameCheckpoint ==
  ASSUME IInv, CheckpointInv, Game
  PROVE  CheckpointInv'
<1> SUFFICES ASSUME log # None
             PROVE  /\ log.base <= log.offset
                    /\ log.checkpoint # None => log.checkpoint.line <= written'
                    /\ CheckpointMatches' \/ (Older(log.checkpoint.line, content'[log.file])
                                              /\ (unwritten' # <<>> => log.checkpoint.line < written'))
  BY GameEffect DEF listenerVars, CheckpointInv, Past
<1>1. written \in Nat /\ written' \in Nat /\ written <= written'
  BY GameEffect DEF IInv, TypeOK
<1>2. log.checkpoint # None => log.checkpoint.line \in Nat
  BY LogParts DEF Line
<1>3. log.checkpoint = None => CheckpointMatches'
  BY MatchKept DEF CheckpointMatches
<1>4. QED
  BY <1>1, <1>2, <1>3, MatchKept DEF CheckpointInv

LEMMA GameHistory ==
  ASSUME IInv, ShapeInv, CheckpointInv, HistoryInv, Game
  PROVE  HistoryInv'
<1>1. UNCHANGED <<pc, log, skip, len, broadcast, history, deferred>> /\ Reported' = Reported
  BY GameEffect DEF listenerVars, Reported
<1>2. /\ written \in Nat /\ written' \in Nat /\ written <= written' /\ path' \in File \cup {None}
      /\ \A n \in history : n \in Line /\ n \in Nat /\ n <= written
  <2>1. path' \in File \cup {None}
    BY TypeStep DEF TypeOK, Next
  <2>2. QED
    BY <2>1, GameEffect DEF IInv, TypeOK, HistoryInv, Line
<1>3. \A n \in history : n <= written'
  BY <1>2
<1>4. ASSUME NEW i \in 1 .. Len(unwritten'), unwritten'[i].part = "record"
      PROVE  written' \notin history
  <2>1. ShapeInv'
    BY ShapeStep DEF Next
  <2>2. CASE BeginLine
    BY <1>2, <2>2 DEF BeginLine
  <2>3. CASE WriteCell
    <3>1. /\ unwritten' = Tail(unwritten) /\ written' = written
          /\ unwritten' \in Seq(Cell) /\ Len(unwritten') = Len(unwritten) - 1
          /\ Len(unwritten) \in Nat
          /\ \A k \in 1 .. Len(unwritten) - 1 : unwritten'[k] = unwritten[k + 1]
      BY <2>3, NextCell DEF WriteCell
    <3>2. i + 1 \in 1 .. Len(unwritten) /\ unwritten[i + 1].part = "record"
      BY <1>4, <3>1
    <3>3. QED
      BY <3>1, <3>2 DEF HistoryInv
  <2>4. CASE Truncate \/ Create \/ Delete
    BY <1>4, <2>4 DEF Truncate, Create, Delete
  <2>5. QED
    BY <2>2, <2>3, <2>4 DEF Game
<1>5. ASSUME ~deferred, path' # None, log = None \/ log.file # path', NEW n \in history
      PROVE  Older(n, content'[path']) /\ (unwritten' # <<>> => n < written')
  <2>1. n \in Line /\ n <= written
    BY <1>2
  <2>2. CASE content'[path'] = <<>> /\ unwritten' = <<>>
    BY <2>2 DEF Older
  <2>3. CASE path' = path
    <3>1. Past(n, path) /\ path \in File
      BY <1>2, <1>5, <2>3 DEF HistoryInv
    <3>2. QED
      BY <2>1, <2>3, <3>1, PastKept
  <2>4. path' = path \/ (content'[path'] = <<>> /\ unwritten' = <<>>)
    BY <1>5 DEF Game, BeginLine, WriteCell, Truncate, Create, Delete, IInv, FileInv
  <2>5. QED
    BY <2>2, <2>3, <2>4
<1>6. ASSUME ~deferred, log # None
      PROVE  /\ \A i \in log.offset + 1 .. Len(content'[log.file]) :
                  content'[log.file][i].part = "record" => content'[log.file][i].line \notin history
             /\ \/ CheckpointMatches'
                \/ \A n \in history : Older(n, content'[log.file]) /\ (unwritten' # <<>> => n < written')
             /\ pc = "check" /\ len < log.offset =>
                  \A n \in history : Older(n, content'[log.file]) /\ (unwritten' # <<>> => n < written')
  <2> DEFINE f == log.file
  <2>1. f \in File /\ log.offset \in Nat /\ content[f] \in Seq(Cell) /\ Len(content[f]) \in Nat
    BY <1>6, LogParts
  <2>2. ASSUME NEW i \in log.offset + 1 .. Len(content'[f]), content'[f][i].part = "record"
        PROVE  content'[f][i].line \notin history
    <3>1. CASE content'[f] = content[f]
      BY <1>6, <2>2, <3>1 DEF HistoryInv
    <3>2. CASE content'[f] = <<>>
      BY <2>1, <2>2, <3>2
    <3>3. ASSUME NEW cell \in Cell, cell = unwritten[1], cell.line = written, unwritten # <<>>,
                 content'[f] = Append(content[f], cell)
          PROVE  content'[f][i].line \notin history
      <4>1. /\ Len(content'[f]) = Len(content[f]) + 1
            /\ content'[f][Len(content[f]) + 1] = cell
            /\ \A k \in 1 .. Len(content[f]) : content'[f][k] = content[f][k]
        BY <2>1, <3>3
      <4>2. CASE i = Len(content[f]) + 1
        <5>1. 1 \in 1 .. Len(unwritten) /\ unwritten[1].part = "record"
          <6>1. unwritten \in Seq(Cell)
            BY DEF IInv, TypeOK
          <6>2. QED
            BY <2>2, <3>3, <4>1, <4>2, <6>1
        <5>2. QED
          BY <3>3, <4>1, <4>2, <5>1 DEF HistoryInv
      <4>3. CASE i \in log.offset + 1 .. Len(content[f])
        <5>1. i \in 1 .. Len(content[f])
          BY <2>1, <4>3
        <5>2. QED
          BY <1>6, <2>2, <4>1, <4>3, <5>1 DEF HistoryInv
      <4>4. QED
        BY <2>1, <4>1, <4>2, <4>3
    <3>4. QED
      BY <2>1, <3>1, <3>2, <3>3, GameOnFile
  <2>3. ASSUME \A n \in history : Past(n, f) \/ (content'[f] = <<>> /\ unwritten' = <<>>)
        PROVE  \A n \in history : Older(n, content'[f]) /\ (unwritten' # <<>> => n < written')
    BY <1>2, <2>1, <2>3, PastKept
  <2>4. \/ CheckpointMatches'
        \/ \A n \in history : Past(n, f) \/ (content'[f] = <<>> /\ unwritten' = <<>>)
    BY <1>6, MatchKept DEF HistoryInv
  <2>5. pc = "check" /\ len < log.offset => \A n \in history : Past(n, f)
    BY <1>6 DEF HistoryInv
  <2>6. QED
    BY <2>2, <2>3, <2>4, <2>5
<1>7. pc = "stopped" => history = {}
  BY DEF HistoryInv
<1>8. ~deferred => /\ pc # "stopped" => ~skip
                   /\ Reported \cap history = {}
                   /\ log # None => \A i \in 1 .. Len(log.incomplete) :
                        log.incomplete[i].part = "record" => log.incomplete[i].line \notin history
  BY DEF HistoryInv
<1>9. QED
  BY <1>1, <1>3, <1>4, <1>5, <1>6, <1>7, <1>8 DEF HistoryInv, Past

--------------------------------------------------------------------------------
(* The listener skips what start found. *)

\* A line every history is past is none of it.
LEMMA PastIsNew ==
  ASSUME TypeOK, NEW f \in File, \A n \in history : Past(n, f)
  PROVE  \A i \in 1 .. Len(content[f]) : content[f][i].line \notin history
<1> SUFFICES ASSUME NEW i \in 1 .. Len(content[f]), content[f][i].line \in history PROVE FALSE
  OBVIOUS
<1>1. content[f][i].line < content[f][i].line
  BY DEF Past, Older
<1>2. content[f][i].line \in Nat
  <2>1. content[f] \in Seq(Cell)
    BY DEF TypeOK
  <2>2. content[f][i] \in Cell
    BY <2>1
  <2>3. QED
    BY <2>2 DEF Cell, Line
<1>3. QED
  BY <1>1, <1>2

LEMMA StartStopHistory ==
  ASSUME IInv, ShapeInv, HistoryInv, Start \/ StartFails \/ Stop
  PROVE  HistoryInv'
<1>1. ASSUME Start, path # None, log' = OpenLogFile(TRUE), skip' = FALSE
      PROVE  HistoryInv'
  <2>1. /\ UNCHANGED gameVars /\ content' = content /\ path' = path /\ written' = written
        /\ unwritten' = unwritten /\ broadcast' = <<>> /\ deferred' = FALSE
        /\ history' = {c.line : c \in {content[path][i] : i \in 1 .. Len(content[path])}}
    BY <1>1 DEF Start, gameVars, Contents
  <2>2. path \in File /\ content[path] \in Seq(Cell) /\ Len(content[path]) \in Nat
    BY <1>1, CellTypes DEF IInv, TypeOK
  <2>3. /\ log' # None /\ log'.file = path /\ log'.offset = Len(content[path])
        /\ log'.checkpoint = None <=> log'.offset = 0
        /\ log'.offset # 0 => log'.checkpoint = content[path][log'.offset]
        /\ log'.incomplete = <<>>
    BY <1>1, TailingType DEF IInv
  <2>4. CheckpointMatches'
    BY <2>1, <2>2, <2>3 DEF CheckpointMatches
  <2>5. pc' = "seed"
    BY <1>1, <2>3 DEF Start
  <2>6. \A n \in history' : \E i \in 1 .. Len(content[path]) : content[path][i].line = n
    BY <2>1
  <2>7. \A n \in history' : n <= written
    BY <2>2, <2>6 DEF IInv, FileInv, Ordered
  <2>8. \A i \in 1 .. Len(unwritten) : unwritten[i].part = "record" => written \notin history'
    <3> SUFFICES ASSUME NEW i \in 1 .. Len(unwritten), unwritten[i].part = "record",
                        written \in history'
                 PROVE  FALSE
      OBVIOUS
    <3>1. PICK k \in 1 .. Len(content[path]) : content[path][k].line = written
      BY <2>6
    <3>2. content[path][k].line < written /\ written \in Nat
      BY <2>2 DEF ShapeInv, IInv, TypeOK
    <3>3. QED
      BY <3>1, <3>2
  <2>9. Reported' = {}
    BY <2>1 DEF Reported
  <2>10. /\ \A i \in log'.offset + 1 .. Len(content[path]) : FALSE
         /\ \A i \in 1 .. Len(log'.incomplete) : FALSE
    BY <2>2, <2>3
  <2>11. QED
    BY <1>1, <2>1, <2>3, <2>4, <2>5, <2>7, <2>8, <2>9, <2>10 DEF HistoryInv
<1>2. ASSUME Start, log' = None, path = None
      PROVE  HistoryInv'
  <2>1. history' = {} /\ broadcast' = <<>> /\ skip' = FALSE /\ pc' = "inspect"
    BY <1>2 DEF Start, Contents
  <2>2. Reported' = {}
    BY <2>1 DEF Reported
  <2>3. QED
    BY <1>2, <2>1, <2>2 DEF HistoryInv
<1>3. ASSUME Start, log' = None, path # None, skip' = TRUE
      PROVE  HistoryInv'
  <2>1. /\ content' = content /\ path' = path /\ written' = written
        /\ unwritten' = unwritten /\ deferred' = TRUE /\ pc' = "inspect"
        /\ history' = {c.line : c \in {content[path][i] : i \in 1 .. Len(content[path])}}
    BY <1>3 DEF Start, gameVars, Contents
  <2>2. path \in File /\ content[path] \in Seq(Cell) /\ Len(content[path]) \in Nat
    BY <1>3, CellTypes DEF IInv, TypeOK
  <2>3. \A n \in history' : \E i \in 1 .. Len(content[path]) : content[path][i].line = n
    BY <2>1
  <2>4. \A n \in history' : n <= written
    BY <2>2, <2>3 DEF IInv, FileInv, Ordered
  <2>5. \A i \in 1 .. Len(unwritten) : unwritten[i].part = "record" => written \notin history'
    <3> SUFFICES ASSUME NEW i \in 1 .. Len(unwritten), unwritten[i].part = "record",
                        written \in history'
                 PROVE  FALSE
      OBVIOUS
    <3>1. PICK k \in 1 .. Len(content[path]) : content[path][k].line = written
      BY <2>3
    <3>2. content[path][k].line < written /\ written \in Nat
      BY <2>2 DEF ShapeInv, IInv, TypeOK
    <3>3. QED
      BY <3>1, <3>2
  <2>6. QED
    BY <2>1, <2>4, <2>5 DEF HistoryInv
<1>4. CASE Start
  BY <1>1, <1>2, <1>3, <1>4 DEF Start
<1>5. CASE StartFails
  BY <1>5 DEF StartFails, gameVars, HistoryInv, Reported, Past, CheckpointMatches
<1>6. CASE Stop
  <2>1. history' = {} /\ broadcast' = <<>> /\ pc' = "stopped" /\ log' = None
    BY <1>6 DEF Stop
  <2>2. Reported' = {}
    BY <2>1 DEF Reported
  <2>3. QED
    BY <2>1, <2>2 DEF HistoryInv
<1>7. QED
  BY <1>4, <1>5, <1>6

\* What holds of the history and the files, at any step of the worker.
LEMMA WorkerFrame ==
  ASSUME IInv, Worker
  PROVE  /\ UNCHANGED <<history, deferred>>
         /\ content' = content /\ path' = path /\ written' = written /\ unwritten' = unwritten
         /\ pc # "stopped" /\ pc' # "stopped" /\ (skip' => skip)
         /\ \A n, f : Past(n, f)' <=> Older(n, content[f]) /\ (unwritten # <<>> => n < written)
  BY DEF Worker, Seed, InspectFails, Inspect, Open, Check, Read, ReadEnds, gameVars, Past, Older

\* A step of the worker keeps the history when it keeps it of its log.
LEMMA WorkerHistoryParts ==
  ASSUME IInv, HistoryInv, Worker,
         ~deferred =>
           /\ Reported' \cap history = {}
           /\ path # None /\ (log' = None \/ log'.file # path) => \A n \in history : Past(n, path)
           /\ log' # None =>
                /\ \A i \in log'.offset + 1 .. Len(content[log'.file]) :
                     content[log'.file][i].part = "record" => content[log'.file][i].line \notin history
                /\ \A i \in 1 .. Len(log'.incomplete) :
                     log'.incomplete[i].part = "record" => log'.incomplete[i].line \notin history
                /\ CheckpointMatches' \/ \A n \in history : Past(n, log'.file)
                /\ pc' = "check" /\ len' < log'.offset => \A n \in history : Past(n, log'.file)
  PROVE  HistoryInv'
  BY WorkerFrame DEF HistoryInv, Past

LEMMA WorkerHistory ==
  ASSUME IInv, HistoryInv, Worker
  PROVE  HistoryInv'
<1>1. ASSUME log' = log, broadcast' = broadcast,
             pc' = "check" /\ len' < log.offset => (log # None => ~CheckpointMatches)
      PROVE  HistoryInv'
  <2>1. Reported' = Reported /\ (CheckpointMatches' <=> CheckpointMatches)
    BY <1>1, WorkerFrame DEF Reported, CheckpointMatches
  <2>2. QED
    BY <1>1, <2>1, WorkerHistoryParts DEF HistoryInv
<1>2. ASSUME ~(pc' = "check"), log' = log, broadcast' = broadcast
      PROVE  HistoryInv'
  BY <1>1, <1>2
<1>3. CASE Seed \/ ReadEnds
  BY <1>2, <1>3 DEF Seed, ReadEnds
<1>4. ASSUME log' = None, broadcast' = broadcast,
             path # None => log # None /\ log.file # path
      PROVE  HistoryInv'
  <2>1. Reported' = Reported
    BY <1>4 DEF Reported
  <2>2. QED
    BY <1>4, <2>1, WorkerHistoryParts DEF HistoryInv
<1>5. CASE InspectFails
  BY <1>2, <1>4, <1>5 DEF InspectFails
<1>6. CASE Inspect
  <2>1. /\ broadcast' = broadcast /\ path # None /\ len' = Len(content[path])
        /\ log' = IF log # None /\ log.file # path THEN None ELSE log
        /\ pc' = IF log' = None THEN "open" ELSE "check"
    BY <1>6 DEF Inspect
  <2>2. CASE log # None /\ log.file # path
    BY <1>4, <2>1, <2>2
  <2>3. CASE log = None
    BY <1>2, <2>1, <2>3
  <2>4. CASE log # None /\ log.file = path
    <3>1. log.offset \in Nat /\ Len(content[path]) \in Nat /\ (log.checkpoint = None <=> log.offset = 0)
      BY <2>4, LogParts
    <3>2. len' < log.offset => ~CheckpointMatches
      BY <2>1, <2>4, <3>1 DEF CheckpointMatches
    <3>3. QED
      BY <1>1, <2>1, <2>4, <3>2
  <2>5. QED
    BY <2>2, <2>3, <2>4
<1>7. CASE Open
  <2>1. broadcast' = broadcast /\ log = None /\ skip \in BOOLEAN
    BY <1>7 DEF Open, IInv, ReportInv, ControlInv, TypeOK
  <2>2. CASE path # None /\ log' = OpenLogFile(skip) /\ pc' = "check"
    <3>1. path \in File /\ Reported' = Reported
      BY <2>1, <2>2 DEF IInv, TypeOK, Reported
    <3>2. /\ log' # None /\ log'.file = path /\ log'.incomplete = <<>>
          /\ log'.offset = (IF skip THEN Len(content[path]) ELSE 0)
          /\ log'.checkpoint = None <=> log'.offset = 0
      BY <2>1, <2>2, TailingType DEF IInv
    <3>3. CASE deferred
      BY <3>3, WorkerHistoryParts
    <3>4. CASE ~deferred
      <4>1. ~skip /\ Reported \cap history = {} /\ \A n \in history : Past(n, path)
        BY <2>1, <2>2, <3>4, WorkerFrame DEF HistoryInv
      <4>2. \A i \in 1 .. Len(content[path]) : content[path][i].line \notin history
        BY <3>1, <4>1, PastIsNew DEF IInv
      <4>3. log'.offset = 0 /\ CheckpointMatches'
        BY <3>2, <4>1 DEF CheckpointMatches
      <4>4. \A i \in 0 + 1 .. Len(content[path]) : content[path][i].line \notin history
        BY <4>2
      <4>5. QED
        BY <3>1, <3>2, <4>1, <4>3, <4>4, WorkerHistoryParts
    <3>5. QED
      BY <3>3, <3>4
  <2>3. CASE log' = log /\ pc' = "inspect"
    BY <1>2, <2>1, <2>3
  <2>4. QED
    BY <1>7, <2>2, <2>3 DEF Open
<1>8. CASE Check
  <2>1. broadcast' = broadcast /\ log # None /\ pc = "check" /\ log \in Log /\ log.file \in File
    BY <1>8, OpenLog DEF Check
  <2>2. CASE Truncated /\ log' = ResetLog
    <3>1. /\ log' # None /\ log'.file = log.file /\ log'.offset = 0 /\ log'.checkpoint = None
          /\ log'.incomplete = <<>> /\ Reported' = Reported
      BY <2>1, <2>2, ResetParts, NoneAssumption DEF Reported
    <3>2. CASE deferred
      BY <3>2, WorkerHistoryParts
    <3>3. CASE ~deferred
      <4>1. \A n \in history : Past(n, log.file)
        BY <2>1, <2>2, <3>3 DEF HistoryInv, Truncated
      <4>2. \A i \in 1 .. Len(content[log.file]) : content[log.file][i].line \notin history
        BY <2>1, <4>1, PastIsNew DEF IInv
      <4>3. \A i \in 0 + 1 .. Len(content[log.file]) : content[log.file][i].line \notin history
        BY <4>2
      <4>4. CheckpointMatches'
        BY <3>1 DEF CheckpointMatches
      <4>5. /\ Reported \cap history = {}
            /\ path # None /\ log.file # path => \A n \in history : Past(n, path)
        BY <2>1, <3>3 DEF HistoryInv
      <4>6. QED
        BY <3>1, <4>1, <4>3, <4>4, <4>5, WorkerHistoryParts
    <3>4. QED
      BY <3>2, <3>3
  <2>3. CASE log' = log /\ pc' # "check"
    BY <1>2, <2>1, <2>3
  <2>4. QED
    BY <1>8, <2>2, <2>3 DEF Check
<1>9. CASE Read
  <2> DEFINE cell == content[log.file][log.offset + 1]
  <2>1. /\ log # None /\ log.offset \in Nat /\ log.incomplete \in Seq(Cell) /\ pc' # "check"
    BY <1>9, OpenLog DEF Read
  <2>2. /\ cell \in Cell /\ log' # None /\ log.offset + 1 \in 1 .. Len(content[log.file])
        /\ log'.file = log.file /\ log'.offset = log.offset + 1 /\ log'.checkpoint = cell
        /\ log' = Consume(cell)
    BY <1>9, ReadParts
  <2>3. /\ log'.incomplete = <<>> \/ log'.incomplete = Append(log.incomplete, cell)
        /\ \/ Completes(cell) /\ broadcast' = Append(broadcast, cell.line)
           \/ broadcast' = broadcast
    BY <1>9, <2>2 DEF Consume, Read
  <2>4. CheckpointMatches'
    <3>1. content' = content /\ log.offset + 1 <= Len(content[log.file])
      BY <2>2, WorkerFrame
    <3>2. QED
      BY <2>2, <3>1 DEF CheckpointMatches
  <2> HIDE DEF cell
  <2>5. CASE deferred
    BY <2>5, WorkerHistoryParts
  <2>6. CASE ~deferred
    <3>1. /\ Reported \cap history = {}
          /\ path # None /\ log.file # path => \A n \in history : Past(n, path)
          /\ \A i \in log.offset + 1 .. Len(content[log.file]) :
               content[log.file][i].part = "record" => content[log.file][i].line \notin history
          /\ \A i \in 1 .. Len(log.incomplete) :
               log.incomplete[i].part = "record" => log.incomplete[i].line \notin history
      BY <2>1, <2>6 DEF HistoryInv
    <3>2. cell.part = "record" => cell.line \notin history
      <4>1. log.offset + 1 \in log.offset + 1 .. Len(content[log.file])
        BY <2>1, <2>2
      <4>2. QED
        BY <3>1, <4>1 DEF cell
    <3>3. \A i \in 1 .. Len(log'.incomplete) :
            log'.incomplete[i].part = "record" => log'.incomplete[i].line \notin history
      <4>1. CASE log'.incomplete = <<>>
        BY <4>1
      <4>2. CASE log'.incomplete = Append(log.incomplete, cell)
        <5>1. /\ Len(log'.incomplete) = Len(log.incomplete) + 1 /\ Len(log.incomplete) \in Nat
              /\ log'.incomplete[Len(log.incomplete) + 1] = cell
              /\ \A i \in 1 .. Len(log.incomplete) : log'.incomplete[i] = log.incomplete[i]
          BY <2>1, <2>2, <4>2
        <5>2. \A i \in 1 .. Len(log'.incomplete) :
                i \in 1 .. Len(log.incomplete) \/ i = Len(log.incomplete) + 1
          BY <5>1
        <5>3. QED
          BY <3>1, <3>2, <5>1, <5>2
      <4>3. QED
        BY <2>3, <4>1, <4>2
    <3>4. Completes(cell) => cell.line \notin history
      <4>1. ASSUME Completes(cell)
            PROVE  cell.line \notin history
        <5>1. log.incomplete = <<[line |-> cell.line, part |-> "record"]>>
          BY <4>1 DEF Completes
        <5>2. 1 \in 1 .. Len(log.incomplete) /\ log.incomplete[1].part = "record"
              /\ log.incomplete[1].line = cell.line
          BY <5>1
        <5>3. QED
          BY <3>1, <5>2
      <4>2. QED
        BY <4>1
    <3>5. Reported' \cap history = {}
      <4>1. CASE broadcast' = broadcast
        BY <3>1, <4>1 DEF Reported
      <4>2. CASE Completes(cell) /\ broadcast' = Append(broadcast, cell.line)
        <5>1. broadcast \in Seq(Line) /\ cell.line \in Line
          BY <2>2 DEF IInv, TypeOK, Cell
        <5>2. Reported' \subseteq Reported \cup {cell.line}
          <6>1. /\ Len(broadcast') = Len(broadcast) + 1 /\ Len(broadcast) \in Nat
                /\ broadcast'[Len(broadcast) + 1] = cell.line
                /\ \A i \in 1 .. Len(broadcast) : broadcast'[i] = broadcast[i]
            BY <4>2, <5>1
          <6>2. \A i \in 1 .. Len(broadcast') : i \in 1 .. Len(broadcast) \/ i = Len(broadcast) + 1
            BY <6>1
          <6>3. QED
            BY <6>1, <6>2 DEF Reported
        <5>3. QED
          BY <3>1, <3>4, <4>2, <5>2
      <4>3. QED
        BY <2>3, <4>1, <4>2
    <3>6. \A i \in (log.offset + 1) + 1 .. Len(content[log.file]) :
            i \in log.offset + 1 .. Len(content[log.file])
      BY <2>1
    <3>7. QED
      BY <2>1, <2>2, <2>4, <3>1, <3>3, <3>5, <3>6, WorkerHistoryParts
  <2>7. QED
    BY <2>5, <2>6
<1>10. QED
  BY <1>3, <1>5, <1>6, <1>7, <1>8, <1>9 DEF Worker

--------------------------------------------------------------------------------
(* The checkpoint. *)

\* A checkpoint that lies before the offset is of a line the game has begun, and matches.
LEMMA CheckpointAtOffset ==
  ASSUME IInv, UNCHANGED gameVars, log' \in Log, log' # None, log'.base <= log'.offset,
         log'.checkpoint # None =>
           /\ log'.offset \in 1 .. Len(content[log'.file])
           /\ log'.checkpoint = content[log'.file][log'.offset]
  PROVE  CheckpointInv' /\ CheckpointMatches'
<1>1. content' = content /\ written' = written /\ log'.file \in File
  BY DEF gameVars, Log
<1>2. CheckpointMatches'
  <2>1. log'.offset \in 1 .. Len(content[log'.file]) => log'.offset <= Len(content[log'.file])
    BY <1>1, CellTypes DEF IInv
  <2>2. QED
    BY <1>1, <2>1 DEF CheckpointMatches
<1>3. log'.checkpoint # None => log'.checkpoint.line <= written
  BY <1>1 DEF IInv, FileInv, Ordered
<1>4. QED
  BY <1>1, <1>2, <1>3 DEF CheckpointInv

\* A log just opened begins at its offset.
LEMMA OpenedBase ==
  ASSUME TypeOK, path # None, NEW all \in BOOLEAN
  PROVE  /\ OpenLogFile(all).base = OpenLogFile(all).offset
         /\ OpenLogFile(all).base <= OpenLogFile(all).offset
         /\ ~OpenLogFile(all).discarding
         /\ OpenLogFile(all).checkpoint # None =>
              /\ OpenLogFile(all).offset \in 1 .. Len(content[path])
              /\ OpenLogFile(all).checkpoint = content[path][OpenLogFile(all).offset]
<1>1. path \in File /\ Len(content[path]) \in Nat
  BY CellTypes DEF TypeOK
<1>2. /\ OpenLogFile(all).offset \in Nat /\ OpenLogFile(all).offset <= Len(content[path])
      /\ OpenLogFile(all).checkpoint # None => OpenLogFile(all).offset # 0
      /\ OpenLogFile(all).offset # 0 =>
           OpenLogFile(all).checkpoint = content[path][OpenLogFile(all).offset]
  BY <1>1, TailingType
<1>3. /\ OpenLogFile(all).base = OpenLogFile(all).offset
      /\ ~OpenLogFile(all).discarding
  BY DEF OpenLogFile, Tailing
<1>4. QED
  BY <1>1, <1>2, <1>3

LEMMA ListenerCheckpoint ==
  ASSUME IInv, CheckpointInv, Start \/ StartFails \/ Stop \/ Worker
  PROVE  CheckpointInv'
<1>1. UNCHANGED gameVars /\ content' = content /\ written' = written /\ unwritten' = unwritten
  BY DEF Start, StartFails, Stop, Worker, Seed, InspectFails, Inspect, Open, Check, Read, ReadEnds,
         gameVars
<1>2. ASSUME log' = log
      PROVE  CheckpointInv'
  BY <1>1, <1>2 DEF CheckpointInv, CheckpointMatches, Past
<1>3. ASSUME log' = None
      PROVE  CheckpointInv'
  BY <1>3 DEF CheckpointInv
<1>4. ASSUME NEW all \in BOOLEAN, path # None, log' = OpenLogFile(all)
      PROVE  CheckpointInv'
  <2>1. /\ log' \in Log /\ log' # None /\ log'.file = path
    BY <1>4, TailingType DEF IInv
  <2>2. /\ log'.base <= log'.offset
        /\ log'.checkpoint # None =>
             /\ log'.offset \in 1 .. Len(content[path])
             /\ log'.checkpoint = content[path][log'.offset]
    BY <1>4, OpenedBase DEF IInv
  <2>3. QED
    BY <1>1, <2>1, <2>2, CheckpointAtOffset
<1>5. ASSUME log \in Log, log' = ResetLog
      PROVE  CheckpointInv'
  <2>1. log' \in Log /\ log' # None /\ log'.offset = 0 /\ log'.checkpoint = None
    BY <1>5, ResetParts, NoneAssumption
  <2>2. log'.base = 0
    BY <1>5 DEF ResetLog, Tailing
  <2>3. QED
    BY <1>1, <2>1, <2>2, CheckpointAtOffset
<1>6. CASE Read
  <2> DEFINE cell == content[log.file][log.offset + 1]
  <2>1. log # None /\ log \in Log /\ log.offset \in Nat /\ log.base \in Nat /\ log.base <= log.offset
    BY <1>6, OpenLog, LogParts DEF Read, CheckpointInv
  <2>2. /\ cell \in Cell /\ log' \in Log /\ log' # None /\ log.offset + 1 \in 1 .. Len(content[log.file])
        /\ log'.file = log.file /\ log'.offset = log.offset + 1 /\ log'.checkpoint = cell
        /\ log' = Consume(cell)
    BY <1>6, ReadParts
  <2>3. log'.base = log.base
    BY <2>2 DEF Consume
  <2>4. log'.base <= log'.offset
    BY <2>1, <2>2, <2>3
  <2>5. QED
    BY <1>1, <2>2, <2>4, CheckpointAtOffset
<1>7. CASE Start
  <2>1. TRUE \in BOOLEAN
    OBVIOUS
  <2>2. QED
    BY <1>3, <1>4, <1>7, <2>1 DEF Start
<1>8. CASE StartFails \/ Stop
  BY <1>2, <1>3, <1>8 DEF StartFails, Stop
<1>9. CASE Seed \/ InspectFails \/ Inspect \/ ReadEnds
  BY <1>2, <1>3, <1>9 DEF Seed, InspectFails, Inspect, ReadEnds
<1>10. CASE Open
  <2>1. skip \in BOOLEAN
    BY DEF IInv, TypeOK
  <2>2. QED
    BY <1>2, <1>4, <1>10, <2>1 DEF Open
<1>11. CASE Check
  <2>1. log \in Log
    BY <1>11, OpenLog DEF Check
  <2>2. QED
    BY <1>2, <1>5, <1>11, <2>1 DEF Check
<1>12. QED
  BY <1>6, <1>7, <1>8, <1>9, <1>10, <1>11 DEF Worker

--------------------------------------------------------------------------------
(* What is observed is the newest of what was seen. *)

\* The records of a part of a file are those that lie between its bounds.
LEMMA PartRecords ==
  ASSUME NEW s \in Seq(Cell), NEW a \in Nat \ {0}, NEW b \in Nat, b <= Len(s)
  PROVE  WholeRecords(SubSeq(s, a, b)) = Between(s, a, b)
<1> DEFINE part == SubSeq(s, a, b)
<1>1. CASE b < a
  <2>1. part = <<>> /\ Len(part) = 0
    BY <1>1
  <2> HIDE DEF part
  <2>2. (\A i \in 1 .. Len(part) - 1 : FALSE) /\ \A i \in a .. b - 1 : FALSE
    BY <1>1, <2>1
  <2>3. WholeRecords(part) = {} /\ Between(s, a, b) = {}
    BY <2>2 DEF WholeRecords, Between
  <2>4. QED
    BY <2>3 DEF part
<1>2. CASE a <= b
  <2>1. Len(part) = (b + 1) - a /\ \A i \in 1 .. (b + 1) - a : part[i] = s[(a - 1) + i]
    BY <1>2
  <2> HIDE DEF part
  <2>2. \A i \in 1 .. Len(part) - 1 : /\ (a - 1) + i \in a .. b - 1
                                      /\ part[i] = s[(a - 1) + i]
                                      /\ part[i + 1] = s[((a - 1) + i) + 1]
    BY <1>2, <2>1
  <2>3. \A k \in a .. b - 1 : /\ (k + 1) - a \in 1 .. Len(part) - 1
                              /\ (a - 1) + ((k + 1) - a) = k
    BY <1>2, <2>1
  <2>4. ASSUME NEW n \in WholeRecords(part) PROVE n \in Between(s, a, b)
    BY <2>2 DEF WholeRecords, Between
  <2>5. ASSUME NEW n \in Between(s, a, b) PROVE n \in WholeRecords(part)
    <3>1. PICK k \in a .. b - 1 : /\ s[k] = [line |-> n, part |-> "record"]
                                  /\ s[k + 1] = [line |-> n, part |-> "end"]
      BY DEF Between
    <3>2. /\ (k + 1) - a \in 1 .. Len(part) - 1
          /\ part[(k + 1) - a] = s[k] /\ part[((k + 1) - a) + 1] = s[k + 1]
      <4>1. PICK j \in 1 .. Len(part) - 1 : j = (k + 1) - a /\ (a - 1) + j = k
        BY <2>3
      <4>2. part[j] = s[k] /\ part[j + 1] = s[k + 1]
        BY <2>2, <4>1
      <4>3. QED
        BY <4>1, <4>2
    <3>3. n \in Line
      BY DEF Between
    <3>4. QED
      BY <3>1, <3>2, <3>3 DEF WholeRecords
  <2>6. QED
    BY <2>4, <2>5 DEF part
<1>3. QED
  BY <1>1, <1>2

LEMMA SeenParts ==
  ASSUME NEW s \in Seq(Cell), NEW base \in Nat, NEW offset \in Nat,
         base <= offset, offset <= Len(s)
  PROVE  /\ WholeRecords(SubSeq(s, 1, base)) = Between(s, 1, base)
         /\ WholeRecords(SubSeq(s, base + 1, offset)) = Between(s, base + 1, offset)
<1>1. 1 \in Nat \ {0} /\ base + 1 \in Nat \ {0} /\ Len(s) \in Nat /\ base <= Len(s)
  OBVIOUS
<1>2. QED
  BY <1>1, PartRecords

\* The last of some lines is the newest of them.
LEMMA NewestIs ==
  ASSUME NEW lines \in SUBSET Line, NEW n \in lines, \A k \in lines : k <= n
  PROVE  Newest(lines) = n
<1> DEFINE m == CHOOSE m \in lines : \A k \in lines : k <= m
<1>1. m \in lines /\ \A k \in lines : k <= m
  OBVIOUS
<1> HIDE DEF m
<1>2. m <= n /\ n <= m /\ m \in Nat /\ n \in Nat
  BY <1>1 DEF Line
<1>3. Newest(lines) = m
  BY DEF Newest, m
<1>4. QED
  BY <1>2, <1>3

\* Cells that stay what they were hold what they did.
LEMMA SeenFrame ==
  ASSUME NEW s, NEW t, NEW l, l.base \in Nat, l.offset \in Nat, l.base <= l.offset,
         \A i \in 1 .. l.offset : t[i] = s[i]
  PROVE  SeenOf(l, t) = SeenOf(l, s) /\ (Kept(l, s) => Kept(l, t))
<1>1. \A i \in 1 .. l.base - 1 : i \in 1 .. l.offset /\ i + 1 \in 1 .. l.offset
  OBVIOUS
<1>2. \A i \in l.base + 1 .. l.offset - 1 : i \in 1 .. l.offset /\ i + 1 \in 1 .. l.offset
  OBVIOUS
<1>3. l.offset # l.base => l.offset \in 1 .. l.offset
  OBVIOUS
<1>4. Between(t, 1, l.base) = Between(s, 1, l.base)
  BY <1>1 DEF Between
<1>5. Between(t, l.base + 1, l.offset) = Between(s, l.base + 1, l.offset)
  BY <1>2 DEF Between
<1>6. QED
  BY <1>3, <1>4, <1>5 DEF SeenOf, Kept

\* A log that begins at its offset has seen what lies before it.
LEMMA SeenAtBase ==
  ASSUME NEW s \in Seq(Cell), NEW l, l.base \in Nat, l.base = l.offset, l.offset <= Len(s),
         l.incomplete = <<>>, ~l.discarding
  PROVE  Kept(l, s) /\ NewestRecord(SubSeq(s, 1, l.offset)) = Newest(SeenOf(l, s))
<1>1. WholeRecords(SubSeq(s, 1, l.offset)) = Between(s, 1, l.base)
  BY SeenParts
<1>2. Between(s, l.base + 1, l.offset) = {}
  <2>1. \A i \in l.base + 1 .. l.offset - 1 : FALSE
    OBVIOUS
  <2>2. QED
    BY <2>1 DEF Between
<1>3. Kept(l, s)
  BY DEF Kept
<1>4. QED
  BY <1>1, <1>2, <1>3 DEF SeenOf, NewestRecord

\* What the listener's steps leave of the observation they do not touch.
LEMMA ObservedStill ==
  ASSUME IInv, ObservedInv, UNCHANGED gameVars, pc' # "stopped", pc' # "seed",
         log' = log, log # None, observed' \in {None, observed},
         ~TruncateWhileReading => (pc' = "read" => CheckpointMatches)
  PROVE  ObservedInv'
<1>1. content' = content
  BY DEF gameVars
<1>2. CheckpointMatches' <=> CheckpointMatches
  BY <1>1 DEF CheckpointMatches
<1>3. QED
  BY <1>1, <1>2 DEF ObservedInv

\* No log, and nothing observed.
LEMMA ObservedNothing ==
  ASSUME log' = None, pc' \notin {"seed", "read"}, observed' = None \/ pc' = "stopped"
  PROVE  ObservedInv'
BY DEF ObservedInv

\* A log just opened, and the tail before it looked at, or not.
LEMMA ObservedOpened ==
  ASSUME IInv, UNCHANGED gameVars, path # None, NEW all \in BOOLEAN, log' = OpenLogFile(all),
         pc' \notin {"stopped", "read"},
         observed' \in {None, NewestRecord(SubSeq(content[path], 1, log'.offset))}
  PROVE  ObservedInv'
<1>1. content' = content /\ path \in File /\ content[path] \in Seq(Cell) /\ Len(content[path]) \in Nat
  BY CellTypes DEF gameVars, IInv, TypeOK
<1>2. /\ log' # None /\ log'.file = path
      /\ log'.offset = (IF all THEN Len(content[path]) ELSE 0)
      /\ log'.incomplete = <<>>
  BY TailingType DEF IInv
<1>3. /\ log'.base = log'.offset /\ ~log'.discarding
  BY OpenedBase DEF IInv
<1>4. log'.base \in Nat /\ log'.offset <= Len(content[path])
  BY <1>1, <1>2, <1>3
<1>5. /\ Kept(log', content[path])
      /\ NewestRecord(SubSeq(content[path], 1, log'.offset)) = Newest(SeenOf(log', content[path]))
  BY <1>1, <1>2, <1>3, <1>4, SeenAtBase
<1>6. QED
  BY <1>1, <1>2, <1>3, <1>5 DEF ObservedInv

LEMMA StartStopObserved ==
  ASSUME IInv, ObservedInv, Start \/ StartFails \/ Stop
  PROVE  ObservedInv'
<1>1. UNCHANGED gameVars
  BY DEF Start, StartFails, Stop, gameVars
<1>2. CASE Start
  <2>1. CASE path # None /\ log' = OpenLogFile(TRUE)
             /\ observed' = NewestRecord(SubSeq(content[path], 1, log'.offset))
    <3>1. TRUE \in BOOLEAN /\ log' # None
      BY <2>1, TailingType DEF IInv
    <3>2. pc' = "seed"
      BY <1>2, <3>1 DEF Start
    <3>3. QED
      BY <1>1, <2>1, <3>1, <3>2, ObservedOpened
  <2>2. CASE log' = None /\ observed' = None
    <3>1. pc' = "inspect"
      BY <1>2, <2>2 DEF Start
    <3>2. QED
      BY <2>2, <3>1, ObservedNothing
  <2>3. QED
    BY <1>2, <2>1, <2>2 DEF Start
<1>3. CASE StartFails
  <2>1. pc' = "stopped" /\ log' = None
    BY <1>3 DEF StartFails, ObservedInv
  <2>2. QED
    BY <2>1, ObservedNothing
<1>4. CASE Stop
  BY <1>4, ObservedNothing DEF Stop
<1>5. QED
  BY <1>2, <1>3, <1>4

LEMMA SeedObserved ==
  ASSUME IInv, ObservedInv, Seed
  PROVE  ObservedInv'
<1>1. /\ UNCHANGED gameVars /\ content' = content /\ log' = log /\ pc' = "inspect"
      /\ log \in Log /\ log # None /\ log.file \in File /\ log.offset \in Nat
      /\ content[log.file] \in Seq(Cell) /\ log.base = log.offset
  BY OpenLog DEF Seed, gameVars, ObservedInv
<1> DEFINE seed == NewestRecord(Before(log.file, log.offset))
<1>2. observed' \in {observed, seed}
  BY DEF Seed
<1>3. CASE observed' = observed
  BY <1>1, <1>3, ObservedStill
<1>4. CASE observed' = seed
  <2>1. CheckpointMatches' <=> CheckpointMatches
    BY <1>1 DEF CheckpointMatches
  <2>2. ASSUME ~TruncateWhileReading, CheckpointMatches
        PROVE  Kept(log, content[log.file]) /\ seed = Newest(SeenOf(log, content[log.file]))
    <3>1. log.offset <= Len(content[log.file])
      BY <1>1, <2>2, CellTypes DEF CheckpointMatches, IInv, ReportInv, LogInv
    <3>2. Before(log.file, log.offset) = SubSeq(content[log.file], 1, log.offset)
      BY <3>1 DEF Before
    <3>3. Kept(log, content[log.file])
      BY <1>1, <2>2 DEF ObservedInv
    <3>4. log.incomplete = <<>> /\ ~log.discarding
      BY <1>1, <3>3 DEF Kept
    <3>5. QED
      BY <1>1, <3>1, <3>2, <3>4, SeenAtBase
  <2> HIDE DEF seed
  <2>3. QED
    BY <1>1, <1>4, <2>1, <2>2 DEF ObservedInv
<1>5. QED
  BY <1>2, <1>3, <1>4

LEMMA PollObserved ==
  ASSUME IInv, ObservedInv, InspectFails \/ Inspect \/ Open \/ Check \/ ReadEnds
  PROVE  ObservedInv'
<1>1. UNCHANGED gameVars
  BY DEF InspectFails, Inspect, Open, Check, ReadEnds
<1>2. log = None /\ pc # "stopped" => observed = None
  BY DEF ObservedInv
<1>3. CASE InspectFails
  <2>1. pc' = "inspect" /\ observed' = None /\ log' \in {None, log}
    BY <1>3 DEF InspectFails
  <2>2. QED
    BY <1>1, <2>1, ObservedNothing, ObservedStill
<1>4. CASE Inspect
  <2>1. /\ pc = "inspect" /\ pc' = IF log' = None THEN "open" ELSE "check"
        /\ \/ log' = None /\ observed' = None
           \/ log' = log /\ observed' = observed
    BY <1>4 DEF Inspect, ObservedAfter
  <2>2. CASE log' = None
    BY <1>2, <2>1, <2>2, ObservedNothing
  <2>3. CASE log' # None
    BY <1>1, <2>1, <2>3, ObservedStill
  <2>4. QED
    BY <2>2, <2>3
<1>5. CASE Open
  <2>1. log = None /\ observed = None /\ skip \in BOOLEAN
    BY <1>2, <1>5 DEF Open, IInv, ReportInv, ControlInv, TypeOK
  <2>2. CASE path # None /\ log' = OpenLogFile(skip) /\ pc' = "check"
    <3>1. observed' \in {None, NewestRecord(SubSeq(content[path], 1, log'.offset))}
      BY <1>5, <2>1, <2>2 DEF Open
    <3>2. QED
      BY <1>1, <2>1, <2>2, <3>1, ObservedOpened
  <2>3. CASE pc' = "inspect" /\ log' = log /\ observed' = observed
    BY <2>1, <2>3, ObservedNothing
  <2>4. QED
    BY <1>5, <2>2, <2>3 DEF Open
<1>6. CASE Check
  <2>1. log \in Log /\ log # None /\ log.file \in File /\ content[log.file] \in Seq(Cell)
    BY <1>6, OpenLog DEF Check
  <2>2. CASE log' = ResetLog /\ observed' = None /\ pc' = "read"
    <3>1. /\ log' \in Log /\ log' # None /\ log'.offset = 0 /\ log'.checkpoint = None
          /\ log'.incomplete = <<>>
      BY <2>1, <2>2, ResetParts, NoneAssumption
    <3>2. log'.base = 0
      BY <2>2 DEF ResetLog, Tailing
    <3>3. ~log'.discarding
      BY <2>2 DEF ResetLog, Tailing
    <3>4. CheckpointMatches' /\ Kept(log', content'[log'.file])
      BY <3>1, <3>2, <3>3 DEF CheckpointMatches, Kept
    <3>5. QED
      BY <2>2, <3>1, <3>4 DEF ObservedInv
  <2>3. CASE ~Truncated /\ log' = log /\ observed' = observed /\ pc' = "read"
    BY <1>1, <2>1, <2>3, ObservedStill DEF Truncated
  <2>4. CASE log' = log /\ observed' = None /\ pc' = "inspect"
    BY <1>1, <2>1, <2>4, ObservedStill
  <2>5. QED
    BY <1>6, <2>2, <2>3, <2>4 DEF Check
<1>7. CASE ReadEnds
  <2>1. log # None /\ log' = log /\ observed' = observed /\ pc' = "inspect"
    BY <1>7, OpenLog DEF ReadEnds
  <2>2. QED
    BY <1>1, <2>1, ObservedStill
<1>8. QED
  BY <1>3, <1>4, <1>5, <1>6, <1>7

\* The line a log keeps, when it has read one more cell of its file.
LEMMA ConsumeKept ==
  ASSUME log \in Log, NEW s \in Seq(Cell), log.offset + 1 \in 1 .. Len(s),
         log.base <= log.offset, Kept(log, s),
         s[log.offset + 1].part = "record" => log.offset = 0 \/ s[log.offset].part = "end"
  PROVE  Kept(Consume(s[log.offset + 1]), s)
<1> DEFINE cell == s[log.offset + 1]
           next == Consume(cell)
           full == Len(log.incomplete) >= MaxLine
<1>1. /\ log.offset \in Nat /\ log.base \in Nat /\ log.incomplete \in Seq(Cell) /\ cell \in Cell
  BY DEF Log
<1>2. /\ next.offset = log.offset + 1 /\ next.base = log.base
      /\ next.incomplete = IF log.discarding \/ cell.part = "end" \/ full
                           THEN <<>> ELSE Append(log.incomplete, cell)
      /\ next.discarding = (cell.part # "end" /\ (log.discarding \/ full))
  BY Zenon DEF Consume
<1> HIDE DEF next, full
<1>3. next.offset # next.base
  BY <1>1, <1>2
<1>4. cell.part = "end" => next.incomplete = <<>> /\ ~next.discarding
  BY <1>2
<1>5. ASSUME cell.part = "record"
      PROVE  next.incomplete = <<cell>> /\ ~next.discarding
  <2>1. log.offset = log.base \/ s[log.offset].part = "end"
    BY <1>1, <1>5
  <2>2. log.incomplete = <<>> /\ ~log.discarding
    BY <2>1 DEF Kept
  <2>3. ~full
    BY <2>2, LineAssumption DEF full
  <2>4. next.incomplete = Append(<<>>, cell) /\ ~next.discarding
    BY <1>2, <1>5, <2>2, <2>3
  <2>5. QED
    BY <1>1, <2>4
<1>6. ASSUME next.incomplete # <<>>
      PROVE  next.incomplete[Len(next.incomplete)] = cell
  <2>1. next.incomplete = Append(log.incomplete, cell)
    BY <1>2, <1>6
  <2>2. QED
    BY <1>1, <2>1
<1>7. QED
  BY <1>2, <1>3, <1>4, <1>5, <1>6 DEF Kept, next

\* The cell that is read completes a record exactly when the record lies whole before it.
LEMMA ReadSees ==
  ASSUME log \in Log, NEW s \in Seq(Cell), log.offset + 1 \in 1 .. Len(s),
         log.base <= log.offset, Kept(log, s), NEW l, l.base = log.base, l.offset = log.offset + 1
  PROVE  LET cell == s[log.offset + 1]
         IN  SeenOf(l, s) = SeenOf(log, s) \cup (IF Completes(cell) THEN {cell.line} ELSE {})
<1> DEFINE cell == s[log.offset + 1]
<1>1. /\ log.offset \in Nat /\ log.base \in Nat /\ log.incomplete \in Seq(Cell) /\ cell \in Cell
      /\ cell.line \in Line
  <2>1. cell \in Cell
    OBVIOUS
  <2>2. cell.line \in Line
    BY <2>1 DEF Cell
  <2>3. QED
    BY <2>1, <2>2 DEF Log
<1>2. ASSUME Completes(cell)
      PROVE  /\ log.offset \in log.base + 1 .. log.offset
             /\ s[log.offset] = [line |-> cell.line, part |-> "record"]
             /\ cell = [line |-> cell.line, part |-> "end"]
  <2>1. /\ log.incomplete = <<[line |-> cell.line, part |-> "record"]>> /\ cell.part = "end"
    BY <1>2 DEF Completes
  <2>2. /\ log.incomplete # <<>> /\ Len(log.incomplete) = 1
        /\ log.incomplete[1] = [line |-> cell.line, part |-> "record"]
    BY <2>1
  <2>3. log.offset # log.base /\ log.incomplete[1] = s[log.offset]
    BY <2>2 DEF Kept
  <2>4. cell = [line |-> cell.line, part |-> "end"]
    BY <1>1, <2>1 DEF Cell
  <2>5. QED
    BY <1>1, <2>2, <2>3, <2>4
<1>3. ASSUME NEW n \in Line, log.offset \in log.base + 1 .. log.offset,
             s[log.offset] = [line |-> n, part |-> "record"], cell = [line |-> n, part |-> "end"]
      PROVE  Completes(cell) /\ n = cell.line
  <2>1. log.offset # log.base /\ s[log.offset].part = "record"
    BY <1>1, <1>3
  <2>2. log.incomplete = <<s[log.offset]>> /\ ~log.discarding
    BY <2>1 DEF Kept
  <2>3. cell.part = "end" /\ n = cell.line
    BY <1>3
  <2>4. QED
    BY <1>3, <2>2, <2>3 DEF Completes
<1>4. \A i \in log.base + 1 .. (log.offset + 1) - 1 :
        i \in log.base + 1 .. log.offset - 1 \/ i = log.offset
  BY <1>1
<1>5. \A i \in log.base + 1 .. log.offset - 1 : i \in log.base + 1 .. (log.offset + 1) - 1
  BY <1>1
<1>6. Between(s, l.base + 1, l.offset)
        = Between(s, log.base + 1, log.offset) \cup (IF Completes(cell) THEN {cell.line} ELSE {})
  <2>1. ASSUME NEW n \in Between(s, l.base + 1, l.offset)
        PROVE  n \in Between(s, log.base + 1, log.offset) \/ (Completes(cell) /\ n = cell.line)
    <3>1. n \in Line
      BY DEF Between
    <3>2. PICK i \in log.base + 1 .. (log.offset + 1) - 1 :
            /\ s[i] = [line |-> n, part |-> "record"]
            /\ s[i + 1] = [line |-> n, part |-> "end"]
      BY DEF Between
    <3>3. CASE i \in log.base + 1 .. log.offset - 1
      BY <3>1, <3>2, <3>3 DEF Between
    <3>4. CASE i = log.offset
      <4>1. log.offset \in log.base + 1 .. log.offset
        BY <1>1, <3>2, <3>4
      <4>2. QED
        BY <1>3, <3>1, <3>2, <3>4, <4>1
    <3>5. QED
      BY <1>4, <3>3, <3>4
  <2>2. ASSUME NEW n \in Between(s, log.base + 1, log.offset)
        PROVE  n \in Between(s, l.base + 1, l.offset)
    BY <1>5 DEF Between
  <2>3. ASSUME Completes(cell)
        PROVE  cell.line \in Between(s, l.base + 1, l.offset)
    <3>1. log.offset \in l.base + 1 .. l.offset - 1
      BY <1>1, <1>2, <2>3
    <3>2. QED
      BY <1>1, <1>2, <2>3, <3>1 DEF Between
  <2> HIDE DEF cell
  <2>4. QED
    BY <2>1, <2>2, <2>3
<1>7. QED
  BY <1>6 DEF SeenOf

\* What was seen of a file is none later than the cell after it.
LEMMA SeenBefore ==
  ASSUME NEW s \in Seq(Cell), NEW last, Ordered(s, last), NEW l, l.base \in Nat, l.offset \in Nat,
         l.base <= l.offset, l.offset + 1 \in 1 .. Len(s), NEW n \in SeenOf(l, s)
  PROVE  n <= s[l.offset + 1].line
<1>1. PICK i : /\ i \in 1 .. l.base - 1 \/ i \in l.base + 1 .. l.offset - 1
               /\ s[i] = [line |-> n, part |-> "record"]
  BY DEF SeenOf, Between
<1>2. i \in 1 .. Len(s) /\ l.offset + 1 \in i + 1 .. Len(s)
  BY <1>1
<1>3. s[i].line <= s[l.offset + 1].line /\ s[i].line = n
  BY <1>1, <1>2 DEF Ordered
<1>4. QED
  BY <1>3

LEMMA ReadObserved ==
  ASSUME IInv, ShapeInv, CheckpointInv, ObservedInv, Read
  PROVE  ObservedInv'
<1> DEFINE s == content[log.file]
           cell == s[log.offset + 1]
<1>1. /\ content' = content /\ pc = "read" /\ pc' = pc
      /\ log \in Log /\ log # None /\ log.file \in File /\ log.offset \in Nat /\ log.base \in Nat
      /\ s \in Seq(Cell) /\ log.base <= log.offset
  BY OpenLog, LogParts DEF Read, gameVars, CheckpointInv
<1>2. /\ cell \in Cell /\ log.offset + 1 \in 1 .. Len(s)
      /\ log' = Consume(cell) /\ log' # None
      /\ log'.file = log.file /\ log'.offset = log.offset + 1 /\ log'.checkpoint = cell
  BY ReadParts
<1>3. log'.base = log.base
  BY <1>2 DEF Consume
<1>4. \/ Completes(cell) /\ observed' = cell.line
      \/ ~Completes(cell) /\ observed' = observed
  BY DEF Read
<1>5. CheckpointMatches'
  <2>1. log.offset + 1 <= Len(s)
    BY <1>1, <1>2
  <2>2. QED
    BY <1>1, <1>2, <2>1 DEF CheckpointMatches
<1>6. ASSUME ~TruncateWhileReading
      PROVE  /\ Kept(log', s)
             /\ observed' \in {None, Newest(SeenOf(log', s))}
  <2>1. Kept(log, s) /\ observed \in {None, Newest(SeenOf(log, s))}
    BY <1>1, <1>6 DEF ObservedInv
  <2>2. cell.part = "record" => log.offset = 0 \/ s[log.offset].part = "end"
    <3>1. cell.part = "record" =>
            log.offset + 1 = 1 \/ content[log.file][(log.offset + 1) - 1].part = "end"
      BY <1>1, <1>2 DEF ShapeInv
    <3>2. (log.offset + 1) - 1 = log.offset /\ (log.offset + 1 = 1 => log.offset = 0)
      BY <1>1
    <3>3. QED
      BY <3>1, <3>2
  <2> HIDE DEF s
  <2>3. Kept(log', s)
    BY <1>1, <1>2, <2>1, <2>2, ConsumeKept
  <2>4. SeenOf(log', s) = SeenOf(log, s) \cup (IF Completes(cell) THEN {cell.line} ELSE {})
    BY <1>1, <1>2, <1>3, <2>1, ReadSees
  <2>5. CASE ~Completes(cell)
    <3>1. SeenOf(log', s) = SeenOf(log, s)
      BY <2>4, <2>5
    <3>2. QED
      BY <1>4, <2>1, <2>3, <2>5, <3>1
  <2>6. CASE Completes(cell)
    <3>1. Ordered(s, written)
      BY <1>1 DEF IInv, FileInv, s
    <3>2. \A n \in SeenOf(log, s) : n <= cell.line
      BY <1>1, <1>2, <3>1, SeenBefore
    <3>3. cell.line \in Nat
      BY <1>2 DEF Cell, Line
    <3> HIDE DEF cell
    <3>4. cell.line \in SeenOf(log', s) /\ \A n \in SeenOf(log', s) : n <= cell.line
      BY <2>4, <2>6, <3>2, <3>3
    <3>5. SeenOf(log', s) \in SUBSET Line
      BY DEF SeenOf, Between
    <3>6. Newest(SeenOf(log', s)) = cell.line
      BY <3>4, <3>5, NewestIs
    <3>7. QED
      BY <1>4, <2>3, <2>6, <3>6
  <2>7. QED
    BY <2>5, <2>6
<1>7. content'[log'.file] = s
  BY <1>1, <1>2
<1>8. QED
  BY <1>1, <1>2, <1>5, <1>6, <1>7 DEF ObservedInv

\* A step of the game breaks the checkpoint, or leaves what was seen in its place.
LEMMA GameObserved ==
  ASSUME IInv, CheckpointInv, ObservedInv, Game
  PROVE  ObservedInv'
<1>1. log' = log /\ pc' = pc /\ observed' = observed
  BY GameEffect DEF listenerVars
<1> SUFFICES ASSUME ~TruncateWhileReading, log # None
             PROVE  /\ pc = "read" => CheckpointMatches'
                    /\ CheckpointMatches' =>
                         /\ Kept(log, content'[log.file])
                         /\ observed \in {None, Newest(SeenOf(log, content'[log.file]))}
  <2>1. pc = "read" => log # None
    BY DEF IInv, ReportInv, ControlInv
  <2>2. QED
    BY <1>1, <2>1 DEF ObservedInv
<1>2. /\ log.file \in File /\ log.offset \in Nat /\ log.base \in Nat /\ log.base <= log.offset
      /\ content[log.file] \in Seq(Cell) /\ Len(content[log.file]) \in Nat
      /\ log.checkpoint = None <=> log.offset = 0
  BY LogParts DEF CheckpointInv
<1>3. ASSUME pc = "read"
      PROVE  CheckpointMatches'
  <2>1. CheckpointMatches
    BY <1>3 DEF ObservedInv
  <2>2. ~Truncate
    BY <1>3 DEF Truncate
  <2>3. \/ content'[log.file] = content[log.file]
        \/ \E cell \in Cell : content'[log.file] = Append(content[log.file], cell)
    <3>1. CASE WriteCell
      <4>1. /\ path \in File /\ Head(unwritten) \in Cell
            /\ content' = [content EXCEPT ![path] = Append(content[path], Head(unwritten))]
        BY <3>1, NextCell
      <4>2. content \in [File -> Seq(Cell)]
        BY DEF IInv, TypeOK
      <4>3. QED
        BY <1>2, <4>1, <4>2
    <3>2. CASE BeginLine \/ Create \/ Delete
      BY <3>2 DEF BeginLine, Create, Delete
    <3>3. QED
      BY <2>2, <3>1, <3>2 DEF Game
  <2>4. log.offset # 0 => log.offset \in 1 .. Len(content[log.file])
    BY <1>2, <2>1, MatchKept
  <2>5. log.offset # 0 => /\ log.offset <= Len(content'[log.file])
                          /\ content'[log.file][log.offset] = content[log.file][log.offset]
    BY <1>2, <2>3, <2>4
  <2>6. QED
    BY <1>1, <1>2, <2>1, <2>5 DEF CheckpointMatches
<1>4. ASSUME CheckpointMatches'
      PROVE  /\ Kept(log, content'[log.file])
             /\ observed \in {None, Newest(SeenOf(log, content'[log.file]))}
  <2>1. CheckpointMatches
    BY <1>4, MatchKept
  <2>2. Kept(log, content[log.file]) /\ observed \in {None, Newest(SeenOf(log, content[log.file]))}
    BY <2>1 DEF ObservedInv
  <2>3. \A i \in 1 .. log.offset : content'[log.file][i] = content[log.file][i]
    <3>1. CASE content'[log.file] = <<>>
      <4>1. log.offset = 0
        BY <1>1, <1>2, <1>4, <3>1 DEF CheckpointMatches
      <4>2. \A i \in 1 .. log.offset : FALSE
        BY <4>1
      <4>3. QED
        BY <4>2
    <3>2. CASE content'[log.file] # <<>>
      BY <2>1, <3>2, MatchKept
    <3>3. QED
      BY <3>1, <3>2
  <2>4. /\ SeenOf(log, content'[log.file]) = SeenOf(log, content[log.file])
        /\ Kept(log, content[log.file]) => Kept(log, content'[log.file])
    BY <1>2, <2>3, SeenFrame
  <2>5. QED
    BY <2>2, <2>4
<1>5. QED
  BY <1>3, <1>4

--------------------------------------------------------------------------------

LEMMA InitListenerInv == Init => ListenerInv
<1> SUFFICES ASSUME Init PROVE ListenerInv
  OBVIOUS
<1>1. ShapeInv
  BY DEF Init, ShapeInv
<1>2. Reported = {}
  BY DEF Init, Reported
<1>3. HistoryInv /\ CheckpointInv /\ ObservedInv
  BY <1>2 DEF Init, HistoryInv, CheckpointInv, ObservedInv
<1>4. QED
  BY <1>1, <1>3, InitIInv DEF ListenerInv

LEMMA StepListenerInv == ListenerInv /\ [Next]_vars => ListenerInv'
<1>1. ASSUME ListenerInv, Game PROVE ListenerInv'
  <2>1. IInv /\ IInv' /\ ShapeInv'
    BY <1>1, StepIInv, ShapeStep DEF ListenerInv, Next
  <2>2. HistoryInv' /\ CheckpointInv' /\ ObservedInv'
    BY <1>1, GameHistory, GameCheckpoint, GameObserved DEF ListenerInv
  <2>3. QED
    BY <2>1, <2>2 DEF ListenerInv
<1>2. ASSUME ListenerInv, Start \/ StartFails \/ Stop \/ Worker PROVE ListenerInv'
  <2>1. IInv /\ IInv' /\ ShapeInv' /\ CheckpointInv'
    BY <1>2, StepIInv, ShapeStep, ListenerCheckpoint DEF ListenerInv, Next
  <2>2. HistoryInv'
    BY <1>2, StartStopHistory, WorkerHistory DEF ListenerInv
  <2>3. ObservedInv'
    BY <1>2, StartStopObserved, SeedObserved, PollObserved, ReadObserved DEF ListenerInv, Worker
  <2>4. QED
    BY <2>1, <2>2, <2>3 DEF ListenerInv
<1>3. ASSUME ListenerInv, UNCHANGED vars PROVE ListenerInv'
  <2>1. IInv' /\ UNCHANGED gameVars /\ UNCHANGED listenerVars
    BY <1>3, StepIInv DEF ListenerInv, vars
  <2>2. ShapeInv' /\ CheckpointInv'
    BY <1>3, <2>1 DEF gameVars, listenerVars, ListenerInv, ShapeInv, CheckpointInv, CheckpointMatches, Past
  <2>3. HistoryInv'
    BY <1>3, <2>1 DEF gameVars, listenerVars, ListenerInv, HistoryInv, Reported, CheckpointMatches, Past
  <2>4. ObservedInv'
    BY <1>3, <2>1 DEF gameVars, listenerVars, ListenerInv, ObservedInv, CheckpointMatches
  <2>5. QED
    BY <2>1, <2>2, <2>3, <2>4 DEF ListenerInv
<1>4. QED
  BY <1>1, <1>2, <1>3 DEF Next

\* What lay in the file when start opened it is never reported, whatever becomes of the
\* file afterwards; a listener whose start found no file has no history to skip (start's
\* open with skip_existing, ensure_not_truncated, open_log_file).
THEOREM HistoryCorrect == Spec => []OpenedHistorySkipped
<1>1. ListenerInv => OpenedHistorySkipped
  BY DEF ListenerInv, HistoryInv, Reported, OpenedHistorySkipped, HistorySkipped
<1>2. QED
  BY <1>1, InitListenerInv, StepListenerInv, PTL DEF Spec

\* The mod version on the page is the one of the newest record the listener has come by,
\* as long as the file is not truncated between the check of a poll and its reads: a poll
\* that reads on in a file truncated meanwhile takes its new lines for the rest of the old
\* ones (seed_metadata_from_tail, reset_after_truncation, read_available).
THEOREM ObservedCorrect ==
  ASSUME ~TruncateWhileReading
  PROVE  Spec => []ObservedIsNewest
<1>1. ListenerInv => ObservedIsNewest
  <2> SUFFICES ASSUME ListenerInv, log # None, CheckpointMatches
               PROVE  observed \in {None, Newest(Seen)}
    BY DEF ObservedIsNewest
  <2>1. /\ content[log.file] \in Seq(Cell) /\ log.base \in Nat /\ log.offset \in Nat
        /\ log.base <= log.offset
    BY LogParts DEF ListenerInv, CheckpointInv
  <2>2. log.offset <= Len(content[log.file])
    BY <2>1, LogParts DEF CheckpointMatches, ListenerInv
  <2>3. Seen = SeenOf(log, content[log.file])
    BY <2>1, <2>2, SeenParts DEF Seen, SeenOf
  <2>4. QED
    BY <2>3 DEF ListenerInv, ObservedInv
<1>2. QED
  BY <1>1, InitListenerInv, StepListenerInv, PTL DEF Spec
================================================================================
