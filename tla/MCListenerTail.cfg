\* Two files, three lines, records or too long; start's own open may fail, and the file
\* is truncated between the inspection and the check of a poll, but not between the
\* check and the reads.
SPECIFICATION FairSpec
CONSTANTS
  f1 = f1
  f2 = f2
  None = None
  MaxLine = 1
  LastLine = 3
  File = {f1, f2}
  OpenMayFail = TRUE
  TruncateWhileReading = FALSE
INVARIANTS OnceInOrder OpenedHistorySkipped ObservedIsNewest
PROPERTIES EveryRecord
