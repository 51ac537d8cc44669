\* The frame's own open fails, and the file grows under the worker's.
SPECIFICATION Spec
CONSTANTS
  f1 = f1
  f2 = f2
  None = None
  MaxLine = 1
  LastLine = 3
  File = {f1}
  OpenMayFail = TRUE
  TruncateWhileReading = FALSE
INVARIANTS HistorySkipped
