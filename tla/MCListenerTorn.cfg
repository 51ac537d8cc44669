\* The file is truncated and written anew between the check and the read of one poll.
SPECIFICATION FairSpec
CONSTANTS
  f1 = f1
  f2 = f2
  None = None
  MaxLine = 1
  LastLine = 3
  File = {f1}
  OpenMayFail = FALSE
  TruncateWhileReading = TRUE
PROPERTIES EveryRecord
