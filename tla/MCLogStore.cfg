\* Lines of at most six bytes, two at a time.
\* Deadlock is allowed: the model ends when its bytes are written.
SPECIFICATION LogSpec
CHECK_DEADLOCK FALSE
CONSTANTS
  MAX_LOG_LINES = 2
  MAX_LOG_BYTES = 6
  Marker <- TruncationMarker
  MaxWritten = 9
INVARIANTS LongestTailKept LinesAreWhole
PROPERTIES WindowCatchesUp
