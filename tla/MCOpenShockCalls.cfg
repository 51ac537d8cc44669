\* Three commands of two threads over at most three sockets, and a server that may fall
\* silent.
\* Deadlock is allowed: the model ends when its commands and sockets are used up.
SPECIFICATION FairSpec
CHECK_DEADLOCK FALSE
CONSTANTS
  c1 = c1 c2 = c2
  None = None
  Caller = {c1, c2}
  MaxInvocation = 3
  MaxConnection = 3
  MaxNoise = 1
INVARIANTS AtMostOnce AnswerIsTrue
PROPERTIES CallsReturn
