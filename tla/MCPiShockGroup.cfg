\* Two commands, for groups of up to three shares.
\* Deadlock is allowed: the model ends when its commands are used up.
SPECIFICATION Spec
CHECK_DEADLOCK FALSE
CONSTANTS
  None = None
  Share <- Shares
  HubList <- HubLists
  ShareList <- ShareLists
  Command <- Commands
  MaxCalls = 2
INVARIANTS ListingComplete AtMostOnce OkIsEveryShocker CheckedBeforePost
