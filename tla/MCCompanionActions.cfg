\* One provider and target, one session, two queue slots and two ticks of age, under the
\* repaints: the delivery of actions, and the way back to an idle page.
SPECIFICATION FairSpec
CONSTANTS
  pishock = pishock
  openshock = openshock
  k1 = k1
  p1 = p1
  o1 = o1
  None = None
  NoCredential = NoCredential
  Provider = {pishock}
  DefaultProvider = pishock
  Credential = {NoCredential, k1}
  Target = {p1}
  OwnerOf <- MCOwnerOf
  Level = {1, 2, 3}
  Profile <- MCProfiles
  Levels <- MCLevels
  Drawn <- MCDrawn
  Slot = {1, 2}
  Choice <- QueueChoices
  DefaultSettings <- QueueDefault
  Restored <- QueueRestored
  Trigger <- QueueTriggers
  Capacity = 2
  MaxAge = 2
  MaxLoad = 3
INVARIANTS OutstandingInOrder NoStaleAction
PROPERTIES AtMostOnceDelivery PagesUnlock TestsEnd
