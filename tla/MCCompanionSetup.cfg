\* Two providers, a target of each, one queue slot: every page against every thread.
SPECIFICATION Spec
CONSTANTS
  pishock = pishock
  openshock = openshock
  k1 = k1
  p1 = p1
  o1 = o1
  None = None
  NoCredential = NoCredential
  Provider = {pishock, openshock}
  DefaultProvider = pishock
  Credential = {NoCredential, k1}
  Target = {p1, o1}
  OwnerOf <- MCOwnerOf
  Level = {1, 2, 3}
  Profile <- MCProfiles
  Levels <- MCLevels
  Drawn <- MCDrawn
  Slot = {1, 2}
  Choice <- SetupChoices
  DefaultSettings <- MCDefaultSettings
  Restored <- SetupRestored
  Trigger <- SetupTriggers
  Capacity = 1
  MaxAge = 1
  MaxLoad = 2
INVARIANTS ClientMatchesSetup WorkMatchesPages QuietWhenNotBusy InFlightExact
