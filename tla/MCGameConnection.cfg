\* Two roots and three libraries, two of which may be one, with up to two installs.
SPECIFICATION ConnectionSpec
CONSTANTS
  i1 = i1 i2 = i2
  None = None Missing = Missing Unreadable = Unreadable Unlisted = Unlisted
  Malformed = Malformed NoApp = NoApp Invalid = Invalid
  Install = {i1, i2}
  RootList <- RootLists
  Place <- Places
  RootSystem <- RootSystems
  LibrarySystem <- LibrarySystems
  InstallState <- InstallStates
  MaxTime = 2
  Typed <- Texts
INVARIANTS NewestChosen FaultsDoNotHide ShownIsTailed
