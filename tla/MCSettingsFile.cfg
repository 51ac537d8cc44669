\* 2 edits on the pages between starts and any number of saves, from 49 documents.
SPECIFICATION Spec
CONSTANTS
  n7 = n7 padded7 = padded7 word = word blank = blank
  key = key NoKey = NoKey
  path = path padded = padded spaces = spaces NoPath = NoPath
  NonFinite = NonFinite Missing = Missing Malformed = Malformed Refused = Refused None = None
  Key = {NoKey, key}
  Id = {n7, padded7, word, blank}
  BlankId = {blank}
  Number <- Numbers
  LogPath = {NoPath, path, padded, spaces}
  Trim <- Trimmed
  DetectedPath = {path}
  Percent = 2 Millisecond = 2
  MinIntensity = 2 MaxIntensity = 4 IntensityStep = 2
  MinDuration = 4 MaxDuration = 6 DurationStep = 2
  Slot = {1, 2, 3}
  NumberedSlot = {1, 2}
  Catalogue = {{0, 3}}
  Document <- Documents
  MaxEdits = 2
INVARIANTS SavedIsShown ProfilesResolve
PROPERTIES MigrationPreserves ClickTouchesOneSlot
