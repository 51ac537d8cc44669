\* Three settings, a debounce of two ticks, one backup; a tick is the 250 ms of the
\* repaints of a check.
SPECIFICATION AppFairSpec
CONSTANTS
  d = d s1 = s1 s2 = s2
  this = this rebuilt = rebuilt newer = newer
  None = None Unparsable = Unparsable NoVersion = NoVersion
  Settings = {d, s1, s2}
  Default = d
  Debounce = 2
  MaxBackups = 1
  Version = {this, rebuilt, newer}
  Rank <- Ranks
  app_version = this
  supported_mod_versions = {this, rebuilt}
  Reply <- Replies
  Observed <- Observations
  CheckRepaint = 1
INVARIANTS PendingIsObserved CleanIsRestored
PROPERTIES InvalidPreserved ExitSaves EventuallySaved CheckEnds
