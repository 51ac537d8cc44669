----------------------------- MODULE MCSettingsFile -----------------------------
(* Values for the constants of SettingsFile: percents and milliseconds of two halves, *)
(* intensities of 1 and 2 percent, durations of 2 and 3 milliseconds.                 *)
EXTENDS SettingsFile

CONSTANTS n7, padded7, word, blank, key, path, padded, spaces

Numbers == [id \in {n7, padded7} |-> n7]
Trimmed == [p \in {path, padded, spaces, NoPath} |-> IF p \in {path, padded} THEN path ELSE NoPath]

P(mode, iMin, iMax, i, dMin, dMax, d) ==
  [mode |-> mode, value |-> [f \in Field |->
     CASE f = "minimum_intensity" -> iMin [] f = "maximum_intensity" -> iMax
       [] f = "intensity" -> i [] f = "minimum_duration" -> dMin
       [] f = "maximum_duration" -> dMax [] f = "duration" -> d]]

\* In and out of range and order, between steps, and not finite.
Profiles ==
  {P("interval", 4, 2, 9, 6, 4, 0), P("interval", 0, 9, 4, 0, 9, 6),
   P("interval", NonFinite, NonFinite, NonFinite, 5, NonFinite, 5),
   P("interval", 3, 4, 3, 4, 5, 6), P("fixed", 4, 2, 3, 6, 4, 5), P("fixed", 5, 3, -2, 4, 4, NonFinite)}
Plain == P("interval", 2, 4, 2, 4, 6, 4)

Filters ==
  {All, [mode |-> "all", slots |-> {1}], [mode |-> "selected", slots |-> {0, 1, 3}],
   [mode |-> "selected", slots |-> {}]}

Keys == [p \in {"PiShock", "OpenShock"} |-> IF p = "PiShock" THEN key ELSE NoKey]

D(provider, target, log_path) ==
  [provider |-> provider, keys |-> Keys, target |-> target, log_path |-> log_path]

Schema1(d, profile) ==
  [schema |-> 1, provider |-> d.provider, keys |-> d.keys, target |-> d.target,
   log_path |-> d.log_path, profile |-> profile]
Schema2(d, profile, enabled) ==
  [schema |-> 2, provider |-> d.provider, keys |-> d.keys, target |-> d.target,
   log_path |-> d.log_path, profile |-> profile, enabled |-> enabled]
Schema(n, d, profile, on, filter) ==
  [schema |-> n, provider |-> d.provider, keys |-> d.keys, target |-> d.target,
   log_path |-> d.log_path,
   trigger |-> [k \in Kind |->
     [enabled |-> k = on, profile |-> IF k = "death" THEN profile ELSE Plain,
      filter |-> IF k = "ability_use" THEN filter ELSE All]]]

Base == D("OpenShock", [provider |-> "OpenShock", id |-> word], path)
Targets == [provider : Provider, id : {n7, padded7, word, blank}] \cup {None}

\* One part of the document varies at a time.
Documents ==
  {Schema1(Base, p) : p \in Profiles}
  \cup {Schema2(Base, Plain, e) : e \in [Kind -> BOOLEAN]}
  \cup {Schema(n, Base, p, "death", All) : n \in {4}, p \in Profiles}
  \cup {Schema(n, Base, Plain, "ability_use", f) : n \in {3, 5}, f \in Filters}
  \cup {Schema(5, D(p, t, path), Plain, "death", All) : p \in Provider, t \in Targets}
  \cup {Schema(5, D("PiShock", None, l), Plain, "death", All) : l \in {NoPath, padded, spaces}}
================================================================================
