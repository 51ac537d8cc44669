------------------------------ MODULE SettingsFile ------------------------------
(***************************************************************************)
(* What the settings hold (companion/src/persistence.rs, action.rs): the    *)
(* documents of schemas 1 to 5, how each becomes the settings on the pages, *)
(* what the pages may do with them, what is written back, and what actions  *)
(* they resolve to.  When they are written is in Persistence.               *)
(*                                                                          *)
(* The state on the pages (AppState) and the one in a file of schema 5      *)
(* (PersistedState) are records of the same shape, a State.  A file may     *)
(* hold any number where the pages have a slider; intensities are counted   *)
(* in fractions of a percent, durations in fractions of a millisecond.      *)
(***************************************************************************)
EXTENDS Integers

CONSTANTS
  Key, NoKey,                  \* API keys and tokens
  Id, BlankId, Number,         \* ids of targets; those that parse as a number, and as which
  LogPath, NoPath, Trim,       \* log paths, and each without the spaces around it
  DetectedPath,                \* what the search for the log may find
  Percent, Millisecond,        \* how many of its fractions one is
  MinIntensity, MaxIntensity, IntensityStep,
  MinDuration, MaxDuration, DurationStep,
  Slot, NumberedSlot,          \* the positive ability slots; those shown before any catalogue
  Catalogue,                   \* the sets of slots the game may report
  Document,                    \* the documents a file may hold at first
  MaxEdits,                    \* bound of the model: edits on the pages
  NonFinite, Missing, Malformed, Refused, None

Provider == {"PiShock", "OpenShock"}
Kind == {"death", "ability_use", "ability_cooldown_ready"}
Mode == {"interval", "fixed"}
Intensity == {"minimum_intensity", "maximum_intensity", "intensity"}
Duration == {"minimum_duration", "maximum_duration", "duration"}
Field == Intensity \cup Duration
MinimumOf == [f \in {"maximum_intensity", "maximum_duration"} |->
                IF f = "maximum_intensity" THEN "minimum_intensity" ELSE "minimum_duration"]

Low(f) == IF f \in Intensity THEN MinIntensity ELSE MinDuration
High(f) == IF f \in Intensity THEN MaxIntensity ELSE MaxDuration
Step(f) == IF f \in Intensity THEN IntensityStep ELSE DurationStep

Profile == [mode : Mode, value : [Field -> Int \cup {NonFinite}]]
Filter == [mode : {"all", "selected"}, slots : SUBSET (Slot \cup {0})]
Target == [provider : Provider, id : Id]
Trigger == [enabled : BOOLEAN, profile : Profile, filter : Filter]

\* What the pages show, and what a file of schema 5 holds.
State == [provider : Provider, keys : [Provider -> Key], target : Target \cup {None},
          trigger : [Kind -> Trigger], log_path : LogPath]

\* The documents: one profile for all triggers, then a switch for each, then triggers that
\* have their own profile and filter.  The username of schemas 1 to 4 is left out.
DocumentV1 == [schema : {1}, provider : Provider, keys : [Provider -> Key],
               target : Target \cup {None}, profile : Profile, log_path : LogPath]
DocumentV2 == [schema : {2}, provider : Provider, keys : [Provider -> Key],
               target : Target \cup {None}, profile : Profile, enabled : [Kind -> BOOLEAN],
               log_path : LogPath]
DocumentV3 == [schema : 3 .. 5, provider : Provider, keys : [Provider -> Key],
               target : Target \cup {None}, trigger : [Kind -> Trigger], log_path : LogPath]

ASSUME LimitsAssumption ==
  /\ {Percent, Millisecond, IntensityStep, DurationStep} \subseteq Nat \ {0}
  /\ {MinIntensity, MaxIntensity, MinDuration, MaxDuration} \subseteq Int
  /\ MinIntensity <= MaxIntensity /\ MinDuration <= MaxDuration
  /\ \A v \in {MinIntensity, MaxIntensity, IntensityStep} : v % Percent = 0
  /\ (MaxIntensity - MinIntensity) % IntensityStep = 0
  /\ (MaxDuration - MinDuration) % DurationStep = 0
  /\ MaxEdits \in Nat

ASSUME IdAssumption ==
  /\ BlankId \subseteq Id
  /\ DOMAIN Number \subseteq Id
  /\ \A id \in DOMAIN Number : Number[id] \in DOMAIN Number /\ Number[Number[id]] = Number[id]

ASSUME ValueAssumption ==
  /\ NonFinite \notin Int
  /\ Slot \subseteq Nat \ {0} /\ NumberedSlot \subseteq Slot
  /\ Catalogue \subseteq SUBSET (Slot \cup {0})
  /\ NoKey \in Key
  /\ NoPath \in LogPath /\ DetectedPath \subseteq LogPath /\ Trim \in [LogPath -> LogPath]
  /\ {None, Refused} \cap (Target \cup Document) = {} /\ None # Refused /\ Refused \notin State
  /\ \A other \in {Missing, Malformed} : other \notin Document /\ other \notin DocumentV3
  /\ \A doc \in Document : doc \in DocumentV1 \/ doc \in DocumentV2 \/ doc \in DocumentV3

VARIABLES
  file,       \* a document, Missing or Malformed
  running,
  app,        \* the settings on the pages, a State
  catalog,    \* the slots of the ability catalogue
  edits       \* bound of the model

vars == <<file, running, app, catalog, edits>>

--------------------------------------------------------------------------------
(* Defaults and migrations. *)

All == [mode |-> "all", slots |-> {}]
DefaultProfile == [mode |-> "interval", value |-> [f \in Field |-> Low(f)]]
DefaultEnabled == [k \in Kind |-> k = "death"]

\* from_shared: schemas 1 and 2 knew one profile and no filters.
FromShared(profile, enabled) ==
  [k \in Kind |-> [enabled |-> enabled[k], profile |-> profile, filter |-> All]]

Default ==
  [provider |-> "PiShock", keys |-> [p \in Provider |-> NoKey], target |-> None,
   trigger |-> FromShared(DefaultProfile, DefaultEnabled), log_path |-> NoPath]

\* Migrations of which that of schema 2 forgets which triggers were on.
MigratedWithDefaults(doc) ==
  [provider |-> doc.provider, keys |-> doc.keys, target |-> doc.target,
   trigger |-> IF doc.schema \in {1, 2} THEN FromShared(doc.profile, DefaultEnabled)
               ELSE doc.trigger,
   log_path |-> doc.log_path]

\* The From implementations and from_v3: the state a document of any schema describes.
Migrated(doc) ==
  [provider |-> doc.provider, keys |-> doc.keys, target |-> doc.target,
   trigger |-> IF doc.schema = 1 THEN FromShared(doc.profile, DefaultEnabled)
               ELSE IF doc.schema = 2 THEN FromShared(doc.profile, doc.enabled)
               ELSE doc.trigger,
   log_path |-> doc.log_path]

--------------------------------------------------------------------------------
(* Normalization. *)

NormalizeValue(v, low, high, fallback) ==
  IF v = NonFinite THEN fallback
  ELSE IF v < low THEN low ELSE IF v > high THEN high ELSE v

\* An editor and a normalization that leave a minimum above its maximum.
NotRaised(v) == v

\* The maximum of an interval follows its minimum.
Raised(v) ==
  [f \in Field |-> IF f \in DOMAIN MinimumOf /\ v[MinimumOf[f]] > v[f]
                   THEN v[MinimumOf[f]] ELSE v[f]]

NormalizeProfile(profile) ==
  [profile EXCEPT !.value =
     Raised([f \in Field |-> NormalizeValue(profile.value[f], Low(f), High(f), Low(f))])]

NormalizeFilter(filter) ==
  IF filter.mode = "all" THEN All ELSE [filter EXCEPT !.slots = @ \ {0}]

\* to_target_id
ToTargetId(target) ==
  IF target.provider = "PiShock"
  THEN IF target.id \in DOMAIN Number THEN [target EXCEPT !.id = Number[target.id]] ELSE Refused
  ELSE IF target.id \in BlankId THEN Refused ELSE target

\* normalized: all but the target is mended; a target that is none refuses the whole.
Normalized(state) ==
  LET target == IF state.target = None THEN None ELSE ToTargetId(state.target)
  IN  IF target = Refused THEN Refused
      ELSE [state EXCEPT
        !.trigger = [k \in Kind |-> [state.trigger[k] EXCEPT
                       !.profile = NormalizeProfile(@), !.filter = NormalizeFilter(@)]],
        !.target = IF target # None /\ target.provider = state.provider THEN target ELSE None]

\* load_from_path, of a file that can be read.
Loaded(source) ==
  IF source = Missing THEN Default
  ELSE IF source = Malformed THEN Refused
  ELSE Normalized(Migrated(source))

\* from_app and the document it is written as.
Saved(state) ==
  LET s == IF Normalized(state) = Refused THEN Default ELSE Normalized(state)
  IN  [schema |-> 5, provider |-> s.provider, keys |-> s.keys, target |-> s.target,
       trigger |-> s.trigger, log_path |-> s.log_path]

\* restore_app
RestoreApp(state) ==
  [state EXCEPT !.target = IF @ = None \/ ToTargetId(@) = Refused THEN None ELSE ToTargetId(@)]

--------------------------------------------------------------------------------
(* What a profile resolves to. *)

Sliders(mode) == IF mode = "fixed" THEN {"intensity", "duration"}
                 ELSE Field \ {"intensity", "duration"}
Lowest(mode) == IF mode = "fixed" THEN <<"intensity", "duration">>
                ELSE <<"minimum_intensity", "minimum_duration">>
Highest(mode) == IF mode = "fixed" THEN <<"intensity", "duration">>
                 ELSE <<"maximum_intensity", "maximum_duration">>

InRange(f, v) == v # NonFinite /\ v >= Low(f) /\ v <= High(f)

\* portable_intensity and portable_duration: whether a value can be sent, and as what.
Portable(f, v) == InRange(f, v) /\ (f \in Intensity => v % Percent = 0)
Whole(f, v) == IF f \in Intensity THEN v \div Percent
               ELSE (2 * v + Millisecond) \div (2 * Millisecond)

\* resolve_with: the intensities and durations it may draw.
Resolve(profile) ==
  LET Bound(ends, i) == Whole(ends[i], profile.value[ends[i]])
      low == Lowest(profile.mode)
      high == Highest(profile.mode)
  IN  IF \A f \in Sliders(profile.mode) : Portable(f, profile.value[f])
      THEN (Bound(low, 1) .. Bound(high, 1)) \X (Bound(low, 2) .. Bound(high, 2))
      ELSE {}

Accepts(filter, slot) == filter.mode = "all" \/ slot \in filter.slots

--------------------------------------------------------------------------------
(* The program starts, writes the settings, and ends. *)

\* Persistence::open and initialize_log_listener; a file that is refused is set aside.
Start ==
  /\ ~running
  /\ running' = TRUE
  /\ LET state == IF Loaded(file) = Refused THEN Default ELSE RestoreApp(Loaded(file))
     IN  \E path \in IF Trim[state.log_path] # NoPath THEN {Trim[state.log_path]}
                     ELSE DetectedPath \cup {NoPath} :
           app' = [state EXCEPT !.log_path = path]
  /\ file' \in IF Loaded(file) = Refused THEN {Missing, file} ELSE {file}
  /\ catalog' = {}
  /\ UNCHANGED edits

Save ==
  /\ running
  /\ file' = Saved(app)
  /\ UNCHANGED <<running, app, catalog, edits>>

Stop ==
  /\ running
  /\ running' = FALSE
  /\ app' = Default
  /\ catalog' = {}
  /\ UNCHANGED <<file, edits>>

--------------------------------------------------------------------------------
(* The pages. *)

Edit(state) ==
  /\ running
  /\ edits < MaxEdits
  /\ edits' = edits + 1
  /\ app' = state
  /\ UNCHANGED <<file, running, catalog>>

\* A change of the provider that keeps the target of the old one.
ProviderOnly(p) == p # app.provider /\ Edit([app EXCEPT !.provider = p])

SetProvider(p) == p # app.provider /\ Edit([app EXCEPT !.provider = p, !.target = None])

EditSetup(key) == Edit([app EXCEPT !.keys[app.provider] = key])

EditLogPath(path) == Edit([app EXCEPT !.log_path = path])

\* The ids a listing may show: numbers of PiShock, and of OpenShock whatever it sent.
ListedId(p) == IF p = "PiShock" THEN {Number[id] : id \in DOMAIN Number} ELSE Id

\* apply_devices and select_device: a target that is listed, or none when nothing is.
Prefer(id) ==
  Edit([app EXCEPT !.target = IF id = None THEN None ELSE [provider |-> app.provider, id |-> id]])

Toggle(k) == Edit([app EXCEPT !.trigger[k].enabled = ~@])

Copy(k, source) ==
  k # source /\ Edit([app EXCEPT !.trigger[k].profile = app.trigger[source].profile])

\* A slider that is drawn moves its value into the range and onto a step.
OnStep(f, v) ==
  LET clamped == NormalizeValue(v, Low(f), High(f), Low(f))
  IN  Low(f) + ((2 * (clamped - Low(f)) + Step(f)) \div (2 * Step(f))) * Step(f)

\* draw_shock_settings_editor: the mode may change, the sliders of the mode are drawn, and
\* one of them may be moved.
DrawEditor(k, mode) ==
  LET v == app.trigger[k].profile.value
      drawn == [f \in Field |-> IF f \in Sliders(mode) THEN OnStep(f, v[f]) ELSE v[f]]
  IN  \E f \in Sliders(mode) : \E n \in 0 .. (High(f) - Low(f)) \div Step(f) :
        Edit([app EXCEPT !.trigger[k].profile =
                [mode |-> mode, value |-> Raised([drawn EXCEPT ![f] = Low(f) + n * Step(f)])]])

\* draw_ability_filter
ShownSlots == NumberedSlot \cup catalog

PressAll(k) == Edit([app EXCEPT !.trigger[k].filter = All])
PressNone(k) == Edit([app EXCEPT !.trigger[k].filter = [mode |-> "selected", slots |-> {}]])

\* A click that takes All for an empty selection.
ClickFromNone(k, slot) ==
  LET filter == app.trigger[k].filter
      slots == IF slot \in filter.slots THEN filter.slots \ {slot} ELSE filter.slots \cup {slot}
  IN  Edit([app EXCEPT !.trigger[k].filter = [mode |-> "selected", slots |-> slots]])

Click(k, slot) ==
  LET filter == app.trigger[k].filter
      slots == IF filter.mode = "all" THEN ShownSlots \ {slot}
               ELSE IF slot \in filter.slots THEN filter.slots \ {slot}
               ELSE filter.slots \cup {slot}
  IN  Edit([app EXCEPT !.trigger[k].filter = [mode |-> "selected", slots |-> slots]])

\* reset_saved_state
Reset ==
  /\ running
  /\ app' = Default
  /\ catalog' = {}
  /\ UNCHANGED <<file, running, edits>>

\* poll_bridge_events: the hook says it is ready, or sends the catalogue of a hero.
HookReady ==
  /\ running
  /\ catalog' = {}
  /\ UNCHANGED <<file, running, app, edits>>

AbilityCatalog(slots) ==
  /\ running
  /\ catalog' = slots \ {0}
  /\ UNCHANGED <<file, running, app, edits>>

--------------------------------------------------------------------------------

Init ==
  /\ file \in Document \cup {Missing, Malformed}
  /\ running = FALSE
  /\ app = Default
  /\ catalog = {}
  /\ edits = 0

EditEffects ==
  \E k \in Kind :
    \/ Toggle(k)
    \/ \E source \in Kind : Copy(k, source)
    \/ \E mode \in Mode : DrawEditor(k, mode)
    \/ /\ k # "death"
       /\ \/ PressAll(k) \/ PressNone(k)
          \/ \E slot \in ShownSlots : Click(k, slot)

EditSetupPage ==
  \/ \E p \in Provider : SetProvider(p)
  \/ \E key \in Key : EditSetup(key)
  \/ \E id \in ListedId(app.provider) \cup {None} : Prefer(id)
  \/ \E path \in LogPath : EditLogPath(path)

Next ==
  \/ Start \/ Save \/ Stop \/ Reset
  \/ EditEffects \/ EditSetupPage
  \/ HookReady \/ \E slots \in Catalogue : AbilityCatalog(slots)

Spec == Init /\ [][Next]_vars

--------------------------------------------------------------------------------
(* Correctness. *)

\* Where each schema kept whether a trigger is on, its profile and its filter.
OldEnabled(doc, k) ==
  CASE doc.schema = 1 -> k = "death" [] doc.schema = 2 -> doc.enabled[k]
    [] OTHER -> doc.trigger[k].enabled
OldProfile(doc, k) == IF doc.schema <= 2 THEN doc.profile ELSE doc.trigger[k].profile
OldAccepts(doc, k, slot) == doc.schema <= 2 \/ Accepts(doc.trigger[k].filter, slot)

\* Settings of any schema mean on the pages what they meant in the file: the same
\* triggers act, on the same slots, with the same actions if theirs could be sent at all,
\* with the same keys, log and provider, and on the same target if it is one of that
\* provider.  A file is refused for its target only.
MigrationPreserves ==
  [][Start /\ file \in Document =>
       IF Loaded(file) = Refused
       THEN app' = [Default EXCEPT !.log_path = app'.log_path] /\ ToTargetId(file.target) = Refused
       ELSE /\ app'.provider = file.provider
            /\ app'.keys = file.keys
            /\ Trim[file.log_path] # NoPath => app'.log_path = Trim[file.log_path]
            /\ file.target # None /\ file.target.provider = file.provider
                 => app'.target = ToTargetId(file.target)
            /\ \A k \in Kind :
                 /\ app'.trigger[k].enabled = OldEnabled(file, k)
                 /\ Resolve(OldProfile(file, k)) # {}
                      => Resolve(app'.trigger[k].profile) = Resolve(OldProfile(file, k))
                 /\ \A slot \in Slot :
                      Accepts(app'.trigger[k].filter, slot) <=> OldAccepts(file, k, slot)]_vars

\* Whatever the pages show would be shown again after a save and a start, except that a
\* target whose id is blank, which a listing may contain, has all the settings saved as
\* the defaults.
SavedIsShown ==
  running =>
    LET again == RestoreApp(Loaded(Saved(app)))
    IN  IF app.target # None /\ ToTargetId(app.target) = Refused
        THEN again = Default
        ELSE again = app

\* What the pages show is what is sent: both ends of what they show may be drawn and
\* nothing outside the limits, whatever a file held and whichever sliders were moved.
\* Only a fraction of a percent, which the normalization of a file lets pass, resolves to
\* nothing: its trigger is on and never acts.
ProfilesResolve ==
  running =>
    \A k \in Kind :
      LET profile == app.trigger[k].profile
          Ends(ends) == <<Whole(ends[1], profile.value[ends[1]]),
                          Whole(ends[2], profile.value[ends[2]])>>
      IN  /\ \A action \in Resolve(profile) :
               /\ action[1] * Percent >= MinIntensity /\ action[1] * Percent <= MaxIntensity
               /\ action[2] >= Whole("duration", MinDuration)
               /\ action[2] <= Whole("duration", MaxDuration)
          /\ IF \E f \in Sliders(profile.mode) \cap Intensity : profile.value[f] % Percent # 0
             THEN Resolve(profile) = {}
             ELSE {Ends(Lowest(profile.mode)), Ends(Highest(profile.mode))} \subseteq Resolve(profile)

\* A click on a slot changes that slot and no other one on the page, and the filter of the
\* other triggers not at all; also from All, which becomes the slots then on the page.
ClickTouchesOneSlot ==
  [][\A k \in Kind, slot \in ShownSlots :
       Click(k, slot) =>
         \A other \in Kind, s \in ShownSlots :
           Accepts(app'.trigger[other].filter, s)
             <=> (Accepts(app.trigger[other].filter, s) # (other = k /\ s = slot))]_vars
================================================================================
