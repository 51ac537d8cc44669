------------------------------ MODULE Persistence ------------------------------
(***************************************************************************)
(* The saved settings (companion/src/persistence.rs): one file, written     *)
(* through a temporary file, a debounced autosave driven by the frames, the *)
(* save of a reset and the save at the exit; any write may fail, and the    *)
(* process may die between any two of them.                                 *)
(*                                                                          *)
(* shown is PersistedState::from_app(state): what the pages show, already   *)
(* normalized.  Time is counted in ticks.  When the frames come, and so     *)
(* whether a save is made at last, is the subject of CompanionApp.          *)
(***************************************************************************)
EXTENDS Naturals

CONSTANTS
  Settings,      \* what a PersistedState may hold
  Default,       \* PersistedState::default()
  Debounce,      \* SAVE_DEBOUNCE, in ticks
  MaxBackups,    \* bound of the model: the invalid files set aside
  None

ASSUME SettingsAssumption == Default \in Settings /\ None \notin Settings /\ None \notin Nat

ASSUME DebounceAssumption == Debounce \in Nat \ {0} /\ MaxBackups \in Nat

\* The file at the path: none, one of this or of an earlier schema, or one that does
\* not parse.
File == [kind : {"current", "old"}, settings : Settings]
          \cup [kind : {"missing", "invalid"}, settings : {None}]

VARIABLES
  disk,       \* the file at the path
  backups,    \* invalid files set aside
  writable,   \* a write would succeed now
  running,
  shown,
  path,       \* "known", or "unavailable"
  saved, observed, pending, pending_reason, deadline, load_warning, save_error,
  trusted     \* history: the file was read at the start, or written since

diskVars == <<disk, backups, writable>>
vars == <<diskVars, running, shown, path, saved, observed, pending, pending_reason,
          deadline, load_warning, save_error, trusted>>

--------------------------------------------------------------------------------
(* The file. *)

Missing == [kind |-> "missing", settings |-> None]

\* What a start would restore from a file it can read.
Restored(file) == IF file.kind \in {"current", "old"} THEN file.settings ELSE Default

\* A start that leaves an invalid file where it is, without a word.
NotPreserved(moved) == UNCHANGED <<disk, backups>> /\ load_warning' = "invalid"

\* preserve_invalid_file: the file is renamed, or stays if that fails.
PreserveInvalid(moved) ==
  IF moved
  THEN disk' = Missing /\ backups' = backups + 1 /\ load_warning' = "invalid"
  ELSE UNCHANGED <<disk, backups>> /\ load_warning' = "kept"

--------------------------------------------------------------------------------
(* commit and its callers. *)

\* commit that takes a failed write for saved.
CommitUnchecked(state, reason) ==
  LET written == path = "known" /\ writable
  IN  /\ disk' = IF written THEN [kind |-> "current", settings |-> state] ELSE disk
      /\ saved' = state
      /\ pending' = IF written THEN None ELSE state
      /\ pending_reason' = reason
      /\ save_error' = IF written THEN "none" ELSE reason
      /\ trusted' = (trusted \/ written)

\* commit; what it does with the deadline is left to its callers.
Commit(state, reason) ==
  LET written == path = "known" /\ writable
  IN  /\ disk' = IF written THEN [kind |-> "current", settings |-> state] ELSE disk
      /\ saved' = IF written THEN state ELSE saved
      /\ pending' = IF written THEN None ELSE state
      /\ pending_reason' = IF written THEN pending_reason ELSE reason
      /\ save_error' = IF written THEN "none" ELSE reason
      /\ trusted' = (trusted \/ written)

\* The first half of observe, with a change that is taken back and its deadline is not.
DeadlineKept ==
  IF shown = observed
  THEN [pending |-> pending, reason |-> pending_reason, error |-> save_error,
        deadline |-> IF pending # None /\ deadline = None THEN Debounce ELSE deadline]
  ELSE IF shown = saved
  THEN [pending |-> None, reason |-> pending_reason, deadline |-> deadline, error |-> "none"]
  ELSE [pending |-> shown, reason |-> "autosave", deadline |-> Debounce, error |-> save_error]

\* The first half of observe: schedule the change, or forget it if it was taken back.
Scheduled ==
  IF shown = observed
  THEN [pending |-> pending, reason |-> pending_reason, error |-> save_error,
        deadline |-> IF pending # None /\ deadline = None THEN Debounce ELSE deadline]
  ELSE IF shown = saved
  THEN [pending |-> None, reason |-> pending_reason, deadline |-> None, error |-> "none"]
  ELSE [pending |-> shown, reason |-> "autosave", deadline |-> Debounce, error |-> save_error]

\* observe, at the end of a frame.
Frame ==
  /\ running
  /\ observed' = shown
  /\ \/ /\ Scheduled.deadline = 0
        /\ Commit(Scheduled.pending, Scheduled.reason)
        /\ deadline' = IF pending' = None THEN None ELSE Debounce
     \/ /\ Scheduled.deadline # 0
        /\ pending' = Scheduled.pending
        /\ pending_reason' = Scheduled.reason
        /\ deadline' = Scheduled.deadline
        /\ save_error' = Scheduled.error
        /\ UNCHANGED <<disk, saved, trusted>>
  /\ UNCHANGED <<backups, writable, running, shown, path, load_warning>>

\* reset_and_save
Reset ==
  /\ running
  /\ shown' = Default
  /\ observed' = Default
  /\ Commit(Default, "reset")
  /\ deadline' = None
  /\ UNCHANGED <<backups, writable, running, path, load_warning>>

\* flush that looks at the schedule only.
DirtyIfPending == pending # None

\* The condition under which flush writes.
Dirty == shown # saved \/ pending # None

\* flush_pending, when the window is closed.
Exit ==
  /\ running
  /\ running' = FALSE
  /\ \/ /\ Dirty
        /\ observed' = shown
        /\ Commit(shown, IF pending = None THEN "autosave" ELSE pending_reason)
        /\ deadline' = None
     \/ /\ ~Dirty
        /\ UNCHANGED <<disk, observed, saved, pending, pending_reason,
                       save_error, deadline, trusted>>
  /\ UNCHANGED <<backups, writable, shown, path, load_warning>>

--------------------------------------------------------------------------------
(* Starts, the user and the world. *)

\* Persistence::open, given what load_from_path found; an old schema is to be saved.
Opens(settings, migrated) ==
  /\ running' = TRUE
  /\ shown' = settings
  /\ saved' = settings
  /\ observed' = settings
  /\ pending' = IF migrated THEN settings ELSE None
  /\ deadline' = IF migrated THEN Debounce ELSE None
  /\ pending_reason' = "autosave"
  /\ save_error' = "none"

Open ==
  /\ ~running
  /\ path' = "known"
  /\ disk.kind # "invalid"
  /\ Opens(Restored(disk), disk.kind = "old")
  /\ load_warning' = "none"
  /\ trusted' = TRUE
  /\ UNCHANGED diskVars

OpenInvalid ==
  /\ ~running
  /\ path' = "known"
  /\ disk.kind = "invalid"
  /\ Opens(Default, FALSE)
  /\ \E moved \in BOOLEAN : (moved => backups < MaxBackups) /\ PreserveInvalid(moved)
  /\ trusted' = TRUE
  /\ UNCHANGED writable

\* The file is there but cannot be read.
OpenUnreadable ==
  /\ ~running
  /\ path' = "known"
  /\ disk.kind # "missing"
  /\ Opens(Default, FALSE)
  /\ load_warning' = "unreadable"
  /\ trusted' = FALSE
  /\ UNCHANGED diskVars

\* Persistence::unavailable: there is no directory for settings.
OpenUnavailable ==
  /\ ~running
  /\ path' = "unavailable"
  /\ Opens(Default, FALSE)
  /\ load_warning' = "unavailable"
  /\ trusted' = FALSE
  /\ UNCHANGED diskVars

\* A page changes the settings, or the path found at the start does.
Edit ==
  /\ running
  /\ shown' \in Settings \ {shown}
  /\ UNCHANGED <<diskVars, running, path, saved, observed, pending, pending_reason,
                 deadline, load_warning, save_error, trusted>>

Crash ==
  /\ running
  /\ running' = FALSE
  /\ UNCHANGED <<diskVars, shown, path, saved, observed, pending, pending_reason,
                 deadline, load_warning, save_error, trusted>>

Tick ==
  /\ running
  /\ deadline \notin {None, 0}
  /\ deadline' = deadline - 1
  /\ UNCHANGED <<diskVars, running, shown, path, saved, observed, pending,
                 pending_reason, load_warning, save_error, trusted>>

\* The directory becomes writable, or no longer so.
WritableChanges ==
  /\ writable' = ~writable
  /\ UNCHANGED <<disk, backups, running, shown, path, saved, observed, pending,
                 pending_reason, deadline, load_warning, save_error, trusted>>

Init ==
  /\ disk \in File
  /\ backups = 0
  /\ writable \in BOOLEAN
  /\ running = FALSE
  /\ shown = Default
  /\ path = "unavailable"
  /\ saved = Default
  /\ observed = Default
  /\ pending = None
  /\ pending_reason = "autosave"
  /\ deadline = None
  /\ load_warning = "none"
  /\ save_error = "none"
  /\ trusted = FALSE

Next ==
  \/ Frame \/ Reset \/ Exit
  \/ Open \/ OpenInvalid \/ OpenUnreadable \/ OpenUnavailable
  \/ Edit \/ Crash \/ Tick \/ WritableChanges

Spec == Init /\ [][Next]_vars

--------------------------------------------------------------------------------
(* Correctness. *)

TypeOK ==
  /\ disk \in File
  /\ backups \in Nat
  /\ writable \in BOOLEAN
  /\ running \in BOOLEAN
  /\ {shown, saved, observed} \subseteq Settings
  /\ path \in {"known", "unavailable"}
  /\ pending \in Settings \cup {None}
  /\ pending_reason \in {"autosave", "reset"}
  /\ deadline \in 0 .. Debounce \cup {None}
  /\ load_warning \in {"none", "unreadable", "invalid", "kept", "unavailable"}
  /\ save_error \in {"none", "autosave", "reset"}
  /\ trusted \in BOOLEAN

\* What is to be saved is what the frames saw last; a deadline has something to save
\* (the expect in observe never panics), and an error on the page is about something
\* that is still to be saved.
PendingIsObserved ==
  running =>
    /\ pending \in {None, observed}
    /\ deadline # None => pending # None
    /\ save_error # "none" => pending # None

\* When nothing is left to be saved the file holds what the page shows: whatever
\* happens to the process now, the next start restores it.  A file that could not be
\* read at the start is excepted until it is written.
CleanIsRestored ==
  running /\ trusted /\ pending = None /\ shown = observed => Restored(disk) = shown

\* An invalid file is not overwritten: it is set aside first, unless the page says
\* that it could not be moved, or could not be read.
InvalidPreserved ==
  [][/\ disk.kind = "invalid" /\ disk'.kind # "invalid"
     => backups' = backups + 1 \/ load_warning \in {"kept", "unreadable"}]_vars

\* An exit that can write leaves what the page shows, however late the last edit was.
ExitSaves == [][Exit /\ writable /\ trusted' => Restored(disk') = shown]_vars

\* Settings left alone in an application that keeps running are saved at last, once
\* writes succeed again, also after failed writes, reverted edits and migrations.
EventuallySaved ==
  \A s \in Settings :
    <>[](running /\ trusted /\ writable /\ shown = s) => <>[](Restored(disk) = s)
================================================================================
