--------------------------- MODULE CompanionAppProof ---------------------------
(***************************************************************************)
(* What Persistence promises, proved for every set of settings and every    *)
(* debounce; that the frames of CompanionApp are steps of Persistence, so   *)
(* that it holds of the application that draws them; what its notices say   *)
(* of the versions; and what its Logs window can show: LogStore, for any    *)
(* limits and any number of bytes.                                          *)
(***************************************************************************)
EXTENDS CompanionApp, LogStore, SequenceTheorems, WellFoundedInduction, TLAPS

--------------------------------------------------------------------------------
(* The saved settings. *)

\* saved is what a start would restore from the file.
SavedOnDisk == running /\ trusted => Restored(disk) = saved

\* Settings that differ from the saved ones, and that a frame has seen, are pending.
UnsavedIsPending == running /\ pending = None => observed = saved

\* A file can only be read or written where there is a path.
TrustedIsKnown == running /\ trusted => path = "known"

\* The inductive invariant.
IInv ==
  /\ TypeOK
  /\ PendingIsObserved
  /\ SavedOnDisk
  /\ UnsavedIsPending
  /\ TrustedIsKnown

\* The starting state and file satisfy the invariant.
LEMMA InitIInv == Init => IInv
<1> SUFFICES ASSUME Init PROVE IInv
  OBVIOUS
<1>1. TypeOK
  BY SettingsAssumption, DebounceAssumption DEF Init, TypeOK
<1>2. running = FALSE
  BY DEF Init
<1>3. PendingIsObserved /\ SavedOnDisk /\ UnsavedIsPending /\ TrustedIsKnown
  BY <1>2 DEF PendingIsObserved, SavedOnDisk, UnsavedIsPending, TrustedIsKnown
<1>4. QED
  BY <1>1, <1>3 DEF IInv

\* commit of settings keeps the invariant when its caller clears the deadline, or sets
\* one where something is left to be saved.
LEMMA CommitKeeps ==
  ASSUME IInv, running, NEW state \in Settings, NEW reason \in {"autosave", "reset"},
         Commit(state, reason), observed' = state,
         deadline' = None \/ (deadline' = Debounce /\ pending' # None)
  PROVE  /\ disk' \in File
         /\ saved' \in Settings
         /\ pending' \in Settings \cup {None}
         /\ pending_reason' \in {"autosave", "reset"}
         /\ save_error' \in {"none", "autosave", "reset"}
         /\ trusted' \in BOOLEAN
         /\ deadline' \in 0 .. Debounce \cup {None}
         /\ pending' \in {None, observed'}
         /\ deadline' # None => pending' # None
         /\ save_error' # "none" => pending' # None
         /\ trusted' => Restored(disk') = saved' /\ path = "known"
         /\ pending' = None => observed' = saved'
<1> USE SettingsAssumption, DebounceAssumption DEF IInv, TypeOK, File
<1>1. CASE path = "known" /\ writable
  <2>1. disk' = [kind |-> "current", settings |-> state] /\ saved' = state /\ pending' = None
        /\ pending_reason' = pending_reason /\ save_error' = "none"
    BY <1>1 DEF Commit
  <2>2. Restored(disk') = saved'
    BY <2>1 DEF Restored
  <2>3. QED
    BY <2>1, <2>2, <1>1, SMT DEF Commit
<1>2. CASE ~(path = "known" /\ writable)
  <2>1. disk' = disk /\ saved' = saved /\ pending' = state /\ trusted' = trusted
        /\ pending_reason' = reason /\ save_error' = reason
    BY <1>2 DEF Commit
  <2>2. trusted' => Restored(disk') = saved' /\ path = "known"
    BY <2>1 DEF SavedOnDisk, TrustedIsKnown
  <2>3. QED
    BY <2>1, <2>2, SMT
<1>3. QED
  BY <1>1, <1>2

\* What observe schedules: the change it sees, or what was left to be saved.
LEMMA ScheduledType ==
  ASSUME IInv, running
  PROVE  /\ Scheduled.pending \in {None, shown}
         /\ Scheduled.reason \in {"autosave", "reset"}
         /\ Scheduled.error \in {"none", "autosave", "reset"}
         /\ Scheduled.deadline \in 0 .. Debounce \cup {None}
         /\ Scheduled.deadline # None => Scheduled.pending # None
         /\ Scheduled.error # "none" => Scheduled.pending # None
         /\ Scheduled.pending = None => shown = saved
<1> USE SettingsAssumption, DebounceAssumption
    DEF IInv, TypeOK, PendingIsObserved, UnsavedIsPending, Scheduled
<1>1. CASE shown = observed
  BY <1>1, SMT
<1>2. CASE shown # observed /\ shown = saved
  BY <1>2, SMT
<1>3. CASE shown # observed /\ shown # saved
  <2>1. shown \in Settings /\ shown # None
    OBVIOUS
  <2>2. Scheduled = [pending |-> shown, reason |-> "autosave", deadline |-> Debounce,
                     error |-> save_error]
    BY <1>3
  <2>3. QED
    BY <2>1, <2>2, SMT
<1>4. QED
  BY <1>1, <1>2, <1>3

\* A start leaves nothing of the last run behind, whatever file it found.
LEMMA OpensKeeps ==
  ASSUME TypeOK, NEW settings \in Settings, NEW migrated \in BOOLEAN, Opens(settings, migrated),
         disk' \in File, backups' \in Nat, writable' \in BOOLEAN,
         path' \in {"known", "unavailable"},
         load_warning' \in {"none", "unreadable", "invalid", "kept", "unavailable"},
         trusted' \in BOOLEAN,
         trusted' => Restored(disk') = settings /\ path' = "known"
  PROVE  IInv'
<1>1. TypeOK'
  BY SettingsAssumption, DebounceAssumption, SMT DEF TypeOK, Opens
<1>2. PendingIsObserved' /\ UnsavedIsPending'
  BY SettingsAssumption, SMT DEF Opens, PendingIsObserved, UnsavedIsPending
<1>3. SavedOnDisk' /\ TrustedIsKnown'
  BY DEF Opens, SavedOnDisk, TrustedIsKnown
<1>4. QED
  BY <1>1, <1>2, <1>3 DEF IInv

\* Every step keeps the invariant.
LEMMA NextIInv == IInv /\ [Next]_vars => IInv'
<1> SUFFICES ASSUME IInv, [Next]_vars PROVE IInv'
  OBVIOUS
<1>t. TypeOK /\ PendingIsObserved /\ SavedOnDisk /\ UnsavedIsPending /\ TrustedIsKnown
  BY DEF IInv
<1>1. CASE Frame
  <2>1. running /\ running' /\ shown \in Settings /\ observed' = shown /\ shown' = shown
        /\ UNCHANGED <<backups, writable, path, load_warning>>
    BY <1>1, <1>t DEF Frame, TypeOK
  <2>2. CASE Scheduled.deadline = 0 /\ Scheduled.deadline # None
    <3>1. Scheduled.pending = shown
      BY <2>1, <2>2, ScheduledType
    <3>2. Commit(shown, Scheduled.reason)
      BY <1>1, <2>2, <3>1 DEF Frame
    <3>3. deadline' = None \/ (deadline' = Debounce /\ pending' # None)
      BY <1>1, <2>2 DEF Frame
    <3>4. Scheduled.reason \in {"autosave", "reset"}
      BY <2>1, ScheduledType
    <3> HIDE DEF IInv
    <3>5. /\ disk' \in File /\ saved' \in Settings /\ pending' \in Settings \cup {None}
          /\ pending_reason' \in {"autosave", "reset"}
          /\ save_error' \in {"none", "autosave", "reset"}
          /\ trusted' \in BOOLEAN /\ deadline' \in 0 .. Debounce \cup {None}
          /\ pending' \in {None, observed'}
          /\ deadline' # None => pending' # None
          /\ save_error' # "none" => pending' # None
          /\ trusted' => Restored(disk') = saved' /\ path = "known"
          /\ pending' = None => observed' = saved'
      BY <2>1, <3>2, <3>3, <3>4, CommitKeeps
    <3>6. QED
      BY <1>t, <2>1, <3>5 DEF IInv, TypeOK, PendingIsObserved, SavedOnDisk, UnsavedIsPending, TrustedIsKnown
  <2>3. CASE Scheduled.deadline # 0
    <3>1. /\ pending' = Scheduled.pending /\ pending_reason' = Scheduled.reason
          /\ deadline' = Scheduled.deadline /\ save_error' = Scheduled.error
          /\ UNCHANGED <<disk, saved, trusted>>
      BY <1>1, <2>3 DEF Frame
    <3>2. QED
      BY <1>t, <2>1, <3>1, ScheduledType DEF IInv, TypeOK, PendingIsObserved, SavedOnDisk, UnsavedIsPending, TrustedIsKnown
  <2>4. 0 # None
    BY SettingsAssumption
  <2>5. QED
    BY <2>2, <2>3, <2>4
<1>2. CASE Reset
  <2>1. running /\ running' /\ observed' = Default /\ shown' = Default /\ deadline' = None
        /\ Default \in Settings /\ Commit(Default, "reset")
        /\ UNCHANGED <<backups, writable, path, load_warning>>
    BY <1>2, SettingsAssumption DEF Reset
  <2>2. /\ disk' \in File /\ saved' \in Settings /\ pending' \in Settings \cup {None}
        /\ pending_reason' \in {"autosave", "reset"}
        /\ save_error' \in {"none", "autosave", "reset"}
        /\ trusted' \in BOOLEAN /\ deadline' \in 0 .. Debounce \cup {None}
        /\ pending' \in {None, observed'}
        /\ deadline' # None => pending' # None
        /\ save_error' # "none" => pending' # None
        /\ trusted' => Restored(disk') = saved' /\ path = "known"
        /\ pending' = None => observed' = saved'
    BY <2>1, CommitKeeps
  <2>3. QED
    BY <1>t, <2>1, <2>2 DEF IInv, TypeOK, PendingIsObserved, SavedOnDisk, UnsavedIsPending, TrustedIsKnown
<1>3. CASE Exit
  <2>1. running /\ running' = FALSE /\ shown' = shown /\ shown \in Settings
        /\ UNCHANGED <<backups, writable, path, load_warning>>
    BY <1>3, <1>t DEF Exit, TypeOK
  <2>2. CASE Dirty
    <3>1. observed' = shown /\ deadline' = None
          /\ Commit(shown, IF pending = None THEN "autosave" ELSE pending_reason)
      BY <1>3, <2>2 DEF Exit
    <3>2. (IF pending = None THEN "autosave" ELSE pending_reason) \in {"autosave", "reset"}
      BY <1>t DEF TypeOK
    <3>3. /\ disk' \in File /\ saved' \in Settings /\ pending' \in Settings \cup {None}
          /\ pending_reason' \in {"autosave", "reset"}
          /\ save_error' \in {"none", "autosave", "reset"}
          /\ trusted' \in BOOLEAN /\ deadline' \in 0 .. Debounce \cup {None}
      BY <2>1, <3>1, <3>2, CommitKeeps
    <3>4. QED
      BY <1>t, <2>1, <3>1, <3>3 DEF IInv, TypeOK, PendingIsObserved, SavedOnDisk, UnsavedIsPending, TrustedIsKnown
  <2>3. CASE ~Dirty
    BY <1>3, <1>t, <2>1, <2>3 DEF Exit, IInv, TypeOK, PendingIsObserved, SavedOnDisk, UnsavedIsPending, TrustedIsKnown
  <2>4. QED
    BY <2>2, <2>3
<1>4. CASE Open
  <2>1. Restored(disk) \in Settings
    BY <1>t, SettingsAssumption DEF TypeOK, File, Restored
  <2>2. Opens(Restored(disk), disk.kind = "old") /\ UNCHANGED diskVars /\ path' = "known"
        /\ load_warning' = "none" /\ trusted' = TRUE
    BY <1>4 DEF Open
  <2>3. Restored(disk') = Restored(disk)
    BY <2>2 DEF diskVars
  <2>4. (disk.kind = "old") \in BOOLEAN
    OBVIOUS
  <2>5. disk' \in File /\ backups' \in Nat /\ writable' \in BOOLEAN
    BY <1>t, <2>2 DEF TypeOK, diskVars
  <2>6. QED
    BY <1>t, <2>1, <2>2, <2>3, <2>4, <2>5, OpensKeeps
<1>5. CASE OpenInvalid
  <2>1. Opens(Default, FALSE) /\ path' = "known" /\ trusted' = TRUE /\ writable' = writable
        /\ disk.kind = "invalid"
    BY <1>5 DEF OpenInvalid
  <2>2. PICK moved \in BOOLEAN : PreserveInvalid(moved)
    BY <1>5 DEF OpenInvalid
  <2>3. disk' \in File /\ Restored(disk') = Default
    BY <1>t, <2>1, <2>2 DEF PreserveInvalid, TypeOK, File, Missing, Restored
  <2>4. backups' \in Nat /\ load_warning' \in {"invalid", "kept"}
    BY <1>t, <2>2 DEF PreserveInvalid, TypeOK
  <2>5. writable' \in BOOLEAN /\ Default \in Settings
    BY <1>t, <2>1, SettingsAssumption DEF TypeOK
  <2>6. QED
    BY <1>t, <2>1, <2>3, <2>4, <2>5, OpensKeeps
<1>6. CASE OpenUnreadable \/ OpenUnavailable
  <2>1. Opens(Default, FALSE) /\ UNCHANGED diskVars /\ trusted' = FALSE
        /\ path' \in {"known", "unavailable"} /\ load_warning' \in {"unreadable", "unavailable"}
    BY <1>6 DEF OpenUnreadable, OpenUnavailable
  <2>2. disk' \in File /\ backups' \in Nat /\ writable' \in BOOLEAN /\ Default \in Settings
    BY <1>t, <2>1, SettingsAssumption DEF TypeOK, diskVars
  <2>3. QED
    BY <1>t, <2>1, <2>2, OpensKeeps
<1>7. CASE Edit
  <2>1. running /\ running' = running /\ shown' \in Settings
        /\ UNCHANGED <<disk, backups, writable, path, saved, observed, pending, pending_reason,
                       deadline, load_warning, save_error, trusted>>
    BY <1>7, <1>t DEF Edit, diskVars, TypeOK
  <2>2. QED
    BY <1>t, <2>1 DEF IInv, TypeOK, PendingIsObserved, SavedOnDisk, UnsavedIsPending, TrustedIsKnown
<1>12. CASE Crash
  BY <1>12, <1>t DEF Crash, diskVars, IInv, TypeOK, PendingIsObserved, SavedOnDisk, UnsavedIsPending, TrustedIsKnown
<1>8. CASE Tick
  <2>1. deadline' \in 0 .. Debounce /\ pending # None /\ running
    BY <1>8, <1>t, DebounceAssumption, SMT DEF Tick, TypeOK, PendingIsObserved
  <2>2. UNCHANGED <<diskVars, running, shown, path, saved, observed, pending,
                    pending_reason, load_warning, save_error, trusted>>
    BY <1>8 DEF Tick
  <2>3. QED
    BY <1>t, <2>1, <2>2 DEF diskVars, IInv, TypeOK, PendingIsObserved, SavedOnDisk, UnsavedIsPending, TrustedIsKnown
<1>9. CASE WritableChanges
  BY <1>9, <1>t DEF WritableChanges, IInv, TypeOK, PendingIsObserved, SavedOnDisk, UnsavedIsPending, TrustedIsKnown
<1>10. CASE UNCHANGED vars
  BY <1>10, <1>t DEF vars, diskVars, IInv, TypeOK, PendingIsObserved, SavedOnDisk, UnsavedIsPending, TrustedIsKnown
<1>11. QED
  BY <1>1, <1>2, <1>3, <1>4, <1>5, <1>6, <1>7, <1>8, <1>9, <1>10, <1>12 DEF Next

\* The invariant holds in every reachable state.
THEOREM Invariance == Spec => []IInv
BY InitIInv, NextIInv, PTL DEF Spec

\* The states of the saved settings are of their types.
THEOREM TypeCorrect == Spec => []TypeOK
BY Invariance, PTL DEF IInv

\* The expect in observe never panics, and what is to be saved is what was seen last.
THEOREM PendingCorrect == Spec => []PendingIsObserved
BY Invariance, PTL DEF IInv

\* When nothing is left to be saved, the next start restores what the page shows.
THEOREM CleanCorrect == Spec => []CleanIsRestored
<1>1. IInv => CleanIsRestored
  BY DEF IInv, SavedOnDisk, UnsavedIsPending, CleanIsRestored
<1>2. QED
  BY <1>1, Invariance, PTL

\* An exit that can write leaves what the page shows.
THEOREM ExitCorrect == Spec => ExitSaves
<1>1. IInv /\ Exit /\ writable /\ trusted' => Restored(disk') = shown
  <2> SUFFICES ASSUME IInv, Exit, writable, trusted' PROVE Restored(disk') = shown
    OBVIOUS
  <2>1. running /\ trusted \in BOOLEAN
    BY DEF Exit, IInv, TypeOK
  <2>2. CASE Dirty
    <3>1. Commit(shown, IF pending = None THEN "autosave" ELSE pending_reason)
      BY <2>2 DEF Exit
    <3>2. CASE path = "known"
      <4>1. disk' = [kind |-> "current", settings |-> shown]
        BY <3>1, <3>2 DEF Commit
      <4>2. QED
        BY <4>1 DEF Restored
    <3>3. CASE path # "known"
      <4>1. trusted' = trusted
        BY <3>1, <3>3, <2>1 DEF Commit
      <4>2. QED
        BY <4>1, <3>3, <2>1 DEF IInv, TrustedIsKnown
    <3>4. QED
      BY <3>2, <3>3
  <2>3. CASE ~Dirty
    BY <2>1, <2>3 DEF Exit, Dirty, IInv, SavedOnDisk
  <2>4. QED
    BY <2>2, <2>3
<1>2. [Exit /\ writable /\ trusted' => Restored(disk') = shown]_vars \/ ~IInv \/ ~[Next]_vars
  BY <1>1
<1>3. QED
  BY <1>2, Invariance, PTL DEF Spec, ExitSaves

\* An invalid file that the application could write to is one the page complains about.
InvalidIsNoted ==
  running /\ path = "known" /\ disk.kind = "invalid" => load_warning \in {"kept", "unreadable"}

\* A commit leaves the file, or replaces it by one that is valid.
LEMMA CommitNotes ==
  ASSUME NEW state, NEW reason, Commit(state, reason)
  PROVE  disk' = disk \/ (path = "known" /\ disk' = [kind |-> "current", settings |-> state])
BY DEF Commit

\* How the steps of a running application change the file, and that they keep the rest.
LEMMA RunningNotes ==
  ASSUME Frame \/ Reset \/ Exit
  PROVE  /\ running /\ UNCHANGED <<backups, path, load_warning>>
         /\ disk' = disk \/ (path = "known" /\ disk'.kind = "current")
<1>1. CASE Frame
  BY <1>1, CommitNotes DEF Frame
<1>2. CASE Reset
  BY <1>2, CommitNotes DEF Reset
<1>3. CASE Exit
  BY <1>3, CommitNotes DEF Exit
<1>4. QED
  BY <1>1, <1>2, <1>3

\* The other steps but the start on an invalid file keep the file.
LEMMA OthersKeepDisk ==
  ASSUME [Next]_vars, ~(Frame \/ Reset \/ Exit), ~OpenInvalid
  PROVE  disk' = disk
BY DEF Next, Open, OpenUnreadable, OpenUnavailable, Edit, Crash, Tick, WritableChanges,
       vars, diskVars

LEMMA InvalidStep == InvalidIsNoted /\ [Next]_vars => InvalidIsNoted'
<1> SUFFICES ASSUME InvalidIsNoted, [Next]_vars PROVE InvalidIsNoted'
  OBVIOUS
<1>1. CASE Frame \/ Reset \/ Exit
  <2>1. disk'.kind = "invalid" => disk' = disk
    BY <1>1, RunningNotes
  <2>2. QED
    BY <1>1, <2>1, RunningNotes DEF InvalidIsNoted
<1>2. CASE Open
  BY <1>2 DEF Open, diskVars, InvalidIsNoted
<1>3. CASE OpenInvalid
  BY <1>3 DEF OpenInvalid, PreserveInvalid, Missing, InvalidIsNoted
<1>4. CASE OpenUnreadable
  BY <1>4 DEF OpenUnreadable, InvalidIsNoted
<1>5. CASE OpenUnavailable
  BY <1>5 DEF OpenUnavailable, InvalidIsNoted
<1>6. CASE Edit \/ Tick \/ WritableChanges \/ UNCHANGED vars
  BY <1>6 DEF Edit, Tick, WritableChanges, vars, diskVars, InvalidIsNoted
<1>7. CASE Crash
  BY <1>7 DEF Crash, InvalidIsNoted
<1>8. QED
  BY <1>1, <1>2, <1>3, <1>4, <1>5, <1>6, <1>7 DEF Next

\* An invalid file is only overwritten by an application whose page said of it that it
\* could not be moved or not be read.
THEOREM InvalidCorrect == Spec => InvalidPreserved
<1>1. Init => InvalidIsNoted
  BY DEF Init, InvalidIsNoted
<1> DEFINE Preserved == disk.kind = "invalid" /\ disk'.kind # "invalid"
                          => backups' = backups + 1 \/ load_warning \in {"kept", "unreadable"}
<1>2. InvalidIsNoted /\ [Next]_vars => Preserved
  <2> SUFFICES ASSUME InvalidIsNoted, [Next]_vars, disk.kind = "invalid", disk'.kind # "invalid"
               PROVE  backups' = backups + 1 \/ load_warning \in {"kept", "unreadable"}
    OBVIOUS
  <2>1. CASE Frame \/ Reset \/ Exit
    BY <2>1, RunningNotes DEF InvalidIsNoted
  <2>2. CASE OpenInvalid
    BY <2>2 DEF OpenInvalid, PreserveInvalid
  <2>3. QED
    BY <2>1, <2>2, OthersKeepDisk
<1>3. InvalidIsNoted /\ [Next]_vars => [Preserved]_vars
  BY <1>2
<1>4. QED
  BY <1>1, <1>3, InvalidStep, PTL DEF Spec, InvalidPreserved

--------------------------------------------------------------------------------
(* The frames are steps of the saved settings. *)

\* Every step of the application is a step of the saved settings, or leaves them alone.
LEMMA StepRefines == [AppNext]_appVars => [Next]_vars
<1> SUFFICES ASSUME [AppNext]_appVars PROVE [Next]_vars
  OBVIOUS
<1>1. CASE Load
  BY <1>1 DEF Load, Next
<1>2. CASE LoadWithContext
  BY <1>2 DEF LoadWithContext, Next
<1>3. CASE BeginFrame
  BY <1>3 DEF BeginFrame
<1>4. CASE DrawStep
  <2>1. CASE DrawMenu
    BY <2>1 DEF DrawMenu
  <2>2. CASE DrawPage
    BY <2>2 DEF DrawPage, Next
  <2>3. CASE DrawResetConfirmation
    BY <2>3 DEF DrawResetConfirmation, Next
  <2>4. CASE Observe
    BY <2>4 DEF Observe, Next
  <2>5. QED
    BY <1>4, <2>1, <2>2, <2>3, <2>4 DEF DrawStep
<1>5. CASE CheckAnswers
  BY <1>5 DEF CheckAnswers
<1>6. CASE CheckPanics
  BY <1>6 DEF CheckPanics
<1>7. CASE Elapses
  BY <1>7 DEF Elapses, Next
<1>8. CASE OnExit
  BY <1>8 DEF OnExit, Next
<1>9. CASE Dies
  BY <1>9 DEF Dies, Next
<1>10. CASE DiskChanges
  BY <1>10 DEF DiskChanges, Next
<1>11. CASE UNCHANGED appVars
  BY <1>11 DEF appVars
<1>12. QED
  BY <1>1, <1>2, <1>3, <1>4, <1>5, <1>6, <1>7, <1>8, <1>9, <1>10, <1>11 DEF AppNext

\* The application implements the specification of the saved settings.
THEOREM Refinement == AppSpec => Spec
<1>1. AppInit => Init
  BY DEF AppInit
<1>2. QED
  BY <1>1, StepRefines, PTL DEF AppSpec, Spec

\* In the application too, what is to be saved is what the frames saw last.
THEOREM AppPending == AppSpec => []PendingIsObserved
BY Refinement, PendingCorrect, PTL

\* In the application too, what is not to be saved any more is on disk.
THEOREM AppClean == AppSpec => []CleanIsRestored
BY Refinement, CleanCorrect, PTL

\* In the application too, an exit that can write saves what the page shows.
THEOREM AppExit == AppSpec => ExitSaves
BY Refinement, ExitCorrect, PTL

\* In the application too, an invalid file is not overwritten without a word.
THEOREM AppInvalid == AppSpec => InvalidPreserved
BY Refinement, InvalidCorrect, PTL

--------------------------------------------------------------------------------

\* The page's word on the latest release follows from the release.
StateIsComparison ==
  /\ check_state.kind = "update_available" =>
       check_state.latest \in Version /\ IsOlder(app_version, check_state.latest)
  /\ check_state.kind = "current" =>
       check_state.latest \in Version /\ ~IsOlder(app_version, check_state.latest)

\* An answer without a failure names a release.
AnswerIsRelease ==
  /\ completion \in {"none", "asking", "answer", "gone"}
  /\ completion = "answer" /\ answer.failure = "none" => answer.latest \in Version

NInv == StateIsComparison /\ AnswerIsRelease /\ NoticesAgree

\* An answer is a release, or a failure that is named.
LEMMA AnswerType ==
  ASSUME NEW reply \in Reply
  PROVE  CheckLatestRelease(reply).failure = "none" => CheckLatestRelease(reply).latest \in Version
<1>1. reply \in AnyReply
  BY VersionAssumption
<1>2. reply.sent \in {"ok", "timeout", "connect", "request"} /\ reply.success \in BOOLEAN
      /\ reply.body \in {"release", "no_tag", "no_json", "oversized", "broken"}
      /\ reply.tag.version \in Version \cup {Unparsable}
  BY <1>1 DEF AnyReply, Tag
<1>3. NormalizeReleaseTag(reply.tag).failure = "none"
        => NormalizeReleaseTag(reply.tag).latest \in Version
  BY <1>2 DEF NormalizeReleaseTag, Latest, Failed
<1>4. ReadRelease(reply).failure = "none" => ReadRelease(reply).latest \in Version
  BY <1>2, <1>3 DEF ReadRelease, Failed
<1>5. QED
  BY <1>2, <1>4 DEF CheckLatestRelease, Failed

\* A poll takes the word for the page from the answer, if there is one.
LEMMA PollKeeps ==
  ASSUME StateIsComparison, AnswerIsRelease, Poll
  PROVE  StateIsComparison' /\ AnswerIsRelease'
<1>1. CASE completion = "answer" /\ answer.failure = "none"
  <2>1. completion' = "none" /\ check_state' = Known(answer.latest) /\ answer.latest \in Version
    BY <1>1 DEF Poll, AnswerIsRelease
  <2>2. QED
    BY <2>1 DEF Known, StateIsComparison, AnswerIsRelease
<1>2. CASE completion = "gone" \/ (completion = "answer" /\ answer.failure # "none")
  <2>1. completion' = "none"
    BY <1>2 DEF Poll
  <2>2. \E reason : check_state' = Unavailable(reason)
    BY <1>2 DEF Poll
  <2>3. QED
    BY <2>1, <2>2 DEF Unavailable, StateIsComparison, AnswerIsRelease
<1>3. CASE completion \notin {"answer", "gone"}
  BY <1>3 DEF Poll, StateIsComparison, AnswerIsRelease
<1>4. QED
  BY <1>1, <1>2, <1>3

\* The notices chosen from a state that compares rightly agree with it.
LEMMA ChosenAgree ==
  ASSUME StateIsComparison', NEW observation \in Observation,
         version_warnings' = SelectWarnings(observation, Remote(check_state'))
  PROVE  NoticesAgree'
<1> DEFINE w == version_warnings'
<1>1. w.companion_outdated # NoVersion <=> check_state'.kind = "update_available"
  <2>1. CASE check_state'.kind = "update_available"
    BY <2>1, VersionAssumption DEF StateIsComparison, SelectWarnings, Remote
  <2>2. CASE check_state'.kind = "current"
    BY <2>2 DEF StateIsComparison, SelectWarnings, Remote
  <2>3. CASE check_state'.kind \notin {"update_available", "current"}
    BY <2>3 DEF SelectWarnings, Remote
  <2>4. QED
    BY <2>1, <2>2, <2>3
<1>2. "outdated" \in Notices(w) <=> w.companion_outdated # NoVersion
  BY DEF Notices
<1>3. CASE observation.kind = "reported"
  <2>1. w.mod_legacy = FALSE /\ w.mod_invalid = (observation.version = Unparsable)
    BY <1>3 DEF SelectWarnings
  <2>2. w.mod_unsupported # NoVersion => observation.version \in Version
    BY DEF SelectWarnings
  <2>3. QED
    BY <1>1, <1>2, <2>1, <2>2, VersionAssumption DEF NoticesAgree
<1>4. CASE observation.kind # "reported"
  <2>1. observation.version = NoVersion
    BY <1>4 DEF Observation
  <2>2. w.mod_unsupported = NoVersion
    BY <2>1, VersionAssumption DEF SelectWarnings
  <2>3. w.mod_legacy = (observation.kind = "legacy")
        /\ w.mod_invalid = (observation.kind = "invalid")
    BY <2>1, VersionAssumption DEF SelectWarnings
  <2>4. QED
    BY <1>1, <1>2, <2>2, <2>3 DEF NoticesAgree
<1>5. QED
  BY <1>3, <1>4

\* Every step keeps the state, the answer and the notices in agreement.
LEMMA NextNInv == NInv /\ [AppNext]_appVars => NInv'
<1> SUFFICES ASSUME NInv, [AppNext]_appVars PROVE NInv'
  OBVIOUS
<1>n. StateIsComparison /\ AnswerIsRelease /\ NoticesAgree
  BY DEF NInv
<1>c. ASSUME CheckStarts PROVE StateIsComparison' /\ AnswerIsRelease'
  <2>1. completion' \in {"asking", "none"} /\ check_state' \in {Checking, Unavailable("spawn")}
    BY <1>c DEF CheckStarts
  <2>2. QED
    BY <2>1 DEF Checking, Unavailable, StateIsComparison, AnswerIsRelease
<1>f. ASSUME frame' # "menu", StateIsComparison', AnswerIsRelease' PROVE NInv'
  BY <1>f DEF NInv, NoticesAgree
<1>u. ASSUME UNCHANGED <<completion, answer, check_state>>
      PROVE  StateIsComparison' /\ AnswerIsRelease'
  BY <1>n, <1>u DEF StateIsComparison, AnswerIsRelease
<1>k. ASSUME UNCHANGED <<checkVars, frame>> PROVE NInv'
  BY <1>n, <1>k DEF checkVars, NInv, StateIsComparison, AnswerIsRelease, NoticesAgree
<1>1. CASE Load
  BY <1>1, <1>k DEF Load
<1>2. CASE LoadWithContext
  BY <1>2, <1>c, <1>f DEF LoadWithContext
<1>3. CASE BeginFrame
  <2>1. StateIsComparison' /\ AnswerIsRelease'
    BY <1>3, <1>n, PollKeeps DEF BeginFrame
  <2>2. PICK observation \in Observed :
          version_warnings' = SelectWarnings(observation, Remote(check_state'))
    BY <1>3 DEF BeginFrame
  <2>3. observation \in Observation
    BY AppAssumption
  <2>4. NoticesAgree'
    BY <2>1, <2>2, <2>3, ChosenAgree
  <2>5. QED
    BY <2>1, <2>4 DEF NInv
<1>4. CASE DrawMenu
  <2>1. frame' # "menu"
    BY <1>4 DEF DrawMenu
  <2>2. StateIsComparison' /\ AnswerIsRelease'
    BY <1>4, <1>c, <1>u DEF DrawMenu
  <2>3. QED
    BY <2>1, <2>2, <1>f
<1>5. CASE DrawPage
  BY <1>5, <1>u, <1>f DEF DrawPage, checkVars
<1>6. CASE DrawResetConfirmation
  BY <1>6, <1>u, <1>f DEF DrawResetConfirmation, checkVars
<1>7. CASE Observe
  BY <1>7, <1>u, <1>f DEF Observe, checkVars
<1>8. CASE CheckAnswers
  <2>1. completion' = "answer" /\ UNCHANGED <<check_state, version_warnings, frame>>
    BY <1>8 DEF CheckAnswers, ThreadAnswers
  <2>2. answer'.failure = "none" => answer'.latest \in Version
    <3>1. CASE \E reply \in Reply : answer' = CheckLatestRelease(reply)
      BY <3>1, AnswerType
    <3>2. CASE answer' = Failed("client")
      BY <3>2 DEF Failed
    <3>3. QED
      BY <1>8, <3>1, <3>2 DEF CheckAnswers, ThreadAnswers
  <2>3. QED
    BY <1>n, <2>1, <2>2 DEF NInv, StateIsComparison, AnswerIsRelease, NoticesAgree
<1>9. CASE CheckPanics
  BY <1>9, <1>n DEF CheckPanics, ThreadPanics, NInv, StateIsComparison, AnswerIsRelease, NoticesAgree
<1>10. CASE Elapses
  BY <1>10, <1>k DEF Elapses
<1>11. CASE OnExit \/ Dies
  <2>1. Unload
    BY <1>11 DEF OnExit, Dies
  <2>2. QED
    BY <2>1, <1>f DEF Unload, Checking, StateIsComparison, AnswerIsRelease
<1>12. CASE DiskChanges
  BY <1>12, <1>k DEF DiskChanges
<1>13. CASE UNCHANGED appVars
  BY <1>13, <1>k DEF appVars
<1>14. QED
  BY <1>1, <1>2, <1>3, <1>4, <1>5, <1>6, <1>7, <1>8, <1>9, <1>10, <1>11, <1>12, <1>13
     DEF AppNext, DrawStep

\* The menu and the notices of a frame agree, for every set of versions and every order.
THEOREM NoticesCorrect == AppSpec => []NoticesAgree
<1>1. AppInit => NInv
  BY DEF AppInit, Checking, NInv, StateIsComparison, AnswerIsRelease, NoticesAgree
<1>2. NInv => NoticesAgree
  BY DEF NInv
<1>3. QED
  BY <1>1, <1>2, NextNInv, PTL DEF AppSpec

--------------------------------------------------------------------------------
(* Texts joined. *)

\* Every set of numbers has a smallest one.
LEMMA Least ==
  ASSUME NEW T, T \subseteq Nat, T # {}
  PROVE  \E x \in T : \A y \in T : x <= y
<1> DEFINE R == {pair \in Nat \X Nat : pair[1] < pair[2]}
<1>1. IsWellFoundedOn(R, Nat)
  BY NatLessThanWellFounded DEF OpToRel
<1>2. \A x, y \in Nat : <<y, x>> \notin R => x <= y
  OBVIOUS
<1> HIDE DEF R
<1>3. PICK x \in T : \A y \in T : <<y, x>> \notin R
  BY <1>1, WFMin
<1>4. QED
  BY <1>2, <1>3

\* g joins the first n of some texts, one after the other, as FlattenSeq does.
Joins(g, seqs, n) ==
  g = [i \in 1 .. n |-> IF i = 1 THEN seqs[i] ELSE g[i - 1] \o seqs[i]]

\* What it is at each position.
LEMMA JoinsParts ==
  ASSUME NEW g, NEW seqs, NEW n \in Nat, Joins(g, seqs, n), NEW i \in 1 .. n
  PROVE  g[i] = IF i = 1 THEN seqs[i] ELSE g[i - 1] \o seqs[i]
<1>1. g = [k \in 1 .. n |-> IF k = 1 THEN seqs[k] ELSE g[k - 1] \o seqs[k]]
  BY DEF Joins
<1>2. QED
  BY <1>1, Zenon

\* Two such functions agree where the texts do.
LEMMA JoinsAgree ==
  ASSUME NEW g, NEW h, NEW s, NEW t, NEW n \in Nat, NEW k \in Nat, k <= n,
         Joins(g, s, n), Joins(h, t, k), \A i \in 1 .. k : s[i] = t[i]
  PROVE  k # 0 => g[k] = h[k]
<1> DEFINE T == {i \in 1 .. k : g[i] # h[i]}
<1> SUFFICES ASSUME T # {} PROVE FALSE
  OBVIOUS
<1>1. T \subseteq Nat
  OBVIOUS
<1>2. PICK i \in T : \A other \in T : i <= other
  <2> HIDE DEF T
  <2>1. QED
    BY <1>1, Least
<1>3. i \in 1 .. k /\ i \in 1 .. n /\ g[i] # h[i] /\ s[i] = t[i]
  OBVIOUS
<1>4. g[i] = IF i = 1 THEN s[i] ELSE g[i - 1] \o s[i]
  <2>1. i \in 1 .. n
    BY <1>3
  <2>2. QED
    BY <2>1, JoinsParts, Zenon
<1>5. h[i] = IF i = 1 THEN t[i] ELSE h[i - 1] \o t[i]
  <2>1. i \in 1 .. k
    BY <1>3
  <2>2. QED
    BY <2>1, JoinsParts, Zenon
<1>6. CASE i = 1
  BY <1>3, <1>4, <1>5, <1>6
<1>7. CASE i # 1
  <2>1. i - 1 \in 1 .. k /\ ~(i <= i - 1)
    BY <1>3, <1>7
  <2>2. g[i - 1] = h[i - 1]
    BY <1>2, <2>1
  <2>3. QED
    BY <1>3, <1>4, <1>5, <1>7, <2>2
<1>8. QED
  BY <1>6, <1>7

\* There is one for any number of texts.
LEMMA JoinsExists ==
  ASSUME NEW seqs, NEW n \in Nat
  PROVE  \E g : Joins(g, seqs, n)
<1> DEFINE T == {m \in Nat : \A g : ~Joins(g, seqs, m)}
<1> SUFFICES ASSUME T # {} PROVE FALSE
  OBVIOUS
<1>1. T \subseteq Nat
  OBVIOUS
<1>2. PICK m \in T : \A j \in T : m <= j
  <2> HIDE DEF T
  <2>1. QED
    BY <1>1, Least
<1>3. m \in Nat /\ \A g : ~Joins(g, seqs, m)
  OBVIOUS
<1>4. CASE m = 0
  <2> DEFINE g == [i \in 1 .. 0 |-> 0]
  <2>1. g = [i \in 1 .. 0 |-> IF i = 1 THEN seqs[i] ELSE g[i - 1] \o seqs[i]]
    OBVIOUS
  <2>2. Joins(g, seqs, m)
    BY <1>4, <2>1 DEF Joins
  <2>3. QED
    BY <1>3, <2>2
<1>5. CASE m # 0
  <2>1. PICK p \in Nat : p = m - 1
    BY <1>3, <1>5
  <2>2. PICK g : Joins(g, seqs, p)
    <3>1. ~(m <= p)
      BY <1>3, <2>1
    <3>2. QED
      BY <1>2, <3>1
  <2> DEFINE last == IF m = 1 THEN seqs[m] ELSE g[m - 1] \o seqs[m]
             h == [i \in 1 .. m |-> IF i = m THEN last ELSE g[i]]
  <2>3. \A i \in 1 .. p : h[i] = g[i] /\ i \in 1 .. m /\ i # m
    BY <1>3, <1>5, <2>1
  <2>4. h[m] = last
    BY <1>3, <1>5
  <2>5. ASSUME NEW i \in 1 .. m
        PROVE  h[i] = IF i = 1 THEN seqs[i] ELSE h[i - 1] \o seqs[i]
    <3>1. CASE i = m
      <4>1. m # 1 => m - 1 \in 1 .. p
        BY <1>3, <1>5, <2>1
      <4>2. m # 1 => h[m - 1] = g[m - 1]
        BY <2>3, <4>1
      <4> HIDE DEF h
      <4>3. QED
        BY <2>4, <3>1, <4>2
    <3>2. CASE i # m
      <4>1. i \in 1 .. p /\ (i # 1 => i - 1 \in 1 .. p)
        BY <1>3, <1>5, <2>1, <3>2
      <4>2. h[i] = g[i] /\ (i # 1 => h[i - 1] = g[i - 1])
        BY <2>3, <4>1
      <4> HIDE DEF h
      <4>3. g[i] = IF i = 1 THEN seqs[i] ELSE g[i - 1] \o seqs[i]
        <5>1. i \in 1 .. p
          BY <4>1
        <5> HIDE DEF T, last
        <5>2. QED
          BY <2>2, <5>1, JoinsParts, Zenon
      <4>4. QED
        BY <4>2, <4>3
    <3>3. QED
      BY <3>1, <3>2
  <2>6. h = [i \in 1 .. m |-> h[i]]
    OBVIOUS
  <2> HIDE DEF h
  <2>7. Joins(h, seqs, m)
    BY <2>5, <2>6 DEF Joins
  <2>8. QED
    BY <1>3, <2>7
<1>6. QED
  BY <1>4, <1>5

\* FlattenSeq is what any such function says.
LEMMA FlattenValue ==
  ASSUME NEW seqs, Len(seqs) \in Nat, NEW g, Joins(g, seqs, Len(seqs)), Len(seqs) # 0
  PROVE  FlattenSeq(seqs) = g[Len(seqs)]
<1> DEFINE n == Len(seqs)
           f == CHOOSE f : f = [i \in 1 .. n |-> IF i = 1 THEN seqs[i] ELSE f[i - 1] \o seqs[i]]
<1>1. FlattenSeq(seqs) = f[n]
  BY DEF FlattenSeq
<1>2. f = [i \in 1 .. n |-> IF i = 1 THEN seqs[i] ELSE f[i - 1] \o seqs[i]]
  BY DEF Joins
<1> HIDE DEF f
<1>3. Joins(f, seqs, n)
  BY <1>2 DEF Joins
<1>4. n \in 1 .. n
  OBVIOUS
<1>5. f[n] = g[n]
  BY <1>3, JoinsAgree
<1>6. QED
  BY <1>1, <1>5

\* What FlattenSeq joins from no text, one more text, a single text ...
LEMMA FlattenEmpty == FlattenSeq(<<>>) = <<>>
<1>1. Len(<<>>) = 0
  OBVIOUS
<1>2. QED
  BY <1>1 DEF FlattenSeq

LEMMA FlattenAppend ==
  ASSUME NEW S, NEW seqs \in Seq(Seq(S)), NEW x \in Seq(S)
  PROVE  FlattenSeq(Append(seqs, x)) = FlattenSeq(seqs) \o x
<1> DEFINE n == Len(seqs)
           all == Append(seqs, x)
<1>1. /\ n \in Nat /\ all \in Seq(Seq(S)) /\ Len(all) = n + 1 /\ all[n + 1] = x
      /\ \A i \in 1 .. n : all[i] = seqs[i]
  OBVIOUS
<1>2. PICK g : Joins(g, all, n + 1)
  <2>1. n + 1 \in Nat
    BY <1>1
  <2> HIDE DEF all, n
  <2>2. QED
    BY <2>1, JoinsExists
<1>3. FlattenSeq(all) = g[n + 1]
  <2>1. Len(all) # 0 /\ Len(all) \in Nat
    BY <1>1
  <2> HIDE DEF all, n
  <2>2. QED
    BY <1>1, <1>2, <2>1, FlattenValue
<1>4. g[n + 1] = IF n + 1 = 1 THEN all[n + 1] ELSE g[(n + 1) - 1] \o all[n + 1]
  <2>1. n + 1 \in Nat /\ n + 1 \in 1 .. n + 1
    BY <1>1
  <2> HIDE DEF all, n
  <2>2. QED
    BY <1>2, <2>1, JoinsParts
<1>5. CASE n = 0
  <2>1. seqs = <<>>
    BY <1>5
  <2>2. FlattenSeq(seqs) = <<>>
    BY <2>1, FlattenEmpty
  <2>3. <<>> \o x = x
    BY ConcatEmptySeq
  <2>4. FlattenSeq(all) = x
    BY <1>1, <1>3, <1>4, <1>5
  <2>5. QED
    BY <2>2, <2>3, <2>4
<1>6. CASE n # 0
  <2>1. PICK h : Joins(h, seqs, n)
    BY <1>1, JoinsExists
  <2>2. FlattenSeq(seqs) = h[n]
    BY <1>1, <1>6, <2>1, FlattenValue
  <2>3. g[n] = h[n]
    <3>1. n \in 1 .. n /\ n <= n
      BY <1>1, <1>6
    <3> DEFINE m == n + 1
    <3>2. n \in Nat /\ m \in Nat /\ n <= m /\ Joins(g, all, m)
      BY <1>1, <1>2
    <3>3. \A i \in 1 .. n : all[i] = seqs[i]
      BY <1>1
    <3> HIDE DEF all, n, m
    <3>4. QED
      BY <2>1, <3>1, <3>2, <3>3, JoinsAgree
  <2>4. (n + 1) - 1 = n /\ n + 1 # 1
    BY <1>1, <1>6
  <2> HIDE DEF all, n
  <2>5. FlattenSeq(all) = g[n] \o x
    BY <1>1, <1>3, <1>4, <2>4
  <2>6. QED
    BY <2>2, <2>3, <2>5 DEF all
<1>7. QED
  BY <1>5, <1>6

LEMMA FlattenOne ==
  ASSUME NEW S, NEW x \in Seq(S)
  PROVE  FlattenSeq(<<x>>) = x
<1>1. <<>> \in Seq(Seq(S)) /\ <<x>> = Append(<<>>, x)
  OBVIOUS
<1>2. FlattenSeq(<<x>>) = <<>> \o x
  BY <1>1, FlattenAppend, FlattenEmpty
<1>3. QED
  BY <1>2, ConcatEmptySeq

\* A sequence that is not empty is another one and a last element.
LEMMA LastApart ==
  ASSUME NEW T, NEW s \in Seq(T), Len(s) # 0
  PROVE  \E r \in Seq(T), x \in T : s = Append(r, x) /\ Len(r) = Len(s) - 1
<1>1. s # <<>>
  OBVIOUS
<1>2. PICK r \in Seq(T), x \in T : s = Append(r, x)
  BY <1>1, SequenceEmptyOrAppend
<1>3. Len(r) \in Nat /\ Len(s) = Len(r) + 1
  BY <1>2
<1>4. Len(r) = Len(s) - 1
  BY <1>3
<1>5. QED
  BY <1>2, <1>4

\* ... is a text again ...
LEMMA FlattenType ==
  ASSUME NEW S, NEW seqs \in Seq(Seq(S))
  PROVE  FlattenSeq(seqs) \in Seq(S)
<1> DEFINE T == {n \in Nat : \E s \in Seq(Seq(S)) : Len(s) = n /\ FlattenSeq(s) \notin Seq(S)}
<1> SUFFICES ASSUME T # {} PROVE FALSE
  <2>1. Len(seqs) \in Nat
    OBVIOUS
  <2>2. QED
    BY <2>1
<1>1. PICK n \in T : \A other \in T : n <= other
  <2>1. T \subseteq Nat
    OBVIOUS
  <2> HIDE DEF T
  <2>2. QED
    BY <2>1, Least
<1>2. PICK s \in Seq(Seq(S)) : Len(s) = n /\ FlattenSeq(s) \notin Seq(S)
  OBVIOUS
<1>3. n \in Nat
  OBVIOUS
<1>4. n # 0
  <2> SUFFICES ASSUME n = 0 PROVE FALSE
    OBVIOUS
  <2>1. s = <<>> /\ <<>> \in Seq(S)
    BY <1>2
  <2>2. QED
    BY <1>2, <2>1, FlattenEmpty
<1>5. PICK r \in Seq(Seq(S)), x \in Seq(S) : s = Append(r, x) /\ Len(r) = n - 1
  BY <1>2, <1>4, LastApart
<1>6. FlattenSeq(r) \in Seq(S)
  <2>1. n - 1 \in Nat /\ ~(n <= n - 1)
    BY <1>3, <1>4
  <2>2. QED
    BY <1>1, <1>5, <2>1
<1>7. FlattenSeq(s) = FlattenSeq(r) \o x
  BY <1>5, FlattenAppend
<1>8. QED
  BY <1>2, <1>6, <1>7

LEMMA AppendConcat ==
  ASSUME NEW T, NEW a \in Seq(T), NEW r \in Seq(T), NEW x \in T
  PROVE  a \o Append(r, x) = Append(a \o r, x)
<1>1. <<x>> \in Seq(T) /\ a \o r \in Seq(T)
  OBVIOUS
<1>2. Append(r, x) = r \o <<x>> /\ Append(a \o r, x) = (a \o r) \o <<x>>
  BY <1>1, AppendIsConcat
<1>3. (a \o r) \o <<x>> = a \o (r \o <<x>>)
  BY <1>1, ConcatAssociative
<1>4. QED
  BY <1>2, <1>3

\* ... and texts joined in two parts are joined as a whole.
LEMMA FlattenConcat ==
  ASSUME NEW S, NEW a \in Seq(Seq(S)), NEW b \in Seq(Seq(S))
  PROVE  FlattenSeq(a \o b) = FlattenSeq(a) \o FlattenSeq(b)
<1> DEFINE Fails(s) == FlattenSeq(a \o s) # FlattenSeq(a) \o FlattenSeq(s)
           T == {n \in Nat : \E s \in Seq(Seq(S)) : Len(s) = n /\ Fails(s)}
<1> SUFFICES ASSUME T # {} PROVE FALSE
  <2>1. Len(b) \in Nat
    OBVIOUS
  <2>2. QED
    BY <2>1
<1>1. PICK n \in T : \A other \in T : n <= other
  <2>1. T \subseteq Nat
    OBVIOUS
  <2> HIDE DEF T
  <2>2. QED
    BY <2>1, Least
<1>2. PICK s \in Seq(Seq(S)) : Len(s) = n /\ Fails(s)
  OBVIOUS
<1>3. n \in Nat /\ FlattenSeq(a) \in Seq(S)
  BY FlattenType
<1>4. n # 0
  <2> SUFFICES ASSUME n = 0 PROVE FALSE
    OBVIOUS
  <2>1. s = <<>>
    BY <1>2
  <2>2. a \o <<>> = a /\ FlattenSeq(a) \o <<>> = FlattenSeq(a)
    BY <1>3, ConcatEmptySeq
  <2>3. QED
    BY <1>2, <2>1, <2>2, FlattenEmpty
<1>5. PICK r \in Seq(Seq(S)), x \in Seq(S) : s = Append(r, x) /\ Len(r) = n - 1
  BY <1>2, <1>4, LastApart
<1>6. ~Fails(r)
  <2>1. n - 1 \in Nat /\ ~(n <= n - 1)
    BY <1>3, <1>4
  <2> HIDE DEF Fails
  <2>2. QED
    BY <1>1, <1>5, <2>1
<1>7. a \o s = Append(a \o r, x)
  <2>1. a \o Append(r, x) = Append(a \o r, x)
    <3> HIDE DEF Fails, T
    <3>1. QED
      BY <1>5, AppendConcat
  <2>2. QED
    BY <1>5, <2>1
<1>8. FlattenSeq(a \o s) = FlattenSeq(a \o r) \o x /\ FlattenSeq(s) = FlattenSeq(r) \o x
  <2>1. a \o r \in Seq(Seq(S))
    BY <1>5
  <2>2. QED
    BY <1>5, <1>7, <2>1, FlattenAppend
<1>9. (FlattenSeq(a) \o FlattenSeq(r)) \o x = FlattenSeq(a) \o (FlattenSeq(r) \o x)
  <2>1. FlattenSeq(r) \in Seq(S) /\ x \in Seq(S)
    BY <1>5, FlattenType
  <2> HIDE DEF Fails, T
  <2>2. \A u, v, w \in Seq(S) : (u \o v) \o w = u \o (v \o w)
    BY ConcatAssociative
  <2>3. QED
    BY <1>3, <2>1, <2>2
<1>10. QED
  BY <1>2, <1>6, <1>8, <1>9

\* Cutting the joined first texts from the text leaves the joined others.
LEMMA CutConcat ==
  ASSUME NEW S, NEW a \in Seq(S), NEW b \in Seq(S)
  PROVE  SubSeq(a \o b, Len(a) + 1, Len(a \o b)) = b
<1> DEFINE c == SubSeq(a \o b, Len(a) + 1, Len(a \o b))
<1>1. /\ a \o b \in Seq(S) /\ Len(a) \in Nat /\ Len(b) \in Nat
      /\ Len(a \o b) = Len(a) + Len(b)
      /\ \A i \in 1 .. Len(b) : (a \o b)[Len(a) + i] = b[i]
  OBVIOUS
<1>2. c \in Seq(S) /\ Len(c) = Len(b) /\ \A i \in 1 .. Len(b) : c[i] = (a \o b)[Len(a) + i]
  BY <1>1
<1>3. \A i \in 1 .. Len(c) : c[i] = b[i]
  BY <1>1, <1>2
<1>4. c = b
  <2> HIDE DEF c
  <2>1. QED
    BY <1>2, <1>3, SeqEqual
<1>5. QED
  BY <1>4

\* The elements behind the first e.
LEMMA EndOf ==
  ASSUME NEW S, NEW s \in Seq(S), NEW e \in 0 .. Len(s)
  PROVE  LET b == SubSeq(s, e + 1, Len(s))
         IN  /\ b \in Seq(S) /\ Len(b) = Len(s) - e
             /\ \A i \in 1 .. Len(s) - e : b[i] = s[e + i]
<1>1. Len(s) \in Nat /\ e \in Nat /\ e <= Len(s)
  OBVIOUS
<1>2. QED
  BY <1>1

\* A sequence is its first e elements and the others.
LEMMA Split ==
  ASSUME NEW S, NEW s \in Seq(S), NEW e \in 0 .. Len(s)
  PROVE  /\ SubSeq(s, 1, e) \in Seq(S) /\ SubSeq(s, e + 1, Len(s)) \in Seq(S)
         /\ s = SubSeq(s, 1, e) \o SubSeq(s, e + 1, Len(s))
<1> DEFINE a == SubSeq(s, 1, e)
           b == SubSeq(s, e + 1, Len(s))
<1>1. Len(s) \in Nat /\ e \in Nat /\ e <= Len(s)
  OBVIOUS
<1>2. a \in Seq(S) /\ Len(a) = e /\ \A i \in 1 .. e : a[i] = s[i]
  BY <1>1
<1>3. b \in Seq(S) /\ Len(b) = Len(s) - e /\ \A i \in 1 .. Len(s) - e : b[i] = s[e + i]
  BY EndOf
<1> HIDE DEF a, b
<1>4. a \o b \in Seq(S) /\ Len(a \o b) = Len(s)
  BY <1>1, <1>2, <1>3
<1>5. ASSUME NEW i \in 1 .. Len(s) PROVE (a \o b)[i] = s[i]
  <2>1. CASE i <= e
    <3>1. i \in 1 .. e /\ i <= Len(a)
      BY <1>1, <1>2, <2>1
    <3>2. QED
      BY <1>1, <1>2, <1>3, <3>1
  <2>2. CASE ~(i <= e)
    <3>1. i - e \in 1 .. Len(s) - e /\ e + (i - e) = i
      BY <1>1, <2>2
    <3>2. (a \o b)[i] = b[i - e]
      BY <1>1, <1>2, <1>3, <2>2
    <3>3. b[i - e] = s[e + (i - e)]
      BY <1>3, <3>1
    <3>4. QED
      BY <3>1, <3>2, <3>3
  <2>3. QED
    BY <2>1, <2>2
<1>6. s = a \o b
  BY <1>4, <1>5, SeqEqual
<1>7. QED
  BY <1>2, <1>3, <1>6 DEF a, b

\* AppendLine's cut: the text without the joined evicted lines is the joined lines that stay.
LEMMA TextCut ==
  ASSUME NEW S, NEW all \in Seq(Seq(S)), NEW e \in 0 .. Len(all)
  PROVE  SubSeq(FlattenSeq(all), Len(FlattenSeq(SubSeq(all, 1, e))) + 1, Len(FlattenSeq(all)))
           = FlattenSeq(SubSeq(all, e + 1, Len(all)))
<1> DEFINE a == SubSeq(all, 1, e)
           b == SubSeq(all, e + 1, Len(all))
<1>1. a \in Seq(Seq(S)) /\ b \in Seq(Seq(S)) /\ all = a \o b
  BY Split
<1> HIDE DEF a, b
<1>2. FlattenSeq(all) = FlattenSeq(a) \o FlattenSeq(b)
  BY <1>1, FlattenConcat
<1>3. FlattenSeq(a) \in Seq(S) /\ FlattenSeq(b) \in Seq(S)
  BY <1>1, FlattenType
<1>4. SubSeq(FlattenSeq(all), Len(FlattenSeq(a)) + 1, Len(FlattenSeq(all))) = FlattenSeq(b)
  BY <1>2, <1>3, CutConcat
<1>5. QED
  BY <1>4 DEF a, b

\* One more line in front.
LEMMA OneMore ==
  ASSUME NEW S, NEW all \in Seq(Seq(S)), NEW e \in 1 .. Len(all)
  PROVE  /\ FlattenSeq(SubSeq(all, e, Len(all))) \in Seq(S)
         /\ FlattenSeq(SubSeq(all, e + 1, Len(all))) \in Seq(S)
         /\ all[e] \in Seq(S)
         /\ Len(FlattenSeq(SubSeq(all, e, Len(all))))
              = Len(all[e]) + Len(FlattenSeq(SubSeq(all, e + 1, Len(all))))
<1> DEFINE b == SubSeq(all, e, Len(all))
           c == SubSeq(all, e + 1, Len(all))
<1>1. all[e] \in Seq(S) /\ <<all[e]>> \in Seq(Seq(S)) /\ Len(all) \in Nat
  OBVIOUS
<1>2. b \in Seq(Seq(S)) /\ Len(b) = Len(all) - e + 1
      /\ \A i \in 1 .. Len(all) - e + 1 : b[i] = all[e + i - 1]
  BY <1>1
<1>3. c \in Seq(Seq(S)) /\ Len(c) = Len(all) - e
      /\ \A i \in 1 .. Len(all) - e : c[i] = all[e + i]
  BY <1>1
<1> HIDE DEF b, c
<1>4. <<all[e]>> \o c \in Seq(Seq(S)) /\ Len(<<all[e]>> \o c) = Len(b)
  <2>1. Len(<<all[e]>>) = 1 /\ e \in Nat
    BY <1>1
  <2>2. <<all[e]>> \o c \in Seq(Seq(S)) /\ Len(<<all[e]>> \o c) = 1 + Len(c)
    BY <1>1, <1>3, <2>1, ConcatProperties
  <2>3. QED
    BY <1>1, <1>2, <1>3, <2>1, <2>2
<1>5. ASSUME NEW i \in 1 .. Len(b) PROVE (<<all[e]>> \o c)[i] = b[i]
  <2>1. CASE i = 1
    BY <1>1, <1>2, <1>3, <2>1
  <2>2. CASE i # 1
    <3>1. i - 1 \in 1 .. Len(all) - e /\ e + (i - 1) = e + i - 1 /\ i \in 1 .. Len(all) - e + 1
      BY <1>1, <1>2, <2>2
    <3>2. (<<all[e]>> \o c)[i] = c[i - 1]
      BY <1>1, <1>2, <1>3, <2>2
    <3>3. c[i - 1] = all[e + (i - 1)]
      BY <1>3, <3>1
    <3>4. b[i] = all[e + i - 1]
      BY <1>2, <3>1
    <3>5. QED
      BY <3>1, <3>2, <3>3, <3>4
  <2>3. QED
    BY <2>1, <2>2
<1>6. b = <<all[e]>> \o c
  BY <1>2, <1>4, <1>5, SeqEqual
<1>7. FlattenSeq(b) = all[e] \o FlattenSeq(c)
  <2>1. FlattenSeq(b) = FlattenSeq(<<all[e]>>) \o FlattenSeq(c)
    BY <1>1, <1>3, <1>6, FlattenConcat
  <2>2. FlattenSeq(<<all[e]>>) = all[e]
    BY <1>1, FlattenOne
  <2>3. QED
    BY <2>1, <2>2
<1>8. FlattenSeq(b) \in Seq(S) /\ FlattenSeq(c) \in Seq(S)
  BY <1>2, <1>3, FlattenType
<1>9. Len(FlattenSeq(b)) = Len(all[e]) + Len(FlattenSeq(c))
  BY <1>1, <1>7, <1>8
<1>10. QED
  BY <1>1, <1>8, <1>9 DEF b, c

\* A suffix, element by element.
LEMMA SuffixElements ==
  ASSUME NEW S, NEW s \in Seq(S), NEW t \in Seq(S), Len(s) <= Len(t),
         \A i \in 1 .. Len(s) : s[i] = t[Len(t) - Len(s) + i]
  PROVE  IsSuffix(s, t)
<1> DEFINE n == Len(s)
           m == Len(t)
           rs == Reverse(s)
           rt == Reverse(t)
<1>1. n \in Nat /\ m \in Nat /\ n <= m
  OBVIOUS
<1>2. rs \in Seq(S) /\ Len(rs) = n /\ \A i \in 1 .. n : rs[i] = s[(n - i) + 1]
  BY <1>1 DEF Reverse
<1>3. rt \in Seq(S) /\ Len(rt) = m /\ \A i \in 1 .. m : rt[i] = t[(m - i) + 1]
  BY <1>1 DEF Reverse
<1>4. ASSUME NEW i \in 1 .. n PROVE rs[i] = rt[i]
  <2>1. i \in 1 .. m /\ (n - i) + 1 \in 1 .. n /\ m - n + ((n - i) + 1) = (m - i) + 1
    BY <1>1
  <2>2. s[(n - i) + 1] = t[m - n + ((n - i) + 1)]
    BY <2>1
  <2> HIDE DEF rs, rt, n, m
  <2>3. QED
    BY <1>2, <1>3, <2>1, <2>2
<1> HIDE DEF rs, rt
<1>5. SubSeq(rs, 1, n) \in Seq(S) /\ SubSeq(rt, 1, n) \in Seq(S)
      /\ Len(SubSeq(rs, 1, n)) = n /\ Len(SubSeq(rt, 1, n)) = n
      /\ \A i \in 1 .. n : SubSeq(rs, 1, n)[i] = rs[i] /\ SubSeq(rt, 1, n)[i] = rt[i]
  BY <1>1, <1>2, <1>3
<1>6. SubSeq(rs, 1, n) = SubSeq(rt, 1, n)
  BY <1>4, <1>5, SeqEqual
<1>7. QED
  BY <1>1, <1>2, <1>3, <1>6 DEF IsSuffix, IsPrefix, rs, rt

--------------------------------------------------------------------------------
(* Texts of whole characters, without a newline. *)

\* The bytes of rendered lines.
TextByte == Byte \cup {"lead", "continuation"} \cup {Marker[n] : n \in 1 .. Len(Marker)}

\* Neither a newline nor a character in part.
Whole(text) ==
  /\ text \in Seq(TextByte)
  /\ \A n \in 1 .. Len(text) : text[n] # "newline"
  /\ \A n \in 1 .. Len(text) :
       text[n] = "lead" => /\ n + 2 <= Len(text)
                           /\ text[n + 1] = "continuation" /\ text[n + 2] = "continuation"

\* The text does not begin inside a character.
Starts(text) == Len(text) # 0 => text[1] # "continuation"

\* Whole texts one after the other are whole.
LEMMA WholeConcat ==
  ASSUME NEW a, Whole(a), NEW b, Whole(b)
  PROVE  Whole(a \o b)
<1> DEFINE c == a \o b
<1>1. a \in Seq(TextByte) /\ b \in Seq(TextByte) /\ Len(a) \in Nat /\ Len(b) \in Nat
  BY DEF Whole
<1>2. c \in Seq(TextByte) /\ Len(c) = Len(a) + Len(b)
  BY <1>1
<1>3. \A i \in 1 .. Len(a) : c[i] = a[i]
  BY <1>1
<1>4. \A i \in 1 .. Len(b) : c[Len(a) + i] = b[i]
  BY <1>1
<1> HIDE DEF c
<1>5. ASSUME NEW n \in 1 .. Len(c)
      PROVE  /\ c[n] # "newline"
             /\ c[n] = "lead" => /\ n + 2 <= Len(c)
                                 /\ c[n + 1] = "continuation" /\ c[n + 2] = "continuation"
  <2>1. CASE n <= Len(a)
    <3>1. n \in 1 .. Len(a)
      BY <1>1, <1>2, <2>1
    <3>2. c[n] = a[n] /\ a[n] # "newline"
      BY <1>3, <3>1 DEF Whole
    <3>3. ASSUME c[n] = "lead"
          PROVE  n + 2 <= Len(c) /\ c[n + 1] = "continuation" /\ c[n + 2] = "continuation"
      <4>1. n + 2 <= Len(a) /\ a[n + 1] = "continuation" /\ a[n + 2] = "continuation"
        BY <3>1, <3>2, <3>3 DEF Whole
      <4>2. n + 1 \in 1 .. Len(a) /\ n + 2 \in 1 .. Len(a) /\ n + 2 <= Len(c)
        BY <1>1, <1>2, <3>1, <4>1
      <4>3. QED
        BY <1>3, <4>1, <4>2
    <3>4. QED
      BY <3>2, <3>3
  <2>2. CASE ~(n <= Len(a))
    <3>1. PICK m \in 1 .. Len(b) : Len(a) + m = n
      <4>1. n - Len(a) \in 1 .. Len(b) /\ Len(a) + (n - Len(a)) = n
        BY <1>1, <1>2, <2>2
      <4>2. QED
        BY <4>1
    <3>2. c[n] = b[m] /\ b[m] # "newline"
      BY <1>4, <3>1 DEF Whole
    <3>3. ASSUME c[n] = "lead"
          PROVE  n + 2 <= Len(c) /\ c[n + 1] = "continuation" /\ c[n + 2] = "continuation"
      <4>1. m + 2 <= Len(b) /\ b[m + 1] = "continuation" /\ b[m + 2] = "continuation"
        BY <3>2, <3>3 DEF Whole
      <4>2. /\ m + 1 \in 1 .. Len(b) /\ m + 2 \in 1 .. Len(b)
            /\ Len(a) + (m + 1) = n + 1 /\ Len(a) + (m + 2) = n + 2 /\ n + 2 <= Len(c)
        <5>1. m \in Nat /\ m >= 1 /\ Len(a) + m = n
          BY <1>1, <3>1
        <5>2. m + 1 \in 1 .. Len(b) /\ m + 2 \in 1 .. Len(b)
          BY <1>1, <4>1, <5>1
        <5>3. Len(a) + (m + 1) = n + 1 /\ Len(a) + (m + 2) = n + 2
          BY <1>1, <5>1
        <5>4. n + 2 <= Len(c)
          BY <1>1, <1>2, <4>1, <5>1
        <5>5. QED
          BY <5>2, <5>3, <5>4
      <4>3. c[Len(a) + (m + 1)] = b[m + 1] /\ c[Len(a) + (m + 2)] = b[m + 2]
        BY <1>4, <4>2
      <4>4. QED
        BY <4>1, <4>2, <4>3
    <3>4. QED
      BY <3>2, <3>3
  <2>3. QED
    BY <2>1, <2>2
<1>6. Whole(c)
  BY <1>2, <1>5 DEF Whole
<1>7. QED
  BY <1>6 DEF c

LEMMA StartsConcat ==
  ASSUME NEW a \in Seq(TextByte), Starts(a), NEW b \in Seq(TextByte), Starts(b)
  PROVE  Starts(a \o b)
<1>1. Len(a) \in Nat /\ Len(b) \in Nat /\ Len(a \o b) = Len(a) + Len(b)
  OBVIOUS
<1>2. CASE Len(a) = 0
  <2>1. a = <<>>
    BY <1>2
  <2>2. a \o b = b
    BY <2>1, ConcatEmptySeq
  <2>3. QED
    BY <2>2
<1>3. CASE Len(a) # 0
  <2>1. (a \o b)[1] = a[1]
    BY <1>1, <1>3
  <2>2. QED
    BY <1>3, <2>1 DEF Starts
<1>4. QED
  BY <1>2, <1>3

\* What Lossy puts for one byte.
Pieces == {Replacement} \cup {<<b>> : b \in Byte \ {"invalid", "newline"}}

\* What Lossy puts for a byte is whole.
LEMMA PieceWhole ==
  ASSUME NEW x \in Pieces
  PROVE  Whole(x) /\ Starts(x)
<1>1. CASE x = Replacement
  <2>1. "lead" \in TextByte /\ "continuation" \in TextByte
    BY DEF TextByte
  <2>2. x \in Seq(TextByte)
    BY <1>1, <2>1 DEF Replacement
  <2>3. /\ Len(x) = 3
        /\ x[1] = "lead" /\ x[2] = "continuation" /\ x[3] = "continuation"
    BY <1>1 DEF Replacement
  <2>4. "lead" # "newline" /\ "continuation" # "newline" /\ "lead" # "continuation"
    OBVIOUS
  <2>5. \A n \in 1 .. Len(x) : n = 1 \/ n = 2 \/ n = 3
    BY <2>3
  <2>6. \A n \in 1 .. Len(x) : x[n] # "newline" /\ (x[n] = "lead" => n = 1)
    BY <2>3, <2>4, <2>5
  <2>7. 1 + 2 <= Len(x) /\ x[1 + 1] = "continuation" /\ x[1 + 2] = "continuation"
    BY <2>3
  <2>8. Whole(x)
    BY <2>2, <2>6, <2>7 DEF Whole
  <2>9. Starts(x)
    BY <2>3, <2>4 DEF Starts
  <2>10. QED
    BY <2>8, <2>9
<1>2. CASE x \in {<<b>> : b \in Byte \ {"invalid", "newline"}}
  <2>1. PICK b \in {"a", "cr"} : x = <<b>>
    BY <1>2 DEF Byte
  <2>2. x \in Seq(TextByte) /\ Len(x) = 1 /\ x[1] = b
    <3>1. b \in TextByte
      BY DEF TextByte, Byte
    <3>2. <<b>> \in Seq(TextByte) /\ Len(<<b>>) = 1 /\ <<b>>[1] = b
      BY <3>1
    <3>3. QED
      BY <2>1, <3>2
  <2>3. b # "newline" /\ b # "lead" /\ b # "continuation"
    OBVIOUS
  <2>4. QED
    BY <2>2, <2>3 DEF Whole, Starts
<1>3. QED
  BY <1>1, <1>2 DEF Pieces

\* So is any number of such pieces.
LEMMA PiecesWhole ==
  ASSUME NEW pieces \in Seq(Pieces)
  PROVE  Whole(FlattenSeq(pieces)) /\ Starts(FlattenSeq(pieces))
<1> DEFINE Fails(s) == ~(Whole(FlattenSeq(s)) /\ Starts(FlattenSeq(s)))
           T == {n \in Nat : \E s \in Seq(Pieces) : Len(s) = n /\ Fails(s)}
<1> SUFFICES ASSUME T # {} PROVE FALSE
  <2>1. Len(pieces) \in Nat
    OBVIOUS
  <2>2. QED
    BY <2>1
<1>1. PICK n \in T : \A other \in T : n <= other
  <2>1. T \subseteq Nat
    OBVIOUS
  <2> HIDE DEF T
  <2>2. QED
    BY <2>1, Least
<1>2. PICK s \in Seq(Pieces) : Len(s) = n /\ Fails(s)
  OBVIOUS
<1>3. n \in Nat
  OBVIOUS
<1>4. n # 0
  <2> SUFFICES ASSUME n = 0 PROVE FALSE
    OBVIOUS
  <2>1. s = <<>>
    BY <1>2
  <2>2. Whole(<<>>) /\ Starts(<<>>)
    <3>1. <<>> \in Seq(TextByte) /\ Len(<<>>) = 0
      OBVIOUS
    <3>2. QED
      BY <3>1 DEF Whole, Starts
  <2>3. QED
    BY <1>2, <2>1, <2>2, FlattenEmpty
<1>5. PICK r \in Seq(Pieces), x \in Pieces : s = Append(r, x) /\ Len(r) = n - 1
  <2> HIDE DEF Fails, T
  <2>1. QED
    BY <1>2, <1>4, LastApart
<1>6. ~Fails(r)
  <2>1. n - 1 \in Nat /\ ~(n <= n - 1)
    BY <1>3, <1>4
  <2> HIDE DEF Fails
  <2>2. QED
    BY <1>1, <1>5, <2>1
<1>7. Whole(x) /\ Starts(x) /\ x \in Seq(TextByte)
  BY PieceWhole DEF Whole
<1>8. r \in Seq(Seq(TextByte))
  <2>1. \A y \in Pieces : y \in Seq(TextByte)
    BY PieceWhole DEF Whole
  <2> HIDE DEF T, Fails
  <2>2. QED
    BY <2>1
<1>9. FlattenSeq(s) = FlattenSeq(r) \o x
  <2> HIDE DEF T, Fails
  <2>1. QED
    BY <1>5, <1>7, <1>8, FlattenAppend
<1>10. Whole(FlattenSeq(r)) /\ Starts(FlattenSeq(r)) /\ FlattenSeq(r) \in Seq(TextByte)
  BY <1>6 DEF Whole
<1>11. Whole(FlattenSeq(r) \o x) /\ Starts(FlattenSeq(r) \o x)
  <2> HIDE DEF T, Fails
  <2>1. QED
    BY <1>7, <1>10, WholeConcat, StartsConcat
<1>12. QED
  BY <1>2, <1>9, <1>11

\* So is what Lossy makes of a line.
LEMMA LossyWhole ==
  ASSUME NEW raw \in Seq(Byte \ {"newline"})
  PROVE  Whole(Lossy(raw)) /\ Starts(Lossy(raw))
<1> DEFINE pieces == [i \in DOMAIN raw |-> IF raw[i] = "invalid" THEN Replacement ELSE <<raw[i]>>]
<1>1. DOMAIN raw = 1 .. Len(raw) /\ Len(raw) \in Nat
  OBVIOUS
<1>2. ASSUME NEW i \in DOMAIN raw PROVE pieces[i] \in Pieces
  <2>1. raw[i] \in Byte \ {"newline"}
    BY <1>1
  <2>2. QED
    BY <2>1 DEF Pieces
<1>3. pieces \in Seq(Pieces)
  BY <1>1, <1>2
<1> HIDE DEF pieces
<1>4. Whole(FlattenSeq(pieces)) /\ Starts(FlattenSeq(pieces))
  BY <1>3, PiecesWhole
<1>5. QED
  BY <1>4 DEF Lossy, pieces

\* Every bounded set of numbers has a greatest one.
LEMMA Greatest ==
  ASSUME NEW max \in Nat, NEW T, T \subseteq 0 .. max, T # {}
  PROVE  \E x \in T : \A y \in T : y <= x
<1> DEFINE U == {n \in Nat : max - n \in T}
<1>1. PICK t \in T : TRUE
  OBVIOUS
<1>2. max - t \in Nat /\ max - (max - t) = t
  BY <1>1
<1>3. U # {} /\ U \subseteq Nat
  BY <1>2
<1>4. PICK n \in U : \A other \in U : n <= other
  <2> HIDE DEF U
  <2>1. QED
    BY <1>3, Least
<1>5. max - n \in T /\ n \in Nat
  OBVIOUS
<1>6. ASSUME NEW y \in T PROVE y <= max - n
  <2>1. y \in Nat /\ max - y \in Nat /\ max - (max - y) = y
    OBVIOUS
  <2>2. max - y \in U
    BY <2>1
  <2>3. n <= max - y
    BY <1>4, <2>2
  <2>4. QED
    BY <1>5, <2>1, <2>3
<1>7. QED
  BY <1>5, <1>6

\* A text that is cut in front of a byte that begins a character.
LEMMA CutWhole ==
  ASSUME NEW text, Whole(text), NEW n \in Nat, n < Len(text), text[n + 1] # "continuation"
  PROVE  Whole(SubSeq(text, 1, n)) /\ Len(SubSeq(text, 1, n)) = n
<1> DEFINE cut == SubSeq(text, 1, n)
<1>1. text \in Seq(TextByte) /\ Len(text) \in Nat
  BY DEF Whole
<1>2. cut \in Seq(TextByte) /\ Len(cut) = n /\ \A i \in 1 .. n : cut[i] = text[i]
  BY <1>1
<1> HIDE DEF cut
<1>3. \A i \in 1 .. n : i \in 1 .. Len(text)
  BY <1>1
<1>4. \A i \in 1 .. n : cut[i] # "newline"
  BY <1>2, <1>3 DEF Whole
<1>5. ASSUME NEW i \in 1 .. n, cut[i] = "lead"
      PROVE  i + 2 <= n /\ cut[i + 1] = "continuation" /\ cut[i + 2] = "continuation"
  <2>1. text[i + 1] = "continuation" /\ text[i + 2] = "continuation"
    BY <1>2, <1>3, <1>5 DEF Whole
  <2>2. i # n /\ i + 1 # n
    BY <2>1
  <2>3. i + 2 <= n /\ i + 1 \in 1 .. n /\ i + 2 \in 1 .. n
    BY <2>2
  <2>4. QED
    BY <1>2, <2>1, <2>3
<1>6. Whole(cut)
  BY <1>2, <1>4, <1>5 DEF Whole
<1>7. QED
  BY <1>2, <1>6 DEF cut

\* What utf8_prefix returns is whole and within its limit.
LEMMA PrefixWhole ==
  ASSUME NEW text, Whole(text), Starts(text), NEW max \in Nat
  PROVE  Whole(Prefix(text, max)) /\ Len(Prefix(text, max)) <= max
<1>1. Len(text) \in Nat
  BY DEF Whole
<1>2. CASE Len(text) <= max
  BY <1>2 DEF Prefix
<1>3. CASE ~(Len(text) <= max)
  <2> DEFINE boundaries == {n \in 0 .. max : text[n + 1] # "continuation"}
             last == CHOOSE n \in boundaries : \A k \in boundaries : k <= n
  <2>1. 0 \in boundaries
    <3>1. Len(text) # 0
      BY <1>1, <1>3
    <3>2. text[1] # "continuation" /\ 0 + 1 = 1 /\ 0 \in 0 .. max
      BY <3>1 DEF Starts
    <3>3. QED
      BY <3>2
  <2>2. \E n \in boundaries : \A k \in boundaries : k <= n
    <3>1. boundaries \subseteq 0 .. max /\ boundaries # {}
      BY <2>1
    <3> HIDE DEF boundaries
    <3>2. QED
      BY <3>1, Greatest
  <2>3. last \in boundaries
    <3> HIDE DEF boundaries
    <3>1. QED
      BY <2>2
  <2>4. Prefix(text, max) = SubSeq(text, 1, last)
    BY <1>3 DEF Prefix
  <2> HIDE DEF last
  <2>5. last \in Nat /\ last <= max /\ last < Len(text) /\ text[last + 1] # "continuation"
    BY <1>1, <1>3, <2>3
  <2>6. Whole(SubSeq(text, 1, last)) /\ Len(SubSeq(text, 1, last)) = last
    BY <2>5, CutWhole
  <2>7. QED
    BY <2>4, <2>5, <2>6
<1>4. QED
  BY <1>2, <1>3

\* The marker is whole: the model's assumption on it.
LEMMA MarkerWhole == Whole(Marker)
<1>1. Marker \in Seq(STRING) /\ Len(Marker) \in Nat /\ DOMAIN Marker = 1 .. Len(Marker)
  BY LimitAssumption
<1>2. \A n \in 1 .. Len(Marker) : Marker[n] \in TextByte
  BY DEF TextByte
<1>3. Marker = [n \in 1 .. Len(Marker) |-> Marker[n]]
  BY <1>1
<1>4. Marker \in Seq(TextByte)
  BY <1>1, <1>2, <1>3
<1>5. \A n \in 1 .. Len(Marker) : Marker[n] # "newline"
  BY <1>1, LimitAssumption
<1>6. ASSUME NEW n \in 1 .. Len(Marker), Marker[n] = "lead"
      PROVE  /\ n + 2 <= Len(Marker)
             /\ Marker[n + 1] = "continuation" /\ Marker[n + 2] = "continuation"
  <2>1. n + 2 <= Len(Marker) /\ SubSeq(Marker, n, n + 2) = Replacement
    BY <1>1, <1>6, LimitAssumption DEF WholeCharacters
  <2>2. n \in Nat /\ n >= 1
    OBVIOUS
  <2> DEFINE three == SubSeq(Marker, n, n + 2)
  <2>3. three[2] = Marker[n + 1] /\ three[3] = Marker[n + 2]
    BY <1>1, <2>1, <2>2
  <2>4. Replacement[2] = "continuation" /\ Replacement[3] = "continuation"
    BY DEF Replacement
  <2>5. QED
    BY <2>1, <2>3, <2>4
<1>7. QED
  BY <1>4, <1>5, <1>6 DEF Whole

\* A rendered line is a whole text and its newline.
WholeLine(line) ==
  LET text == SubSeq(line, 1, Len(line) - 1)
  IN  Whole(text) /\ line = text \o Newline

\* A whole text and a newline are a whole line.
LEMMA LineOfText ==
  ASSUME NEW text, Whole(text)
  PROVE  /\ WholeLine(text \o Newline) /\ text \o Newline \in Seq(TextByte)
         /\ Len(text \o Newline) = Len(text) + 1
<1> DEFINE line == text \o Newline
<1>1. text \in Seq(TextByte) /\ Len(text) \in Nat
  BY DEF Whole
<1>2. Newline \in Seq(TextByte) /\ Len(Newline) = 1
  BY DEF Newline, TextByte, Byte
<1>3. /\ line \in Seq(TextByte) /\ Len(line) = Len(text) + 1
      /\ \A i \in 1 .. Len(text) : line[i] = text[i]
  <2>1. line \in Seq(TextByte) /\ Len(line) = Len(text) + Len(Newline)
    BY <1>1, <1>2, ConcatProperties
  <2>2. ASSUME NEW i \in 1 .. Len(text) PROVE line[i] = text[i]
    <3>1. i \in 1 .. Len(text) + Len(Newline) /\ i <= Len(text)
      BY <1>1, <1>2
    <3>2. QED
      BY <1>1, <1>2, <3>1, ConcatProperties
  <2>3. QED
    BY <1>2, <2>1, <2>2
<1> DEFINE cut == SubSeq(line, 1, Len(line) - 1)
<1>4. cut = text
  <2>1. cut \in Seq(TextByte) /\ Len(cut) = Len(text) /\ \A i \in 1 .. Len(text) : cut[i] = line[i]
    <3> HIDE DEF line
    <3>1. Len(line) - 1 = Len(text)
      BY <1>1, <1>3
    <3>2. QED
      BY <1>1, <1>3, <3>1
  <2>2. \A i \in 1 .. Len(cut) : cut[i] = text[i]
    BY <1>3, <2>1
  <2> HIDE DEF cut
  <2>3. QED
    BY <1>1, <2>1, <2>2, SeqEqual
<1>5. WholeLine(line)
  <2>1. Whole(cut) /\ line = cut \o Newline
    BY <1>4
  <2>2. QED
    BY <2>1 DEF WholeLine
<1>6. QED
  BY <1>3, <1>5

\* What Render returns is a whole line within the limit.
LEMMA RenderWhole ==
  ASSUME NEW raw \in Seq(Byte \ {"newline"}), NEW force \in BOOLEAN
  PROVE  LET line == Render(raw, force)
         IN  line \in Seq(TextByte) /\ WholeLine(line) /\ Len(line) \in 1 .. MAX_LOG_BYTES
<1>1. Whole(Lossy(raw)) /\ Starts(Lossy(raw)) /\ Len(Lossy(raw)) \in Nat
  BY LossyWhole DEF Whole
<1>2. MAX_LOG_BYTES \in Nat /\ Len(Marker) \in Nat /\ Len(Marker) + 1 <= MAX_LOG_BYTES
  BY LimitAssumption
<1>3. CASE ~force /\ Len(Lossy(raw)) + 1 <= MAX_LOG_BYTES
  <2>1. Render(raw, force) = Lossy(raw) \o Newline
    BY <1>3 DEF Render
  <2>2. QED
    BY <1>1, <1>2, <1>3, <2>1, LineOfText
<1>4. CASE ~(~force /\ Len(Lossy(raw)) + 1 <= MAX_LOG_BYTES)
  <2> DEFINE max == MAX_LOG_BYTES - Len(Marker) - 1
             prefix == Prefix(Lossy(raw), max)
  <2>1. max \in Nat /\ max + Len(Marker) + 1 = MAX_LOG_BYTES
    BY <1>2
  <2>2. Whole(prefix) /\ Len(prefix) <= max /\ Len(prefix) \in Nat
    <3> HIDE DEF max
    <3>1. Whole(prefix) /\ Len(prefix) <= max
      BY <1>1, <2>1, PrefixWhole
    <3>2. QED
      BY <3>1 DEF Whole
  <2>3. Render(raw, force) = prefix \o Marker \o Newline
    BY <1>4 DEF Render
  <2> HIDE DEF prefix, max
  <2>4. Whole(prefix \o Marker)
    BY <2>2, MarkerWhole, WholeConcat
  <2>5. Len(prefix \o Marker) = Len(prefix) + Len(Marker)
    BY <2>2, MarkerWhole DEF Whole
  <2> DEFINE text == prefix \o Marker
  <2>6. Whole(text) /\ Len(text) = Len(prefix) + Len(Marker) /\ Render(raw, force) = text \o Newline
    BY <2>3, <2>4, <2>5
  <2> HIDE DEF text
  <2>7. /\ WholeLine(Render(raw, force)) /\ Render(raw, force) \in Seq(TextByte)
        /\ Len(Render(raw, force)) = Len(text) + 1
    BY <2>6, LineOfText
  <2>8. Len(text) + 1 \in 1 .. MAX_LOG_BYTES
    BY <1>2, <2>1, <2>2, <2>6
  <2>9. QED
    BY <2>7, <2>8
<1>5. QED
  BY <1>3, <1>4

--------------------------------------------------------------------------------
(* What is evicted. *)

\* The limits leave at least the newest line, and one more line would break one of them.
LEMMA EvictedFits ==
  ASSUME NEW all \in Seq(Seq(TextByte)), Len(all) # 0, Len(all[Len(all)]) <= MAX_LOG_BYTES
  PROVE  LET e == Evicted(all)
         IN  /\ e \in 0 .. Len(all) - 1
             /\ Len(all) - e <= MAX_LOG_LINES
             /\ Len(FlattenSeq(SubSeq(all, e + 1, Len(all)))) <= MAX_LOG_BYTES
             /\ e # 0 => \/ ~(Len(all) - (e - 1) <= MAX_LOG_LINES)
                         \/ ~(Len(FlattenSeq(SubSeq(all, e, Len(all)))) <= MAX_LOG_BYTES)
<1> DEFINE Size(n) == Len(FlattenSeq(SubSeq(all, n + 1, Len(all))))
           Fits(n) == Len(all) - n <= MAX_LOG_LINES /\ Size(n) <= MAX_LOG_BYTES
           fits == {n \in 0 .. Len(all) : Fits(n)}
           e == CHOOSE n \in fits : \A k \in fits : n <= k
<1>1. Evicted(all) = e
  BY DEF Evicted
<1>2. MAX_LOG_LINES \in Nat /\ MAX_LOG_LINES # 0 /\ Len(all) \in Nat
  BY LimitAssumption
<1>3. Size(Len(all) - 1) = Len(all[Len(all)])
  <2>1. Len(all) \in 1 .. Len(all) /\ Len(all) - 1 + 1 = Len(all)
    BY <1>2
  <2> DEFINE newest == SubSeq(all, Len(all), Len(all))
  <2>2. newest = <<all[Len(all)]>> /\ all[Len(all)] \in Seq(TextByte)
    <3>1. newest \in Seq(Seq(TextByte)) /\ Len(newest) = 1 /\ newest[1] = all[Len(all)]
      BY <1>2, <2>1
    <3> HIDE DEF newest
    <3>2. all[Len(all)] \in Seq(TextByte)
      BY <2>1
    <3>3. QED
      BY <3>1, <3>2
  <2>3. FlattenSeq(newest) = all[Len(all)]
    <3> HIDE DEF newest
    <3>1. QED
      BY <2>2, FlattenOne
  <2>4. Size(Len(all) - 1) = Len(FlattenSeq(newest))
    BY <2>1
  <2>5. QED
    BY <2>3, <2>4
<1> HIDE DEF Size
<1>4. Len(all) - 1 \in fits
  <2>1. Len(all) - 1 \in 0 .. Len(all) /\ Len(all) - (Len(all) - 1) = 1 /\ 1 <= MAX_LOG_LINES
    BY <1>2
  <2>2. QED
    BY <1>3, <2>1
<1>5. fits \subseteq 0 .. Len(all) /\ fits \subseteq Nat
  BY <1>2
<1> HIDE DEF fits
<1>6. \E n \in fits : \A k \in fits : n <= k
  BY <1>4, <1>5, Least
<1>7. e \in fits /\ \A k \in fits : e <= k
  BY <1>6
<1> HIDE DEF e
<1>8. e \in 0 .. Len(all) - 1
  <2>1. e \in Nat /\ e <= Len(all) - 1
    BY <1>4, <1>5, <1>7
  <2>2. QED
    BY <1>2, <2>1
<1>9. Fits(e)
  BY <1>7 DEF fits
<1>10. ASSUME e # 0 PROVE ~Fits(e - 1)
  <2>1. e - 1 \in 0 .. Len(all) /\ ~(e <= e - 1)
    BY <1>2, <1>8, <1>10
  <2>2. e - 1 \notin fits
    BY <1>7, <2>1
  <2>3. QED
    BY <2>1, <2>2 DEF fits
<1>11. Size(e) = Len(FlattenSeq(SubSeq(all, e + 1, Len(all))))
  BY DEF Size
<1>12. Size(e - 1) = Len(FlattenSeq(SubSeq(all, e, Len(all))))
  <2>1. e - 1 + 1 = e
    BY <1>8
  <2>2. QED
    BY <2>1 DEF Size
<1>13. QED
  BY <1>1, <1>8, <1>9, <1>10, <1>11, <1>12

--------------------------------------------------------------------------------
(* The invariant. *)

\* The unfinished line holds no newline; lines are texts.
LogTyped ==
  /\ fragment \in Seq(Byte \ {"newline"}) /\ fragment_truncated \in BOOLEAN
  /\ lines \in Seq(Seq(TextByte)) /\ written \in Seq(Seq(TextByte))

\* The lines are the end of the log, line by line.
SameEnd(tail, log) ==
  /\ Len(tail) <= Len(log)
  /\ \A i \in 1 .. Len(tail) : tail[i] = log[Len(log) - Len(tail) + i]

\* One line more would be too many lines or too many bytes.
Longest(tail, log) ==
  Len(tail) < Len(log) =>
    \/ Len(tail) = MAX_LOG_LINES
    \/ Len(FlattenSeq(tail)) + Len(log[Len(log) - Len(tail)]) > MAX_LOG_BYTES

\* The store is the longest end of the log that fits.
TailInv ==
  /\ SameEnd(lines, written) /\ Longest(lines, written)
  /\ rendered = FlattenSeq(lines) /\ bytes = Len(rendered) /\ bytes <= MAX_LOG_BYTES
  /\ Len(lines) <= MAX_LOG_LINES
  /\ Len(written) # 0 => Len(lines) # 0

\* Every kept line is whole.
WholeInv == \A i \in 1 .. Len(lines) : WholeLine(lines[i])

\* The inductive invariant of the log store.
LogInv == LogTyped /\ TailInv /\ WholeInv

\* Sequences with the same end keep it when both get one more element ...
LEMMA SameEndAppend ==
  ASSUME NEW S, NEW tail \in Seq(S), NEW log \in Seq(S), NEW line \in S, SameEnd(tail, log)
  PROVE  SameEnd(Append(tail, line), Append(log, line))
<1> DEFINE t == Append(tail, line)
           l == Append(log, line)
<1>1. /\ Len(tail) \in Nat /\ Len(log) \in Nat /\ Len(tail) <= Len(log)
      /\ Len(t) = Len(tail) + 1 /\ Len(l) = Len(log) + 1
      /\ t[Len(tail) + 1] = line /\ l[Len(log) + 1] = line
      /\ \A i \in 1 .. Len(tail) : t[i] = tail[i]
      /\ \A i \in 1 .. Len(log) : l[i] = log[i]
  BY DEF SameEnd
<1> HIDE DEF t, l
<1>2. ASSUME NEW i \in 1 .. Len(t) PROVE t[i] = l[Len(l) - Len(t) + i]
  <2>1. Len(l) - Len(t) = Len(log) - Len(tail) /\ i \in Nat
    BY <1>1
  <2>2. CASE i = Len(tail) + 1
    <3>1. Len(log) - Len(tail) + i = Len(log) + 1
      BY <1>1, <2>2
    <3>2. QED
      BY <1>1, <2>1, <2>2, <3>1
  <2>3. CASE i # Len(tail) + 1
    <3>1. i \in 1 .. Len(tail) /\ Len(log) - Len(tail) + i \in 1 .. Len(log)
      BY <1>1, <2>1, <2>3
    <3>2. tail[i] = log[Len(log) - Len(tail) + i]
      BY <3>1 DEF SameEnd
    <3>3. QED
      BY <1>1, <2>1, <3>1, <3>2
  <2>4. QED
    BY <2>2, <2>3
<1>3. SameEnd(t, l)
  BY <1>1, <1>2 DEF SameEnd
<1>4. QED
  BY <1>3 DEF t, l

\* ... and when the shorter loses its first ones.
LEMMA SameEndCut ==
  ASSUME NEW S, NEW all \in Seq(S), NEW log \in Seq(S), SameEnd(all, log), NEW e \in 0 .. Len(all)
  PROVE  SameEnd(SubSeq(all, e + 1, Len(all)), log)
<1> DEFINE t == SubSeq(all, e + 1, Len(all))
<1>1. Len(all) \in Nat /\ Len(log) \in Nat /\ Len(all) <= Len(log) /\ e \in Nat /\ e <= Len(all)
  BY DEF SameEnd
<1>2. t \in Seq(S) /\ Len(t) = Len(all) - e /\ \A i \in 1 .. Len(all) - e : t[i] = all[e + i]
  BY EndOf
<1> HIDE DEF t
<1>3. ASSUME NEW i \in 1 .. Len(t) PROVE t[i] = log[Len(log) - Len(t) + i]
  <2>1. e + i \in 1 .. Len(all) /\ Len(log) - Len(all) + (e + i) = Len(log) - Len(t) + i
        /\ i \in 1 .. Len(all) - e
    BY <1>1, <1>2
  <2>2. all[e + i] = log[Len(log) - Len(all) + (e + i)]
    BY <2>1 DEF SameEnd
  <2>3. QED
    BY <1>2, <2>1, <2>2
<1>4. Len(t) <= Len(log)
  BY <1>1, <1>2
<1>5. QED
  BY <1>3, <1>4 DEF SameEnd, t

--------------------------------------------------------------------------------
(* append_rendered_line keeps it. *)

\* Every line that is appended keeps the tail and the whole lines.
LEMMA AppendLineKeeps ==
  ASSUME LogInv, NEW line \in Seq(TextByte), WholeLine(line), Len(line) \in 1 .. MAX_LOG_BYTES,
         AppendLine(line)
  PROVE  /\ lines' \in Seq(Seq(TextByte)) /\ written' \in Seq(Seq(TextByte))
         /\ TailInv' /\ WholeInv'
<1> DEFINE all == Append(lines, line)
           log == Append(written, line)
           e == Evicted(all)
           kept == SubSeq(all, e + 1, Len(all))
<1>1. lines \in Seq(Seq(TextByte)) /\ written \in Seq(Seq(TextByte))
  BY DEF LogInv, LogTyped
<1>2. /\ all \in Seq(Seq(TextByte)) /\ Len(all) = Len(lines) + 1 /\ all[Len(all)] = line
      /\ \A i \in 1 .. Len(lines) : all[i] = lines[i]
      /\ log \in Seq(Seq(TextByte)) /\ Len(log) = Len(written) + 1
      /\ \A i \in 1 .. Len(written) : log[i] = written[i]
      /\ Len(lines) \in Nat /\ Len(written) \in Nat
  BY <1>1
<1>3. /\ lines' = kept /\ written' = log
      /\ rendered' = SubSeq(rendered \o line, Cutoff(all) + 1, Len(rendered \o line))
      /\ bytes' = bytes + Len(line) - Cutoff(all)
  BY DEF AppendLine
<1>4. FlattenSeq(all) = rendered \o line /\ rendered = FlattenSeq(lines) /\ bytes = Len(rendered)
  <2>1. FlattenSeq(all) = FlattenSeq(lines) \o line
    BY <1>1, FlattenAppend
  <2>2. QED
    BY <2>1 DEF LogInv, TailInv
<1> HIDE DEF all, log
<1>5. /\ e \in 0 .. Len(all) - 1
      /\ Len(all) - e <= MAX_LOG_LINES
      /\ Len(FlattenSeq(kept)) <= MAX_LOG_BYTES
      /\ e # 0 => \/ ~(Len(all) - (e - 1) <= MAX_LOG_LINES)
                  \/ ~(Len(FlattenSeq(SubSeq(all, e, Len(all)))) <= MAX_LOG_BYTES)
  <2>1. Len(all) # 0 /\ Len(all[Len(all)]) <= MAX_LOG_BYTES
    BY <1>2
  <2>2. QED
    BY <1>2, <2>1, EvictedFits
<1>6. Cutoff(all) = Len(FlattenSeq(SubSeq(all, 1, e)))
  BY DEF Cutoff
<1> HIDE DEF e
<1>7. e \in Nat /\ e \in 0 .. Len(all) /\ e < Len(all) /\ Len(all) \in Nat
  BY <1>2, <1>5
<1>8. /\ kept \in Seq(Seq(TextByte)) /\ Len(kept) = Len(all) - e
      /\ \A i \in 1 .. Len(all) - e : kept[i] = all[e + i]
  BY <1>2, <1>7, EndOf
<1>9. rendered' = FlattenSeq(kept)
  <2>1. SubSeq(FlattenSeq(all), Len(FlattenSeq(SubSeq(all, 1, e))) + 1, Len(FlattenSeq(all)))
          = FlattenSeq(kept)
    BY <1>2, <1>7, TextCut
  <2>2. QED
    BY <1>3, <1>4, <1>6, <2>1
<1>10. bytes' = Len(rendered')
  <2> DEFINE a == SubSeq(all, 1, e)
  <2>1. a \in Seq(Seq(TextByte)) /\ all = a \o kept
    BY <1>2, <1>7, Split
  <2> HIDE DEF a, kept
  <2>2. FlattenSeq(all) = FlattenSeq(a) \o FlattenSeq(kept)
    BY <1>8, <2>1, FlattenConcat
  <2>3. FlattenSeq(a) \in Seq(TextByte) /\ FlattenSeq(kept) \in Seq(TextByte)
        /\ rendered \in Seq(TextByte)
    BY <1>1, <1>4, <1>8, <2>1, FlattenType
  <2>4. Len(FlattenSeq(all)) = Len(FlattenSeq(a)) + Len(FlattenSeq(kept))
        /\ Len(FlattenSeq(a)) \in Nat /\ Len(FlattenSeq(kept)) \in Nat
    BY <2>2, <2>3
  <2>5. Len(FlattenSeq(all)) = Len(rendered) + Len(line) /\ Len(rendered) \in Nat /\ Len(line) \in Nat
    BY <1>4, <2>3
  <2>6. bytes' = Len(rendered) + Len(line) - Len(FlattenSeq(a))
    BY <1>3, <1>4, <1>6 DEF a
  <2>7. QED
    BY <1>9, <2>4, <2>5, <2>6
<1>11. SameEnd(all, log)
  BY <1>1, SameEndAppend DEF LogInv, TailInv, all, log
<1>12. SameEnd(kept, log)
  BY <1>2, <1>7, <1>11, SameEndCut
<1>13. Longest(kept, log)
  <2> SUFFICES ASSUME Len(kept) < Len(log), Len(kept) # MAX_LOG_LINES
               PROVE  Len(FlattenSeq(kept)) + Len(log[Len(log) - Len(kept)]) > MAX_LOG_BYTES
    BY DEF Longest
  <2> HIDE DEF kept
  <2>1. MAX_LOG_LINES \in Nat /\ MAX_LOG_BYTES \in Nat
    BY LimitAssumption
  <2>2. CASE e = 0
    <3>1. Len(kept) = Len(lines) + 1 /\ Len(lines) < Len(written) /\ Len(lines) # MAX_LOG_LINES
      BY <1>2, <1>5, <1>8, <2>1, <2>2
    <3>2. Len(FlattenSeq(lines)) + Len(written[Len(written) - Len(lines)]) > MAX_LOG_BYTES
      BY <3>1 DEF LogInv, TailInv, Longest
    <3>3. Len(log) - Len(kept) = Len(written) - Len(lines)
          /\ Len(written) - Len(lines) \in 1 .. Len(written)
      BY <1>2, <3>1
    <3>4. log[Len(log) - Len(kept)] = written[Len(written) - Len(lines)]
      BY <1>2, <3>3
    <3>5. Len(FlattenSeq(kept)) = Len(FlattenSeq(lines)) + Len(line)
      <4>1. kept = all
        <5>1. \A i \in 1 .. Len(kept) : kept[i] = all[i]
          BY <1>8, <2>2
        <5>2. Len(kept) = Len(all)
          BY <1>7, <1>8, <2>2
        <5>3. QED
          BY <1>2, <1>8, <5>1, <5>2, SeqEqual
      <4>2. FlattenSeq(lines) \in Seq(TextByte)
        BY <1>1, FlattenType
      <4>3. QED
        BY <1>4, <4>1, <4>2
    <3>6. Len(line) \in Nat /\ Len(FlattenSeq(lines)) \in Nat
          /\ Len(written[Len(written) - Len(lines)]) \in Nat
      <4>1. FlattenSeq(lines) \in Seq(TextByte)
        BY <1>1, FlattenType
      <4>2. written[Len(written) - Len(lines)] \in Seq(TextByte)
        BY <1>1, <3>3
      <4>3. QED
        BY <4>1, <4>2
    <3> DEFINE f == Len(FlattenSeq(lines))
               w == Len(written[Len(written) - Len(lines)])
               k == Len(FlattenSeq(kept))
    <3>7. k = f + Len(line) /\ f + w > MAX_LOG_BYTES /\ f \in Nat /\ w \in Nat /\ Len(line) \in Nat
      BY <3>2, <3>5, <3>6
    <3>8. Len(log[Len(log) - Len(kept)]) = w
      BY <3>4
    <3> HIDE DEF f, w, k
    <3>9. k + w > MAX_LOG_BYTES
      BY <2>1, <3>7
    <3>10. QED
      BY <3>8, <3>9 DEF k
  <2>3. CASE e # 0
    <3>1. e \in 1 .. Len(all)
      BY <1>7, <2>3
    <3> DEFINE n == Len(all)
    <3>2. Len(all) - (e - 1) <= MAX_LOG_LINES
      <4>1. n \in Nat /\ e \in Nat /\ e < n /\ n - e <= MAX_LOG_LINES /\ n - e # MAX_LOG_LINES
        BY <1>5, <1>7, <1>8
      <4> HIDE DEF n
      <4>2. n - (e - 1) <= MAX_LOG_LINES
        BY <2>1, <4>1
      <4>3. QED
        BY <4>2 DEF n
    <3>3. ~(Len(FlattenSeq(SubSeq(all, e, Len(all)))) <= MAX_LOG_BYTES)
      BY <1>5, <2>3, <3>2
    <3>4. Len(FlattenSeq(SubSeq(all, e, Len(all)))) = Len(all[e]) + Len(FlattenSeq(kept))
          /\ all[e] \in Seq(TextByte) /\ FlattenSeq(kept) \in Seq(TextByte)
      BY <1>2, <3>1, OneMore DEF kept
    <3>5. all[e] = log[Len(log) - Len(kept)]
      <4>1. all[e] = log[Len(log) - Len(all) + e]
        BY <1>11, <3>1 DEF SameEnd
      <4>2. Len(log) - Len(all) + e = Len(log) - Len(kept)
        BY <1>2, <1>7, <1>8
      <4>3. QED
        BY <4>1, <4>2
    <3>6. Len(all[e]) \in Nat /\ Len(FlattenSeq(kept)) \in Nat
      BY <3>4
    <3>7. Len(all[e]) + Len(FlattenSeq(kept)) > MAX_LOG_BYTES
      BY <2>1, <3>3, <3>4, <3>6
    <3>8. QED
      BY <2>1, <3>5, <3>6, <3>7
  <2>4. QED
    BY <2>2, <2>3
<1>14. WholeInv'
  <2>1. ASSUME NEW i \in 1 .. Len(kept) PROVE WholeLine(kept[i])
    <3>1. e + i \in 1 .. Len(lines) + 1 /\ kept[i] = all[e + i] /\ i \in 1 .. Len(all) - e
      BY <1>2, <1>7, <1>8
    <3>2. CASE e + i = Len(lines) + 1
      BY <1>2, <3>1, <3>2
    <3>3. CASE e + i # Len(lines) + 1
      <4>1. e + i \in 1 .. Len(lines)
        BY <1>2, <1>7, <3>1, <3>3
      <4>2. QED
        BY <1>2, <3>1, <4>1 DEF LogInv, WholeInv
    <3>4. QED
      BY <3>2, <3>3
  <2>2. lines' = kept
    BY <1>3
  <2> HIDE DEF kept
  <2>3. QED
    BY <2>1, <2>2 DEF WholeInv
<1>15. TailInv'
  <2>1. /\ bytes' <= MAX_LOG_BYTES /\ Len(kept) <= MAX_LOG_LINES /\ Len(kept) # 0
    <3>1. bytes' <= MAX_LOG_BYTES
      BY <1>5, <1>9, <1>10
    <3> DEFINE n == Len(all)
    <3>2. n \in Nat /\ e < n /\ n - e <= MAX_LOG_LINES /\ Len(kept) = n - e
      BY <1>5, <1>7, <1>8
    <3> HIDE DEF n, kept
    <3>3. Len(kept) <= MAX_LOG_LINES /\ Len(kept) # 0
      BY <1>7, <3>2
    <3>4. QED
      BY <3>1, <3>3
  <2>2. lines' = kept /\ written' = log
    BY <1>3
  <2> HIDE DEF kept
  <2>3. QED
    BY <1>9, <1>10, <1>12, <1>13, <2>1, <2>2 DEF TailInv
<1>16. QED
  BY <1>2, <1>3, <1>8, <1>14, <1>15

\* The empty log satisfies the invariant.
LEMMA LogInvInit == LogInit => LogInv
<1> SUFFICES ASSUME LogInit PROVE LogInv
  OBVIOUS
<1>1. lines = <<>> /\ written = <<>> /\ rendered = <<>> /\ bytes = 0
      /\ fragment = <<>> /\ fragment_truncated = FALSE
  BY DEF LogInit
<1>2. Len(<<>>) = 0 /\ <<>> \in Seq(Seq(TextByte)) /\ <<>> \in Seq(Byte \ {"newline"})
  OBVIOUS
<1>3. LogTyped
  BY <1>1, <1>2 DEF LogTyped
<1>4. SameEnd(<<>>, <<>>) /\ Longest(<<>>, <<>>)
  BY <1>2 DEF SameEnd, Longest
<1>5. TailInv
  <2>1. 0 <= MAX_LOG_BYTES /\ 0 <= MAX_LOG_LINES
    BY LimitAssumption
  <2>2. QED
    BY <1>1, <1>2, <1>4, <2>1, FlattenEmpty DEF TailInv
<1>6. WholeInv
  BY <1>1, <1>2 DEF WholeInv
<1>7. QED
  BY <1>3, <1>5, <1>6 DEF LogInv

\* Every step keeps it: only a finished fragment changes the store.
LEMMA LogInvNext ==
  ASSUME LogInv, [LogNext]_logVars
  PROVE  LogInv'
<1> DEFINE storeSame == lines' = lines /\ written' = written /\ rendered' = rendered /\ bytes' = bytes
<1>1. ASSUME storeSame PROVE TailInv' /\ WholeInv'
           /\ lines' \in Seq(Seq(TextByte)) /\ written' \in Seq(Seq(TextByte))
  <2>1. TailInv'
    BY <1>1 DEF LogInv, TailInv
  <2>2. WholeInv'
    BY <1>1 DEF LogInv, WholeInv
  <2>3. QED
    BY <1>1, <2>1, <2>2 DEF LogInv, LogTyped
<1>2. ASSUME NEW b \in Byte, WriteByte(b) PROVE LogInv'
  <2>1. storeSame
    BY <1>2 DEF WriteByte, storeVars
  <2>2. fragment \in Seq(Byte \ {"newline"}) /\ b \in Byte \ {"newline"}
    BY <1>2 DEF WriteByte, LogInv, LogTyped
  <2>3. fragment' \in Seq(Byte \ {"newline"})
    <3>1. fragment' = fragment \/ fragment' = Append(fragment, b)
      BY <1>2 DEF WriteByte
    <3>2. QED
      BY <2>2, <3>1
  <2>4. fragment_truncated' \in BOOLEAN
    BY <1>2 DEF WriteByte, LogInv, LogTyped
  <2>5. QED
    BY <1>1, <2>1, <2>3, <2>4 DEF LogInv, LogTyped
<1>3. CASE FinishFragment
  <2> DEFINE raw == IF fragment # <<>> /\ Last(fragment) = "cr" THEN Front(fragment) ELSE fragment
             line == Render(raw, fragment_truncated)
  <2>1. fragment \in Seq(Byte \ {"newline"}) /\ fragment_truncated \in BOOLEAN
    BY DEF LogInv, LogTyped
  <2>2. raw \in Seq(Byte \ {"newline"})
    <3>1. CASE raw = fragment
      BY <2>1, <3>1
    <3>2. CASE raw = Front(fragment)
      <4>1. SubSeq(fragment, 1, Len(fragment) - 1) \in Seq(Byte \ {"newline"})
        BY <2>1
      <4> HIDE DEF raw
      <4>2. QED
        BY <3>2, <4>1 DEF Front
    <3>3. QED
      BY <3>1, <3>2
  <2>3. AppendLine(line) /\ fragment' = <<>> /\ fragment_truncated' = FALSE
    BY <1>3 DEF FinishFragment
  <2> HIDE DEF raw
  <2>4. line \in Seq(TextByte) /\ WholeLine(line) /\ Len(line) \in 1 .. MAX_LOG_BYTES
    BY <2>1, <2>2, RenderWhole
  <2> HIDE DEF line
  <2>5. /\ lines' \in Seq(Seq(TextByte)) /\ written' \in Seq(Seq(TextByte))
        /\ TailInv' /\ WholeInv'
    BY <2>3, <2>4, AppendLineKeeps
  <2>6. <<>> \in Seq(Byte \ {"newline"})
    OBVIOUS
  <2>7. LogTyped'
    BY <2>3, <2>5, <2>6 DEF LogTyped
  <2>8. QED
    BY <2>5, <2>7 DEF LogInv
<1>4. CASE Draw \/ UNCHANGED logVars
  <2>1. storeSame /\ fragment' = fragment /\ fragment_truncated' = fragment_truncated
    BY <1>4 DEF Draw, LookAtRevision, TakeSnapshot, logVars, writerVars, storeVars
  <2>2. QED
    BY <1>1, <2>1 DEF LogInv, LogTyped
<1>5. QED
  BY <1>2, <1>3, <1>4 DEF LogNext

\* The invariant holds of every behaviour.
LEMMA LogInvariance == LogSpec => []LogInv
<1>1. LogInv /\ [LogNext]_logVars => LogInv'
  BY LogInvNext
<1>2. QED
  BY <1>1, LogInvInit, PTL DEF LogSpec

\* The text of the Logs window is the longest tail of the log that keeps both limits, for any
\* limits, any marker that fits and any number of lines (append_rendered_line).
THEOREM TailCorrect == LogSpec => []LongestTailKept
<1>1. LogInv => LongestTailKept
  <2> SUFFICES ASSUME LogInv PROVE LongestTailKept
    OBVIOUS
  <2>1. /\ lines \in Seq(Seq(TextByte)) /\ written \in Seq(Seq(TextByte)) /\ TailInv
        /\ Len(lines) \in Nat /\ Len(written) \in Nat
    BY DEF LogInv, LogTyped
  <2>2. IsSuffix(lines, written)
    BY <2>1, SuffixElements DEF TailInv, SameEnd
  <2>3. written # <<>> => lines # <<>>
    BY <2>1 DEF TailInv
  <2>4. Len(lines) < Len(written) =>
          \/ Len(lines) = MAX_LOG_LINES
          \/ bytes + Len(written[Len(written) - Len(lines)]) > MAX_LOG_BYTES
    BY <2>1 DEF TailInv, Longest
  <2>5. QED
    BY <2>1, <2>2, <2>3, <2>4 DEF TailInv, LongestTailKept
<1>2. QED
  BY <1>1, LogInvariance, PTL

\* No line of it is cut in the middle of a character or loses its newline (render_line,
\* utf8_prefix), for any limits.
THEOREM WholeCorrect == LogSpec => []LinesAreWhole
<1>1. LogInv => LinesAreWhole
  <2> SUFFICES ASSUME LogInv, NEW i \in DOMAIN lines
               PROVE  /\ \A n \in DOMAIN lines[i] :
                           (lines[i][n] = "newline") = (n = Len(lines[i]))
                      /\ WholeCharacters(lines[i])
    BY DEF LinesAreWhole
  <2>1. lines[i] \in Seq(TextByte) /\ WholeLine(lines[i])
    <3>1. lines \in Seq(Seq(TextByte)) /\ \A k \in 1 .. Len(lines) : WholeLine(lines[k])
      BY DEF LogInv, LogTyped, WholeInv
    <3>2. i \in 1 .. Len(lines)
      BY <3>1
    <3>3. QED
      BY <3>1, <3>2
  <2>2. PICK line \in Seq(TextByte) : line = lines[i] /\ WholeLine(line)
    BY <2>1
  <2>3. PICK text : Whole(text) /\ line = text \o Newline
    BY <2>2 DEF WholeLine
  <2>4. /\ text \in Seq(TextByte) /\ Len(text) \in Nat /\ Len(line) = Len(text) + 1
        /\ DOMAIN line = 1 .. Len(line)
    BY <2>2, <2>3, LineOfText DEF Whole
  <2>5. line[Len(line)] = "newline" /\ \A n \in 1 .. Len(text) : line[n] = text[n]
    <3>1. Newline \in Seq(TextByte) /\ Len(Newline) = 1 /\ Newline[1] = "newline"
      BY DEF Newline, TextByte, Byte
    <3>2. (text \o Newline)[Len(text) + 1] = Newline[1]
      <4>1. /\ Len(text) + 1 \in 1 .. Len(text) + Len(Newline) /\ ~(Len(text) + 1 <= Len(text))
            /\ Len(text) + 1 - Len(text) = 1
        BY <2>4, <3>1
      <4>2. \A n \in 1 .. Len(text) + Len(Newline) :
              (text \o Newline)[n] = IF n <= Len(text) THEN text[n] ELSE Newline[n - Len(text)]
        BY <2>4, <3>1, ConcatProperties
      <4>3. QED
        BY <4>1, <4>2
    <3>3. ASSUME NEW n \in 1 .. Len(text) PROVE (text \o Newline)[n] = text[n]
      <4>1. n \in 1 .. Len(text) + Len(Newline) /\ n <= Len(text)
        BY <2>4, <3>1
      <4>2. QED
        BY <2>4, <3>1, <4>1, ConcatProperties
    <3>4. QED
      BY <2>3, <2>4, <3>1, <3>2, <3>3
  <2>6. ASSUME NEW n \in DOMAIN line PROVE (line[n] = "newline") = (n = Len(line))
    <3>1. CASE n = Len(line)
      BY <2>5, <3>1
    <3>2. CASE n # Len(line)
      <4>1. n \in 1 .. Len(text)
        BY <2>4, <3>2
      <4>2. line[n] # "newline"
        BY <2>3, <2>5, <4>1 DEF Whole
      <4>3. QED
        BY <3>2, <4>2
    <3>3. QED
      BY <3>1, <3>2
  <2>7. ASSUME NEW n \in DOMAIN line, line[n] = "lead"
        PROVE  n + 2 <= Len(line) /\ SubSeq(line, n, n + 2) = Replacement
    <3>1. n \in 1 .. Len(text)
      <4>1. n # Len(line)
        BY <2>5, <2>7
      <4>2. QED
        BY <2>4, <4>1
    <3>2. n + 2 <= Len(text) /\ text[n + 1] = "continuation" /\ text[n + 2] = "continuation"
      BY <2>3, <2>5, <2>7, <3>1 DEF Whole
    <3>3. n + 1 \in 1 .. Len(text) /\ n + 2 \in 1 .. Len(text) /\ n + 2 <= Len(line) /\ n \in Nat
      BY <2>4, <3>1, <3>2
    <3>4. line[n + 1] = "continuation" /\ line[n + 2] = "continuation"
      BY <2>5, <3>2, <3>3
    <3> DEFINE three == SubSeq(line, n, n + 2)
    <3>5. /\ three \in Seq(TextByte) /\ Len(three) = 3
          /\ three[1] = line[n] /\ three[2] = line[n + 1] /\ three[3] = line[n + 2]
      BY <2>2, <2>4, <3>3
    <3>6. Replacement \in Seq(TextByte) /\ Len(Replacement) = 3 /\ Replacement[1] = "lead"
          /\ Replacement[2] = "continuation" /\ Replacement[3] = "continuation"
      BY DEF Replacement, TextByte
    <3> HIDE DEF three
    <3>7. \A k \in 1 .. Len(three) : three[k] = Replacement[k]
      <4>1. \A k \in 1 .. Len(three) : k = 1 \/ k = 2 \/ k = 3
        BY <3>5
      <4>2. QED
        BY <2>7, <3>4, <3>5, <3>6, <4>1
    <3>8. three = Replacement
      BY <3>5, <3>6, <3>7, SeqEqual
    <3>9. QED
      BY <3>3, <3>8 DEF three
  <2>8. WholeCharacters(line)
    BY <2>7 DEF WholeCharacters
  <2>9. QED
    BY <2>2, <2>6, <2>8
<1>2. QED
  BY <1>1, LogInvariance, PTL
================================================================================
