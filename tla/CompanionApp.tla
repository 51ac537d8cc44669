----------------------------- MODULE CompanionApp -----------------------------
(***************************************************************************)
(* CompanionApp (companion/src/app.rs): the frames that drive the saved     *)
(* settings of Persistence and the check of VersionCheck.  egui draws a     *)
(* frame when the user does something or when a repaint that was asked for  *)
(* is due, and never otherwise: what is saved or noticed at last depends on *)
(* what each frame asks for.                                                *)
(*                                                                          *)
(* A frame is a sequence of steps on one thread; the thread of the check,   *)
(* the clock, the file system and the end of the process come between them. *)
(***************************************************************************)
EXTENDS Persistence, VersionCheck

CONSTANTS
  CheckRepaint,       \* the repaint asked for while a check is under way, in ticks
  Observed            \* what the listener may report of the mod

ASSUME AppAssumption == CheckRepaint \in Nat \ {0} /\ Observed \subseteq Observation

VARIABLES
  frame,              \* the next step of the frame, "idle" between frames, "load" before the first
  wake,               \* ticks to the next repaint that was asked for, or None
  reset_confirmation

appVars == <<vars, checkVars, frame, wake, reset_confirmation>>

--------------------------------------------------------------------------------
(* The start: load_with_context. *)

\* What a process held of the check and of its frames is gone with it.
Unload ==
  /\ completion' = "none" /\ answer' = NoAnswer /\ check_state' = Checking
  /\ version_warnings' = NoWarnings
  /\ frame' = "load"
  /\ wake' = None
  /\ reset_confirmation' = FALSE

Load ==
  /\ Open \/ OpenInvalid \/ OpenUnreadable \/ OpenUnavailable
  /\ UNCHANGED <<checkVars, frame, wake, reset_confirmation>>

\* initialize_log_listener may put the path it finds into the settings, before any frame
\* has seen them; then the first check starts.
LoadWithContext ==
  /\ running
  /\ frame = "load"
  /\ Edit \/ UNCHANGED vars
  /\ CheckStarts
  /\ frame' = "idle"
  /\ wake' = 0
  /\ UNCHANGED <<version_warnings, reset_confirmation>>

--------------------------------------------------------------------------------
(* One frame: draw. *)

\* The user, or a repaint, begins a frame; requests made from now on are for the next.
BeginFrame ==
  /\ running
  /\ frame = "idle"
  /\ Poll
  /\ \E observation \in Observed :
       version_warnings' = SelectWarnings(observation, Remote(check_state'))
  /\ frame' = "menu"
  /\ wake' = None
  /\ UNCHANGED <<vars, reset_confirmation>>

\* draw_menu: nothing, a new check, or the question whether to reset, unless busy.
DrawMenu ==
  /\ running
  /\ frame = "menu"
  /\ \/ UNCHANGED <<completion, answer, check_state, reset_confirmation>>
     \/ CheckStarts /\ UNCHANGED reset_confirmation
     \/ reset_confirmation' = TRUE /\ UNCHANGED <<completion, answer, check_state>>
  /\ frame' = "page"
  /\ UNCHANGED <<vars, version_warnings, wake>>

\* AppState::draw changes the settings, or does not.
DrawPage ==
  /\ running
  /\ frame = "page"
  /\ Edit \/ UNCHANGED vars
  /\ frame' = "dialog"
  /\ UNCHANGED <<checkVars, wake, reset_confirmation>>

\* draw_reset_confirmation: it is cancelled, confirmed unless busy, or left open.
DrawResetConfirmation ==
  /\ running
  /\ frame = "dialog"
  /\ \/ UNCHANGED <<vars, reset_confirmation>>
     \/ reset_confirmation /\ Reset /\ reset_confirmation' = FALSE
     \/ reset_confirmation /\ UNCHANGED vars /\ reset_confirmation' = FALSE
  /\ frame' = "observe"
  /\ UNCHANGED <<checkVars, wake>>

Earlier(a, b) == IF a = None THEN b ELSE IF b = None \/ a < b THEN a ELSE b

\* The end of a frame that asks for no repaint for the check.
RepaintForSettings(delay) == Earlier(wake, delay)

\* The end of a frame that asks for no repaint for the settings.
RepaintForCheck(delay) == IF IsChecking THEN Earlier(wake, CheckRepaint) ELSE wake

\* The end of draw: the next repaint, for the deadline of observe and for the check.
Repaint(delay) == Earlier(Earlier(wake, delay), IF IsChecking THEN CheckRepaint ELSE None)

Observe ==
  /\ frame = "observe"
  /\ Frame
  /\ frame' = "idle"
  /\ wake' = Repaint(deadline')
  /\ UNCHANGED <<checkVars, reset_confirmation>>

DrawStep == DrawMenu \/ DrawPage \/ DrawResetConfirmation \/ Observe

--------------------------------------------------------------------------------
(* Between and during the frames. *)

\* The thread of the check asks for a repaint once it has answered, and for none when it
\* panics.
CheckAnswers ==
  /\ running
  /\ ThreadAnswers
  /\ wake' = 0
  /\ UNCHANGED <<vars, frame, reset_confirmation>>

CheckPanics ==
  /\ running
  /\ ThreadPanics
  /\ UNCHANGED <<vars, frame, wake, reset_confirmation>>

\* One tick less, of a timer that is set and not due.
Less(timer) == IF timer \in {None, 0} THEN timer ELSE timer - 1

\* Time passes, also during a frame.
Elapses ==
  /\ running
  /\ deadline \notin {None, 0} \/ wake \notin {None, 0}
  /\ Tick \/ (deadline \in {None, 0} /\ UNCHANGED vars)
  /\ wake' = Less(wake)
  /\ UNCHANGED <<checkVars, frame, reset_confirmation>>

\* on_exit, between two frames.
OnExit ==
  /\ frame = "idle"
  /\ Exit
  /\ Unload

Dies == Crash /\ Unload

DiskChanges == WritableChanges /\ UNCHANGED <<checkVars, frame, wake, reset_confirmation>>

AppInit ==
  /\ Init
  /\ completion = "none" /\ answer = NoAnswer /\ check_state = Checking
  /\ version_warnings = NoWarnings
  /\ frame = "load" /\ wake = None
  /\ reset_confirmation = FALSE

AppNext ==
  \/ Load \/ LoadWithContext \/ BeginFrame \/ DrawStep
  \/ CheckAnswers \/ CheckPanics \/ Elapses \/ OnExit \/ Dies \/ DiskChanges

AppSpec == AppInit /\ [][AppNext]_appVars

\* A frame that is due is drawn and ends, time passes, and the request of a check times out
\* at the latest; the user need not do anything.
AppFairSpec ==
  /\ AppSpec
  /\ WF_appVars(LoadWithContext)
  /\ WF_appVars(BeginFrame /\ wake = 0)
  /\ WF_appVars(DrawStep)
  /\ WF_appVars(CheckAnswers \/ CheckPanics)
  /\ WF_appVars(Elapses)

--------------------------------------------------------------------------------
(* Correctness, besides what Persistence promises. *)

\* A check under way ends, also when its thread panics and asks for no frame: the page
\* does not say for ever that it is checking, and the next check can start.
CheckEnds == running /\ (IsChecking \/ check_state = Checking) ~> ~running \/ ~IsChecking

\* From the poll to the menu of a frame, the notice that the companion is outdated and
\* the menu's word on the latest release agree, and no reason to complain about the mod's
\* version hides another one.
NoticesAgree ==
  frame = "menu" =>
    /\ "outdated" \in Notices(version_warnings) <=> check_state.kind = "update_available"
    /\ version_warnings.mod_unsupported # NoVersion =>
         ~version_warnings.mod_legacy /\ ~version_warnings.mod_invalid
    /\ ~(version_warnings.mod_legacy /\ version_warnings.mod_invalid)
================================================================================
