---------------------------- MODULE GameConnection ----------------------------
(***************************************************************************)
(* The game connection page (companion/src/app.rs): the log path in its     *)
(* field, the detection that may fill it, and the listener that tails a     *)
(* path.  The field, the status of the last detection, the error of the     *)
(* last start and the listener are set at different times, by the start of  *)
(* the application, the two buttons, the keyboard and a reset.              *)
(*                                                                          *)
(* A detection runs within a step of the page's thread, a step of           *)
(* PathDetection at a time, while the game writes its logs.                 *)
(***************************************************************************)
EXTENDS PathDetection

CONSTANT Typed    \* what a user types into the field, or an earlier version saved

\* The text of the field: the path of a log or only blanks, and blanks around it.
Text == [log : Nat \cup {None}, padded : BOOLEAN]
Empty == [log |-> None, padded |-> FALSE]
Trimmed(text) == [text EXCEPT !.padded = FALSE]

ASSUME TypedAssumption ==
  Typed \subseteq Text /\ None \notin {"load", "startup", "manual", "empty", "start"}

VARIABLES
  log_path,
  context,                 \* "load" at the start, "startup" or "manual" during a detection
  log_detection_status,    \* "found", "not_created", "failed" or None
  listener_action_error,   \* "empty", "start" or None
  listener,                \* the path a worker tails, or None
  edited                   \* history: the field was edited since it was last acted upon

pageVars == <<log_path, context, log_detection_status, listener_action_error, listener, edited>>
connectionVars == <<vars, pageVars>>

--------------------------------------------------------------------------------
(* start_listener_at, and the listener's own start. *)

\* A listener that runs is kept, whatever it tails.
KeepsRunning(path) == listener # None

\* A start that finds its path tailed already does nothing; any other stops the listener.
AlreadyTails(path) == listener = path

StartListenerAt(path) ==
  \/ /\ AlreadyTails(path)
     /\ listener_action_error' = None
     /\ UNCHANGED listener
  \/ /\ ~AlreadyTails(path)
     /\ listener' = path
     /\ listener_action_error' = None
  \/ /\ ~AlreadyTails(path)
     /\ listener' = None
     /\ listener_action_error' = "start"

\* start_configured_listener
StartConfiguredListener ==
  /\ IF log_path.log = None
     THEN listener_action_error' = "empty" /\ UNCHANGED listener
     ELSE StartListenerAt(log_path.log)
  /\ edited' = FALSE

--------------------------------------------------------------------------------
(* initialize_log_listener, when the application is loaded. *)

\* A path that was saved is taken without a detection.
ResumeSaved ==
  /\ context = "load"
  /\ log_path.log # None
  /\ log_path' = Trimmed(log_path)
  /\ StartConfiguredListener
  /\ context' = None
  /\ UNCHANGED <<vars, log_detection_status>>

DetectAtStartup ==
  /\ context = "load"
  /\ log_path.log = None
  /\ context' = "startup"
  /\ listener' = None
  /\ listener_action_error' = None
  /\ UNCHANGED <<vars, log_path, log_detection_status, edited>>

--------------------------------------------------------------------------------
(* A detection and what is made of its result. *)

\* auto_detect_log_path
AutoDetect ==
  /\ context = None
  /\ context' = "manual"
  /\ listener_action_error' = None
  /\ UNCHANGED <<vars, log_path, log_detection_status, listener, edited>>

DetectStep ==
  /\ context \in {"startup", "manual"}
  /\ Detect
  /\ UNCHANGED pageVars

\* The next detection starts afresh.
Forget ==
  /\ pc' = "start"
  /\ roots' = <<>> /\ libraries' = <<>>
  /\ readable_root_found' = FALSE /\ manifest_found' = FALSE
  /\ first_unreadable' = FALSE /\ first_malformed' = FALSE
  /\ candidates' = <<>> /\ invalid_installs' = <<>> /\ named' = <<>>
  /\ result' = None
  /\ UNCHANGED <<systemVars, install>>

\* apply_log_detection_with_context, of a path.
ApplyFound ==
  /\ pc = "done"
  /\ result.kind \in {"ready", "not_created"}
  /\ \E path \in result.paths :
       /\ log_path' = [log |-> path, padded |-> FALSE]
       /\ StartListenerAt(path)
  /\ log_detection_status' = IF listener_action_error' # None THEN "failed"
                             ELSE IF result.kind = "ready" THEN "found" ELSE "not_created"
  /\ edited' = FALSE
  /\ context' = None
  /\ Forget

\* apply_log_detection_with_context, of an error: only at the start is anything undone.
ApplyError ==
  /\ pc = "done"
  /\ result.kind \notin {"ready", "not_created"}
  /\ log_detection_status' = "failed"
  /\ \/ /\ context = "startup"
        /\ log_path' = Empty
        /\ listener' = None
     \/ /\ context = "manual"
        /\ UNCHANGED <<log_path, listener>>
  /\ context' = None
  /\ UNCHANGED <<listener_action_error, edited>>
  /\ Forget

--------------------------------------------------------------------------------
(* draw_game_connection, and reset_saved_state. *)

StartFromInput ==
  /\ context = None
  /\ StartConfiguredListener
  /\ UNCHANGED <<vars, log_path, context, log_detection_status>>

EditLogPath ==
  /\ context = None
  /\ log_path' \in Typed \ {log_path}
  /\ edited' = TRUE
  /\ UNCHANGED <<vars, context, log_detection_status, listener_action_error, listener>>

ResetSavedState ==
  /\ context = None
  /\ log_path' = Empty
  /\ listener' = None
  /\ listener_action_error' = None
  /\ log_detection_status' = None
  /\ edited' = FALSE
  /\ UNCHANGED <<vars, context>>

--------------------------------------------------------------------------------

ConnectionInit ==
  /\ Init
  /\ log_path \in Typed \cup {Empty}
  /\ context = "load"
  /\ log_detection_status = None
  /\ listener_action_error = None
  /\ listener = None
  /\ edited = FALSE

ConnectionNext ==
  \/ ResumeSaved \/ DetectAtStartup
  \/ AutoDetect \/ DetectStep \/ ApplyFound \/ ApplyError
  \/ StartFromInput \/ EditLogPath \/ ResetSavedState
  \/ \E i \in Install : LogChanges(i) /\ UNCHANGED pageVars

ConnectionSpec == ConnectionInit /\ [][ConnectionNext]_connectionVars

--------------------------------------------------------------------------------
(* Correctness, besides what PathDetection promises. *)

\* A page without an error, whose field was not touched since a button was pressed, shows
\* the path that is being tailed: also when a detection or a start failed before, when the
\* field held blanks, and when another path was tailed until then.
ShownIsTailed ==
  context = None /\ ~edited /\ listener_action_error = None /\ log_detection_status # "failed"
    => listener = log_path.log
================================================================================
