----------------------------- MODULE VersionCheck -----------------------------
(***************************************************************************)
(* The version check (companion/src/version_check.rs): one thread asks for  *)
(* the latest release and answers once over a channel, which the frames     *)
(* poll; and the notices chosen from its answer and from what the mod       *)
(* reports.  The actions are taken by the frames of CompanionApp.           *)
(***************************************************************************)
EXTENDS Naturals

CONSTANTS
  Version,                  \* semantic versions
  Rank,                     \* their precedence, which ignores the build metadata
  app_version,
  supported_mod_versions,   \* the versions the requirement matches
  Reply,                    \* what may come of a request
  Unparsable, NoVersion

\* How far a request came: it was sent, its status, its body, its tag.
Tag == [prefixed : BOOLEAN, long : BOOLEAN, version : Version \cup {Unparsable}]
AnyReply == [sent    : {"ok", "timeout", "connect", "request"},
             success : BOOLEAN,
             body    : {"release", "no_tag", "no_json", "oversized", "broken"},
             tag     : Tag]

ASSUME VersionAssumption ==
  /\ Rank \in [Version -> Nat]
  /\ app_version \in Version
  /\ supported_mod_versions \subseteq Version
  /\ Reply \subseteq AnyReply
  /\ Unparsable \notin Version /\ NoVersion \notin Version \cup {Unparsable}

VARIABLES
  completion,        \* "none", the channel of a thread that is "asking" or "gone", or its "answer"
  answer,            \* the answer in the channel
  check_state,       \* VersionCheckState
  version_warnings

checkVars == <<completion, answer, check_state, version_warnings>>

--------------------------------------------------------------------------------
(* The request. *)

Latest(version) == [latest |-> version, failure |-> "none"]
Failed(category) == [latest |-> NoVersion, failure |-> category]
NoAnswer == Failed("none")

\* normalize_release_tag
NormalizeReleaseTag(tag) ==
  IF tag.prefixed /\ ~tag.long /\ tag.version # Unparsable
  THEN Latest(tag.version)
  ELSE Failed("invalid_tag")

\* read_bounded_body and the decoding of what it read.
ReadRelease(reply) ==
  CASE reply.body = "broken"    -> Failed("body_read")
    [] reply.body = "oversized" -> Failed("oversized_response")
    [] reply.body = "no_json"   -> Failed("malformed_response")
    [] reply.body = "no_tag"    -> Failed("missing_tag")
    [] reply.body = "release"   -> NormalizeReleaseTag(reply.tag)

\* check_latest_release_with
CheckLatestRelease(reply) ==
  CASE reply.sent # "ok" -> Failed(reply.sent)
    [] reply.sent = "ok" /\ ~reply.success -> Failed("http_status")
    [] reply.sent = "ok" /\ reply.success -> ReadRelease(reply)

--------------------------------------------------------------------------------
(* VersionCheckOwner. *)

IsOlder(left, right) == Rank[left] < Rank[right]

Checking == [kind |-> "checking", latest |-> NoVersion, reason |-> "none"]
Unavailable(reason) == [kind |-> "unavailable", latest |-> NoVersion, reason |-> reason]

\* The state of an answer.
Known(latest) ==
  [kind |-> IF IsOlder(app_version, latest) THEN "update_available" ELSE "current",
   latest |-> latest, reason |-> "none"]

IsChecking == completion # "none"

\* start: nothing while a check is under way; the thread may not come up.
CheckStarts ==
  /\ ~IsChecking
  /\ \/ completion' = "asking" /\ check_state' = Checking
     \/ completion' = "none" /\ check_state' = Unavailable("spawn")
  /\ answer' = NoAnswer

\* The thread's last steps: it answers, or it panics; a client that could not be
\* built answers too.
ThreadAnswers ==
  /\ completion = "asking"
  /\ completion' = "answer"
  /\ \/ \E reply \in Reply : answer' = CheckLatestRelease(reply)
     \/ answer' = Failed("client")
  /\ UNCHANGED <<check_state, version_warnings>>

ThreadPanics ==
  /\ completion = "asking"
  /\ completion' = "gone"
  /\ UNCHANGED <<answer, check_state, version_warnings>>

\* poll
Poll ==
  IF completion \in {"answer", "gone"}
  THEN /\ completion' = "none"
       /\ answer' = NoAnswer
       /\ check_state' = CASE completion = "gone" -> Unavailable("client")
                           [] completion = "answer" /\ answer.failure # "none" ->
                                Unavailable(answer.failure)
                           [] completion = "answer" /\ answer.failure = "none" ->
                                Known(answer.latest)
  ELSE UNCHANGED <<completion, answer, check_state>>

--------------------------------------------------------------------------------
(* The notices. *)

\* ModVersionObservation, with the text it reports as parsed or not.
Observation == [kind : {"unknown", "legacy", "invalid"}, version : {NoVersion}]
                 \cup [kind : {"reported"}, version : Version \cup {Unparsable}]

\* The release that CompanionApp::draw compares with.
Remote(state) == IF state.kind \in {"current", "update_available"} THEN state.latest ELSE NoVersion

\* select_warnings
SelectWarnings(observation, remote) ==
  [companion_outdated |->
     IF remote # NoVersion /\ IsOlder(app_version, remote) THEN remote ELSE NoVersion,
   mod_unsupported |->
     IF observation.version \in Version \ supported_mod_versions THEN observation.version
     ELSE NoVersion,
   mod_legacy |-> observation.kind = "legacy",
   mod_invalid |-> observation.kind = "invalid" \/ observation.version = Unparsable]

\* draw_update_panel: what it tells the user.
Notices(warnings) ==
  (IF warnings.companion_outdated # NoVersion THEN {"outdated"} ELSE {})
    \cup CASE warnings.mod_unsupported # NoVersion -> {"unsupported"}
           [] warnings.mod_unsupported = NoVersion /\ warnings.mod_legacy -> {"legacy"}
           [] warnings.mod_unsupported = NoVersion /\ ~warnings.mod_legacy
                /\ warnings.mod_invalid -> {"invalid"}
           [] OTHER -> {}

NoWarnings == SelectWarnings([kind |-> "unknown", version |-> NoVersion], NoVersion)
================================================================================
