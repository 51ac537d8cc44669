------------------------------ MODULE PathDetection ------------------------------
(***************************************************************************)
(* How the companion finds the game's console log (deadlock_path.rs): the   *)
(* Steam roots list libraries, a library may hold the game, and the install *)
(* with the newest log is taken, while the game writes its logs.            *)
(*                                                                          *)
(* A path is a number, so that paths are sorted; two paths may lead to the  *)
(* same place (links).  The path of an install and of its log is that of    *)
(* the library it was found through.                                        *)
(***************************************************************************)
EXTENDS Naturals, Sequences, FiniteSets, Functions

CONSTANTS
  RootList,         \* sequences of root paths the platform may name
  Place,            \* functions from paths to the places they lead to
  RootSystem,       \* what may be found at the places of roots
  LibrarySystem,    \* what may be found at the places of libraries
  Install,          \* the installs of the game
  InstallState,     \* what may be found in an install at first
  MaxTime,          \* bound of the model: modification times
  Missing, Unreadable, Unlisted, Malformed, NoApp, Invalid, None

\* At a root: no such path, nothing that is a Steam directory, one whose libraries cannot
\* be read or do not parse, or the sequence of its libraries.
RootFailure == {Missing, Unreadable, Unlisted, Malformed}
\* At a library: nothing readable, no manifest of the game, one that is malformed or whose
\* install directory is not safe, or an install.
\* In an install: no game or a log that is no file, something that cannot be inspected, no
\* log, or the modification time of the log.
InstallFailure == {Invalid, Unreadable}
NoLog == 0

ASSUME InstallAssumption ==
  /\ MaxTime \in Nat
  /\ InstallState \subseteq [Install -> InstallFailure \cup (0 .. MaxTime)]
  /\ {Missing, Unreadable, Unlisted, Malformed, NoApp, Invalid, None} \cap Install = {}
  /\ None \notin InstallFailure /\ \A other \in InstallFailure \cup {None} : other \notin Nat

\* Paths lead to roots and to libraries, and what is found there is as said above.
ASSUME SystemAssumption ==
  \A placeOf \in Place, rootAt \in RootSystem, libraryAt \in LibrarySystem :
    /\ DOMAIN placeOf \subseteq Nat
    /\ RootList \subseteq Seq({path \in DOMAIN placeOf : placeOf[path] \in DOMAIN rootAt})
    /\ \A x \in DOMAIN rootAt :
         rootAt[x] \in RootFailure
                        \cup Seq({path \in DOMAIN placeOf : placeOf[path] \in DOMAIN libraryAt})
    /\ \A x \in DOMAIN libraryAt : libraryAt[x] \in {Unreadable, NoApp, Malformed} \cup Install

VARIABLES
  place, root, library,    \* the file system, up to the installs
  install,                \* what the installs are now
  pc, roots, libraries,   \* the loops: what is left of them
  named,                  \* history: the roots the platform named
  readable_root_found, first_unreadable, first_malformed, manifest_found,
  candidates, invalid_installs,
  result

systemVars == <<place, root, library>>
foundVars == <<readable_root_found, first_unreadable, first_malformed, manifest_found,
               candidates, invalid_installs>>
vars == <<systemVars, install, pc, roots, libraries, named, foundVars, result>>

--------------------------------------------------------------------------------
(* Paths. *)

Sorted(numbers) ==
  CHOOSE s \in [1 .. Cardinality(numbers) -> numbers] :
    \A i, j \in DOMAIN s : i < j => s[i] < s[j]

\* deduplicate_paths: the first path to each place, sorted.
Deduplicate(paths, placeOf) ==
  Sorted({paths[i] : i \in {j \in DOMAIN paths :
            \A k \in 1 .. j - 1 : placeOf[paths[k]] # placeOf[paths[j]]}})

InstallOf(path) == library[place[path]]
InstallPlace ==
  [path \in DOMAIN place |-> IF place[path] \in DOMAIN library THEN InstallOf(path) ELSE None]

\* The later sighting of the same log is dropped.
DeduplicateFirst(found) ==
  {found[i] : i \in {j \in DOMAIN found :
     \A k \in 1 .. j - 1 : InstallOf(found[k].path) # InstallOf(found[j].path)}}

\* deduplicate_candidates: of one log the first path, and the latest time it was seen with.
DeduplicateCandidates(found) ==
  {[path |-> found[i].path,
    modified |-> CHOOSE t \in 0 .. MaxTime :
      /\ \E k \in DOMAIN found : InstallOf(found[k].path) = InstallOf(found[i].path)
                                 /\ found[k].modified = t
      /\ \A k \in DOMAIN found : InstallOf(found[k].path) = InstallOf(found[i].path)
                                 => found[k].modified <= t]
   : i \in {j \in DOMAIN found :
       \A k \in 1 .. j - 1 : InstallOf(found[k].path) # InstallOf(found[j].path)}}

--------------------------------------------------------------------------------
(* detect and detect_in_roots. *)

Paths(kind, paths) == [kind |-> kind, paths |-> paths]

\* platform_steam_roots finds no root, and why is all there is to say.
PlatformFails ==
  /\ pc = "start"
  /\ pc' = "done"
  /\ \E kind \in {"unsupported", "unreadable", "steam_not_found"} : result' = Paths(kind, {})
  /\ UNCHANGED <<systemVars, install, roots, libraries, named, foundVars>>

\* The roots are deduplicated, here once and not first for the platform.
Start ==
  /\ pc = "start"
  /\ named' \in RootList
  /\ roots' = Deduplicate(named', place)
  /\ IF named' = <<>>
     THEN pc' = "done" /\ result' = Paths("steam_not_found", {})
     ELSE pc' = "roots" /\ UNCHANGED result
  /\ UNCHANGED <<systemVars, install, libraries, foundVars>>

\* One root.
ReadRoot ==
  /\ pc = "roots"
  /\ roots # <<>>
  /\ roots' = Tail(roots)
  /\ LET found == root[place[Head(roots)]]
     IN  /\ readable_root_found' = (readable_root_found \/ found \notin {Missing, Unreadable})
         /\ first_unreadable' = (first_unreadable \/ found \in {Unreadable, Unlisted})
         /\ first_malformed' = (first_malformed \/ found = Malformed)
         /\ libraries' = IF found \in RootFailure THEN libraries ELSE libraries \o found
  /\ UNCHANGED <<systemVars, install, pc, named, manifest_found, candidates, invalid_installs, result>>

\* All roots are read.
RootsRead ==
  /\ pc = "roots"
  /\ roots = <<>>
  /\ IF readable_root_found
     THEN /\ pc' = "libraries"
          /\ libraries' = Deduplicate(libraries, place)
          /\ UNCHANGED result
     ELSE /\ pc' = "done"
          /\ result' = Paths(IF first_unreadable THEN "unreadable" ELSE "steam_not_found", {})
          /\ UNCHANGED libraries
  /\ UNCHANGED <<systemVars, install, roots, named, foundVars>>

\* One library, its manifest and the install it names.
ReadLibrary ==
  /\ pc = "libraries"
  /\ libraries # <<>>
  /\ libraries' = Tail(libraries)
  /\ LET path == Head(libraries)
         found == InstallOf(path)
         state == IF found \in Install THEN install[found] ELSE None
     IN  /\ manifest_found' = (manifest_found \/ found \notin {Unreadable, NoApp})
         /\ first_unreadable' = (first_unreadable \/ found = Unreadable \/ state = Unreadable)
         /\ first_malformed' = (first_malformed \/ found = Malformed)
         /\ invalid_installs' = IF state = Invalid THEN Append(invalid_installs, path)
                                ELSE invalid_installs
         /\ candidates' = IF state \in {None} \cup InstallFailure THEN candidates
                          ELSE Append(candidates, [path |-> path, modified |-> state])
  /\ UNCHANGED <<systemVars, install, pc, roots, named, readable_root_found, result>>

\* select_candidate: the newest log; where none exists, the only install.
SelectCandidate(found) ==
  LET newest == {c \in found : \A d \in found : d.modified <= c.modified}
      kind == IF \E c \in found : c.modified # NoLog THEN "ready" ELSE "not_created"
  IN  Paths(IF Cardinality(newest) = 1 THEN kind ELSE "ambiguous", {c.path : c \in newest})

\* What was not read is not looked at again.
FailureOfRead ==
  IF first_malformed THEN Paths("malformed", {})
  ELSE IF manifest_found THEN Paths("invalid_install", Range(Deduplicate(invalid_installs, InstallPlace)))
  ELSE Paths("not_installed", {})

\* The errors by rank, when there is no candidate: the game may be where it was not read.
Failure ==
  IF first_malformed THEN Paths("malformed", {})
  ELSE IF first_unreadable THEN Paths("unreadable", {})
  ELSE IF manifest_found THEN Paths("invalid_install", Range(Deduplicate(invalid_installs, InstallPlace)))
  ELSE Paths("not_installed", {})

\* All libraries are read.
LibrariesRead ==
  /\ pc = "libraries"
  /\ libraries = <<>>
  /\ pc' = "done"
  /\ result' = IF candidates # <<>>
               THEN SelectCandidate(DeduplicateCandidates(candidates))
               ELSE Failure
  /\ UNCHANGED <<systemVars, install, roots, libraries, named, foundVars>>

--------------------------------------------------------------------------------
(* The game writes a log, and a player removes one. *)

LatestTime == CHOOSE t \in 0 .. MaxTime :
  /\ t = 0 \/ \E i \in Install : install[i] = t
  /\ \A i \in Install : install[i] \in InstallFailure \/ install[i] <= t

LogChanges(i) ==
  /\ pc # "done"
  /\ install[i] \notin InstallFailure
  /\ \E t \in {NoLog, LatestTime + 1} :
       /\ t <= MaxTime
       /\ install' = [install EXCEPT ![i] = t]
  /\ UNCHANGED <<systemVars, pc, roots, libraries, named, foundVars, result>>

--------------------------------------------------------------------------------

\* Nothing is read yet.
Unread ==
  /\ pc = "start"
  /\ roots = <<>> /\ libraries = <<>>
  /\ readable_root_found = FALSE /\ manifest_found = FALSE
  /\ first_unreadable = FALSE /\ first_malformed = FALSE
  /\ candidates = <<>> /\ invalid_installs = <<>> /\ named = <<>>
  /\ result = None

Init ==
  /\ root \in RootSystem
  /\ place \in Place
  /\ library \in LibrarySystem
  /\ install \in InstallState
  /\ Unread

Detect == PlatformFails \/ Start \/ ReadRoot \/ RootsRead \/ ReadLibrary \/ LibrariesRead

Next == Detect \/ \E i \in Install : LogChanges(i)

Spec == Init /\ [][Next]_vars

--------------------------------------------------------------------------------
(* Correctness. *)

Seen == Range(candidates)

\* The log that is taken was, when it was looked at, newer than the log of every other
\* install, whatever path an install was found through; installs are ambiguous only when
\* they are several, and not when one was read twice while the game wrote its log.
NewestChosen ==
  pc = "done" =>
    /\ result.kind = "ready" =>
         \E path \in result.paths :
           /\ result.paths = {path}
           /\ \E c \in Seen :
                /\ InstallOf(c.path) = InstallOf(path)
                /\ \A d \in Seen : InstallOf(d.path) # InstallOf(path) => d.modified < c.modified
    /\ result.kind = "ambiguous" =>
         Cardinality({InstallOf(path) : path \in result.paths}) >= 2

\* The libraries of the roots that were named, and whether every one of them was read.
Listed == {path \in DOMAIN place :
  \E r \in Range(named) : root[place[r]] \notin RootFailure /\ path \in Range(root[place[r]])}
AllRead ==
  /\ \A r \in Range(named) : root[place[r]] \notin RootFailure \ {Missing}
  /\ \A path \in Listed : InstallOf(path) \in Install \cup {NoApp}

\* No fault hides an install that was found, and the game is said to be missing, or its
\* install broken, only when everything was read and it is so.
FaultsDoNotHide ==
  pc = "done" =>
    /\ Seen # {} => result.kind \in {"ready", "not_created", "ambiguous"}
    /\ result.kind = "not_installed" => AllRead /\ \A path \in Listed : InstallOf(path) = NoApp
    /\ result.kind = "invalid_install" =>
         /\ AllRead
         /\ result.paths # {}
         /\ \A path \in Listed : InstallOf(path) \in Install => install[InstallOf(path)] = Invalid
    /\ result.kind = "steam_not_found" => \A r \in Range(named) : root[place[r]] = Missing
================================================================================
