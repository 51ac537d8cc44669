# DeadlockShock

A TLA+ development of DeadlockShock: a Panorama script in the game's HUD that writes
deaths and ability events to `console.log`, a desktop companion that tails that file and
turns the events into actions, and two clients that send the actions to PiShock or
OpenShock devices. The specifications are translated from the Rust and JavaScript under
`src/`; TLC checks them on small instances and TLAPS proves the theorems listed below for
every value of their constants. `PROJECT.json` maps each definition to the source lines
it stands for, and lists the runs, the mutants that show what each property would catch,
the hazards and the theorems.

## The system

```
 mod/…/death_http_bridge.js        companion                                  devices
 ┌──────────────┐  console.log  ┌───────────────────┐  subscription ┌───────────────────┐
 │ DeathHook    │ ────────────► │ ConsoleLogListener│ ────────────► │ AppState (frames) │
 └──────────────┘   (a file)    └───────────────────┘  (channel)    └───┬───────┬───────┘
                        GameConnection: PathDetection finds the file    │ queue │ threads
                                                                        ▼       ▼
   CompanionApp: the frames                                       worker, connection test,
     Persistence  ◄── what the pages show ──► settings file       test action
     VersionCheck ◄── GitHub's API                                      │ blocking calls
   LogStore     ◄── every log line        ──► Logs window    PiShockClient / OpenShockClient
```

| Component | State it keeps | Operations | Interacts with |
|---|---|---|---|
| Death hook (`mod/panorama/scripts/death_http_bridge.js`) | the player panel it holds, death baseline, ability baseline, last catalogue | `pollState` every 100 ms | reads the HUD; writes lines to `console.log` |
| Console log listener (`companion/src/bridge_listener.rs`) | open handle, offset, 64-byte checkpoint, incomplete line, status | `start`, `stop`, a poll every 20 ms on a thread of its own | reads the file; broadcasts records to a channel |
| `AppState` and its frame (`companion/src/app.rs`) | provider, credentials, client, targets, trigger settings, receivers, `action_in_flight`, watermark | the polls of `draw`, the widgets' handlers | every other part of the companion |
| Action worker (`app.rs`) | a bounded channel of ten jobs, the job in its hands | receive, execute or skip, answer | provider clients |
| Connection-test and test-action threads (`app.rs`, `provider.rs`) | their own copy of the setup or the client | one blocking call, one answer | provider clients |
| PiShock client (`pishock/src/http.rs`) | the device groups of the last listing | `list_devices`, group commands as one POST a shocker | PiShock's HTTP API |
| OpenShock client (`openshock/src/lib.rs`) | one socket behind a mutex, invocation numbers | `connect`, `disconnect`, `shock`, `test_sound` | OpenShock's SignalR hub |
| `CompanionApp` (`app.rs`) | the next repaint, the reset dialog, the notices | `load_with_context`, `draw` with menu, pages and dialog, `on_exit` | persistence, version check, `AppState` |
| Persistence (`companion/src/persistence.rs`) | saved, observed and pending settings, deadline, errors | `open`, `observe`, `reset_and_save`, `flush` | the settings file |
| Settings (`persistence.rs`, `companion/src/action.rs`, the editors of `app.rs`) | documents of five schemas, the settings on the pages | migration, normalization, the editors, `resolve` | the file and the pages |
| Game connection (`app.rs`) | the field, the detection's status, the start's error, the listener | `initialize_log_listener`, the two buttons, reset | path detection, listener |
| Path detection (`companion/src/deadlock_path.rs`) | the loops of one search | `detect_in_roots` | the file system |
| Log store (`companion/src/logging.rs`) | lines, text, byte count, revision | the capturing writer, the window's snapshot | every thread that logs |
| Version check (`companion/src/version_check.rs`) | one receiver | `start`, `poll` | GitHub's API |

What is hard about it, and what each part must get right:

* **Companion.** Three kinds of threads answer frames later, while the user edits the
  pages between them. Pages trust one flag, `is_busy`, made of three. A panic of a
  provider call takes the worker and every queued job with it. Correct means: the client
  belongs to the setup on the page; whatever is queued or running uses the client and target
  on the pages, and settings that no edit has touched; an action is carried out at most once, in order, and not when
  it has waited too long; the pages unlock again.
* **Listener.** A poll is several system calls on a file that another process appends to,
  truncates, deletes and replaces. Correct means: each record once and in order, what was
  there before is not acted on, and a version on the page belongs to the file at the path.
* **Hook.** The HUD is rebuilt at any time: comparing a panel with its predecessor
  reports deaths and uses that never happened; forgetting too much loses real ones.
* **Clients.** Requests are lost, time out, or are carried out without an answer. Correct
  means: no replay, no answer taken for another, success claimed only of what was done.
* **Frames and persistence.** A frame is drawn only when the user does something or when a
  repaint was asked for; writes fail, edits are taken back, the process dies between any
  two steps. Correct means: what is not pending is on disk, what is pending gets there, and
  a check ends, without the user doing anything.
* **Settings.** Five schemas, two providers, two modes and two filters meet in one record,
  which is normalized in some places and not in others. Correct means: an old file means
  what it meant, what is shown comes back, and what is shown is what is sent.
* **Game connection.** A field, a status, an error and a listener are set by five
  operations. Correct means: without an error, the field shows what is tailed.
* **Path detection and log store.** Partial failures must not be taken for absence; two
  limits on bytes and lines must agree with the text after any number of evictions.

The hazards behind these sentences are in `PROJECT.json`, each at its line.

## The modules

| Module | Models | Used by |
|---|---|---|
| `Companion` | `AppState`, frames, worker, both test threads; the listener as a source of records | `MCCompanion`, `CompanionProof` |
| `AtMostOnceQueue` | the promise of the action queue (abstract) | refined by `Companion`, proved in `CompanionProof` |
| `ConsoleLogListener` | start, stop and polls, one system call a step, with the game writing | `MCConsoleLogListener`, `ListenerProof` |
| `DeathHook` | `pollState` | `MCDeathHook`, `DeathHookProof` |
| `Persistence` | load, autosave, reset, exit, crash | `CompanionApp`, `CompanionAppProof` |
| `VersionCheck` | the check's thread, its answers, the notices | `CompanionApp` |
| `CompanionApp` | the frames over `Persistence` and `VersionCheck`, and their repaints | `MCCompanionApp`, `CompanionAppProof` |
| `SettingsFile` | schemas, normalization, the editors, what a profile resolves to | `MCSettingsFile`, `SettingsFileProof` |
| `PiShockClient` | listing, selection of shares, POSTs, with the server | `MCPiShockClient`, `PiShockProof` |
| `OpenShockClient` | mutex, socket, invocations, with the server | `MCOpenShockClient`, `OpenShockProof` |
| `PathDetection` | `detect_in_roots`, with logs that change meanwhile | `GameConnection`, `GameConnectionProof` |
| `GameConnection` | the game connection page over `PathDetection` | `MCGameConnection`, `GameConnectionProof` |
| `LogStore` | capturing writer, eviction, window | `MCLogStore`, `CompanionAppProof` |

### Companion

`draw` is a loop through five phases (`phase`): `PollTestAction`, `PollConnectionTest`,
`PollAction`, `PollBridgeEvents` and then one widget handler (`UserInput`). The threads
step between any two of them, so an answer may arrive after the poll that would have read
it and before the handler that makes it stale. `poll_action` and `poll_bridge_events` are
loops over a channel; one turn is one step.

`connectionRx` and `testRx` are `connection_result.is_some()` and
`test_action_result.is_some()`; `connectionThread` and `testThread` are the threads behind
them, with their snapshots and outcomes. `queue`, `executing` and `completions` are the
channel to the worker, the job it executes and the channel back. A job holds the client,
the request and its age in ticks of `Tick`; the worker skips it when `Expired`
(`action_job_expired_at`). `workerAlive` is FALSE once a provider call panicked.

`Broadcast` may deliver any record of `Trigger` at any time and again and again: the log
may be replayed. Status lines, error texts and the ability catalogue are left out since
they only label widgets. `Levels` is what `resolve` may draw from a profile; a profile may
resolve to nothing.

`Drawn` is what the editor makes of a profile. `is_busy` disables the editor's input, not
the editor: `draw_effects` draws it in every frame of its page, its sliders then write
their values back rounded to a step, and the maxima are raised. So `DrawEffects` is allowed
while `Busy`, and every edit of the page ends with the editor of the selected trigger. A
settings file that holds 0.55 s, an action of 0.55 s in the queue and a look at the
effects page are enough for the page to show 0.6 s while 0.55 s is carried out.
`WorkMatchesPages` therefore promises the client, the target and that the trigger is on as
the pages show them, and of the level only that nobody edited the profile since: the page
shows the profile the level was resolved from, or that profile drawn. What the sliders do
to a value is modelled in `SettingsFile` (`DrawEditor`).

`AtMostOnceQueue` states what the repository's README calls "at-most-once queue
semantics": accepted actions are handed over at most once, in order, one at a time, and
reported in that order; a dying worker loses a suffix. The refinement maps `outstanding`
to the completions, the executing job and the queue, in this order.

### ConsoleLogListener

A file is a sequence of cells, each of the size of the checkpoint, so that one cell
behaves as the checkpoint's 64 bytes do and no two lines share one. The game begins lines,
writes them cell by cell, truncates, deletes and replaces the file between any two system
calls of a poll; `pc` says where the poll is (`seed`, `inspect`, `open`, `check`, `read`).
`len` is the length of `path_metadata`, read before the open, which is how
`worker_loop` reads it. `OpenMayFail` lets `start`'s own open fail, so that the worker
opens the file and skips what it holds; `TruncateWhileReading` lets the game truncate the
file between a poll's check and its reads. They separate the runs that pass from the two
that show a violation. `deferred` and `history` are history variables.

### DeathHook

Scripts run to completion, so one step is one call of `pollState` and the HUD is arbitrary
between two polls: an element of `Hud`, with the players' panels, those of class `Dead`,
and one of the `Scene`s that `findAbilityRoot` may find. The properties speak of the two
HUDs that two successive polls saw, not of what the script remembers. The messages of a
poll are a set: their order within a poll is fixed by the code and no property needs it.
`CatalogRefreshed` lists what forces a catalogue that reads as the last one: a poll before
without a player or a root, another root, hero or set of ability panels, and another ability
in a slot of one fight. A player panel that takes another's place while the abilities stay
only forces a baseline (`forceBaseline`), and the catalogue then stays silent if it reads the
same; so does another ability that comes with a death or a respawn under the same panel and
the same name.

### Persistence, VersionCheck and CompanionApp

`shown` is `PersistedState::from_app`, `saved`, `observed`, `pending` and `deadline` the
fields of `Persistence`. `Frame` is `observe`, with `commit` when the deadline is due;
`Reset`, `Exit`, the four ways to open, `Crash`, and a directory that stops and starts
being writable make up the rest. What a settings file holds is left to `SettingsFile`.

`VersionCheck` has the check's state and operators without a next-state relation:
`CheckStarts` is `start`, `ThreadAnswers` and `ThreadPanics` the thread, `Poll` the poll of a
frame, `SelectWarnings` and `Notices` the choice of what the user is told. `Reply` says how
far a request came, and `CheckLatestRelease` what becomes of it.

`CompanionApp` extends both. `frame` is the next step of a frame: `BeginFrame` polls the
check and chooses the warnings, then come `DrawMenu`, `DrawPage`, `DrawResetConfirmation` and
`Observe`. `wake` is egui's timer for the next repaint: a request replaces it only if it is
earlier, `BeginFrame` clears it, and `Repaint` is the end of `draw`. Between the steps time
passes, the check's thread answers or panics, files become unwritable and the process dies.
`LoadWithContext` is what the constructor does after the settings are open. `Busy` of the
menu and of the dialog is an arbitrary choice: it is `Companion`'s, and either answer is
allowed at any time.

### SettingsFile

A document is a record of the schema it has; `Migrated` is the `From` implementations,
`Normalized` is `normalized`, `Loaded` and `Saved` are the two directions, `RestoreApp` and
`Start` the way to the pages. The pages' handlers are actions: `DrawEditor` moves every
slider it draws onto a step of its range, as egui's sliders do, and `Raised` is the maximum
that follows its minimum. `Resolve` is the set of actions a profile may draw. Numbers are
integers that count fractions, so that a value can lie between two steps; `NonFinite` stands
for NaN and the infinities. Ids are values of which some parse as a number.

### PiShockClient and OpenShockClient

In `OpenShockClient` commands are named by their invocation numbers. A connection is a
pair of channels that keep their order; the server serves, refuses, keeps silent, sends
what nobody can decode, or closes. Each step of `send_and_wait` may fail, and a write that
fails may have reached the server. In `PiShockClient` a listing is two requests between
which the account may change, and then a loop: each `MergeShare` puts one share into the group
of its hub, and `Listed` returns the groups. A group command is checked as a whole (`Select`)
and then becomes POSTs by ascending shocker id, each of which may be carried out late or not
at all. A command for one share or one shocker (`SendCommand`) is posted as it is, since the
server enforces the share.

### PathDetection, GameConnection and LogStore

`PathDetection` reads roots, then libraries, then chooses; the file system is drawn at the
start from every combination of faults, and logs change during the search.
`GameConnection` extends it with the page: `context` says which of the two detections runs,
if any, `ApplyFound` and `ApplyError` are `apply_log_detection_with_context`, and the
listener is the path it tails. `edited` is a history variable. `LogStore`
writes one byte a step through the capturing writer; a text is the sequence of its bytes,
with invalid ones shown as three-byte replacement characters, since both limits and the
cut at a character boundary are about bytes.

## The runs

All with two workers, below three minutes each.

| Run | Bounds | Shows | States |
|---|---|---|---|
| `companion_setup` | 2 providers, a target of each, 2 credentials, 1 queue slot, age 1, load 2 | `ClientMatchesSetup`, `WorkMatchesPages`, `QuietWhenNotBusy`, `InFlightExact` under every edit, and every drawing of the effects page, against every stage of every thread; settings files with a value between two steps and with one that resolves to nothing | 3.6 M |
| `companion_actions` | 1 provider, 2 queue slots, age 2, load 3, three records, a filter | `OutstandingInOrder`, `NoStaleAction`, the refinement `AtMostOnceDelivery`, and the liveness `PagesUnlock`, `TestsEnd` | 495 K |
| `listener_tail` | 2 files, 3 lines, an overlong line longer by one cell than the buffer; `start`'s open may fail | `OnceInOrder`, `OpenedHistorySkipped`, `ObservedIsNewest`, `EveryRecord` | 3.6 M |
| `listener_replay` | 1 file; `start`'s open may fail | **violation** of `HistorySkipped` | |
| `listener_torn` | 1 file; truncation between check and read | **violation** of `EveryRecord` | |
| `death_hook` | 2 player panels, 2 roots, 2 heroes, up to 2 abilities in both orders, 13 ability states | `DeathsEmitted`, `UsesEmitted`, `CatalogCurrent`, `CatalogRefreshed` | 11.8 K (10 M transitions) |
| `companion_app` | 3 settings, debounce of 2 ticks, 1 backup, any file at the start; 2 other releases, 1 failure | `PendingIsObserved`, `CleanIsRestored`, `InvalidPreserved`, `ExitSaves`, `EventuallySaved`, `CheckEnds` | 688 K |
| `settings_file` | 49 documents of 5 schemas, none, or one that does not parse, 2 edits, 3 slots, 3 values of each slider | `SavedIsShown`, `ProfilesResolve`, `MigrationPreserves`, `ClickTouchesOneSlot` | 652 K |
| `openshock_calls` | 2 threads, 3 commands, 3 sockets, 1 noise record | `AtMostOnce`, `AnswerIsTrue`, `CallsReturn` | 890 K |
| `pishock_group` | 2 commands, for groups of up to 3 shares or for one share; 5 listings of shares, 2 of hubs | `ListingComplete`, `AtMostOnce`, `OkIsEveryShocker`, `CheckedBeforePost` | 6.4 M |
| `game_connection` | 2 roots, 3 libraries, 2 installs, links between two paths, 2 new times, 2 typed texts | `NewestChosen`, `FaultsDoNotHide`, `ShownIsTailed` | 7.1 M |
| `log_store` | 2 lines, 6 bytes, 9 bytes written | `LongestTailKept`, `LinesAreWhole`, `WindowCatchesUp` | 941 K |

### Why the bounds are enough

* *Companion.* Two providers and a target of each are what a late answer needs to land on
  the wrong setup. One slot is full while another job executes, two make order
  observable. Age 1 already expires a job behind a slow call; age 2 tells jobs of
  different ages apart. `MaxLoad` bounds events and actions together, and is one more than
  the slots: all of them are full and another record is refused, or the worker holds one
  while they are taken. Of the four profiles one is not on a step and one resolves to
  nothing, and drawing moves both. In `companion_actions` the settings only change by turning
  triggers on and off; the filter has slot 1 of {1, 2}, so that it accepts and refuses. Its
  records are of one session, which is what `OutstandingInOrder` speaks of.
* *Listener.* Two files are a file and its replacement; three lines are history, a line in
  progress and a new one, any of them too long. One truncation resets the offset, and
  nothing bounds how often the game truncates.
* *Hook.* Every ordered pair of HUDs the scenes describe is a poll and its successor; the
  hook compares nothing older than the last poll but the catalogue.
* *Frames.* A tick is the 250 ms of a check's repaint and the debounce is two of them, so
  that each of the two timers can be the earlier one, and the timer of one frame can be
  overtaken by the request of the next. Three settings are the saved, the observed and the
  one between them. One failed reply and one panic stand for the others, which differ only
  in the reason shown.
* *Settings.* A percent and a millisecond are two fractions each, so that values lie on a
  step, between two, between two percents, at both ends and beyond; one part of a document
  varies at a time, as the parts meet only where the properties relate them: target and
  provider vary together, mode and values too. Two edits are enough to toggle a slot and
  then another, or to leave a mode with one value changed and come back.
* *Game connection.* A saved or typed text is blank or padded; one other path is enough for
  the field, the listener and a detection to differ.
* *OpenShock.* Three commands of two threads are one whose completion comes late, one that
  reads it, and one that waits for the mutex.
* *PiShock.* Three shares are two alternatives for one shocker and one of another; the listings
  hold a share twice, a hub that `/Hub` did not name, and shares that are paused or outdated.
  Two commands are one whose POST is still with the server and the next.
* *Log store.* Nine bytes against six evict by lines, by bytes, and cut characters of
  three bytes at every position; a line of exactly the limit is among them.

### Fairness

* `Companion!FairSpec`: a frame that is due is drawn (`FrameDue`: a frame under way, the
  repaint that a thread asks for after its answer, and the one `draw` asks for while the
  listener runs or actions are in flight), and the threads go on. A panicked test thread
  asks for no frame (`Unheard`), and the properties except that case. `TestsEnd` assumes
  `DrainsEnd`, as `poll_bridge_events` loops until its channel is empty and nothing but
  the rate of the records ends it.
* `ConsoleLogListener!FairSpec`: the worker polls until it is stopped.
* `CompanionApp!AppFairSpec`: a frame that is due (`wake` is 0) begins, a frame that began
  ends, time passes, and the request of a check ends, at the latest by its timeout. The user
  need do nothing, so `EventuallySaved` and `CheckEnds` hold only because of the repaints
  that the code asks for.
* `OpenShockClient!FairSpec`: a thread in a call goes on, as reads and writes have
  timeouts and the mutex is released. There is no deadline over the whole wait, so
  `CallsReturn` depends on `MaxNoise`.
* `LogStore`: the open window looks again, as it asks for a repaint while it is open.

The game, the servers, the user and the file system are assumed to do nothing in
particular.

### What the violations show

* `listener_replay` (`bridge_listener.rs:608`). When the open in `start` fails for a
  reason other than a missing file, the worker opens the file later and seeks to its end.
  The length it compares with was inspected before. If the game wrote a line in between,
  the offset is beyond that length, `ensure_not_truncated` takes the file for truncated,
  and the whole history is broadcast as live events.
* `listener_torn` (`bridge_listener.rs:728`). The checkpoint is compared before the file is
  read. A file that is truncated and grows beyond the old offset between the two is read
  from that offset, and the records before it are never reported.

`listener_tail` excludes the second case only: `EveryRecord` then holds also where the open
in `start` fails, and history is skipped wherever it does not (`OpenedHistorySkipped`).

## The proofs

| Theorem | Of | Says, for every value of the constants |
|---|---|---|
| `TypeCorrect` | `CompanionProof` | every variable keeps its type |
| `ClientCorrect` | `CompanionProof` | `ClientMatchesSetup` |
| `WorkCorrect` | `CompanionProof` | `WorkMatchesPages` |
| `QuietCorrect` | `CompanionProof` | `QuietWhenNotBusy` |
| `CountCorrect` | `CompanionProof` | `InFlightExact` |
| `AgeCorrect` | `CompanionProof` | `NoStaleAction` |
| `DeliveryCorrect` | `CompanionProof` | `AtMostOnceDelivery`: `Companion` implements `AtMostOnceQueue` |
| `OrderCorrect` | `CompanionProof` | `OutstandingInOrder` |
| `TypeCorrect` | `CompanionAppProof` | every variable keeps its type |
| `PendingCorrect` | `CompanionAppProof` | `PendingIsObserved`: the `expect` in `observe` never panics |
| `CleanCorrect` | `CompanionAppProof` | `CleanIsRestored` |
| `ExitCorrect` | `CompanionAppProof` | `ExitSaves` |
| `InvalidCorrect` | `CompanionAppProof` | `InvalidPreserved` |
| `Refinement` | `CompanionAppProof` | the frames implement `Persistence`: `AppSpec => Spec` |
| `AppClean` | `CompanionAppProof` | `CleanIsRestored`, of the application |
| `NoticesCorrect` | `CompanionAppProof` | the notices of a frame agree with each other and with the menu |
| `TailCorrect` | `CompanionAppProof` | `LongestTailKept` |
| `WholeCorrect` | `CompanionAppProof` | `LinesAreWhole` |
| `SavedCorrect` | `SettingsFileProof` | `SavedIsShown` |
| `ResolveCorrect` | `SettingsFileProof` | `ProfilesResolve` |
| `MigrationCorrect` | `SettingsFileProof` | `MigrationPreserves` |
| `ClickCorrect` | `SettingsFileProof` | `ClickTouchesOneSlot` |
| `NewestCorrect` | `GameConnectionProof` | `NewestChosen` |
| `FaultsCorrect` | `GameConnectionProof` | `FaultsDoNotHide` |
| `ShownCorrect` | `GameConnectionProof` | `ShownIsTailed` |
| `TypeCorrect` | `ListenerProof` | every variable keeps its type, the incomplete line its limit |
| `OnceCorrect` | `ListenerProof` | `OnceInOrder` |
| `HistoryCorrect` | `ListenerProof` | `OpenedHistorySkipped` |
| `ObservedCorrect` | `ListenerProof` | `ObservedIsNewest`, where no file is truncated while it is read |
| `DeathsCorrect` | `DeathHookProof` | `DeathsEmitted` |
| `UsesCorrect` | `DeathHookProof` | `UsesEmitted` |
| `CatalogCorrect` | `DeathHookProof` | `CatalogCurrent` |
| `RefreshCorrect` | `DeathHookProof` | `CatalogRefreshed` |
| `TypeCorrect` | `OpenShockProof` | every variable keeps its type |
| `OnceCorrect` | `OpenShockProof` | `AtMostOnce` |
| `AnswersCorrect` | `OpenShockProof` | `AnswerIsTrue` |
| `TypeCorrect` | `PiShockProof` | every variable keeps its type |
| `ListingCorrect` | `PiShockProof` | `ListingComplete` |
| `OnceCorrect` | `PiShockProof` | `AtMostOnce` |
| `OkCorrect` | `PiShockProof` | `OkIsEveryShocker` |
| `CheckedCorrect` | `PiShockProof` | `CheckedBeforePost` |

**Companion.** The assumptions are those the module declares: the default provider is one
of the providers and every target has an owner (`ProviderAssumption`), profiles resolve to
levels and an editor drawn twice leaves what it left at first (`ProfileAssumption`), settings
and records are of their types (`SettingsAssumption`), the queue's capacity and age are
positive (`QueueAssumption`), and `None` is none of the values it stands in for
(`NoneAssumption`). `IInv` adds two parts to the properties. `ThreadInv` says that a
receiver exists exactly while its thread or its answer does, that a connection test
excludes a client, a test action and queued work, and whose snapshot each thread works on;
without it a late answer could belong to any setup. `CountInv` says that the worker holds
one job at most, that a dead worker has none, and that the counter is the sum of the three
places an action can be in; it ties `is_busy` to what the worker holds, and is what makes
`WorkMatchesPages` inductive: with work in flight no edit is possible, and the one change
of the settings that is, the drawing of an editor (`DrawnMatches`), keeps what is said of the
level because drawing is idempotent. The lemmas `PageChanges`, `ThreadChanges`, `ActionChanges` and `BridgeChanges`
name the actions that touch each group of variables, so that each later lemma speaks of
those only.

**Persistence.** From `SettingsAssumption` and `DebounceAssumption`. `IInv` adds that the
settings last saved are on disk (`SavedOnDisk`), that what was observed and is not saved
is pending (`UnsavedIsPending`), and that a file which was read or written is at a known
path (`TrustedIsKnown`). `CleanIsRestored` follows from the first two; a failed reset and
an edit taken back after a failed write are where it would break without them.
`InvalidPreserved` needs `InvalidIsNoted`: while the application runs with a known path, an
invalid file is there only if it could not be moved or not be read, and then the page says so;
every other start set it aside or found none, and no commit writes one.

**The action queue.** From the assumptions of `Companion` and its `IInv`. `outstanding` is the
concatenation of three places (`Out`): a step moves a request from one place to the next and
leaves the concatenation alone, appends to it, takes its head, or cuts a suffix off when the
worker dies; each of these is a step of `AtMostOnceQueue` or a stutter. `OutstandingInOrder`
is about one session; its invariant adds that the watermark is at least as late as any
outstanding record, so that an event which passes the watermark is later than all of them.

**The application.** From `AppAssumption`, `VersionAssumption` and those of `Persistence`. Each step
of `AppNext` is a step of `Persistence!Next` or leaves its variables alone, so its theorems carry
over. The refinement is of the safety part: fairness, and with it `EventuallySaved`, is TLC's.
`NoticesCorrect` rests on a frame's warnings having been chosen from the answer the same
`BeginFrame` polled.

**The log store.** From `LimitAssumption`: the limits are positive, the marker fits into a line,
and it is whole characters without a newline. `LogInv` says that the lines are the end of the log
and that one more would be too many (`TailInv`), that the text is these lines joined and its length
the byte count, and that each line is a whole text and a newline (`WholeInv`). `EvictedFits` says
that the eviction always ends before the newest line, since no rendered line is longer than the
limit, and stops at the first count that fits, since the one before did not. That the cut of the text
by the evicted bytes falls between two lines is a fact about `FlattenSeq` (`FlattenConcat`,
`TextCut`): joined parts are joined wholes. It and the wholeness of what `Lossy` makes
of any bytes are inductions on the number of texts, done with a least counterexample from
`WellFoundedInduction`, as the library's induction theorems cannot be instantiated.

**The settings.** From `LimitsAssumption`, `IdAssumption` and `ValueAssumption`: limits lie on whole
percents and on steps of their sliders, numbers are normal forms of themselves, and the markers are
none of the values they stand beside. `IInv` is that what the pages show is `Settled`: every value
within its limits and no minimum above its maximum, a filter of `All` keeps no slots, and the target
is of the shown provider and is its own normal form or refused. It is what makes saving
and loading again return the same settings; each editor has to keep it, the migrations of all five
schemas have to reach it, and where normalization refuses a target the pages start from the default.
`ProfilesResolve` then is arithmetic on fractions, percents and steps.

**The game connection.** From `InstallAssumption`, `SystemAssumption` and `TypedAssumption`: links lead
to roots and libraries, and what is found there is a fault or is readable. `RootsInv` and
`LibrariesInv` are the invariants of the two loops: every root that was named, and then every library
that was listed, is among those left, up to what the links identify, or was noted, as a
candidate, an invalid install or a fault. With `ManifestInv` (a manifest that was found led to one of
these) no fault hides an install at the end, and `NewestChosen` holds for every order in which logs
change between the reading and the choice. `PageInv` gives `ShownIsTailed` from the five operations
of the page, whichever detection is under way.

**The listener.** From `LineAssumption`, `SwitchAssumption` and `NoneAssumption`, for either value
of both switches: `OnceInOrder` holds even where the file is truncated between the check and
the reads. The invariant has two halves. Files are ordered (`FileInv`, `LineInv`): within a file, and from
a file to the one that took its place, cells are in the order in which the game wrote their
lines. And the offset separates (`LogInv`): every cell beyond it is later than everything
reported. The second alone is not inductive, since a file that is truncated and grows again
brings its offset before cells that were never read: where the checkpoint no longer matches,
or the file was found shorter than the offset, the file was `Renewed`, so that reading it from
its start reports nothing twice. The proof needs a least element of a set of cells, from
`WellFoundedInduction`.

`OpenedHistorySkipped` rests on `HistoryInv`: what the file held when `start` opened it lies before
the offset or is `Past` for the file, that is, older than whatever the file now holds or will hold; and of a
line that was being written only the rest is read, never its beginning, because lines are cut at
their ends (`ShapeInv`). A checkpoint that does not match never will again (`CheckpointInv`), so
that a poll which finds one may read the file from its start. `ObservedIsNewest` rests on
`ObservedInv`: while the checkpoint matches, what is on the page is the newest of what was read, and
the line kept for the next read is the one the offset cuts. It is proved for `TruncateWhileReading =
FALSE` only; with the truncation between check and read that `listener_torn` shows, the
version the file reported before it stays on the page, and the property does not hold.

**The hook.** From `SceneAssumption` and `SnapshotAssumption`. `MemoryInv` says that what the script
remembers is what the last poll's HUD showed, and nothing else: a panel it holds was a player's in
that HUD, `wasDead` is that panel's state there, and the ability baseline is that of the HUD's
root. The action properties, which compare the two HUDs, follow from it poll by poll.

**OpenShock.** From `BoundAssumption` and `CallerAssumption`. The invariant says where a command is:
unsent, in one channel to the server, or decided by the server, with at most one completion,
which says what was done (`UnsentInv`, `QueuedInv`, `AnswerInv`), while the mutex has one holder whose
command is the current one (`LockInv`). A number that is used once thus lies in at most one place,
which is why a failed write may be ambiguous but never leads to a second execution, and why a
completion that arrives late is not taken for another's.

**PiShock.** From `ListAssumption` (a hub is listed once, a share of a shocker is known by its code)
and `NoneAssumption`. `MergeInv` is the loop invariant of the listing: the groups are complete for
the shares before `next`. `PostInv` says that a call selects and posts to a shocker once, and that
what the server still holds was not carried out. `WaitInv` says that all POSTs before the one that
is waiting were carried out, and each available shocker of the group was posted to or still is to
be, which is what `OkIsEveryShocker` needs at the last answer. `SelectedChecked` carries the check of
the whole group from the selection to each POST. The choice of the first share of each shocker
uses `WellFoundedInduction`.

**Only model-checked.** Liveness (`PagesUnlock`, `TestsEnd`, `EveryRecord`, `EventuallySaved`,
`CheckEnds`, `CallsReturn`, `WindowCatchesUp`) and everything with ENABLED, which the prover
does not handle. Every invariant and every action property of a passing run has a theorem;
`ObservedIsNewest` under its hypothesis, which is the one its run makes. The configurations give
each of them a small instance, and the mutants show what the code would have to do to break it.

## Not modelled

* Parsing: a record of the log, a device listing, a token, a message of a server is what it
  says, or is not decodable. OpenShock's `preflight_with`, `decode_token` and `decode_groups` are
  of this kind: they keep no state, and `connect` fails wherever they do.
* PiShock's `connect`, `get_device` and `get_shocker_info`: a request without state, and look-ups
  in a listing.
* Which registry keys and home directories name the roots of the path detection: any set of
  roots is tried.
* Opening the config folder, file permissions, the username of schemas 1 to 4.
* Labels and descriptors of the provider facade; widgets, layout, wording, redaction of
  secrets in errors, and `main.rs`.
* Build scripts, tests and third-party libraries. egui, reqwest, tungstenite, steamlocate
  and the Panorama engine appear as the external actions of the modules that use them.
* One composition of hook, log, listener and companion. Each link is checked against a
  neighbour that does more than the real one: the game of `ConsoleLogListener` writes lines,
  truncates and replaces the file at any time, whatever a hook would do, and the listener of
  `Companion` delivers any record of `Trigger` at any time, again and in any order. A composed
  model would have fewer behaviours of each part, and the watermark's promise of one action a
  death is `OutstandingInOrder` with `AtMostOnceDelivery`, within one session.

## The plan

In order of importance; all of it is done.

1. `Companion` with its frame, threads and worker, and `companion_setup`.
2. `AtMostOnceQueue`, the refinement, and liveness (`companion_actions`).
3. `CompanionProof`: type invariant, then the safety invariants.
4. `ConsoleLogListener` against a file that changes between system calls.
5. `DeathHook`.
6. `Persistence` and its part of `CompanionAppProof`.
7. `OpenShockClient`.
8. `PiShockClient`.
9. `PathDetection` and `LogStore`.
10. `SettingsFile`: normalization, the migrations, what a failed normalization saves, the
    editors and the ranges of `action.rs`.
11. `VersionCheck`, and `CompanionApp`: the frames that poll it, save the settings and ask for
    repaints.
12. `GameConnection`: the page over the path detection and the listener.
13. Theorems: the refinement of the queue in `CompanionProof`, `CompanionAppProof`,
    `OpenShockProof`, `DeathHookProof`, `ListenerProof`, `PiShockProof`.
14. Theorems of the rest: the settings (`SettingsFileProof`), the path detection and its page
    (`GameConnectionProof`), skipped history and the observed version (`ListenerProof`), and
    the log store (`CompanionAppProof`).

What remains worth doing is to weaken the assumptions of these theorems where the code would bear
it, and to follow changes of the code: a changed line is found in `PROJECT.json` under `map`.
