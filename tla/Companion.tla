------------------------------- MODULE Companion -------------------------------
(***************************************************************************)
(* The companion's AppState (companion/src/app.rs) and the threads it       *)
(* starts: the egui thread, which polls its channels in a fixed order and   *)
(* then handles at most one widget per frame; the connection-test thread;   *)
(* the test-action thread; and the action worker behind a bounded queue.    *)
(* The log listener appears as a source of trigger records.  Status lines,  *)
(* error texts and the ability catalogue only label widgets and are left    *)
(* out.                                                                     *)
(***************************************************************************)
EXTENDS Naturals, Sequences, FiniteSets

CONSTANTS
  Provider,         \* ProviderKind
  DefaultProvider,  \* ProviderKind::default()
  Credential,       \* values of a provider's setup field ...
  NoCredential,     \* ... the empty one among them
  Target,           \* target ids of all providers
  OwnerOf,          \* the provider a target id belongs to
  Level,            \* resolved action values
  Profile,          \* ActionSettings
  Levels,           \* ActionSettings::resolve: the values a profile may resolve to
  Drawn,            \* draw_action_editor: what is left of a profile once it is drawn
  Slot,             \* ability slots
  Choice,           \* trigger settings the user may set up
  DefaultSettings,  \* TriggerSettingsSet::default()
  Restored,         \* trigger settings that restore_app may find in the saved state
  Trigger,          \* trigger records a log may hold
  Capacity,         \* ACTION_QUEUE_CAPACITY
  MaxAge,           \* MAX_ACTION_QUEUE_AGE, in ticks
  MaxLoad,          \* bound of the model: events waiting plus actions in flight
  None

Kind == {"death", "ability_use", "ability_cooldown_ready"}

Setting == [enabled : BOOLEAN, slots : SUBSET Slot, profile : Profile]

Client  == [kind : Provider, credential : Credential]
Request == [provider : Provider, target : Target, level : Level, trigger : Trigger]
Job     == [client : Client, request : Request, age : 0 .. MaxAge]

Watermark        == [session : STRING, sequence : Nat]
ConnectionThread == [client : Client, outcome : {"running", "connected", "failed", "panicked"},
                     devices : SUBSET Target]
TestThread       == [client : Client, target : Target,
                     outcome : {"running", "finished", "panicked"}]

ASSUME ProviderAssumption ==
  /\ DefaultProvider \in Provider
  /\ NoCredential \in Credential
  /\ OwnerOf \in [Target -> Provider]

\* A profile may resolve to nothing.  Drawing a profile again changes nothing more.
ASSUME ProfileAssumption ==
  /\ Levels \in [Profile -> SUBSET Level]
  /\ Drawn \in [Profile -> Profile]
  /\ \A p \in Profile : Drawn[Drawn[p]] = Drawn[p]

ASSUME SettingsAssumption ==
  /\ Choice \subseteq Setting
  /\ DefaultSettings \in [Kind -> Setting]
  /\ Restored \subseteq [Kind -> Setting]
  /\ Trigger \subseteq [session : STRING, sequence : Nat, kind : Kind, slot : Slot]

ASSUME QueueAssumption ==
  /\ Capacity \in Nat \ {0}
  /\ MaxAge \in Nat \ {0}
  /\ MaxLoad \in Nat

\* None stands for the absent client, target, thread and watermark.
ASSUME NoneAssumption ==
  None \notin Client \cup Target \cup Watermark \cup ConnectionThread \cup TestThread

VARIABLES
  phase,             \* where AppState::draw is in its frame
  provider, credentials, settings,
  client,            \* the connected client, or None
  credentialState,
  devices, selected, preferred,
  connectionRx,      \* connection_result is Some
  connectionThread,  \* the connection-test thread: None, running or answered
  testRx,            \* test_action_result is Some
  testThread,        \* the test-action thread: None, running or finished
  queue,             \* jobs in the worker's bounded channel
  executing,         \* the job in the worker's hands: at most one
  completions,       \* requests the worker has answered, not yet polled
  inFlight,          \* action_in_flight
  workerAlive,
  watermark,         \* last_sequence
  listening,         \* the log listener's thread runs
  events             \* trigger records in the subscription's channel

setupVars      == <<provider, credentials, settings>>
targetVars     == <<devices, selected, preferred>>
connectionVars == <<client, credentialState, connectionRx, connectionThread>>
testVars       == <<testRx, testThread>>
actionVars     == <<queue, executing, completions, inFlight, workerAlive>>
bridgeVars     == <<watermark, listening, events>>

vars == <<phase, setupVars, targetVars, connectionVars, testVars, actionVars, bridgeVars>>

--------------------------------------------------------------------------------
(* Helpers. *)

ActionInProgress == inFlight # 0

\* is_busy with one of its three conditions forgotten.
BusyUnlessTesting == connectionRx \/ ActionInProgress
BusyUnlessActing  == connectionRx \/ testRx

\* is_busy
Busy == connectionRx \/ testRx \/ ActionInProgress

\* selected_device: the selected id, if it is among the listed targets.
SelectedDevice == IF selected \in devices THEN selected ELSE None

\* action_job_expired_at with a strict comparison.
ExpiredLate(job) == job.age > MaxAge

\* action_job_expired_at
Expired(job) == job.age >= MaxAge

\* trigger_is_new with a strict comparison: an equal sequence passes.
NotOlder(t) ==
  ~ /\ watermark # None
    /\ watermark.session = t.session
    /\ t.sequence < watermark.sequence

\* The test of trigger_is_new.
IsNew(t) ==
  ~ /\ watermark # None
    /\ watermark.session = t.session
    /\ t.sequence <= watermark.sequence

\* ability_filter and AbilityFilter::accepts: death has no filter.
FilterAccepts(t) == t.kind = "death" \/ t.slot \in settings[t.kind].slots

\* poll_action's answer to a closed channel, without its reset of the counter.
InFlightKept == inFlight

\* What poll_action makes of the counter when the worker's channel is closed.
InFlightAfterWorkerLoss == 0

Requests(jobs) == [i \in 1 .. Len(jobs) |-> jobs[i].request]

\* Every accepted action that has not been reported, oldest first.
Outstanding == completions \o Requests(executing) \o Requests(queue)

--------------------------------------------------------------------------------
(* The setup page.  A frame handles at most one of these operations.  The
   widgets of every one of them are disabled while Busy. *)

Input   == phase = "input" /\ phase' = "test"
NotBusy == Input /\ ~Busy

\* reset_connection that leaves the old client in place.
ResetConnectionKeepingClient(state) ==
  /\ credentialState' = state
  /\ devices' = {}
  /\ selected' = None
  /\ connectionRx' = (state = "testing")
  /\ testRx' = FALSE
  /\ UNCHANGED client

\* reset_connection; state is what its caller leaves in credential_state: only
\* start_connection_test ends with a receiver, and in the testing state.  A thread
\* whose receiver is dropped runs on unheard.
ResetConnection(state) ==
  /\ credentialState' = state
  /\ devices' = {}
  /\ selected' = None
  /\ connectionRx' = (state = "testing")
  /\ testRx' = FALSE
  /\ client' = None

SetProvider(p) ==
  /\ NotBusy
  /\ p # provider
  /\ provider' = p
  /\ preferred' = None
  /\ ResetConnection("unknown")
  /\ UNCHANGED <<credentials, settings, connectionThread, testThread>>
  /\ UNCHANGED <<actionVars, bridgeVars>>

\* c is the trimmed text: an edit of the spaces around it resets as well.
EditCredentials(c) ==
  /\ NotBusy
  /\ credentials' = [credentials EXCEPT ![provider] = c]
  /\ ResetConnection("unknown")
  /\ UNCHANGED <<provider, settings, preferred, connectionThread, testThread>>
  /\ UNCHANGED <<actionVars, bridgeVars>>

\* The thread takes a copy of the provider and of its setup.
StartConnectionTest ==
  /\ NotBusy
  /\ credentials[provider] # NoCredential
  /\ ResetConnection("testing")
  /\ connectionThread' =
       [client  |-> [kind |-> provider, credential |-> credentials[provider]],
        outcome |-> "running",
        devices |-> {}]
  /\ UNCHANGED <<setupVars, preferred, testThread, actionVars, bridgeVars>>

SelectDevice(d) ==
  /\ NotBusy
  /\ d \in devices
  /\ selected' = d
  /\ preferred' = d
  /\ UNCHANGED <<setupVars, devices, connectionVars, testVars, actionVars, bridgeVars>>

\* The thread takes a reference to the client and a copy of the target.
StartTestAction ==
  /\ NotBusy
  /\ client # None
  /\ SelectedDevice # None
  /\ testRx' = TRUE
  /\ testThread' = [client |-> client, target |-> SelectedDevice, outcome |-> "running"]
  /\ UNCHANGED <<setupVars, targetVars, connectionVars, actionVars, bridgeVars>>

--------------------------------------------------------------------------------
(* The effects page, the game connection page and the menu. *)

\* The effects page ends with the editor of the selected trigger.  Busy disables its
\* sliders, but a slider moves its value onto a step of its range whenever it is drawn,
\* and the editor raises the maxima to the minima.
EditorDrawn(edited, selectedEffect) == [edited EXCEPT ![selectedEffect].profile = Drawn[@]]

\* A frame that draws the page, with or without a click on "Configure", which is enabled
\* while Busy.
DrawEffects(selectedEffect) ==
  /\ Input
  /\ settings' = EditorDrawn(settings, selectedEffect)
  /\ UNCHANGED <<provider, credentials, targetVars, connectionVars, testVars>>
  /\ UNCHANGED <<actionVars, bridgeVars>>

\* The button beside each trigger, the selected one or another.
ToggleTrigger(k, selectedEffect) ==
  /\ NotBusy
  /\ settings' = EditorDrawn([settings EXCEPT ![k].enabled = ~@], selectedEffect)
  /\ UNCHANGED <<provider, credentials, targetVars, connectionVars, testVars>>
  /\ UNCHANGED <<actionVars, bridgeVars>>

\* The filter and the editor of the selected trigger.
EditTrigger(k, s) ==
  /\ NotBusy
  /\ settings' = EditorDrawn([settings EXCEPT ![k] = s], k)
  /\ UNCHANGED <<provider, credentials, targetVars, connectionVars, testVars>>
  /\ UNCHANGED <<actionVars, bridgeVars>>

\* The destination is the selected trigger.
CopyActionSettings(source, destination) ==
  /\ NotBusy
  /\ source # destination
  /\ settings' = EditorDrawn([settings EXCEPT ![destination].profile = settings[source].profile],
                             destination)
  /\ UNCHANGED <<provider, credentials, targetVars, connectionVars, testVars>>
  /\ UNCHANGED <<actionVars, bridgeVars>>

\* Not gated by Busy.  The thread may fail to spawn, after the old one stopped.
StartListener ==
  /\ Input
  /\ listening' \in BOOLEAN
  /\ UNCHANGED <<setupVars, targetVars, connectionVars, testVars, actionVars>>
  /\ UNCHANGED <<watermark, events>>

ResetSavedState ==
  /\ NotBusy
  /\ ResetConnection("unknown")
  /\ provider' = DefaultProvider
  /\ credentials' = [p \in Provider |-> NoCredential]
  /\ preferred' = None
  /\ settings' = DefaultSettings
  /\ listening' = FALSE
  /\ events' = <<>>
  /\ watermark' = None
  /\ queue' = <<>>
  /\ executing' = <<>>
  /\ completions' = <<>>
  /\ inFlight' = 0
  /\ workerAlive' = TRUE
  /\ UNCHANGED <<connectionThread, testThread>>

NoInput ==
  /\ Input
  /\ UNCHANGED <<setupVars, targetVars, connectionVars, testVars, actionVars, bridgeVars>>

UserInput ==
  \/ \E p \in Provider : SetProvider(p)
  \/ \E c \in Credential : EditCredentials(c)
  \/ StartConnectionTest
  \/ \E d \in Target : SelectDevice(d)
  \/ StartTestAction
  \/ \E k \in Kind : DrawEffects(k)
  \/ \E k, selectedEffect \in Kind : ToggleTrigger(k, selectedEffect)
  \/ \E k \in Kind, s \in Choice : EditTrigger(k, s)
  \/ \E source, destination \in Kind : CopyActionSettings(source, destination)
  \/ StartListener
  \/ ResetSavedState
  \/ NoInput

--------------------------------------------------------------------------------
(* The polls at the head of AppState::draw, in its order. *)

PollTestAction ==
  /\ phase = "test"
  /\ phase' = "connection"
  /\ IF testRx /\ testThread # None /\ testThread.outcome # "running"
     THEN testRx' = FALSE /\ testThread' = None
     ELSE UNCHANGED testVars
  /\ UNCHANGED <<setupVars, targetVars, connectionVars, actionVars, bridgeVars>>

\* The selection of apply_devices: the preferred target while it is listed, else
\* the first of the list, which is any of them here.
ApplyDevices(list) ==
  \E target \in (IF preferred \in list THEN {preferred}
                 ELSE IF list = {} THEN {None} ELSE list) :
    selected' = target /\ preferred' = target

ApplyConnectionResult ==
  /\ client' = connectionThread.client
  /\ devices' = connectionThread.devices
  /\ ApplyDevices(connectionThread.devices)
  /\ credentialState' = "valid"
  /\ UNCHANGED testVars

ApplyConnectionError ==
  /\ client' = None
  /\ devices' = {}
  /\ selected' = None
  /\ testRx' = FALSE
  /\ credentialState' = "invalid"
  /\ UNCHANGED <<preferred, testThread>>

\* A poll that ignores the answer of a failed or panicked thread.
ConnectionSucceeded ==
  /\ connectionRx
  /\ connectionThread # None
  /\ connectionThread.outcome = "connected"

\* The receiver has an answer, or its channel is closed: the thread panicked.
ConnectionAnswered ==
  /\ connectionRx
  /\ connectionThread # None
  /\ connectionThread.outcome # "running"

PollConnectionTest ==
  /\ phase = "connection"
  /\ phase' = "action"
  /\ \/ /\ ~ConnectionAnswered
        /\ UNCHANGED <<targetVars, connectionVars, testVars>>
     \/ /\ ConnectionAnswered
        /\ connectionRx' = FALSE
        /\ connectionThread' = None
        /\ IF connectionThread.outcome = "connected"
           THEN ApplyConnectionResult
           ELSE ApplyConnectionError
  /\ UNCHANGED <<setupVars, actionVars, bridgeVars>>

\* One turn of poll_action's loop: the loop ends on an empty or closed channel.
PollAction ==
  /\ phase = "action"
  /\ \/ /\ completions # <<>>
        /\ completions' = Tail(completions)
        /\ inFlight' = IF inFlight = 0 THEN 0 ELSE inFlight - 1
        /\ UNCHANGED phase
     \/ /\ completions = <<>>
        /\ phase' = "bridge"
        /\ inFlight' = IF workerAlive THEN inFlight ELSE InFlightAfterWorkerLoss
        /\ UNCHANGED completions
  /\ UNCHANGED <<setupVars, targetVars, connectionVars, testVars>>
  /\ UNCHANGED <<queue, executing, workerAlive, bridgeVars>>

\* queue_trigger_action's conditions after the watermark, try_send's included.
\* Both providers have TargetPolicy::Required.
Deliverable(t) ==
  /\ settings[t.kind].enabled
  /\ FilterAccepts(t)
  /\ SelectedDevice # None
  /\ client # None
  /\ workerAlive
  /\ Len(queue) < Capacity

\* The job is a snapshot; level is what resolve drew from the profile.
NewJob(t, level) ==
  [client  |-> client,
   request |-> [provider |-> provider, target |-> SelectedDevice,
                level |-> level, trigger |-> t],
   age     |-> 0]

\* An enqueue that forgets action_in_flight.
EnqueueUncounted(t) ==
  /\ \E level \in Levels[settings[t.kind].profile] : queue' = Append(queue, NewJob(t, level))
  /\ UNCHANGED inFlight

Enqueue(t) ==
  /\ \E level \in Levels[settings[t.kind].profile] : queue' = Append(queue, NewJob(t, level))
  /\ inFlight' = inFlight + 1

QueueTriggerAction(t) ==
  \/ ~IsNew(t) /\ UNCHANGED <<watermark, queue, inFlight>>
  \/ /\ IsNew(t)
     /\ watermark' = [session |-> t.session, sequence |-> t.sequence]
     /\ IF Deliverable(t) /\ Levels[settings[t.kind].profile] # {}
        THEN Enqueue(t)
        ELSE UNCHANGED <<queue, inFlight>>

\* One turn of poll_bridge_events' loop; the frame then reads Busy.
PollBridgeEvents ==
  /\ phase = "bridge"
  /\ \/ /\ events # <<>>
        /\ events' = Tail(events)
        /\ QueueTriggerAction(Head(events))
        /\ UNCHANGED phase
     \/ /\ events = <<>>
        /\ phase' = "input"
        /\ UNCHANGED <<events, watermark, queue, inFlight>>
  /\ UNCHANGED <<setupVars, targetVars, connectionVars, testVars>>
  /\ UNCHANGED <<executing, completions, workerAlive, listening>>

--------------------------------------------------------------------------------
(* The threads. *)

\* ConnectedProvider::connect, then list_targets, on the thread's own copy of the
\* setup.  To the poll a panic is an error, but a panicked thread asks for no frame.
ConnectionThreadAnswers ==
  /\ connectionThread # None
  /\ connectionThread.outcome = "running"
  /\ \/ \E list \in SUBSET {d \in Target : OwnerOf[d] = connectionThread.client.kind} :
          connectionThread' = [connectionThread EXCEPT !.outcome = "connected", !.devices = list]
     \/ \E outcome \in {"failed", "panicked"} :
          connectionThread' = [connectionThread EXCEPT !.outcome = outcome]
  /\ UNCHANGED <<phase, setupVars, targetVars, client, credentialState, connectionRx>>
  /\ UNCHANGED <<testVars, actionVars, bridgeVars>>

\* Whether the test sound was sent only chooses a status line.
TestActionThreadFinishes ==
  /\ testThread # None
  /\ testThread.outcome = "running"
  /\ \E outcome \in {"finished", "panicked"} :
       testThread' = [testThread EXCEPT !.outcome = outcome]
  /\ UNCHANGED <<phase, setupVars, targetVars, connectionVars, testRx>>
  /\ UNCHANGED <<actionVars, bridgeVars>>

\* A worker that leaves the job it executes in the channel.
TakeLeavingJob == queue' = queue

\* recv takes the job out of the channel.
Take == queue' = Tail(queue)

\* The worker's recv: an expired job is answered without a call.
WorkerReceives ==
  /\ workerAlive
  /\ executing = <<>>
  /\ queue # <<>>
  /\ Take
  /\ IF Expired(Head(queue))
     THEN /\ completions' = Append(completions, Head(queue).request)
          /\ UNCHANGED executing
     ELSE /\ executing' = <<Head(queue)>>
          /\ UNCHANGED completions
  /\ UNCHANGED <<phase, setupVars, targetVars, connectionVars, testVars>>
  /\ UNCHANGED <<inFlight, workerAlive, bridgeVars>>

\* The provider call returned, with success or with an error.
WorkerAnswers ==
  /\ executing # <<>>
  /\ completions' = Append(completions, executing[1].request)
  /\ executing' = <<>>
  /\ UNCHANGED <<phase, setupVars, targetVars, connectionVars, testVars>>
  /\ UNCHANGED <<queue, inFlight, workerAlive, bridgeVars>>

\* A panic in the provider call unwinds the thread and drops both channels' ends.
WorkerPanics ==
  /\ executing # <<>>
  /\ executing' = <<>>
  /\ queue' = <<>>
  /\ workerAlive' = FALSE
  /\ UNCHANGED <<phase, setupVars, targetVars, connectionVars, testVars>>
  /\ UNCHANGED <<completions, inFlight, bridgeVars>>

\* Time passes for every queued job.
Tick ==
  /\ \E i \in 1 .. Len(queue) : ~Expired(queue[i])
  /\ queue' = [i \in 1 .. Len(queue) |->
                 [queue[i] EXCEPT !.age = IF @ < MaxAge THEN @ + 1 ELSE @]]
  /\ UNCHANGED <<phase, setupVars, targetVars, connectionVars, testVars>>
  /\ UNCHANGED <<executing, completions, inFlight, workerAlive, bridgeVars>>

\* The listener broadcasts a record.  The log is a file the game and the user may
\* truncate, replace or replay: any record may come at any time, again and again.
Broadcast(t) ==
  /\ listening
  /\ Len(events) + inFlight < MaxLoad
  /\ events' = Append(events, t)
  /\ UNCHANGED <<phase, setupVars, targetVars, connectionVars, testVars>>
  /\ UNCHANGED <<actionVars, watermark, listening>>

--------------------------------------------------------------------------------

\* AppState::default() with what restore_app takes from the saved state.
Init ==
  /\ phase = "test"
  /\ provider \in Provider
  /\ credentials \in [Provider -> Credential]
  /\ settings \in Restored
  /\ client = None
  /\ credentialState = "unknown"
  /\ devices = {}
  /\ selected = None
  /\ preferred \in {None} \cup {d \in Target : OwnerOf[d] = provider}
  /\ connectionRx = FALSE
  /\ connectionThread = None
  /\ testRx = FALSE
  /\ testThread = None
  /\ queue = <<>>
  /\ executing = <<>>
  /\ completions = <<>>
  /\ inFlight = 0
  /\ workerAlive = TRUE
  /\ watermark = None
  /\ listening \in BOOLEAN
  /\ events = <<>>

Frame  == PollTestAction \/ PollConnectionTest \/ PollAction \/ PollBridgeEvents \/ UserInput

Worker == WorkerReceives \/ WorkerAnswers \/ WorkerPanics

Next ==
  \/ Frame
  \/ ConnectionThreadAnswers
  \/ TestActionThreadFinishes
  \/ Worker
  \/ Tick
  \/ \E t \in Trigger : Broadcast(t)

Spec == Init /\ [][Next]_vars

\* A thread that answered has asked for a frame.
RepaintRequested ==
  \/ connectionThread # None /\ connectionThread.outcome \in {"connected", "failed"}
  \/ testThread # None /\ testThread.outcome = "finished"

\* A frame under way ends.  Of itself egui draws the next one only on a request: those
\* of the threads and the one draw makes while the listener runs or actions are in flight.
FrameDue == phase # "test" \/ listening \/ ActionInProgress \/ RepaintRequested

\* Provider calls return or panic.
Fairness ==
  /\ WF_vars(FrameDue /\ Frame)
  /\ WF_vars(ConnectionThreadAnswers)
  /\ WF_vars(TestActionThreadFinishes)
  /\ WF_vars(Worker)

FairSpec == Spec /\ Fairness

--------------------------------------------------------------------------------
(* Correctness. *)

PageType ==
  /\ phase \in {"test", "connection", "action", "bridge", "input"}
  /\ provider \in Provider
  /\ credentials \in [Provider -> Credential]
  /\ settings \in [Kind -> Setting]
  /\ devices \in SUBSET Target
  /\ selected \in Target \cup {None}
  /\ preferred \in Target \cup {None}

FlagType ==
  /\ connectionRx \in BOOLEAN
  /\ testRx \in BOOLEAN
  /\ workerAlive \in BOOLEAN
  /\ listening \in BOOLEAN

ThreadType ==
  /\ client \in Client \cup {None}
  /\ credentialState \in {"unknown", "testing", "valid", "invalid"}
  /\ connectionThread \in ConnectionThread \cup {None}
  /\ testThread \in TestThread \cup {None}

QueueType ==
  /\ queue \in Seq(Job)
  /\ executing \in Seq(Job)
  /\ completions \in Seq(Request)
  /\ inFlight \in Nat

BridgeType ==
  /\ watermark \in Watermark \cup {None}
  /\ events \in Seq(Trigger)

\* Every variable of AppState and of its threads keeps its type.
TypeOK == PageType /\ FlagType /\ ThreadType /\ QueueType /\ BridgeType

\* A connected client always belongs to the provider and the credentials the
\* setup page shows, with a selected target of that provider if it lists any: a
\* test's late answer never lands on a changed setup (apply_connection_result,
\* reset_connection, set_provider).
ClientMatchesSetup ==
  /\ client # None =>
       /\ client = [kind |-> provider, credential |-> credentials[provider]]
       /\ credentialState = "valid"
       /\ selected = preferred
       /\ devices # {} => selected \in devices
  /\ client = None => devices = {}
  /\ \A d \in devices : OwnerOf[d] = provider
  /\ preferred # None => OwnerOf[preferred] = provider

\* The page shows the profile the level was resolved from, or what its editor has made
\* of that profile since.
LevelFits(level, shown) ==
  \E profile \in Profile : level \in Levels[profile] /\ shown \in {profile, Drawn[profile]}

MatchesPages(job) ==
  /\ job.client = client
  /\ job.request.provider = provider
  /\ job.request.target = selected
  /\ settings[job.request.trigger.kind].enabled
  /\ LevelFits(job.request.level, settings[job.request.trigger.kind].profile)

\* Queued work is a snapshot, and no edit gets through while it is in flight: whatever
\* the worker or the test thread is about to do, it does with the client and the target
\* the user is looking at, for a trigger that is on.  Its level is one the page's profile
\* resolves to, or resolved to before the editor was drawn: a value of a settings file
\* that lies between two steps is still carried out while the page already shows the
\* step next to it.
WorkMatchesPages ==
  /\ \A i \in 1 .. Len(queue) : MatchesPages(queue[i])
  /\ \A i \in 1 .. Len(executing) : MatchesPages(executing[i])
  /\ testThread # None /\ testThread.outcome = "running" =>
       testThread.client = client /\ testThread.target = selected

\* Busy is what every page trusts: when it is false, no thread runs a provider
\* call or is about to, though each of them only reports through its channel.
QuietWhenNotBusy ==
  ~Busy =>
    /\ connectionThread = None
    /\ testThread = None
    /\ queue = <<>>
    /\ executing = <<>>
    /\ completions = <<>>

\* action_in_flight counts the accepted actions still to be reported, until a
\* panic of the worker loses some of them; it never undercounts.
InFlightExact ==
  /\ workerAlive => inFlight = Len(Outstanding)
  /\ ~workerAlive => inFlight >= Len(Outstanding)

\* However often the log of one game session is replayed, two accepted actions
\* that are both unreported never stem from one record, and the actions are in the
\* game's order.  The watermark remembers one session only: records of another
\* one that come between let older records pass again.
OneSession == \A s, t \in Trigger : s.session = t.session

OutstandingInOrder ==
  OneSession =>
    /\ \A i \in 1 .. Len(Outstanding) - 1 :
         Outstanding[i].trigger.sequence < Outstanding[i + 1].trigger.sequence
    /\ Outstanding # <<>> =>
         /\ watermark # None
         /\ Outstanding[Len(Outstanding)].trigger.sequence <= watermark.sequence

\* A provider call never starts for an action that waited MaxAge or longer, even
\* when the call before it held the worker for that time.
NoStaleAction == \A i \in 1 .. Len(executing) : executing[i].age < MaxAge

\* The one case in which nobody draws the frame that would unlock the pages: a test
\* thread panicked, and with no listener running only the user's input draws it.
Unheard ==
  \/ connectionThread # None /\ connectionThread.outcome = "panicked"
  \/ testThread # None /\ testThread.outcome = "panicked"

\* Once records stop coming, the pages do not stay locked: every provider call is
\* accounted for, a lost worker's included.
PagesUnlock == <>[](events = <<>> /\ ~Unheard) => []<>(~Busy)

\* poll_bridge_events returns when it finds its channel empty; nothing but the
\* rate of the records makes it do so.
DrainsEnd == []<>(phase # "bridge")

\* As long as the frame gets out of its drain loop, a connection test leaves the
\* testing state and a test action its sending state, though triggers keep coming
\* and whether its thread answers or fails; while the listener runs, even if it panics.
TestsEnd ==
  DrainsEnd =>
    /\ connectionRx ~> ~connectionRx \/ Unheard
    /\ testRx ~> ~testRx \/ Unheard
    /\ Unheard ~> ~Unheard \/ ~listening

Delivery ==
  INSTANCE AtMostOnceQueue WITH
    outstanding <- Outstanding,
    handed      <- Len(completions) + Len(executing),
    working     <- executing # <<>>

\* README: at-most-once queue semantics.  From try_send to the poll of its
\* completion, an action follows AtMostOnceQueue, whatever expires, fails or
\* panics, and a reset never discards one.
AtMostOnceDelivery == Delivery!Spec
================================================================================
