----------------------------- MODULE CompanionProof -----------------------------
(***************************************************************************)
(* Invariants of Companion for every value of its constants.  They follow   *)
(* from one inductive invariant, IInv: the checked invariants strengthened  *)
(* by what the channels and the threads behind them know of each other.     *)
(* Then the action queue: the frame loop and the worker implement           *)
(* AtMostOnceQueue, and within one game session the unreported actions are  *)
(* in the order of the records they stem from.                              *)
(***************************************************************************)
EXTENDS Companion, SequenceTheorems, TLAPS

\* The flags of AppState and the threads behind them: a receiver is held exactly
\* while its thread has something to say, a connection test runs alone, and what
\* it will report belongs to the setup on the page.
ThreadInv ==
  /\ connectionRx = (connectionThread # None)
  /\ testRx = (testThread # None)
  /\ connectionRx => ~testRx /\ client = None /\ queue = <<>> /\ executing = <<>>
  /\ connectionThread # None =>
       /\ connectionThread.client = [kind |-> provider, credential |-> credentials[provider]]
       /\ \A d \in connectionThread.devices : OwnerOf[d] = provider

\* The counter and the channels of the action worker.
CountInv ==
  /\ Len(executing) <= 1
  /\ ~workerAlive => queue = <<>> /\ executing = <<>>
  /\ workerAlive => inFlight = Len(completions) + Len(executing) + Len(queue)
  /\ inFlight >= Len(completions)

IInv ==
  /\ TypeOK
  /\ ThreadInv
  /\ CountInv
  /\ ClientMatchesSetup
  /\ WorkMatchesPages
  /\ NoStaleAction

--------------------------------------------------------------------------------
(* Who changes what: the invariants split Next by the state they are about. *)

LEMMA PageChanges ==
  ASSUME [Next]_vars
  PROVE  \/ PollConnectionTest
         \/ \E p \in Provider : SetProvider(p)
         \/ \E c \in Credential : EditCredentials(c)
         \/ StartConnectionTest
         \/ \E d \in Target : SelectDevice(d)
         \/ \E k \in Kind : DrawEffects(k)
         \/ \E k, selectedEffect \in Kind : ToggleTrigger(k, selectedEffect)
         \/ \E k \in Kind, s \in Choice : EditTrigger(k, s)
         \/ \E source, destination \in Kind : CopyActionSettings(source, destination)
         \/ ResetSavedState
         \/ UNCHANGED <<setupVars, targetVars>>
<1> USE DEF setupVars, targetVars
<1>1. CASE Frame
  BY <1>1 DEF Frame, UserInput, PollTestAction, PollAction, PollBridgeEvents,
              StartTestAction, StartListener, NoInput
<1>2. CASE Worker
  BY <1>2 DEF Worker, WorkerReceives, WorkerAnswers, WorkerPanics
<1>3. CASE ConnectionThreadAnswers \/ TestActionThreadFinishes
  BY <1>3 DEF ConnectionThreadAnswers, TestActionThreadFinishes
<1>4. CASE Tick \/ (\E t \in Trigger : Broadcast(t)) \/ UNCHANGED vars
  BY <1>4 DEF Tick, Broadcast, vars
<1>5. QED
  BY <1>1, <1>2, <1>3, <1>4 DEF Next

LEMMA ThreadChanges ==
  ASSUME [Next]_vars
  PROVE  \/ PollTestAction
         \/ PollConnectionTest
         \/ \E p \in Provider : SetProvider(p)
         \/ \E c \in Credential : EditCredentials(c)
         \/ StartConnectionTest
         \/ StartTestAction
         \/ ResetSavedState
         \/ ConnectionThreadAnswers
         \/ TestActionThreadFinishes
         \/ UNCHANGED <<connectionVars, testVars>>
<1> USE DEF connectionVars, testVars
<1>1. CASE Frame
  BY <1>1 DEF Frame, UserInput, PollAction, PollBridgeEvents, SelectDevice, DrawEffects, ToggleTrigger, EditTrigger,
              CopyActionSettings, StartListener, NoInput
<1>2. CASE Worker
  BY <1>2 DEF Worker, WorkerReceives, WorkerAnswers, WorkerPanics
<1>3. CASE Tick \/ (\E t \in Trigger : Broadcast(t)) \/ UNCHANGED vars
  BY <1>3 DEF Tick, Broadcast, vars
<1>4. QED
  BY <1>1, <1>2, <1>3 DEF Next

LEMMA ActionChanges ==
  ASSUME [Next]_vars
  PROVE  \/ PollAction
         \/ PollBridgeEvents
         \/ ResetSavedState
         \/ WorkerReceives
         \/ WorkerAnswers
         \/ WorkerPanics
         \/ Tick
         \/ UNCHANGED actionVars
<1> USE DEF actionVars
<1>1. CASE Frame
  BY <1>1 DEF Frame, UserInput, PollTestAction, PollConnectionTest, SetProvider,
              EditCredentials, StartConnectionTest, SelectDevice, StartTestAction,
              DrawEffects, ToggleTrigger, EditTrigger, CopyActionSettings, StartListener, NoInput
<1>2. CASE ConnectionThreadAnswers \/ TestActionThreadFinishes
  BY <1>2 DEF ConnectionThreadAnswers, TestActionThreadFinishes
<1>3. CASE (\E t \in Trigger : Broadcast(t)) \/ UNCHANGED vars
  BY <1>3 DEF Broadcast, vars
<1>4. QED
  BY <1>1, <1>2, <1>3 DEF Next, Worker

LEMMA BridgeChanges ==
  ASSUME [Next]_vars
  PROVE  \/ PollBridgeEvents
         \/ StartListener
         \/ ResetSavedState
         \/ \E t \in Trigger : Broadcast(t)
         \/ UNCHANGED bridgeVars
<1> USE DEF bridgeVars
<1>1. CASE Frame
  BY <1>1 DEF Frame, UserInput, PollTestAction, PollConnectionTest, PollAction, SetProvider,
              EditCredentials, StartConnectionTest, SelectDevice, StartTestAction,
              DrawEffects, ToggleTrigger, EditTrigger, CopyActionSettings, NoInput
<1>2. CASE Worker
  BY <1>2 DEF Worker, WorkerReceives, WorkerAnswers, WorkerPanics
<1>3. CASE ConnectionThreadAnswers \/ TestActionThreadFinishes
  BY <1>3 DEF ConnectionThreadAnswers, TestActionThreadFinishes
<1>4. CASE Tick \/ UNCHANGED vars
  BY <1>4 DEF Tick, vars
<1>5. QED
  BY <1>1, <1>2, <1>3, <1>4 DEF Next

LEMMA PhaseChanges ==
  ASSUME [Next]_vars
  PROVE  phase' = phase \/ phase' \in {"test", "connection", "action", "bridge", "input"}
<1>1. CASE Frame
  BY <1>1 DEF Frame, UserInput, PollTestAction, PollConnectionTest, PollAction,
              PollBridgeEvents, SetProvider, EditCredentials, StartConnectionTest,
              SelectDevice, StartTestAction, DrawEffects, ToggleTrigger, EditTrigger, CopyActionSettings,
              StartListener, ResetSavedState, NoInput, NotBusy, Input
<1>2. CASE Worker
  BY <1>2 DEF Worker, WorkerReceives, WorkerAnswers, WorkerPanics
<1>3. CASE ConnectionThreadAnswers \/ TestActionThreadFinishes
  BY <1>3 DEF ConnectionThreadAnswers, TestActionThreadFinishes
<1>4. CASE Tick \/ (\E t \in Trigger : Broadcast(t)) \/ UNCHANGED vars
  BY <1>4 DEF Tick, Broadcast, vars
<1>5. QED
  BY <1>1, <1>2, <1>3, <1>4 DEF Next

--------------------------------------------------------------------------------
(* Types. *)

LEMMA TypeInit == Init => TypeOK
<1> SUFFICES ASSUME Init PROVE TypeOK
  OBVIOUS
<1> USE ProviderAssumption, SettingsAssumption DEF Init
<1>1. PageType
  BY DEF PageType
<1>2. FlagType
  BY DEF FlagType
<1>3. ThreadType
  BY DEF ThreadType
<1>4. QueueType /\ BridgeType
  BY DEF QueueType, BridgeType
<1>5. QED
  BY <1>1, <1>2, <1>3, <1>4 DEF TypeOK

\* Drawing an editor keeps settings in their type.
LEMMA DrawnType ==
  ASSUME NEW edited \in [Kind -> Setting], NEW k \in Kind
  PROVE  EditorDrawn(edited, k) \in [Kind -> Setting]
<1>1. edited[k] \in Setting /\ Drawn[edited[k].profile] \in Profile
  BY ProfileAssumption DEF Setting
<1>2. [edited[k] EXCEPT !.profile = Drawn[edited[k].profile]] \in Setting
  BY <1>1 DEF Setting
<1>3. EditorDrawn(edited, k) =
        [edited EXCEPT ![k] = [edited[k] EXCEPT !.profile = Drawn[edited[k].profile]]]
  BY DEF EditorDrawn
<1>4. QED
  BY <1>2, <1>3

LEMMA ToggledSettingsType ==
  ASSUME PageType, NEW k \in Kind, NEW selectedEffect \in Kind,
         ToggleTrigger(k, selectedEffect)
  PROVE  settings' \in [Kind -> Setting]
<1> DEFINE edited == [settings EXCEPT ![k].enabled = ~@]
<1>1. settings[k] \in Setting
  BY DEF PageType
<1>2. [settings[k] EXCEPT !.enabled = ~settings[k].enabled] \in Setting
  BY <1>1 DEF Setting
<1>3. edited \in [Kind -> Setting]
  BY <1>2 DEF PageType
<1>4. settings' = EditorDrawn(edited, selectedEffect)
  BY DEF ToggleTrigger
<1> HIDE DEF edited
<1>5. QED
  BY <1>3, <1>4, DrawnType

LEMMA EditedSettingsType ==
  ASSUME PageType, NEW k \in Kind, NEW s \in Choice, EditTrigger(k, s)
  PROVE  settings' \in [Kind -> Setting]
<1> DEFINE edited == [settings EXCEPT ![k] = s]
<1>1. edited \in [Kind -> Setting]
  BY SettingsAssumption DEF PageType
<1>2. settings' = EditorDrawn(edited, k)
  BY DEF EditTrigger
<1> HIDE DEF edited
<1>3. QED
  BY <1>1, <1>2, DrawnType

LEMMA CopiedSettingsType ==
  ASSUME PageType, NEW source \in Kind, NEW destination \in Kind,
         CopyActionSettings(source, destination)
  PROVE  settings' \in [Kind -> Setting]
<1> DEFINE edited == [settings EXCEPT ![destination].profile = settings[source].profile]
<1>1. settings[source] \in Setting /\ settings[destination] \in Setting
  BY DEF PageType
<1>2. [settings[destination] EXCEPT !.profile = settings[source].profile] \in Setting
  BY <1>1 DEF Setting
<1>3. edited \in [Kind -> Setting]
  BY <1>2 DEF PageType
<1>4. settings' = EditorDrawn(edited, destination)
  BY DEF CopyActionSettings
<1> HIDE DEF edited
<1>5. QED
  BY <1>3, <1>4, DrawnType

LEMMA AppliedPageType ==
  ASSUME PageType, ThreadType, PollConnectionTest
  PROVE  UNCHANGED setupVars /\ devices' \in SUBSET Target
         /\ selected' \in Target \cup {None} /\ preferred' \in Target \cup {None}
<1> USE DEF PageType, targetVars
<1>1. UNCHANGED setupVars
  BY DEF PollConnectionTest
<1>2. CASE ~ConnectionAnswered
  BY <1>1, <1>2 DEF PollConnectionTest
<1>3. CASE ConnectionAnswered /\ connectionThread.outcome = "connected"
  <2>1. connectionThread \in ConnectionThread
    BY <1>3 DEF ThreadType, ConnectionAnswered
  <2>2. connectionThread.devices \in SUBSET Target
    BY <2>1 DEF ConnectionThread
  <2>3. devices' = connectionThread.devices /\ ApplyDevices(connectionThread.devices)
    BY <1>3 DEF PollConnectionTest, ApplyConnectionResult
  <2>4. PICK target \in (IF preferred \in connectionThread.devices THEN {preferred}
                         ELSE IF connectionThread.devices = {} THEN {None}
                         ELSE connectionThread.devices) :
                selected' = target /\ preferred' = target
    BY <2>3 DEF ApplyDevices
  <2>5. target \in Target \cup {None}
    BY <2>2, <2>4
  <2>6. QED
    BY <1>1, <2>2, <2>3, <2>4, <2>5
<1>4. CASE ConnectionAnswered /\ connectionThread.outcome # "connected"
  BY <1>1, <1>4 DEF PollConnectionTest, ApplyConnectionError
<1>5. QED
  BY <1>2, <1>3, <1>4

LEMMA PageTypeStep == TypeOK /\ [Next]_vars => PageType'
<1> SUFFICES ASSUME PageType, ThreadType, [Next]_vars PROVE PageType'
  BY DEF TypeOK
<1> USE DEF PageType, setupVars, targetVars
<1>1. phase' \in {"test", "connection", "action", "bridge", "input"}
  BY PhaseChanges
<1>2. CASE PollConnectionTest
  BY <1>1, <1>2, AppliedPageType
<1>3. CASE \E p \in Provider : SetProvider(p)
  BY <1>1, <1>3 DEF SetProvider, ResetConnection
<1>4. CASE \E c \in Credential : EditCredentials(c)
  BY <1>1, <1>4 DEF EditCredentials, ResetConnection
<1>5. CASE StartConnectionTest
  BY <1>1, <1>5 DEF StartConnectionTest, ResetConnection
<1>6. CASE \E d \in Target : SelectDevice(d)
  BY <1>1, <1>6 DEF SelectDevice
<1>7. CASE \/ \E k \in Kind : DrawEffects(k)
           \/ \E k, selectedEffect \in Kind : ToggleTrigger(k, selectedEffect)
  BY <1>1, <1>7, DrawnType, ToggledSettingsType DEF DrawEffects, ToggleTrigger
<1>8. CASE \/ \E k \in Kind, s \in Choice : EditTrigger(k, s)
           \/ \E source, destination \in Kind : CopyActionSettings(source, destination)
  BY <1>1, <1>8, EditedSettingsType, CopiedSettingsType DEF EditTrigger, CopyActionSettings
<1>9. CASE ResetSavedState
  BY <1>1, <1>9, ProviderAssumption, SettingsAssumption DEF ResetSavedState, ResetConnection
<1>10. CASE UNCHANGED <<setupVars, targetVars>>
  BY <1>1, <1>10
<1>11. QED
  BY <1>2, <1>3, <1>4, <1>5, <1>6, <1>7, <1>8, <1>9, <1>10, PageChanges

LEMMA FlagTypeStep == TypeOK /\ [Next]_vars => FlagType'
<1> SUFFICES ASSUME FlagType, [Next]_vars PROVE FlagType'
  BY DEF TypeOK
<1>1. connectionRx' \in BOOLEAN /\ testRx' \in BOOLEAN
  <2> USE DEF connectionVars, testVars, FlagType, ResetConnection
  <2>1. CASE PollTestAction
    BY <2>1 DEF PollTestAction
  <2>2. CASE PollConnectionTest
    BY <2>2 DEF PollConnectionTest, ApplyConnectionResult, ApplyConnectionError
  <2>3. CASE \/ \E p \in Provider : SetProvider(p)
             \/ \E c \in Credential : EditCredentials(c)
             \/ StartConnectionTest
             \/ StartTestAction
             \/ ResetSavedState
    BY <2>3 DEF SetProvider, EditCredentials, StartConnectionTest, StartTestAction, ResetSavedState
  <2>4. CASE \/ ConnectionThreadAnswers
             \/ TestActionThreadFinishes
             \/ UNCHANGED <<connectionVars, testVars>>
    BY <2>4 DEF ConnectionThreadAnswers, TestActionThreadFinishes
  <2>5. QED
    BY <2>1, <2>2, <2>3, <2>4, ThreadChanges
<1>2. workerAlive' \in BOOLEAN
  BY ActionChanges DEF PollAction, PollBridgeEvents, ResetSavedState, WorkerReceives,
                       WorkerAnswers, WorkerPanics, Tick, actionVars, FlagType
<1>3. listening' \in BOOLEAN
  BY BridgeChanges DEF PollBridgeEvents, StartListener, ResetSavedState, Broadcast,
                       bridgeVars, FlagType
<1>4. QED
  BY <1>1, <1>2, <1>3 DEF FlagType

LEMMA StartedTestType ==
  ASSUME PageType, ThreadType, StartConnectionTest PROVE ThreadType'
<1>1. [kind |-> provider, credential |-> credentials[provider]] \in Client
  BY DEF PageType, Client
<1>2. connectionThread' \in ConnectionThread
  BY <1>1 DEF StartConnectionTest, ConnectionThread
<1>3. QED
  BY <1>2 DEF StartConnectionTest, ResetConnection, testVars, ThreadType

LEMMA AppliedThreadType ==
  ASSUME ThreadType, PollConnectionTest PROVE ThreadType'
<1> USE DEF connectionVars, testVars, ThreadType
<1>1. CASE ~ConnectionAnswered
  BY <1>1 DEF PollConnectionTest
<1>2. CASE ConnectionAnswered
  <2>1. connectionThread \in ConnectionThread
    BY <1>2 DEF ConnectionAnswered
  <2>2. connectionThread.client \in Client
    BY <2>1 DEF ConnectionThread
  <2>3. QED
    BY <1>2, <2>2 DEF PollConnectionTest, ApplyConnectionResult, ApplyConnectionError
<1>3. QED
  BY <1>1, <1>2

LEMMA StartedActionType ==
  ASSUME PageType, ThreadType, StartTestAction PROVE ThreadType'
<1>1. client \in Client /\ SelectedDevice \in Target
  BY NoneAssumption DEF StartTestAction, ThreadType, PageType, SelectedDevice
<1>2. testThread' \in TestThread
  BY <1>1 DEF StartTestAction, TestThread
<1>3. QED
  BY <1>2 DEF StartTestAction, connectionVars, ThreadType

LEMMA AnsweredThreadType ==
  ASSUME ThreadType, ConnectionThreadAnswers PROVE ThreadType'
<1>1. connectionThread \in ConnectionThread
  BY DEF ThreadType, ConnectionThreadAnswers
<1>2. connectionThread' \in ConnectionThread
  <2>1. ASSUME NEW outcome \in {"failed", "panicked"},
               connectionThread' = [connectionThread EXCEPT !.outcome = outcome]
        PROVE  connectionThread' \in ConnectionThread
    BY <1>1, <2>1 DEF ConnectionThread
  <2>2. ASSUME NEW list \in SUBSET Target,
               connectionThread' = [connectionThread EXCEPT !.outcome = "connected", !.devices = list]
        PROVE  connectionThread' \in ConnectionThread
    BY <1>1, <2>2 DEF ConnectionThread
  <2>3. QED
    BY <2>1, <2>2 DEF ConnectionThreadAnswers
<1>3. QED
  BY <1>2 DEF ConnectionThreadAnswers, testVars, ThreadType

LEMMA FinishedThreadType ==
  ASSUME ThreadType, TestActionThreadFinishes PROVE ThreadType'
<1>1. testThread \in TestThread
  BY DEF ThreadType, TestActionThreadFinishes
<1>2. testThread' \in TestThread
  BY <1>1 DEF TestThread, TestActionThreadFinishes
<1>3. QED
  BY <1>2 DEF TestActionThreadFinishes, connectionVars, ThreadType

LEMMA ThreadTypeStep == TypeOK /\ [Next]_vars => ThreadType'
<1> SUFFICES ASSUME PageType, ThreadType, [Next]_vars PROVE ThreadType'
  BY DEF TypeOK
<1> USE DEF connectionVars, testVars
<1>1. CASE PollTestAction
  BY <1>1 DEF PollTestAction, ThreadType
<1>2. CASE PollConnectionTest
  BY <1>2, AppliedThreadType
<1>3. CASE StartConnectionTest
  BY <1>3, StartedTestType
<1>4. CASE \/ \E p \in Provider : SetProvider(p)
           \/ \E c \in Credential : EditCredentials(c)
           \/ ResetSavedState
  BY <1>4 DEF SetProvider, EditCredentials, ResetSavedState, ResetConnection, ThreadType
<1>5. CASE StartTestAction
  BY <1>5, StartedActionType
<1>6. CASE ConnectionThreadAnswers
  BY <1>6, AnsweredThreadType
<1>7. CASE TestActionThreadFinishes
  BY <1>7, FinishedThreadType
<1>8. CASE UNCHANGED <<connectionVars, testVars>>
  BY <1>8 DEF ThreadType
<1>9. QED
  BY <1>1, <1>2, <1>3, <1>4, <1>5, <1>6, <1>7, <1>8, ThreadChanges

\* The snapshot queue_trigger_action takes is a whole job.
LEMMA NewJobType ==
  ASSUME TypeOK, NEW t \in Trigger, Deliverable(t), NEW level \in Levels[settings[t.kind].profile]
  PROVE  NewJob(t, level) \in Job
<1>1. SelectedDevice \in Target /\ client \in Client
  BY NoneAssumption DEF TypeOK, PageType, ThreadType, Deliverable, SelectedDevice
<1>2. level \in Level
  <2>1. t.kind \in Kind
    BY SettingsAssumption
  <2>2. settings[t.kind] \in Setting
    BY <2>1 DEF TypeOK, PageType
  <2>3. QED
    BY <2>2, ProfileAssumption DEF Setting
<1>3. provider \in Provider /\ 0 \in 0 .. MaxAge
  BY QueueAssumption DEF TypeOK, PageType
<1>4. [provider |-> provider, target |-> SelectedDevice, level |-> level, trigger |-> t] \in Request
  BY <1>1, <1>2, <1>3 DEF Request
<1>5. QED
  BY <1>1, <1>3, <1>4 DEF NewJob, Job

LEMMA JobParts ==
  ASSUME NEW job \in Job
  PROVE  job.client \in Client /\ job.request \in Request /\ job.age \in 0 .. MaxAge
BY DEF Job

\* What poll_bridge_events does to the queue.
LEMMA Enqueued ==
  ASSUME PollBridgeEvents
  PROVE  \/ UNCHANGED <<queue, inFlight>>
         \/ /\ events # <<>> /\ IsNew(Head(events)) /\ Deliverable(Head(events))
            /\ Enqueue(Head(events))
BY DEF PollBridgeEvents, QueueTriggerAction

LEMMA QueuedType ==
  ASSUME TypeOK, PollBridgeEvents PROVE QueueType'
<1>1. queue' \in Seq(Job) /\ inFlight' \in Nat
  <2>1. CASE UNCHANGED <<queue, inFlight>>
    BY <2>1 DEF TypeOK, QueueType
  <2>2. CASE events # <<>> /\ Deliverable(Head(events)) /\ Enqueue(Head(events))
    <3>1. Head(events) \in Trigger
      BY <2>2 DEF TypeOK, BridgeType
    <3>2. PICK level \in Levels[settings[Head(events).kind].profile] :
                 queue' = Append(queue, NewJob(Head(events), level))
      BY <2>2 DEF Enqueue
    <3>3. NewJob(Head(events), level) \in Job
      BY <2>2, <3>1, NewJobType
    <3>4. QED
      BY <2>2, <3>2, <3>3 DEF Enqueue, TypeOK, QueueType
  <2>3. QED
    BY <2>1, <2>2, Enqueued
<1>2. QED
  BY <1>1 DEF PollBridgeEvents, TypeOK, QueueType

LEMMA ReceivedType ==
  ASSUME QueueType, WorkerReceives PROVE QueueType'
<1>1. Head(queue) \in Job /\ Tail(queue) \in Seq(Job)
  BY DEF QueueType, WorkerReceives
<1>2. Append(completions, Head(queue).request) \in Seq(Request) /\ <<Head(queue)>> \in Seq(Job)
  BY <1>1, JobParts DEF QueueType
<1>3. completions' \in Seq(Request) /\ executing' \in Seq(Job) /\ queue' \in Seq(Job)
  BY <1>1, <1>2 DEF QueueType, WorkerReceives, Take
<1>4. QED
  BY <1>3 DEF QueueType, WorkerReceives

LEMMA AnsweredType ==
  ASSUME QueueType, WorkerAnswers PROVE QueueType'
<1>1. executing[1] \in Job
  BY DEF QueueType, WorkerAnswers
<1>2. executing[1].request \in Request
  BY <1>1, JobParts
<1>3. completions' \in Seq(Request) /\ executing' \in Seq(Job)
  BY <1>2 DEF QueueType, WorkerAnswers
<1>4. QED
  BY <1>3 DEF QueueType, WorkerAnswers

LEMMA TickedJob ==
  ASSUME NEW job \in Job
  PROVE  [job EXCEPT !.age = IF @ < MaxAge THEN @ + 1 ELSE @] \in Job
<1>1. IF job.age < MaxAge THEN job.age + 1 \in 0 .. MaxAge ELSE job.age \in 0 .. MaxAge
  BY JobParts, QueueAssumption
<1>2. QED
  BY <1>1 DEF Job

LEMMA TickedType ==
  ASSUME QueueType, Tick PROVE QueueType'
<1>1. ASSUME NEW i \in 1 .. Len(queue)
      PROVE  [queue[i] EXCEPT !.age = IF @ < MaxAge THEN @ + 1 ELSE @] \in Job
  <2>1. queue[i] \in Job
    BY DEF QueueType
  <2>2. QED
    BY <2>1, TickedJob
<1>2. queue' \in Seq(Job)
  BY <1>1 DEF Tick, QueueType
<1>3. QED
  BY <1>2 DEF QueueType, Tick

LEMMA PolledType ==
  ASSUME QueueType, PollAction PROVE QueueType'
<1>1. completions' \in Seq(Request)
  <2>1. completions # <<>> => Tail(completions) \in Seq(Request)
    BY DEF QueueType
  <2>2. completions' = completions \/ (completions # <<>> /\ completions' = Tail(completions))
    BY DEF PollAction
  <2>3. QED
    BY <2>1, <2>2 DEF QueueType
<1>2. inFlight' \in Nat
  BY DEF QueueType, PollAction, InFlightAfterWorkerLoss
<1>3. QED
  BY <1>1, <1>2 DEF QueueType, PollAction

LEMMA QueueTypeStep == TypeOK /\ [Next]_vars => QueueType'
<1> SUFFICES ASSUME TypeOK, QueueType, [Next]_vars PROVE QueueType'
  BY DEF TypeOK
<1>1. CASE ResetSavedState
  BY <1>1 DEF ResetSavedState, QueueType
<1>2. CASE WorkerPanics
  BY <1>2 DEF WorkerPanics, QueueType
<1>3. CASE UNCHANGED actionVars
  BY <1>3 DEF actionVars, QueueType
<1>4. QED
  BY <1>1, <1>2, <1>3, ActionChanges, PolledType, QueuedType, ReceivedType, AnsweredType,
     TickedType

LEMMA BridgeTypeStep == TypeOK /\ [Next]_vars => BridgeType'
<1> SUFFICES ASSUME BridgeType, [Next]_vars PROVE BridgeType'
  BY DEF TypeOK
<1>1. CASE PollBridgeEvents
  <2>1. CASE events = <<>>
    BY <1>1, <2>1 DEF PollBridgeEvents, BridgeType
  <2>2. CASE events # <<>>
    <3>1. Head(events) \in Trigger /\ Tail(events) \in Seq(Trigger)
      BY <2>2 DEF BridgeType
    <3>2. [session |-> Head(events).session, sequence |-> Head(events).sequence] \in Watermark
      BY <3>1, SettingsAssumption DEF Watermark
    <3>3. watermark' \in Watermark \cup {None}
      BY <1>1, <2>2, <3>2 DEF PollBridgeEvents, QueueTriggerAction, BridgeType
    <3>4. events' = Tail(events)
      BY <1>1, <2>2 DEF PollBridgeEvents
    <3>5. QED
      BY <3>1, <3>3, <3>4 DEF BridgeType
  <2>3. QED
    BY <2>1, <2>2
<1>2. CASE StartListener \/ UNCHANGED bridgeVars
  BY <1>2 DEF StartListener, bridgeVars, BridgeType
<1>3. CASE ResetSavedState
  BY <1>3 DEF ResetSavedState, BridgeType
<1>4. CASE \E t \in Trigger : Broadcast(t)
  BY <1>4 DEF Broadcast, BridgeType
<1>5. QED
  BY <1>1, <1>2, <1>3, <1>4, BridgeChanges

LEMMA TypeStep == TypeOK /\ [Next]_vars => TypeOK'
BY PageTypeStep, FlagTypeStep, ThreadTypeStep, QueueTypeStep, BridgeTypeStep DEF TypeOK

\* Every variable of AppState and of its threads keeps its type in every behaviour
\* of the frame loop and the threads.
THEOREM TypeCorrect == Spec => []TypeOK
BY TypeInit, TypeStep, PTL DEF Spec

--------------------------------------------------------------------------------
(* The counter of actions in flight. *)

LEMMA OutstandingLength ==
  ASSUME QueueType
  PROVE  Len(Outstanding) = Len(completions) + Len(executing) + Len(queue)
<1>1. Requests(executing) \in Seq(Request) /\ Len(Requests(executing)) = Len(executing)
  <2>1. \A i \in 1 .. Len(executing) : executing[i].request \in Request
    BY JobParts DEF QueueType
  <2>2. QED
    BY <2>1 DEF Requests, QueueType
<1>2. Requests(queue) \in Seq(Request) /\ Len(Requests(queue)) = Len(queue)
  <2>1. \A i \in 1 .. Len(queue) : queue[i].request \in Request
    BY JobParts DEF QueueType
  <2>2. QED
    BY <2>1 DEF Requests, QueueType
<1>3. completions \in Seq(Request)
  BY DEF QueueType
<1>4. QED
  BY <1>1, <1>2, <1>3 DEF Outstanding

LEMMA PollCounts ==
  ASSUME QueueType, CountInv, PollAction PROVE CountInv'
<1> USE DEF QueueType
<1>1. CASE completions # <<>>
  <2>1. Len(completions') = Len(completions) - 1 /\ Len(completions) > 0
    BY <1>1 DEF PollAction
  <2>2. inFlight' = inFlight - 1
    BY <1>1, <2>1 DEF PollAction, CountInv
  <2>3. UNCHANGED <<queue, executing, workerAlive>>
    BY DEF PollAction
  <2>4. inFlight' >= Len(completions')
    BY <2>1, <2>2 DEF CountInv
  <2>5. workerAlive => inFlight' = Len(completions') + Len(executing) + Len(queue)
    BY <2>1, <2>2 DEF CountInv
  <2>6. QED
    BY <2>3, <2>4, <2>5 DEF CountInv
<1>2. CASE completions = <<>>
  BY <1>2 DEF CountInv, PollAction, InFlightAfterWorkerLoss
<1>3. QED
  BY <1>1, <1>2

LEMMA EnqueueCounts ==
  ASSUME QueueType, CountInv, PollBridgeEvents PROVE CountInv'
<1> USE DEF QueueType
<1>1. CASE UNCHANGED <<queue, inFlight>>
  BY <1>1 DEF CountInv, PollBridgeEvents
<1>2. CASE Deliverable(Head(events)) /\ Enqueue(Head(events))
  <2>1. PICK job : queue' = Append(queue, job)
    BY <1>2 DEF Enqueue
  <2>2. Len(queue') = Len(queue) + 1
    BY <2>1
  <2>3. workerAlive /\ inFlight' = inFlight + 1
    BY <1>2 DEF Deliverable, Enqueue
  <2>4. QED
    BY <2>2, <2>3 DEF CountInv, PollBridgeEvents
<1>3. QED
  BY <1>1, <1>2, Enqueued

LEMMA ReceiveCounts ==
  ASSUME QueueType, CountInv, WorkerReceives PROVE CountInv'
<1> USE DEF QueueType
<1>1. Len(queue') = Len(queue) - 1
  BY DEF WorkerReceives, Take
<1>2. Len(executing) = 0
  BY DEF WorkerReceives
<1>3. CASE Expired(Head(queue))
  <2>1. Len(completions') = Len(completions) + 1 /\ executing' = executing
    BY <1>3 DEF WorkerReceives
  <2>2. Len(queue) > 0
    BY DEF WorkerReceives
  <2>3. QED
    BY <1>1, <1>2, <2>1, <2>2 DEF CountInv, WorkerReceives
<1>4. CASE ~Expired(Head(queue))
  <2>1. Len(executing') = 1 /\ completions' = completions
    BY <1>4 DEF WorkerReceives
  <2>2. QED
    BY <1>1, <1>2, <2>1 DEF CountInv, WorkerReceives
<1>5. QED
  BY <1>3, <1>4

LEMMA AnswerCounts ==
  ASSUME QueueType, CountInv, WorkerAnswers PROVE CountInv'
<1>1. executing # <<>> /\ Len(executing) <= 1 /\ workerAlive
  BY DEF WorkerAnswers, CountInv
<1>2. Len(executing) = 1
  <2>1. executing \in Seq(Job)
    BY DEF QueueType
  <2>2. Len(executing) \in Nat /\ Len(executing) # 0
    BY <1>1, <2>1
  <2>3. \A n \in Nat : n # 0 /\ n <= 1 => n = 1
    OBVIOUS
  <2>4. QED
    BY <1>1, <2>2, <2>3
<1>3. Len(completions') = Len(completions) + 1 /\ Len(completions) \in Nat
  BY DEF WorkerAnswers, QueueType
<1>4. Len(executing') = 0 /\ executing' = <<>>
  BY DEF WorkerAnswers
<1>5. Len(queue) \in Nat /\ UNCHANGED <<queue, inFlight, workerAlive>>
  BY DEF QueueType, WorkerAnswers
<1>6. QED
  BY <1>1, <1>2, <1>3, <1>4, <1>5 DEF CountInv

LEMMA TickCounts ==
  ASSUME QueueType, CountInv, Tick PROVE CountInv'
<1> USE DEF QueueType
<1>1. Len(queue') = Len(queue)
  BY DEF Tick
<1>2. workerAlive
  BY DEF CountInv, Tick
<1>3. QED
  BY <1>1, <1>2 DEF CountInv, Tick

LEMMA CountStep == IInv /\ [Next]_vars => CountInv'
<1> SUFFICES ASSUME QueueType, CountInv, [Next]_vars PROVE CountInv'
  BY DEF IInv, TypeOK
<1>1. CASE ResetSavedState
  BY <1>1 DEF CountInv, ResetSavedState
<1>2. CASE WorkerPanics
  BY <1>2 DEF CountInv, WorkerPanics, QueueType
<1>3. CASE UNCHANGED actionVars
  BY <1>3 DEF CountInv, actionVars
<1>4. QED
  BY <1>1, <1>2, <1>3, ActionChanges, PollCounts, EnqueueCounts, ReceiveCounts, AnswerCounts,
     TickCounts

\* A zero counter leaves nothing in the channels nor in the worker's hands.
LEMMA NothingInFlight ==
  ASSUME QueueType, CountInv, inFlight = 0
  PROVE  queue = <<>> /\ executing = <<>> /\ completions = <<>>
<1> USE DEF QueueType, CountInv
<1>1. Len(completions) = 0 /\ completions = <<>>
  OBVIOUS
<1>2. CASE workerAlive
  <2>1. Len(executing) = 0 /\ Len(queue) = 0
    BY <1>1, <1>2
  <2>2. QED
    BY <1>1, <2>1
<1>3. QED
  BY <1>1, <1>2

LEMMA QuietPages ==
  ASSUME TypeOK, ThreadInv, CountInv, ~Busy
  PROVE  /\ ~connectionRx /\ ~testRx
         /\ connectionThread = None /\ testThread = None
         /\ queue = <<>> /\ executing = <<>> /\ completions = <<>>
BY NothingInFlight DEF TypeOK, ThreadInv, Busy, ActionInProgress

--------------------------------------------------------------------------------
(* The threads behind the flags. *)

LEMMA AnswerIsOwned ==
  ASSUME TypeOK, ThreadInv, ConnectionThreadAnswers
  PROVE  /\ connectionThread' # None /\ connectionThread # None
         /\ connectionThread'.client = connectionThread.client
         /\ \A d \in connectionThread'.devices : OwnerOf[d] = provider
<1>1. connectionThread \in ConnectionThread /\ connectionThread # None
  BY DEF TypeOK, ThreadType, ConnectionThreadAnswers
<1>2. connectionThread.client.kind = provider
  BY <1>1 DEF ThreadInv
<1>3. connectionThread' \in ConnectionThread
  BY AnsweredThreadType, NoneAssumption DEF TypeOK, ThreadType, ConnectionThreadAnswers, ConnectionThread
<1>4. ASSUME NEW outcome \in {"failed", "panicked"},
             connectionThread' = [connectionThread EXCEPT !.outcome = outcome]
      PROVE  /\ connectionThread' # None
             /\ connectionThread'.client = connectionThread.client
             /\ \A d \in connectionThread'.devices : OwnerOf[d] = provider
  BY <1>1, <1>3, <1>4, NoneAssumption DEF ConnectionThread, ThreadInv
<1>5. ASSUME NEW list \in SUBSET {d \in Target : OwnerOf[d] = connectionThread.client.kind},
             connectionThread' = [connectionThread EXCEPT !.outcome = "connected", !.devices = list]
      PROVE  /\ connectionThread' # None
             /\ connectionThread'.client = connectionThread.client
             /\ \A d \in connectionThread'.devices : OwnerOf[d] = provider
  BY <1>1, <1>2, <1>3, <1>5, NoneAssumption DEF ConnectionThread
<1>6. QED
  BY <1>1, <1>4, <1>5 DEF ConnectionThreadAnswers

LEMMA BusyUnchanged ==
  ASSUME QueueType, CountInv, Busy, [Next]_vars
  PROVE  ~ \/ \E p \in Provider : SetProvider(p)
           \/ \E c \in Credential : EditCredentials(c)
           \/ StartConnectionTest
           \/ StartTestAction
           \/ \E d \in Target : SelectDevice(d)
           \/ \E k, selectedEffect \in Kind : ToggleTrigger(k, selectedEffect)
           \/ \E k \in Kind, s \in Choice : EditTrigger(k, s)
           \/ \E source, destination \in Kind : CopyActionSettings(source, destination)
           \/ ResetSavedState
BY DEF SetProvider, EditCredentials, StartConnectionTest, StartTestAction, SelectDevice,
       ToggleTrigger, EditTrigger, CopyActionSettings, ResetSavedState, NotBusy

\* While a connection test runs, no other action of the frame touches the queue.
LEMMA IdleQueue ==
  ASSUME TypeOK, CountInv, client = None, queue = <<>>, executing = <<>>, [Next]_vars
  PROVE  queue' = <<>> /\ executing' = <<>>
<1>1. CASE PollBridgeEvents
  BY <1>1, Enqueued DEF Deliverable, PollBridgeEvents
<1>2. CASE PollAction \/ ResetSavedState \/ UNCHANGED actionVars
  BY <1>2 DEF PollAction, ResetSavedState, actionVars
<1>3. CASE WorkerReceives \/ WorkerAnswers \/ WorkerPanics
  BY <1>3 DEF WorkerReceives, WorkerAnswers, WorkerPanics
<1>4. CASE Tick
  <2>1. Len(queue) = 0
    OBVIOUS
  <2>2. QED
    BY <1>4, <2>1 DEF Tick
<1>5. QED
  BY <1>1, <1>2, <1>3, <1>4, ActionChanges

LEMMA ThreadStep == IInv /\ [Next]_vars => ThreadInv'
<1> SUFFICES ASSUME TypeOK, ThreadInv, CountInv, [Next]_vars PROVE ThreadInv'
  BY DEF IInv
<1>1. CASE StartConnectionTest
  <2>1. NotBusy
    BY <1>1 DEF StartConnectionTest
  <2>2. queue = <<>> /\ executing = <<>> /\ testThread = None /\ ~testRx
    BY <2>1, QuietPages DEF NotBusy
  <2>3. connectionThread' =
          [client |-> [kind |-> provider, credential |-> credentials[provider]],
           outcome |-> "running", devices |-> {}]
    BY <1>1 DEF StartConnectionTest
  <2>4. connectionThread' \in ConnectionThread
    BY <2>3 DEF TypeOK, PageType, ConnectionThread, Client
  <2>5. connectionThread' # None
    BY <2>4, NoneAssumption
  <2>6. connectionThread'.client = [kind |-> provider, credential |-> credentials[provider]]
        /\ connectionThread'.devices = {}
    BY <2>3
  <2>7. /\ UNCHANGED <<provider, credentials, queue, executing, testThread>>
        /\ connectionRx' = TRUE /\ testRx' = FALSE /\ client' = None
    BY <1>1 DEF StartConnectionTest, ResetConnection, setupVars, actionVars
  <2>8. QED
    BY <2>2, <2>5, <2>6, <2>7 DEF ThreadInv
<1>2. CASE \/ \E p \in Provider : SetProvider(p)
           \/ \E c \in Credential : EditCredentials(c)
           \/ ResetSavedState
  <2>1. NotBusy
    BY <1>2 DEF SetProvider, EditCredentials, ResetSavedState
  <2>2. connectionThread = None /\ testThread = None
    BY <2>1, QuietPages DEF NotBusy
  <2>3. UNCHANGED <<connectionThread, testThread>> /\ connectionRx' = FALSE /\ testRx' = FALSE
    BY <1>2 DEF SetProvider, EditCredentials, ResetSavedState, ResetConnection
  <2>4. QED
    BY <2>2, <2>3 DEF ThreadInv
<1>3. CASE StartTestAction
  <2>1. NotBusy
    BY <1>3 DEF StartTestAction
  <2>2. connectionThread = None /\ connectionRx = FALSE
    BY <2>1, QuietPages DEF NotBusy, TypeOK, FlagType
  <2>3. UNCHANGED <<connectionThread, connectionRx>> /\ testRx' = TRUE
    BY <1>3 DEF StartTestAction, connectionVars
  <2>4. testThread' # None
    <3>1. client \in Client /\ SelectedDevice \in Target
      BY <1>3, NoneAssumption DEF StartTestAction, TypeOK, ThreadType, PageType, SelectedDevice
    <3>2. testThread' \in TestThread
      BY <1>3, <3>1 DEF StartTestAction, TestThread
    <3>3. QED
      BY <3>2, NoneAssumption
  <2>5. QED
    BY <2>2, <2>3, <2>4 DEF ThreadInv
<1>4. CASE PollConnectionTest
  <2>1. UNCHANGED <<provider, credentials, queue, executing>>
    BY <1>4 DEF PollConnectionTest, setupVars, actionVars
  <2>2. CASE ~ConnectionAnswered
    BY <1>4, <2>1, <2>2 DEF PollConnectionTest, ThreadInv, connectionVars, testVars
  <2>3. CASE ConnectionAnswered
    <3>1. testThread = None /\ testRx = FALSE
      BY <2>3 DEF ThreadInv, ConnectionAnswered, TypeOK, FlagType
    <3>2. testThread' = None /\ testRx' = FALSE /\ connectionRx' = FALSE /\ connectionThread' = None
      BY <1>4, <2>3, <3>1 DEF PollConnectionTest, ApplyConnectionResult, ApplyConnectionError, testVars
    <3>3. QED
      BY <3>2 DEF ThreadInv
  <2>4. QED
    BY <2>2, <2>3
<1>5. CASE ConnectionThreadAnswers
  <2>1. /\ connectionThread' # None /\ connectionThread # None
        /\ connectionThread'.client = connectionThread.client
        /\ \A d \in connectionThread'.devices : OwnerOf[d] = provider
    BY <1>5, AnswerIsOwned
  <2>2. UNCHANGED <<provider, credentials, client, connectionRx, testRx, testThread, queue, executing>>
    BY <1>5 DEF ConnectionThreadAnswers, setupVars, testVars, actionVars
  <2>3. QED
    BY <2>1, <2>2 DEF ThreadInv
<1>6. CASE PollTestAction
  BY <1>6 DEF PollTestAction, ThreadInv, setupVars, connectionVars, actionVars, testVars
<1>7. CASE TestActionThreadFinishes
  <2>1. testThread' # None
    BY <1>7, FinishedThreadType, NoneAssumption
       DEF TypeOK, ThreadType, TestActionThreadFinishes, TestThread
  <2>2. UNCHANGED <<provider, credentials, client, connectionRx, connectionThread, testRx, queue, executing>>
        /\ testThread # None
    BY <1>7 DEF TestActionThreadFinishes, setupVars, connectionVars, actionVars
  <2>3. QED
    BY <2>1, <2>2 DEF ThreadInv
<1>8. CASE UNCHANGED <<connectionVars, testVars>>
  <2>1. UNCHANGED <<client, connectionRx, connectionThread, testRx, testThread>>
    BY <1>8 DEF connectionVars, testVars
  <2>2. CASE connectionRx
    <3>1. UNCHANGED <<provider, credentials>>
      <4>1. Busy
        BY <2>2 DEF Busy
      <4>2. ~PollConnectionTest \/ UNCHANGED setupVars
        BY DEF PollConnectionTest
      <4>3. (\E k \in Kind : DrawEffects(k)) => UNCHANGED <<provider, credentials>>
        BY DEF DrawEffects
      <4>4. QED
        BY <4>1, <4>2, <4>3, BusyUnchanged, PageChanges DEF TypeOK, setupVars
    <3>2. queue' = <<>> /\ executing' = <<>>
      BY <2>2, IdleQueue DEF ThreadInv
    <3>3. QED
      BY <2>1, <2>2, <3>1, <3>2 DEF ThreadInv
  <2>3. CASE ~connectionRx
    BY <2>1, <2>3 DEF ThreadInv
  <2>4. QED
    BY <2>2, <2>3
<1>9. QED
  BY <1>1, <1>2, <1>3, <1>4, <1>5, <1>6, <1>7, <1>8, ThreadChanges

--------------------------------------------------------------------------------
(* The connected client and the setup page. *)

LEMMA AppliedAnswerMatches ==
  ASSUME TypeOK, ThreadInv, PollConnectionTest, ConnectionAnswered,
         connectionThread.outcome = "connected"
  PROVE  ClientMatchesSetup'
<1> DEFINE list == connectionThread.devices
<1>1. /\ client' = connectionThread.client
      /\ devices' = list
      /\ ApplyDevices(list)
      /\ credentialState' = "valid"
      /\ UNCHANGED <<provider, credentials>>
  BY DEF PollConnectionTest, ApplyConnectionResult, setupVars
<1>2. /\ connectionThread.client = [kind |-> provider, credential |-> credentials[provider]]
      /\ \A d \in list : OwnerOf[d] = provider
  BY DEF ThreadInv, ConnectionAnswered
<1>3. PICK target \in (IF preferred \in list THEN {preferred}
                       ELSE IF list = {} THEN {None} ELSE list) :
              selected' = target /\ preferred' = target
  BY <1>1 DEF ApplyDevices
<1>4. target \in list \/ (list = {} /\ target = None)
  BY <1>3
<1>5. client' = [kind |-> provider', credential |-> credentials'[provider']]
  BY <1>1, <1>2
<1>6. client' # None
  <2>1. connectionThread.client \in Client
    BY DEF TypeOK, ThreadType, ConnectionThread, ConnectionAnswered
  <2>2. QED
    BY <1>1, <2>1, NoneAssumption
<1>7. selected' = preferred' /\ (devices' # {} => selected' \in devices')
  BY <1>1, <1>3, <1>4
<1>8. (\A d \in devices' : OwnerOf[d] = provider') /\ (preferred' # None => OwnerOf[preferred'] = provider')
  BY <1>1, <1>2, <1>3, <1>4
<1>9. QED
  BY <1>1, <1>5, <1>6, <1>7, <1>8 DEF ClientMatchesSetup

LEMMA SetupStep == IInv /\ [Next]_vars => ClientMatchesSetup'
<1> SUFFICES ASSUME TypeOK, ThreadInv, ClientMatchesSetup, [Next]_vars PROVE ClientMatchesSetup'
  BY DEF IInv
<1>1. CASE PollConnectionTest
  <2>1. CASE ~ConnectionAnswered
    BY <1>1, <2>1 DEF PollConnectionTest, ClientMatchesSetup, setupVars, targetVars, connectionVars
  <2>2. CASE ConnectionAnswered /\ connectionThread.outcome # "connected"
    BY <1>1, <2>2 DEF PollConnectionTest, ApplyConnectionError, ClientMatchesSetup, setupVars
  <2>3. QED
    BY <1>1, <2>1, <2>2, AppliedAnswerMatches
<1>2. CASE \E p \in Provider : SetProvider(p)
  BY <1>2 DEF SetProvider, ResetConnection, ClientMatchesSetup
<1>3. CASE \E c \in Credential : EditCredentials(c)
  BY <1>3 DEF EditCredentials, ResetConnection, ClientMatchesSetup
<1>4. CASE StartConnectionTest
  BY <1>4 DEF StartConnectionTest, ResetConnection, ClientMatchesSetup, setupVars
<1>5. CASE ResetSavedState
  BY <1>5 DEF ResetSavedState, ResetConnection, ClientMatchesSetup
<1>6. CASE \E d \in Target : SelectDevice(d)
  BY <1>6 DEF SelectDevice, ClientMatchesSetup, setupVars, connectionVars
<1>7. CASE \/ \E k \in Kind : DrawEffects(k)
           \/ \E k, selectedEffect \in Kind : ToggleTrigger(k, selectedEffect)
           \/ \E k \in Kind, s \in Choice : EditTrigger(k, s)
           \/ \E source, destination \in Kind : CopyActionSettings(source, destination)
  BY <1>7 DEF DrawEffects, ToggleTrigger, EditTrigger, CopyActionSettings, ClientMatchesSetup, targetVars, connectionVars
<1>8. CASE UNCHANGED <<setupVars, targetVars>>
  <2>1. CASE UNCHANGED <<client, credentialState>>
    BY <1>8, <2>1 DEF ClientMatchesSetup, setupVars, targetVars
  <2>2. CASE ~UNCHANGED <<client, credentialState>>
    BY <1>1, <1>2, <1>3, <1>4, <1>5, <2>2, ThreadChanges
       DEF PollTestAction, StartTestAction, ConnectionThreadAnswers, TestActionThreadFinishes,
           connectionVars
  <2>3. QED
    BY <2>1, <2>2
<1>9. QED
  BY <1>1, <1>2, <1>3, <1>4, <1>5, <1>6, <1>7, <1>8, PageChanges

--------------------------------------------------------------------------------
(* Work in flight and the pages. *)

LEMMA NewJobMatches ==
  ASSUME TypeOK, NEW t \in Trigger, Deliverable(t),
         NEW level \in Levels[settings[t.kind].profile]
  PROVE  MatchesPages(NewJob(t, level))
<1>1. settings[t.kind].profile \in Profile
  BY SettingsAssumption DEF TypeOK, PageType, Setting
<1>2. LevelFits(level, settings[t.kind].profile)
  BY <1>1 DEF LevelFits
<1>3. QED
  BY <1>2 DEF MatchesPages, NewJob, Deliverable, SelectedDevice

\* A level keeps fitting when the editor is drawn: drawing it again changes nothing more.
LEMMA DrawnFits ==
  ASSUME NEW level, NEW shown \in Profile, LevelFits(level, shown)
  PROVE  LevelFits(level, Drawn[shown])
BY ProfileAssumption DEF LevelFits

LEMMA DrawnMatches ==
  ASSUME TypeOK, WorkMatchesPages, NEW k \in Kind, DrawEffects(k)
  PROVE  WorkMatchesPages'
<1>1. UNCHANGED <<client, provider, selected, testThread, executing, queue>>
  BY DEF DrawEffects, targetVars, connectionVars, testVars, actionVars
<1>2. \A kind \in Kind :
        /\ settings[kind] \in Setting
        /\ settings'[kind].enabled = settings[kind].enabled
        /\ settings'[kind].profile \in {settings[kind].profile, Drawn[settings[kind].profile]}
  BY DEF DrawEffects, EditorDrawn, TypeOK, PageType, Setting
<1>3. ASSUME NEW job \in Job, MatchesPages(job)
      PROVE  /\ job.client = client'
             /\ job.request.provider = provider'
             /\ job.request.target = selected'
             /\ settings'[job.request.trigger.kind].enabled
             /\ LevelFits(job.request.level, settings'[job.request.trigger.kind].profile)
  <2>1. job.request.trigger.kind \in Kind
    BY SettingsAssumption DEF Job, Request
  <2>2. settings[job.request.trigger.kind].profile \in Profile
    BY <1>2, <2>1 DEF Setting
  <2>3. LevelFits(job.request.level, settings'[job.request.trigger.kind].profile)
    BY <1>2, <1>3, <2>1, <2>2, DrawnFits DEF MatchesPages
  <2>4. settings'[job.request.trigger.kind].enabled
    BY <1>2, <1>3, <2>1 DEF MatchesPages
  <2>5. QED
    BY <1>1, <1>3, <2>3, <2>4 DEF MatchesPages
<1>4. /\ \A i \in 1 .. Len(queue) : queue[i] \in Job /\ MatchesPages(queue[i])
      /\ \A i \in 1 .. Len(executing) : executing[i] \in Job /\ MatchesPages(executing[i])
  BY DEF WorkMatchesPages, TypeOK, QueueType
<1>5. QED
  BY <1>1, <1>3, <1>4 DEF WorkMatchesPages, MatchesPages

LEMMA EnqueuedMatches ==
  ASSUME TypeOK, WorkMatchesPages, PollBridgeEvents
  PROVE  WorkMatchesPages'
<1>1. UNCHANGED <<client, provider, selected, settings, testThread, executing>>
  BY DEF PollBridgeEvents, setupVars, targetVars, connectionVars, testVars
<1>2. CASE UNCHANGED <<queue, inFlight>>
  BY <1>1, <1>2 DEF WorkMatchesPages, MatchesPages
<1>3. CASE events # <<>> /\ Deliverable(Head(events)) /\ Enqueue(Head(events))
  <2>1. Head(events) \in Trigger
    BY <1>3 DEF TypeOK, BridgeType
  <2>2. PICK level \in Levels[settings[Head(events).kind].profile] :
               queue' = Append(queue, NewJob(Head(events), level))
    BY <1>3 DEF Enqueue
  <2>3. MatchesPages(NewJob(Head(events), level))
    BY <1>3, <2>1, NewJobMatches
  <2>4. \A i \in 1 .. Len(queue') : MatchesPages(queue'[i])
    BY <2>2, <2>3 DEF WorkMatchesPages, TypeOK, QueueType
  <2>5. QED
    BY <1>1, <2>4 DEF WorkMatchesPages, MatchesPages
<1>4. QED
  BY <1>2, <1>3, Enqueued

LEMMA WorkerMatches ==
  ASSUME TypeOK, CountInv, WorkMatchesPages, WorkerReceives \/ WorkerAnswers \/ WorkerPanics
  PROVE  WorkMatchesPages'
<1>1. UNCHANGED <<client, provider, selected, settings, testThread>>
  BY DEF WorkerReceives, WorkerAnswers, WorkerPanics, setupVars, targetVars, connectionVars, testVars
<1>2. \A i \in 1 .. Len(queue') : MatchesPages(queue'[i])
  <2>1. CASE WorkerReceives
    <3>1. queue' = Tail(queue) /\ queue # <<>>
      BY <2>1 DEF WorkerReceives, Take
    <3>2. \A i \in 1 .. Len(queue') : i + 1 \in 1 .. Len(queue) /\ queue'[i] = queue[i + 1]
      BY <3>1 DEF TypeOK, QueueType
    <3>3. QED
      BY <3>2 DEF WorkMatchesPages
  <2>2. CASE WorkerAnswers
    BY <2>2 DEF WorkerAnswers, WorkMatchesPages
  <2>3. CASE WorkerPanics
    BY <2>3 DEF WorkerPanics
  <2>4. QED
    BY <2>1, <2>2, <2>3
<1>3. \A i \in 1 .. Len(executing') : MatchesPages(executing'[i])
  <2>1. CASE WorkerReceives
    <3>1. MatchesPages(Head(queue))
      BY <2>1 DEF WorkerReceives, WorkMatchesPages, TypeOK, QueueType
    <3>2. executing' = <<Head(queue)>> \/ executing' = executing
      BY <2>1 DEF WorkerReceives
    <3>3. QED
      BY <3>1, <3>2 DEF WorkMatchesPages
  <2>2. CASE WorkerAnswers \/ WorkerPanics
    BY <2>2 DEF WorkerAnswers, WorkerPanics
  <2>3. QED
    BY <2>1, <2>2
<1>4. QED
  BY <1>1, <1>2, <1>3 DEF WorkMatchesPages, MatchesPages

LEMMA TickMatches ==
  ASSUME TypeOK, WorkMatchesPages, Tick
  PROVE  WorkMatchesPages'
<1>1. UNCHANGED <<client, provider, selected, settings, testThread, executing>>
  BY DEF Tick, setupVars, targetVars, connectionVars, testVars
<1>2. ASSUME NEW i \in 1 .. Len(queue')
      PROVE  MatchesPages(queue'[i])
  <2>1. i \in 1 .. Len(queue)
        /\ queue'[i] = [queue[i] EXCEPT !.age = IF @ < MaxAge THEN @ + 1 ELSE @]
    BY <1>2 DEF Tick, TypeOK, QueueType
  <2>2. queue[i] \in Job
    BY <2>1 DEF TypeOK, QueueType
  <2>3. queue'[i].client = queue[i].client /\ queue'[i].request = queue[i].request
    BY <2>1, <2>2 DEF Job
  <2>4. MatchesPages(queue[i])
    BY <2>1 DEF WorkMatchesPages
  <2>5. QED
    BY <2>3, <2>4 DEF MatchesPages
<1>3. QED
  BY <1>1, <1>2 DEF WorkMatchesPages, MatchesPages

LEMMA WorkStep == IInv /\ [Next]_vars => WorkMatchesPages'
<1> SUFFICES ASSUME TypeOK, ThreadInv, CountInv, WorkMatchesPages, [Next]_vars
             PROVE  WorkMatchesPages'
  BY DEF IInv
<1> USE DEF setupVars, targetVars, connectionVars, testVars, actionVars
<1>1. CASE \/ \E p \in Provider : SetProvider(p)
           \/ \E c \in Credential : EditCredentials(c)
           \/ StartConnectionTest
           \/ \E d \in Target : SelectDevice(d)
           \/ \E k, selectedEffect \in Kind : ToggleTrigger(k, selectedEffect)
           \/ \E k \in Kind, s \in Choice : EditTrigger(k, s)
           \/ \E source, destination \in Kind : CopyActionSettings(source, destination)
           \/ ResetSavedState
  <2>1. NotBusy
    BY <1>1 DEF SetProvider, EditCredentials, StartConnectionTest, SelectDevice, ToggleTrigger, EditTrigger,
                CopyActionSettings, ResetSavedState
  <2>2. queue = <<>> /\ executing = <<>> /\ testThread = None
    BY <2>1, QuietPages DEF NotBusy
  <2>3. queue' = <<>> /\ executing' = <<>> /\ testThread' = None
    BY <1>1, <2>2 DEF SetProvider, EditCredentials, StartConnectionTest, SelectDevice,
                      ToggleTrigger, EditTrigger, CopyActionSettings, ResetSavedState
  <2>4. Len(queue') = 0 /\ Len(executing') = 0
    BY <2>3
  <2>5. QED
    BY <2>3, <2>4 DEF WorkMatchesPages
<1>2. CASE StartTestAction
  <2>1. NotBusy
    BY <1>2 DEF StartTestAction
  <2>2. Len(queue) = 0 /\ Len(executing) = 0
    BY <2>1, QuietPages DEF NotBusy
  <2>3. UNCHANGED <<client, selected, queue, executing>>
    BY <1>2 DEF StartTestAction
  <2>4. testThread'.client = client /\ testThread'.target = selected
    BY <1>2 DEF StartTestAction, SelectedDevice
  <2>5. QED
    BY <2>2, <2>3, <2>4 DEF WorkMatchesPages
<1>3. CASE PollConnectionTest
  <2>1. CASE ~ConnectionAnswered
    BY <1>3, <2>1 DEF PollConnectionTest, WorkMatchesPages, MatchesPages
  <2>2. CASE ConnectionAnswered
    <3>1. Len(queue) = 0 /\ Len(executing) = 0 /\ testThread = None
      BY <2>2 DEF ThreadInv, ConnectionAnswered
    <3>2. UNCHANGED <<queue, executing, testThread>>
      BY <1>3, <2>2 DEF PollConnectionTest, ApplyConnectionResult, ApplyConnectionError
    <3>3. QED
      BY <3>1, <3>2 DEF WorkMatchesPages
  <2>3. QED
    BY <2>1, <2>2
<1>4. CASE TestActionThreadFinishes
  <2>1. testThread \in TestThread
    BY <1>4 DEF TestActionThreadFinishes, TypeOK, ThreadType
  <2>2. testThread'.outcome # "running"
    BY <1>4, <2>1 DEF TestActionThreadFinishes, TestThread
  <2>3. QED
    BY <1>4, <2>2 DEF TestActionThreadFinishes, WorkMatchesPages, MatchesPages
<1>5. CASE PollTestAction
  BY <1>5 DEF PollTestAction, WorkMatchesPages, MatchesPages
<1>6. CASE ConnectionThreadAnswers
  BY <1>6 DEF ConnectionThreadAnswers, WorkMatchesPages, MatchesPages
<1>7. CASE PollAction
  BY <1>7 DEF PollAction, WorkMatchesPages, MatchesPages
<1>8. CASE StartListener \/ NoInput \/ (\E t \in Trigger : Broadcast(t)) \/ UNCHANGED vars
  BY <1>8 DEF StartListener, NoInput, Broadcast, vars, WorkMatchesPages, MatchesPages
<1>9. QED
  BY <1>1, <1>2, <1>3, <1>4, <1>5, <1>6, <1>7, <1>8, EnqueuedMatches, WorkerMatches, TickMatches,
     DrawnMatches DEF Next, Frame, UserInput, Worker

--------------------------------------------------------------------------------
(* The age of a job when its call starts. *)

LEMMA AgeStep == IInv /\ [Next]_vars => NoStaleAction'
<1> SUFFICES ASSUME TypeOK, NoStaleAction, [Next]_vars PROVE NoStaleAction'
  BY DEF IInv
<1>1. CASE WorkerReceives
  <2>1. CASE Expired(Head(queue))
    BY <1>1, <2>1 DEF WorkerReceives, NoStaleAction
  <2>2. CASE ~Expired(Head(queue))
    <3>1. executing' = <<Head(queue)>> /\ queue # <<>>
      BY <1>1, <2>2 DEF WorkerReceives
    <3>2. Head(queue) \in Job
      BY <3>1 DEF TypeOK, QueueType
    <3>3. Head(queue).age < MaxAge
      BY <2>2, <3>2, JobParts, QueueAssumption DEF Expired
    <3>4. QED
      BY <3>1, <3>3 DEF NoStaleAction
  <2>3. QED
    BY <2>1, <2>2
<1>2. CASE UNCHANGED executing
  BY <1>2 DEF NoStaleAction
<1>3. CASE executing' = <<>>
  BY <1>3 DEF NoStaleAction
<1>4. QED
  BY <1>1, <1>2, <1>3, ActionChanges
     DEF PollAction, PollBridgeEvents, ResetSavedState, WorkerAnswers, WorkerPanics, Tick, actionVars

--------------------------------------------------------------------------------
(* The inductive invariant and what follows from it. *)

LEMMA InvInit == Init => IInv
<1> SUFFICES ASSUME Init PROVE IInv
  OBVIOUS
<1>1. Len(queue) = 0 /\ Len(executing) = 0 /\ Len(completions) = 0
  BY DEF Init
<1>2. ThreadInv
  BY DEF Init, ThreadInv
<1>3. CountInv
  BY <1>1 DEF Init, CountInv
<1>4. ClientMatchesSetup
  BY ProviderAssumption DEF Init, ClientMatchesSetup
<1>5. WorkMatchesPages /\ NoStaleAction
  BY <1>1 DEF Init, WorkMatchesPages, NoStaleAction
<1>6. QED
  BY <1>2, <1>3, <1>4, <1>5, TypeInit DEF IInv

LEMMA InvStep == IInv /\ [Next]_vars => IInv'
BY TypeStep, ThreadStep, CountStep, SetupStep, WorkStep, AgeStep DEF IInv

LEMMA Invariant == Spec => []IInv
BY InvInit, InvStep, PTL DEF Spec

\* Whatever is edited, tested, answered late or reset, the connected client is the
\* one of the provider and the credentials on the setup page (set_provider,
\* reset_connection, apply_connection_result).
THEOREM ClientCorrect == Spec => []ClientMatchesSetup
<1>1. IInv => ClientMatchesSetup
  BY DEF IInv
<1>2. QED
  BY <1>1, Invariant, PTL

\* Whatever is edited, drawn, tested or answered, a queued job and a running provider call
\* use the client and the target on the pages, for a trigger that is on, with a level its
\* page's profile resolves to or resolved to before the editor was drawn, and a running
\* test uses the client and the target on the pages (queue_trigger_action,
\* spawn_action_worker, is_busy, draw_effects).
THEOREM WorkCorrect == Spec => []WorkMatchesPages
<1>1. IInv => WorkMatchesPages
  BY DEF IInv
<1>2. QED
  BY <1>1, Invariant, PTL

\* is_busy is false only when every thread that could call a provider is at rest.
THEOREM QuietCorrect == Spec => []QuietWhenNotBusy
<1>1. IInv => QuietWhenNotBusy
  BY QuietPages DEF IInv, QuietWhenNotBusy
<1>2. QED
  BY <1>1, Invariant, PTL

\* For every capacity, action_in_flight is the number of accepted actions that are
\* not reported, and an upper bound of it once the worker is lost.
THEOREM CountCorrect == Spec => []InFlightExact
<1>1. IInv => InFlightExact
  <2> SUFFICES ASSUME IInv PROVE InFlightExact
    OBVIOUS
  <2>1. Len(Outstanding) = Len(completions) + Len(executing) + Len(queue)
    BY OutstandingLength DEF IInv, TypeOK
  <2>2. CASE workerAlive
    BY <2>1, <2>2 DEF IInv, CountInv, InFlightExact
  <2>3. CASE ~workerAlive
    <3>1. Len(executing) = 0 /\ Len(queue) = 0
      BY <2>3 DEF IInv, CountInv
    <3>2. Len(completions) \in Nat /\ inFlight >= Len(completions)
      BY DEF IInv, TypeOK, QueueType, CountInv
    <3>3. QED
      BY <2>1, <2>3, <3>1, <3>2 DEF InFlightExact
  <2>4. QED
    BY <2>2, <2>3
<1>2. QED
  BY <1>1, Invariant, PTL

\* For every MAX_ACTION_QUEUE_AGE, no provider call starts for an older action.
THEOREM AgeCorrect == Spec => []NoStaleAction
<1>1. IInv => NoStaleAction
  BY DEF IInv
<1>2. QED
  BY <1>1, Invariant, PTL

--------------------------------------------------------------------------------
(* Outstanding, as a function of the three places an action may be in. *)

Out(done, held, waiting) == done \o Requests(held) \o Requests(waiting)

LEMMA RequestsOf ==
  ASSUME NEW jobs \in Seq(Job)
  PROVE  /\ Requests(jobs) \in Seq(Request)
         /\ Len(Requests(jobs)) = Len(jobs)
         /\ \A i \in 1 .. Len(jobs) : Requests(jobs)[i] = jobs[i].request
<1>1. \A i \in 1 .. Len(jobs) : jobs[i].request \in Request
  BY JobParts
<1>2. QED
  BY <1>1 DEF Requests

LEMMA Concat2 ==
  ASSUME NEW S, NEW a \in Seq(S), NEW b \in Seq(S)
  PROVE  /\ a \o b \in Seq(S)
         /\ Len(a \o b) = Len(a) + Len(b)
         /\ \A i \in 1 .. Len(a) : (a \o b)[i] = a[i]
         /\ \A i \in 1 .. Len(b) : (a \o b)[Len(a) + i] = b[i]
<1>1. a \o b \in Seq(S) /\ Len(a \o b) = Len(a) + Len(b)
  OBVIOUS
<1>2. ASSUME NEW i \in 1 .. Len(a) PROVE (a \o b)[i] = a[i]
  OBVIOUS
<1>3. ASSUME NEW i \in 1 .. Len(b) PROVE (a \o b)[Len(a) + i] = b[i]
  OBVIOUS
<1>4. QED
  BY <1>1, <1>2, <1>3

LEMMA Concat3 ==
  ASSUME NEW S, NEW a \in Seq(S), NEW b \in Seq(S), NEW c \in Seq(S)
  PROVE  /\ a \o b \o c \in Seq(S)
         /\ Len(a \o b \o c) = Len(a) + Len(b) + Len(c)
         /\ \A i \in 1 .. Len(a) : (a \o b \o c)[i] = a[i]
         /\ \A i \in 1 .. Len(b) : (a \o b \o c)[Len(a) + i] = b[i]
         /\ \A i \in 1 .. Len(c) : (a \o b \o c)[Len(a) + Len(b) + i] = c[i]
<1> DEFINE first == a \o b
<1>1. /\ first \in Seq(S) /\ Len(first) = Len(a) + Len(b)
      /\ \A i \in 1 .. Len(a) : first[i] = a[i]
      /\ \A i \in 1 .. Len(b) : first[Len(a) + i] = b[i]
  BY Concat2
<1>2. Len(a) \in Nat /\ Len(b) \in Nat /\ Len(c) \in Nat
  OBVIOUS
<1> HIDE DEF first
<1>3. /\ first \o c \in Seq(S) /\ Len(first \o c) = Len(first) + Len(c)
      /\ \A i \in 1 .. Len(first) : (first \o c)[i] = first[i]
      /\ \A i \in 1 .. Len(c) : (first \o c)[Len(first) + i] = c[i]
  <2>1. first \in Seq(S)
    BY <1>1
  <2>2. QED
    BY <2>1, Concat2
<1>4. /\ \A i \in 1 .. Len(a) : (first \o c)[i] = a[i]
      /\ \A i \in 1 .. Len(b) : (first \o c)[Len(a) + i] = b[i]
  BY <1>1, <1>2, <1>3
<1>5. /\ Len(first \o c) = Len(a) + Len(b) + Len(c)
      /\ \A i \in 1 .. Len(c) : (first \o c)[Len(a) + Len(b) + i] = c[i]
  BY <1>1, <1>3
<1>6. QED
  BY <1>3, <1>4, <1>5 DEF first

\* The parts of Outstanding, by position.
LEMMA OutParts ==
  ASSUME NEW done \in Seq(Request), NEW held \in Seq(Job), NEW waiting \in Seq(Job)
  PROVE  /\ Out(done, held, waiting) \in Seq(Request)
         /\ Len(Out(done, held, waiting)) = Len(done) + Len(held) + Len(waiting)
         /\ \A i \in 1 .. Len(done) : Out(done, held, waiting)[i] = done[i]
         /\ \A i \in 1 .. Len(held) : Out(done, held, waiting)[Len(done) + i] = held[i].request
         /\ \A i \in 1 .. Len(waiting) :
              Out(done, held, waiting)[Len(done) + Len(held) + i] = waiting[i].request
<1>1. /\ Requests(held) \in Seq(Request) /\ Len(Requests(held)) = Len(held)
      /\ \A i \in 1 .. Len(held) : Requests(held)[i] = held[i].request
  BY RequestsOf
<1>2. /\ Requests(waiting) \in Seq(Request) /\ Len(Requests(waiting)) = Len(waiting)
      /\ \A i \in 1 .. Len(waiting) : Requests(waiting)[i] = waiting[i].request
  BY RequestsOf
<1> DEFINE a == Requests(held)
           b == Requests(waiting)
<1> HIDE DEF a, b
<1>3. a \in Seq(Request) /\ b \in Seq(Request)
  BY <1>1, <1>2 DEF a, b
<1>4. /\ done \o a \o b \in Seq(Request)
      /\ Len(done \o a \o b) = Len(done) + Len(a) + Len(b)
      /\ \A i \in 1 .. Len(done) : (done \o a \o b)[i] = done[i]
      /\ \A i \in 1 .. Len(a) : (done \o a \o b)[Len(done) + i] = a[i]
      /\ \A i \in 1 .. Len(b) : (done \o a \o b)[Len(done) + Len(a) + i] = b[i]
  BY <1>3, Concat3
<1> DEFINE out == done \o a \o b
<1>5. Out(done, held, waiting) = out
  BY DEF Out, a, b
<1> HIDE DEF out
<1>6. /\ Len(a) = Len(held) /\ Len(b) = Len(waiting)
      /\ \A i \in 1 .. Len(held) : a[i] = held[i].request
      /\ \A i \in 1 .. Len(waiting) : b[i] = waiting[i].request
  BY <1>1, <1>2 DEF a, b
<1>7. /\ out \in Seq(Request)
      /\ Len(out) = Len(done) + Len(a) + Len(b)
      /\ \A i \in 1 .. Len(done) : out[i] = done[i]
      /\ \A i \in 1 .. Len(a) : out[Len(done) + i] = a[i]
      /\ \A i \in 1 .. Len(b) : out[Len(done) + Len(a) + i] = b[i]
  BY <1>4 DEF out
<1>8. QED
  BY <1>5, <1>6, <1>7

\* What each step does to Outstanding.
LEMMA OutAppend ==
  ASSUME NEW done \in Seq(Request), NEW held \in Seq(Job), NEW waiting \in Seq(Job),
         NEW job \in Job
  PROVE  Out(done, held, Append(waiting, job)) = Append(Out(done, held, waiting), job.request)
<1> DEFINE s == Requests(waiting)
<1>1. Requests(Append(waiting, job)) = Append(s, job.request)
  <2>1. Len(Append(waiting, job)) = Len(waiting) + 1
    OBVIOUS
  <2>2. QED
    BY <2>1 DEF Requests
<1>2. s \in Seq(Request) /\ Requests(held) \in Seq(Request) /\ job.request \in Request
  BY RequestsOf, JobParts
<1> HIDE DEF s
<1>3. done \o Requests(held) \in Seq(Request)
  BY <1>2, Concat2
<1>4. \A u, v \in Seq(Request), r \in Request : u \o Append(v, r) = Append(u \o v, r)
  OBVIOUS
<1>5. QED
  BY <1>1, <1>2, <1>3, <1>4 DEF Out, s

LEMMA OutTail ==
  ASSUME NEW done \in Seq(Request), NEW held \in Seq(Job), NEW waiting \in Seq(Job),
         done # <<>>
  PROVE  Out(Tail(done), held, waiting) = Tail(Out(done, held, waiting))
<1>1. \A u, v \in Seq(Request) :
        u # <<>> => Tail(u) \in Seq(Request) /\ u \o v # <<>> /\ Tail(u \o v) = Tail(u) \o v
  OBVIOUS
<1> DEFINE a == Requests(held)
           b == Requests(waiting)
<1>2. a \in Seq(Request) /\ b \in Seq(Request)
  BY RequestsOf
<1> HIDE DEF a, b
<1>3. done \o a \in Seq(Request)
  BY <1>2, Concat2
<1>4. Tail(done \o a) = Tail(done) \o a /\ done \o a # <<>>
  BY <1>1, <1>2
<1>5. Tail(done \o a \o b) = Tail(done) \o a \o b
  BY <1>1, <1>2, <1>3, <1>4
<1>6. QED
  BY <1>5 DEF Out, a, b

\* A request that moves one place to the front keeps its position.
LEMMA Shift ==
  ASSUME NEW done \in Seq(Request), NEW rest \in Seq(Request), NEW r \in Request
  PROVE  /\ Append(done, r) \o <<>> \o rest = done \o <<r>> \o rest
         /\ done \o <<>> \o (<<r>> \o rest) = done \o <<r>> \o rest
<1>1. <<r>> \in Seq(Request) /\ Append(done, r) \in Seq(Request)
  OBVIOUS
<1>2. Append(done, r) = done \o <<r>>
  BY AppendIsConcat
<1>3. Append(done, r) \o <<>> = Append(done, r) /\ done \o <<>> = done
  BY <1>1, ConcatEmptySeq
<1>4. (done \o <<r>>) \o rest = done \o (<<r>> \o rest)
  BY <1>1, ConcatAssociative
<1>5. QED
  BY <1>2, <1>3, <1>4

LEMMA RequestsParts ==
  /\ Requests(<<>>) = <<>>
  /\ \A job \in Job : Requests(<<job>>) = <<job.request>>
  /\ \A jobs \in Seq(Job) : jobs # <<>> =>
       Requests(jobs) = <<Head(jobs).request>> \o Requests(Tail(jobs))
<1>1. Requests(<<>>) = <<>>
  BY DEF Requests
<1>2. ASSUME NEW job \in Job PROVE Requests(<<job>>) = <<job.request>>
  BY DEF Requests
<1>3. ASSUME NEW jobs \in Seq(Job), jobs # <<>>
      PROVE  Requests(jobs) = <<Head(jobs).request>> \o Requests(Tail(jobs))
  <2> DEFINE rest == Tail(jobs)
             t == Requests(rest)
             s == Requests(jobs)
             r == Head(jobs).request
  <2>1. /\ Head(jobs) \in Job /\ rest \in Seq(Job) /\ Head(jobs) = jobs[1]
        /\ Len(rest) = Len(jobs) - 1 /\ Len(jobs) \in Nat /\ Len(jobs) > 0
        /\ \A i \in 1 .. Len(jobs) - 1 : rest[i] = jobs[i + 1]
    BY <1>3
  <2> HIDE DEF rest
  <2>2. /\ t \in Seq(Request) /\ Len(t) = Len(jobs) - 1
        /\ \A i \in 1 .. Len(jobs) - 1 : t[i] = jobs[i + 1].request
    <3>1. t \in Seq(Request) /\ Len(t) = Len(rest)
      BY <2>1, RequestsOf
    <3>2. \A i \in 1 .. Len(rest) : t[i] = rest[i].request
      BY <2>1, RequestsOf
    <3> HIDE DEF t
    <3>3. QED
      BY <2>1, <3>1, <3>2
  <2>3. /\ s \in Seq(Request) /\ Len(s) = Len(jobs) /\ s[1] = r /\ r \in Request
        /\ \A i \in 1 .. Len(jobs) : s[i] = jobs[i].request
    BY <2>1, RequestsOf, JobParts
  <2> HIDE DEF s, t, r
  <2>4. \A i \in 1 .. Len(t) : t[i] = s[i + 1]
    BY <2>1, <2>2, <2>3
  <2>5. Len(s) = Len(t) + 1
    BY <2>1, <2>2, <2>3
  <2>6. s = <<r>> \o t
    BY <2>2, <2>3, <2>4, <2>5
  <2>7. QED
    BY <2>6 DEF s, t, r, rest
<1>4. QED
  BY <1>1, <1>2, <1>3

--------------------------------------------------------------------------------
(* Each action on the queue is a step of AtMostOnceQueue, or none. *)

Places == <<Outstanding, Len(completions) + Len(executing), executing # <<>>>>

LEMMA OutNow ==
  /\ Outstanding = Out(completions, executing, queue)
  /\ Outstanding' = Out(completions', executing', queue')
BY DEF Outstanding, Out

LEMMA Lengths ==
  ASSUME QueueType, CountInv
  PROVE  /\ Outstanding \in Seq(Request)
         /\ Len(completions) \in Nat /\ Len(queue) \in Nat
         /\ Len(Outstanding) = Len(completions) + Len(executing) + Len(queue)
         /\ executing # <<>> => Len(executing) = 1 /\ executing[1] \in Job
                                /\ executing = <<executing[1]>>
         /\ executing = <<>> => Len(executing) = 0
<1>1. Outstanding \in Seq(Request) /\ Len(Outstanding) = Len(completions) + Len(executing) + Len(queue)
  BY OutNow, OutParts DEF QueueType
<1>2. executing \in Seq(Job) /\ Len(executing) <= 1
  BY DEF QueueType, CountInv
<1>3. executing # <<>> => Len(executing) = 1
  <2>1. Len(executing) \in Nat /\ (executing # <<>> => Len(executing) # 0)
    BY <1>2
  <2>2. \A n \in Nat : n # 0 /\ n <= 1 => n = 1
    OBVIOUS
  <2>3. QED
    BY <1>2, <2>1, <2>2
<1>4. executing # <<>> => executing[1] \in Job /\ executing = <<executing[1]>>
  BY <1>2, <1>3
<1>5. QED
  BY <1>1, <1>3, <1>4 DEF QueueType

LEMMA PollReports ==
  ASSUME QueueType, CountInv, PollAction
  PROVE  Delivery!Report \/ UNCHANGED Places
<1>1. UNCHANGED <<executing, queue>>
  BY DEF PollAction
<1>2. CASE completions # <<>>
  <2>1. completions' = Tail(completions)
    BY <1>2 DEF PollAction
  <2>2. Outstanding' = Tail(Outstanding)
    BY <1>1, <1>2, <2>1, OutNow, OutTail DEF QueueType
  <2>3. Len(completions') = Len(completions) - 1 /\ Len(completions) > 0
    BY <1>2, <2>1 DEF QueueType
  <2>4. Len(completions) + Len(executing) > (IF executing # <<>> THEN 1 ELSE 0)
    BY <2>3, Lengths
  <2>5. Len(completions') + Len(executing') = Len(completions) + Len(executing) - 1
    BY <1>1, <2>3, Lengths
  <2>6. QED
    BY <1>1, <2>2, <2>4, <2>5 DEF Delivery!Report
<1>3. CASE completions = <<>>
  <2>1. UNCHANGED completions
    BY <1>3 DEF PollAction
  <2>2. QED
    BY <1>1, <2>1, OutNow DEF Places
<1>4. QED
  BY <1>2, <1>3

\* An accepted record appends its request, within the queue's capacity.
LEMMA EnqueueAccepts ==
  ASSUME TypeOK, CountInv, PollBridgeEvents
  PROVE  \/ UNCHANGED Places
         \/ /\ events # <<>> /\ IsNew(Head(events)) /\ Head(events) \in Trigger
            /\ \E r \in Request : r.trigger = Head(events) /\ Delivery!Accept(r)
<1>1. UNCHANGED <<executing, completions>>
  BY DEF PollBridgeEvents
<1>2. CASE UNCHANGED queue
  BY <1>1, <1>2, OutNow DEF Places
<1>3. CASE events # <<>> /\ IsNew(Head(events)) /\ Deliverable(Head(events))
           /\ Enqueue(Head(events))
  <2> DEFINE t == Head(events)
  <2>1. t \in Trigger
    BY <1>3 DEF TypeOK, BridgeType
  <2>2. PICK level \in Levels[settings[t.kind].profile] : queue' = Append(queue, NewJob(t, level))
    BY <1>3 DEF Enqueue
  <2> DEFINE job == NewJob(t, level)
  <2>3. job \in Job
    BY <1>3, <2>1, NewJobType DEF TypeOK
  <2>4. job.request.trigger = t
    BY DEF NewJob
  <2>5. Len(queue) < Capacity
    BY <1>3 DEF Deliverable
  <2> HIDE DEF job, t
  <2>6. Outstanding' = Append(Outstanding, job.request) /\ job.request \in Request
    BY <1>1, <2>2, <2>3, OutNow, OutAppend, JobParts DEF QueueType, TypeOK, job
  <2>7. Len(Outstanding) - (Len(completions) + Len(executing)) < Capacity
    <3>1. Len(executing) \in Nat
      BY DEF TypeOK, QueueType
    <3>2. QED
      BY <2>5, <3>1, Lengths DEF TypeOK
  <2>8. Delivery!Accept(job.request)
    BY <1>1, <2>6, <2>7 DEF Delivery!Accept, Delivery!Waiting
  <2>9. QED
    BY <1>3, <2>1, <2>4, <2>6, <2>8 DEF t
<1>4. QED
  BY <1>2, <1>3, Enqueued

\* An expired job is skipped, any other one goes to the provider: its request keeps its
\* place among the outstanding ones.
LEMMA ReceiveHandsOver ==
  ASSUME QueueType, CountInv, WorkerReceives
  PROVE  Delivery!HandOver
<1>1. executing = <<>> /\ queue # <<>> /\ queue' = Tail(queue)
  BY DEF WorkerReceives, Take
<1>2. /\ queue \in Seq(Job) /\ completions \in Seq(Request)
      /\ Head(queue) \in Job /\ Tail(queue) \in Seq(Job) /\ Len(queue) > 0
  BY <1>1 DEF QueueType
<1> DEFINE rest == Requests(Tail(queue))
           r == Head(queue).request
<1>3. Requests(queue) = <<r>> \o rest /\ rest \in Seq(Request) /\ r \in Request
  BY <1>1, <1>2, RequestsParts, RequestsOf, JobParts
<1> HIDE DEF rest, r
<1>4. Outstanding = completions \o <<r>> \o rest
  BY <1>1, <1>2, <1>3, Shift, RequestsParts DEF Outstanding
<1>5. Len(completions) \in Nat /\ Len(executing) = 0
  BY <1>1, <1>2
<1>6. CASE Expired(Head(queue))
  <2>1. completions' = Append(completions, r) /\ executing' = <<>>
    BY <1>1, <1>6 DEF WorkerReceives, r
  <2>2. Outstanding' = Append(completions, r) \o <<>> \o rest
    BY <1>1, <2>1, RequestsParts DEF Outstanding, rest
  <2>3. Outstanding' = Outstanding
    BY <1>2, <1>3, <1>4, <2>2, Shift
  <2>4. Len(completions') + Len(executing') = Len(completions) + Len(executing) + 1
    BY <1>1, <1>2, <1>3, <1>5, <2>1
  <2>5. QED
    BY <1>1, <1>2, <1>5, <2>1, <2>3, <2>4, Lengths DEF Delivery!HandOver, Delivery!Waiting
<1>7. CASE ~Expired(Head(queue))
  <2>1. completions' = completions /\ executing' = <<Head(queue)>>
    BY <1>1, <1>7 DEF WorkerReceives
  <2>2. Outstanding' = completions \o <<r>> \o rest
    BY <1>1, <1>2, <2>1, RequestsParts DEF Outstanding, rest, r
  <2>3. Len(completions') + Len(executing') = Len(completions) + Len(executing) + 1
    BY <1>1, <1>5, <2>1
  <2>4. executing' # <<>>
    BY <2>1
  <2>5. QED
    BY <1>1, <1>2, <1>4, <1>5, <2>2, <2>3, <2>4, Lengths DEF Delivery!HandOver, Delivery!Waiting
<1>8. QED
  BY <1>6, <1>7

LEMMA AnswerFinishes ==
  ASSUME QueueType, CountInv, WorkerAnswers
  PROVE  Delivery!Finish
<1>1. /\ executing # <<>> /\ executing[1] \in Job /\ executing = <<executing[1]>>
      /\ Len(executing) = 1 /\ completions \in Seq(Request) /\ queue \in Seq(Job)
  BY Lengths DEF WorkerAnswers, QueueType
<1> DEFINE rest == Requests(queue)
           r == executing[1].request
<1>2. rest \in Seq(Request) /\ r \in Request /\ Requests(executing) = <<r>>
  BY <1>1, RequestsOf, RequestsParts, JobParts
<1>3. completions' = Append(completions, r) /\ executing' = <<>> /\ queue' = queue
  BY DEF WorkerAnswers
<1>4. Outstanding' = Append(completions, r) \o <<>> \o rest
  BY <1>3, RequestsParts DEF Outstanding
<1>5. Outstanding = completions \o <<r>> \o rest
  BY <1>2 DEF Outstanding
<1> HIDE DEF rest, r
<1>6. Outstanding' = Outstanding
  BY <1>1, <1>2, <1>4, <1>5, Shift
<1>7. Len(completions') + Len(executing') = Len(completions) + Len(executing)
  BY <1>1, <1>2, <1>3
<1>8. QED
  BY <1>1, <1>3, <1>6, <1>7 DEF Delivery!Finish

\* Only what was reported to the channel outlives the worker.
LEMMA PanicLoses ==
  ASSUME QueueType, CountInv, WorkerPanics
  PROVE  Delivery!Lose
<1>1. /\ executing # <<>> /\ Len(executing) = 1 /\ Len(completions) \in Nat
      /\ completions \in Seq(Request) /\ executing \in Seq(Job) /\ queue \in Seq(Job)
  BY Lengths DEF WorkerPanics, QueueType
<1>2. completions' = completions /\ executing' = <<>> /\ queue' = <<>>
  BY DEF WorkerPanics
<1>3. Outstanding' = completions
  <2>1. Outstanding' = completions \o <<>> \o <<>>
    BY <1>2, RequestsParts DEF Outstanding
  <2>2. QED
    BY <1>1, <2>1
<1>4. Len(completions) + Len(executing) - 1 = Len(completions)
  BY <1>1
<1>5. /\ Outstanding \in Seq(Request)
      /\ Len(Outstanding) >= Len(completions)
      /\ \A i \in 1 .. Len(completions) : Outstanding[i] = completions[i]
  <2>1. /\ Outstanding \in Seq(Request)
        /\ Len(Outstanding) = Len(completions) + Len(executing) + Len(queue)
        /\ \A i \in 1 .. Len(completions) : Outstanding[i] = completions[i]
    BY <1>1, OutNow, OutParts
  <2>2. Len(queue) \in Nat
    BY <1>1
  <2>3. QED
    BY <1>1, <2>1, <2>2
<1>6. SubSeq(Outstanding, 1, Len(completions)) = completions
  <2> DEFINE out == Outstanding
             kept == SubSeq(out, 1, Len(completions))
  <2> HIDE DEF out
  <2>1. /\ kept \in Seq(Request) /\ Len(kept) = Len(completions)
        /\ \A i \in 1 .. Len(completions) : kept[i] = out[i]
    BY <1>1, <1>5 DEF out
  <2> HIDE DEF kept
  <2>2. kept = completions
    BY <1>1, <1>5, <2>1, SeqEqual DEF out
  <2>3. QED
    BY <2>2 DEF kept, out
<1>7. Len(executing') = 0 /\ Len(completions') + Len(executing') = Len(completions)
  BY <1>1, <1>2
<1>8. QED
  BY <1>1, <1>2, <1>3, <1>4, <1>6, <1>7 DEF Delivery!Lose

\* Waiting jobs only grow older.
LEMMA TickStutters ==
  ASSUME QueueType, Tick
  PROVE  UNCHANGED Places
<1>1. UNCHANGED <<completions, executing>>
  BY DEF Tick
<1>2. Len(queue') = Len(queue) /\ queue \in Seq(Job)
  BY DEF Tick, QueueType
<1>3. \A i \in 1 .. Len(queue) : queue'[i].request = queue[i].request
  <2>1. SUFFICES ASSUME NEW i \in 1 .. Len(queue) PROVE queue'[i].request = queue[i].request
    OBVIOUS
  <2>2. queue[i] \in Job
    BY <1>2
  <2>3. queue'[i] = [queue[i] EXCEPT !.age = IF @ < MaxAge THEN @ + 1 ELSE @]
    BY DEF Tick
  <2>4. QED
    BY <2>2, <2>3 DEF Job
<1>4. Requests(queue') = Requests(queue)
  BY <1>2, <1>3 DEF Requests
<1>5. QED
  BY <1>1, <1>4 DEF Outstanding, Places

\* A reset finds nothing to discard: the pages are enabled only when all is reported.
LEMMA ResetStutters ==
  ASSUME TypeOK, ThreadInv, CountInv, ResetSavedState
  PROVE  UNCHANGED Places
<1>1. ~Busy
  BY DEF ResetSavedState, NotBusy
<1>2. queue = <<>> /\ executing = <<>> /\ completions = <<>>
  BY <1>1, QuietPages
<1>3. queue' = <<>> /\ executing' = <<>> /\ completions' = <<>>
  BY DEF ResetSavedState
<1>4. QED
  BY <1>2, <1>3 DEF Outstanding, Places

LEMMA UntouchedStutters ==
  ASSUME UNCHANGED actionVars
  PROVE  UNCHANGED Places
<1>1. UNCHANGED <<completions, executing, queue>>
  BY DEF actionVars
<1>2. QED
  BY <1>1, OutNow DEF Places

LEMMA DeliveryStep == IInv /\ [Next]_vars => [Delivery!Next]_(Delivery!vars)
<1> SUFFICES ASSUME TypeOK, ThreadInv, CountInv, [Next]_vars
             PROVE  Delivery!Next \/ UNCHANGED Places
  BY DEF IInv, Delivery!vars, Places
<1>1. QueueType
  BY DEF TypeOK
<1>2. CASE PollAction
  BY <1>1, <1>2, PollReports DEF Delivery!Next
<1>3. CASE PollBridgeEvents
  BY <1>3, EnqueueAccepts DEF Delivery!Next
<1>4. CASE WorkerReceives
  BY <1>1, <1>4, ReceiveHandsOver DEF Delivery!Next
<1>5. CASE WorkerAnswers
  BY <1>1, <1>5, AnswerFinishes DEF Delivery!Next
<1>6. CASE WorkerPanics
  BY <1>1, <1>6, PanicLoses DEF Delivery!Next
<1>7. CASE ResetSavedState
  BY <1>7, ResetStutters
<1>8. CASE Tick
  BY <1>1, <1>8, TickStutters
<1>9. CASE UNCHANGED actionVars
  BY <1>9, UntouchedStutters
<1>10. QED
  BY <1>2, <1>3, <1>4, <1>5, <1>6, <1>7, <1>8, <1>9, ActionChanges

\* For every capacity and age bound, an accepted action is handed to the provider at most
\* once, in the order of acceptance, and reported or lost with the worker (README:
\* "at-most-once queue semantics"; try_send, the worker's loop and poll_action).
THEOREM DeliveryCorrect == Spec => AtMostOnceDelivery
<1>1. Init => Delivery!Init
  <2> SUFFICES ASSUME Init PROVE Delivery!Init
    OBVIOUS
  <2>1. queue = <<>> /\ executing = <<>> /\ completions = <<>>
    BY DEF Init
  <2>2. Outstanding = <<>> /\ Len(completions) + Len(executing) = 0
    BY <2>1, RequestsParts DEF Outstanding
  <2>3. QED
    BY <2>1, <2>2 DEF Delivery!Init
<1>2. QED
  BY <1>1, DeliveryStep, Invariant, PTL DEF Spec, AtMostOnceDelivery, Delivery!Spec

--------------------------------------------------------------------------------
(* The order of the unreported actions. *)

\* Within one session the watermark is at least the sequence of every unreported action.
OrderInv ==
  OneSession =>
    /\ \A i \in 1 .. Len(Outstanding) - 1 :
         Outstanding[i].trigger.sequence < Outstanding[i + 1].trigger.sequence
    /\ \A i \in 1 .. Len(Outstanding) :
         watermark # None /\ Outstanding[i].trigger.sequence <= watermark.sequence
    /\ watermark # None => \A t \in Trigger : t.session = watermark.session

LEMMA OutTypes ==
  ASSUME QueueType, CountInv
  PROVE  \A i \in 1 .. Len(Outstanding) :
           Outstanding[i].trigger \in Trigger /\ Outstanding[i].trigger.sequence \in Nat
<1>1. ASSUME NEW i \in 1 .. Len(Outstanding)
      PROVE  Outstanding[i].trigger \in Trigger /\ Outstanding[i].trigger.sequence \in Nat
  <2>1. Outstanding[i] \in Request
    BY Lengths
  <2>2. Outstanding[i].trigger \in Trigger
    BY <2>1 DEF Request
  <2>3. QED
    BY <2>2, SettingsAssumption
<1>2. QED
  BY <1>1

\* A record that passes trigger_is_new is newer than every unreported action.
LEMMA NewerThanAll ==
  ASSUME TypeOK, CountInv, OrderInv, OneSession, NEW t \in Trigger, IsNew(t)
  PROVE  \A i \in 1 .. Len(Outstanding) : Outstanding[i].trigger.sequence < t.sequence
<1>1. ASSUME NEW i \in 1 .. Len(Outstanding)
      PROVE  Outstanding[i].trigger.sequence < t.sequence
  <2>1. watermark # None /\ Outstanding[i].trigger.sequence <= watermark.sequence
        /\ t.session = watermark.session
    BY DEF OrderInv
  <2>2. watermark.sequence \in Nat /\ t.sequence \in Nat
    BY <2>1, SettingsAssumption DEF TypeOK, BridgeType, Watermark
  <2>3. Outstanding[i].trigger.sequence \in Nat
    BY OutTypes DEF TypeOK
  <2>4. watermark.sequence < t.sequence
    BY <2>1, <2>2 DEF IsNew
  <2>5. QED
    BY <2>1, <2>2, <2>3, <2>4
<1>2. QED
  BY <1>1

\* Taking records off either end keeps the order, and so does a newer watermark.
LEMMA OrderKept ==
  ASSUME TypeOK, CountInv, OrderInv,
         \/ Outstanding' = Outstanding
         \/ Outstanding # <<>> /\ Outstanding' = Tail(Outstanding)
         \/ \E n \in 0 .. Len(Outstanding) : Outstanding' = SubSeq(Outstanding, 1, n),
         UNCHANGED watermark
  PROVE  OrderInv'
<1> DEFINE s == Outstanding
           after == Outstanding'
<1>1. s \in Seq(Request)
  BY Lengths DEF TypeOK
<1>2. PICK k \in {0, 1} : /\ Len(after) \in Nat /\ Len(after) + k <= Len(s)
                          /\ \A i \in 1 .. Len(after) : after[i] = s[i + k]
  <2> HIDE DEF s
  <2>1. CASE after = s
    BY <1>1, <2>1
  <2>2. CASE s # <<>> /\ after = Tail(s)
    BY <1>1, <2>2
  <2>3. CASE \E n \in 0 .. Len(s) : after = SubSeq(s, 1, n)
    BY <1>1, <2>3
  <2>4. QED
    BY <2>1, <2>2, <2>3 DEF s
<1>3. Len(s) \in Nat
  BY <1>1
<1>4. OneSession' = OneSession /\ watermark' = watermark
  BY DEF OneSession
<1> HIDE DEF s, after
<1>5. ASSUME OneSession PROVE
        /\ \A i \in 1 .. Len(after) - 1 :
             after[i].trigger.sequence < after[i + 1].trigger.sequence
        /\ \A i \in 1 .. Len(after) :
             watermark # None /\ after[i].trigger.sequence <= watermark.sequence
        /\ watermark # None => \A t \in Trigger : t.session = watermark.session
  <2>1. /\ \A i \in 1 .. Len(s) - 1 : s[i].trigger.sequence < s[i + 1].trigger.sequence
        /\ \A i \in 1 .. Len(s) : watermark # None /\ s[i].trigger.sequence <= watermark.sequence
        /\ watermark # None => \A t \in Trigger : t.session = watermark.session
    BY <1>5 DEF OrderInv, s
  <2>2. \A i \in 1 .. Len(after) - 1 :
          after[i].trigger.sequence < after[i + 1].trigger.sequence
    <3>1. ASSUME NEW i \in 1 .. Len(after) - 1
          PROVE  after[i].trigger.sequence < after[i + 1].trigger.sequence
      <4>1. i \in 1 .. Len(after) /\ i + 1 \in 1 .. Len(after) /\ i + k \in 1 .. Len(s) - 1
            /\ (i + 1) + k = (i + k) + 1
        BY <1>2, <1>3
      <4>2. QED
        BY <1>2, <2>1, <4>1
    <3>2. QED
      BY <3>1
  <2>3. \A i \in 1 .. Len(after) : i + k \in 1 .. Len(s)
    BY <1>2, <1>3
  <2>4. QED
    BY <1>2, <2>1, <2>2, <2>3
<1>6. QED
  BY <1>4, <1>5 DEF OrderInv, after

\* A record that moves the watermark comes after every unreported action, and its own
\* action, if it is accepted, becomes the last of them.
LEMMA OrderNewer ==
  ASSUME TypeOK, CountInv, OrderInv, NEW t \in Trigger, IsNew(t),
         watermark' = [session |-> t.session, sequence |-> t.sequence],
         \/ Outstanding' = Outstanding
         \/ \E r \in Request : r.trigger = t /\ Outstanding' = Append(Outstanding, r)
  PROVE  OrderInv'
<1> DEFINE s == Outstanding
           after == Outstanding'
<1>1. OneSession' = OneSession
  BY DEF OneSession
<1>2. s \in Seq(Request) /\ Len(s) \in Nat
  BY Lengths DEF TypeOK
<1>3. t.sequence \in Nat /\ \A i \in 1 .. Len(s) : s[i].trigger.sequence \in Nat
  BY OutTypes, SettingsAssumption DEF TypeOK
<1>4. watermark' # None /\ watermark'.sequence = t.sequence /\ watermark'.session = t.session
  <2>1. [session |-> t.session, sequence |-> t.sequence] \in Watermark
    BY SettingsAssumption DEF Watermark
  <2>2. QED
    BY <2>1, NoneAssumption
<1>5. ASSUME OneSession PROVE
        /\ \A i \in 1 .. Len(after) - 1 :
             after[i].trigger.sequence < after[i + 1].trigger.sequence
        /\ \A i \in 1 .. Len(after) : after[i].trigger.sequence <= t.sequence
  <2>1. \A i \in 1 .. Len(s) : s[i].trigger.sequence < t.sequence
    BY <1>5, NewerThanAll
  <2>2. \A i \in 1 .. Len(s) - 1 : s[i].trigger.sequence < s[i + 1].trigger.sequence
    BY <1>5 DEF OrderInv
  <2> HIDE DEF s, after
  <2>3. CASE after = s
    <3>1. \A i \in 1 .. Len(s) : s[i].trigger.sequence <= t.sequence
      BY <1>3, <2>1
    <3>2. QED
      BY <2>2, <2>3, <3>1
  <2>4. CASE \E r \in Request : r.trigger = t /\ after = Append(s, r)
    <3>1. PICK r \in Request : r.trigger = t /\ after = Append(s, r)
      BY <2>4
    <3>2. /\ Len(after) = Len(s) + 1 /\ after[Len(s) + 1] = r
          /\ \A i \in 1 .. Len(s) : after[i] = s[i]
      BY <1>2, <3>1
    <3>3. ASSUME NEW i \in 1 .. Len(after) - 1
          PROVE  after[i].trigger.sequence < after[i + 1].trigger.sequence
      <4>1. CASE i = Len(s)
        BY <1>2, <2>1, <3>1, <3>2, <4>1
      <4>2. CASE i # Len(s)
        <5>1. i \in 1 .. Len(s) - 1 /\ i \in 1 .. Len(s) /\ i + 1 \in 1 .. Len(s)
          BY <1>2, <3>2, <4>2
        <5>2. QED
          BY <2>2, <3>2, <5>1
      <4>3. QED
        BY <4>1, <4>2
    <3>4. ASSUME NEW i \in 1 .. Len(after)
          PROVE  after[i].trigger.sequence <= t.sequence
      <4>1. CASE i = Len(s) + 1
        BY <1>3, <3>1, <3>2, <4>1
      <4>2. CASE i \in 1 .. Len(s)
        BY <1>3, <2>1, <3>2, <4>2
      <4>3. QED
        BY <1>2, <3>2, <4>1, <4>2
    <3>5. QED
      BY <3>3, <3>4
  <2>5. QED
    BY <2>3, <2>4 DEF s, after
<1>6. OneSession => \A u \in Trigger : u.session = watermark'.session
  BY <1>4 DEF OneSession
<1> HIDE DEF s, after
<1>7. QED
  BY <1>1, <1>4, <1>5, <1>6 DEF OrderInv, after

LEMMA WatermarkMoves ==
  ASSUME PollBridgeEvents
  PROVE  \/ UNCHANGED <<watermark, queue>>
         \/ /\ events # <<>> /\ IsNew(Head(events))
            /\ watermark' = [session |-> Head(events).session,
                             sequence |-> Head(events).sequence]
BY DEF PollBridgeEvents, QueueTriggerAction

LEMMA OrderStep == IInv /\ OrderInv /\ [Next]_vars => OrderInv'
<1> SUFFICES ASSUME TypeOK, ThreadInv, CountInv, OrderInv, [Next]_vars PROVE OrderInv'
  BY DEF IInv
<1>1. QueueType
  BY DEF TypeOK
<1>2. CASE PollBridgeEvents
  <2>1. CASE UNCHANGED <<watermark, queue>>
    <3>1. Outstanding' = Outstanding
      BY <1>2, <2>1, OutNow DEF PollBridgeEvents
    <3>2. QED
      BY <2>1, <3>1, OrderKept
  <2>2. CASE /\ events # <<>> /\ IsNew(Head(events))
             /\ watermark' = [session |-> Head(events).session, sequence |-> Head(events).sequence]
    <3>1. Head(events) \in Trigger
      BY <2>2 DEF TypeOK, BridgeType
    <3>2. \/ Outstanding' = Outstanding
          \/ \E r \in Request : r.trigger = Head(events) /\ Outstanding' = Append(Outstanding, r)
      BY <1>2, EnqueueAccepts DEF Places, Delivery!Accept
    <3> DEFINE t == Head(events)
    <3> HIDE DEF t
    <3>3. /\ t \in Trigger /\ IsNew(t)
          /\ watermark' = [session |-> t.session, sequence |-> t.sequence]
          /\ \/ Outstanding' = Outstanding
             \/ \E r \in Request : r.trigger = t /\ Outstanding' = Append(Outstanding, r)
      BY <2>2, <3>1, <3>2 DEF t
    <3>4. QED
      BY <3>3, OrderNewer
  <2>3. QED
    BY <1>2, <2>1, <2>2, WatermarkMoves
<1>3. CASE ResetSavedState
  <2>1. watermark' = None /\ Outstanding' = Outstanding
    BY <1>3, ResetStutters DEF ResetSavedState, Places
  <2>2. Outstanding' = <<>>
    <3>1. queue' = <<>> /\ executing' = <<>> /\ completions' = <<>>
      BY <1>3 DEF ResetSavedState
    <3>2. QED
      BY <3>1, RequestsParts DEF Outstanding
  <2>3. Len(Outstanding') = 0
    BY <2>2
  <2>4. QED
    BY <2>1, <2>3 DEF OrderInv
<1>4. CASE ~PollBridgeEvents /\ ~ResetSavedState
  <2>1. UNCHANGED watermark
    BY <1>4, BridgeChanges DEF StartListener, Broadcast, bridgeVars
  <2>2. CASE PollAction
    <3>1. Len(Outstanding) > 0 => Outstanding # <<>>
      BY Lengths, EmptySeq DEF TypeOK
    <3>2. Delivery!Report => Outstanding # <<>> /\ Outstanding' = Tail(Outstanding)
      <4>1. SUFFICES ASSUME Delivery!Report PROVE Len(Outstanding) > 0 /\ Outstanding' = Tail(Outstanding)
        BY <3>1
      <4>2. /\ Len(completions) + Len(executing) > 0 /\ Len(queue) \in Nat
            /\ Len(Outstanding) = Len(completions) + Len(executing) + Len(queue)
        <5>1. Len(executing) \in Nat
          BY DEF TypeOK, QueueType
        <5>2. QED
          BY <1>1, <4>1, <5>1, Lengths DEF Delivery!Report
      <4>3. QED
        BY <4>1, <4>2, <1>1, Lengths DEF Delivery!Report
    <3>3. QED
      BY <1>1, <2>1, <2>2, <3>2, PollReports, OrderKept DEF Places
  <2>3. CASE WorkerReceives
    BY <1>1, <2>1, <2>3, ReceiveHandsOver, OrderKept DEF Delivery!HandOver
  <2>4. CASE WorkerAnswers
    BY <1>1, <2>1, <2>4, AnswerFinishes, OrderKept DEF Delivery!Finish
  <2>5. CASE WorkerPanics
    <3> DEFINE n == Len(completions) + Len(executing) - 1
    <3>1. Outstanding' = SubSeq(Outstanding, 1, n)
      BY <1>1, <2>5, PanicLoses DEF Delivery!Lose
    <3>2. n \in 0 .. Len(Outstanding)
      BY <1>1, <2>5, Lengths DEF WorkerPanics
    <3> HIDE DEF n
    <3>3. QED
      BY <2>1, <3>1, <3>2, OrderKept
  <2>6. CASE Tick
    BY <1>1, <2>1, <2>6, TickStutters, OrderKept DEF Places
  <2>7. CASE UNCHANGED actionVars
    BY <2>1, <2>7, UntouchedStutters, OrderKept DEF Places
  <2>8. QED
    BY <1>4, <2>2, <2>3, <2>4, <2>5, <2>6, <2>7, ActionChanges
<1>5. QED
  BY <1>2, <1>3, <1>4

\* However long the queue is and however often the log of one session is replayed, two
\* unreported actions never stem from one record, and they are in the game's order
\* (trigger_is_new, the watermark and the queue together).
THEOREM OrderCorrect == Spec => []OutstandingInOrder
<1>1. Init => OrderInv
  <2> SUFFICES ASSUME Init PROVE OrderInv
    OBVIOUS
  <2>1. Outstanding = <<>>
    BY RequestsParts DEF Init, Outstanding
  <2>2. Len(Outstanding) = 0
    BY <2>1
  <2>3. QED
    BY <2>2 DEF Init, OrderInv
<1>2. IInv /\ OrderInv => OutstandingInOrder
  <2> SUFFICES ASSUME IInv, OrderInv PROVE OutstandingInOrder
    OBVIOUS
  <2>1. Outstanding \in Seq(Request)
    BY Lengths DEF IInv, TypeOK
  <2>2. Outstanding # <<>> => Len(Outstanding) \in 1 .. Len(Outstanding)
    BY <2>1
  <2>3. QED
    BY <2>2 DEF OrderInv, OutstandingInOrder
<1>3. QED
  BY <1>1, <1>2, InvInit, InvStep, OrderStep, PTL DEF Spec
================================================================================
