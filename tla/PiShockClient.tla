------------------------------ MODULE PiShockClient ------------------------------
(***************************************************************************)
(* The PiShock client (pishock/src/http.rs): the list of device groups is   *)
(* merged from two requests, share by share, and a command for a group      *)
(* becomes one POST per shocker, each through one claimed share, any of     *)
(* which may be refused or go unanswered.                                   *)
(*                                                                          *)
(* A share is a record of the shared-shocker listing: its code, its shocker *)
(* and hub, and what it permits.                                            *)
(***************************************************************************)
EXTENDS Naturals, Sequences, Functions

CONSTANTS
  Share,            \* records of the shared-shocker listing
  HubList,          \* answers of GET /Hub: sequences of hub ids
  ShareList,        \* answers of GET /Share/GetShared: sequences of shares
  Command,          \* commands: [operation, intensity, duration]
  MaxCalls,         \* bound of the model: commands
  None

Call == 1 .. MaxCalls
ShockerId == {share.id : share \in Share}

\* Both requests list each of their items by a key: a hub by its id, a share of a
\* shocker by its code.
ASSUME ListAssumption ==
  /\ MaxCalls \in Nat
  /\ \A hubs \in HubList : hubs \in Seq(Nat) /\ IsInjective(hubs)
  /\ \A shares \in ShareList : shares \in Seq(Share)
  /\ \A share \in Share : share.client_id \in Nat /\ share.id \in Nat
  /\ \A a, b \in Share :
       a.client_id = b.client_id /\ a.id = b.id /\ a.code = b.code => a = b

ASSUME NoneAssumption == None \notin Command /\ None \notin {"204", "refused"}

VARIABLES
  pc,               \* "idle", with one of the two requests of a listing, or with a command
  groups,           \* the groups of the listing that goes on
  shares,           \* what GET /Share/GetShared answered to it
  next,             \* the first of them that is not in its group yet
  devices,          \* the groups of the last listing: they are used while it ages
  call, command,    \* the number of calls so far, and the command of the last
  selected,         \* shares still to be posted to
  answer,           \* the status of the POST that is waiting
  inFlight,         \* POSTs the server has not served
  result,           \* what each call returned
  executed,         \* history: how often each call reached each shocker
  target,           \* history: the shares of the group each call was for, if any
  posted,           \* history: the POSTs of each call
  listed            \* history: the shares of the last listing

mergeVars == <<groups, shares, next>>
listVars == <<mergeVars, devices, listed>>
callVars == <<call, command, target, posted>>
vars == <<pc, listVars, callVars, selected, answer, inFlight, result, executed>>

--------------------------------------------------------------------------------
(* list_devices. *)

NewGroup(client_id) == [client_id |-> client_id, shockers |-> <<>>]

\* Only the shocker is compared, not the share.
AddShareOnce(shockers, share) ==
  IF \E i \in 1 .. Len(shockers) : shockers[i].id = share.id
  THEN shockers
  ELSE Append(shockers, share)

\* A share listed twice is kept once.
AddShare(shockers, share) ==
  IF \E i \in 1 .. Len(shockers) : shockers[i].id = share.id /\ shockers[i].code = share.code
  THEN shockers
  ELSE Append(shockers, share)

\* A share goes to its hub, which the listing of the hubs need not name.
Merge(share) ==
  IF \E i \in 1 .. Len(groups) : groups[i].client_id = share.client_id
  THEN [i \in 1 .. Len(groups) |->
          IF groups[i].client_id = share.client_id
          THEN [client_id |-> share.client_id, shockers |-> AddShare(groups[i].shockers, share)]
          ELSE groups[i]]
  ELSE Append(groups, [client_id |-> share.client_id, shockers |-> <<share>>])

NoListing == groups' = <<>> /\ shares' = <<>> /\ next' = 1

\* GET /Hub; a listing that fails here or later leaves the groups of the last one.
ListHubs ==
  /\ pc = "idle"
  /\ \E hubs \in HubList : groups' = [i \in 1 .. Len(hubs) |-> NewGroup(hubs[i])]
  /\ pc' = "listing"
  /\ UNCHANGED <<shares, next, devices, listed, callVars, selected, answer, inFlight, result,
                 executed>>

\* GET /Share/GetShared, of an account that may have changed since.
ListShares ==
  /\ pc = "listing"
  /\ \/ /\ shares' \in ShareList
        /\ pc' = "merging"
        /\ UNCHANGED <<groups, next>>
     \/ NoListing /\ pc' = "idle"
  /\ UNCHANGED <<devices, listed, callVars, selected, answer, inFlight, result, executed>>

\* One turn of the loop over the shares.
MergeShare ==
  /\ pc = "merging"
  /\ next <= Len(shares)
  /\ groups' = Merge(shares[next])
  /\ next' = next + 1
  /\ UNCHANGED <<pc, shares, devices, listed, callVars, selected, answer, inFlight, result,
                 executed>>

Listed ==
  /\ pc = "merging"
  /\ next > Len(shares)
  /\ devices' = groups
  /\ listed' = shares
  /\ NoListing
  /\ pc' = "idle"
  /\ UNCHANGED <<callVars, selected, answer, inFlight, result, executed>>

--------------------------------------------------------------------------------
(* The selection of the shares of a command. *)

\* Command::parameters: 0 is a shock, 1 a vibration, 2 a beep.
ValidParameters(c) ==
  /\ c.operation # 2 => c.intensity \in 1 .. 100
  /\ c.duration \in 16 .. 15000

Available(share) == ~share.paused /\ ~share.share_paused /\ ~share.locked

\* validate_command: only a shock is bound by the intensity of the share.
Permits(share, c) ==
  /\ share.is_v3
  /\ c.operation \in share.can
  /\ c.operation = 0 => c.intensity <= share.max_intensity
  /\ c.duration <= share.max_duration

\* The indices of the shares of a shocker that are available.
Alternatives(shockers, id) ==
  {i \in 1 .. Len(shockers) : shockers[i].id = id /\ Available(shockers[i])}

Reachable(shockers) == {id \in ShockerId : Alternatives(shockers, id) # {}}

\* Every shocker with a share that permits the command, whatever the others have.
SelectSome(shockers, c) ==
  {shockers[i] : i \in {j \in 1 .. Len(shockers) :
     /\ Available(shockers[j]) /\ Permits(shockers[j], c)
     /\ \A k \in Alternatives(shockers, shockers[j].id) : k < j => ~Permits(shockers[k], c)}}

\* Every share that permits the command, when each shocker has one.
SelectAll(shockers, c) ==
  IF \A id \in Reachable(shockers) : \E i \in Alternatives(shockers, id) : Permits(shockers[i], c)
  THEN {shockers[i] : i \in {j \in 1 .. Len(shockers) :
          Available(shockers[j]) /\ Permits(shockers[j], c)}}
  ELSE {}

\* operate_device: the first share that permits the command of every shocker, or none
\* at all when some shocker has no such share.
Select(shockers, c) ==
  IF \A id \in Reachable(shockers) : \E i \in Alternatives(shockers, id) : Permits(shockers[i], c)
  THEN {shockers[i] : i \in {j \in 1 .. Len(shockers) :
          /\ Available(shockers[j]) /\ Permits(shockers[j], c)
          /\ \A k \in Alternatives(shockers, shockers[j].id) : k < j => ~Permits(shockers[k], c)}}
  ELSE {}

\* A command for a group or for one share: refused before the first POST, or started.
Begin(c, group, chosen) ==
  /\ pc = "idle"
  /\ call < MaxCalls
  /\ call' = call + 1
  /\ command' = c
  /\ target' = [target EXCEPT ![call + 1] = group]
  /\ selected' = IF ValidParameters(c) THEN chosen ELSE {}
  /\ pc' = IF selected' = {} THEN "idle" ELSE "posting"
  /\ result' = [result EXCEPT ![call + 1] = IF selected' = {} THEN "refused" ELSE "none"]
  /\ UNCHANGED <<listVars, posted, answer, inFlight, executed>>

Operate(group, c) == Begin(c, Range(group.shockers), Select(group.shockers, c))

\* send_command and send_command_by_id: the server alone enforces the share.
SendCommand(share, c) == Begin(c, {}, {share})

--------------------------------------------------------------------------------
(* The POSTs. *)

Return(outcome) ==
  /\ pc' = "idle"
  /\ selected' = {}
  /\ result' = [result EXCEPT ![call] = outcome]

\* send_command, by ascending shocker id; a POST that fails may have left.
Post ==
  /\ pc = "posting"
  /\ \E share \in selected :
       /\ \A other \in selected : share.id <= other.id
       /\ LET request == [call |-> call, share |-> share]
          IN  \/ /\ inFlight' = inFlight \cup {request}
                 /\ posted' = posted \cup {request}
                 /\ selected' = selected \ {share}
                 /\ pc' = "waiting"
                 /\ UNCHANGED result
              \/ /\ Return("failed")
                 /\ UNCHANGED <<inFlight, posted>>
  /\ UNCHANGED <<listVars, call, command, target, answer, executed>>

\* A refusal does not keep the next shocker from its command.
ReceiveAny ==
  /\ pc = "waiting"
  /\ answer # None
  /\ IF selected = {}
     THEN Return("ok")
     ELSE pc' = "posting" /\ UNCHANGED <<selected, result>>
  /\ answer' = None
  /\ UNCHANGED <<listVars, callVars, inFlight, executed>>

\* command_status: anything but 204 ends the command.
Receive ==
  /\ pc = "waiting"
  /\ answer # None
  /\ IF answer # "204"
     THEN Return("failed")
     ELSE IF selected = {}
          THEN Return("ok")
          ELSE pc' = "posting" /\ UNCHANGED <<selected, result>>
  /\ answer' = None
  /\ UNCHANGED <<listVars, callVars, inFlight, executed>>

\* No answer within COMMAND_TIMEOUT, or a broken connection.
TimesOut ==
  /\ pc = "waiting"
  /\ Return("failed")
  /\ answer' = None
  /\ UNCHANGED <<listVars, callVars, inFlight, executed>>

\* The server carries a request out or refuses it, at any time; only the request that
\* is waiting for it hears.
Serve(request) ==
  /\ request \in inFlight
  /\ inFlight' = inFlight \ {request}
  /\ \/ /\ executed' = [executed EXCEPT ![request.call][request.share.id] = @ + 1]
        /\ answer' = IF request.call = call /\ pc = "waiting" THEN "204" ELSE answer
     \/ /\ answer' = IF request.call = call /\ pc = "waiting" THEN "refused" ELSE answer
        /\ UNCHANGED executed
  /\ UNCHANGED <<pc, listVars, callVars, selected, result>>

--------------------------------------------------------------------------------

Init ==
  /\ pc = "idle"
  /\ groups = <<>>
  /\ shares = <<>>
  /\ next = 1
  /\ devices = <<>>
  /\ call = 0
  /\ command = None
  /\ selected = {}
  /\ answer = None
  /\ inFlight = {}
  /\ result = [n \in Call |-> "none"]
  /\ executed = [n \in Call |-> [id \in ShockerId |-> 0]]
  /\ target = [n \in Call |-> {}]
  /\ posted = {}
  /\ listed = <<>>

Next ==
  \/ ListHubs \/ ListShares \/ MergeShare \/ Listed
  \/ \E i \in 1 .. Len(devices), c \in Command : Operate(devices[i], c)
  \/ \E share \in Share, c \in Command : SendCommand(share, c)
  \/ Post \/ Receive \/ TimesOut
  \/ \E request \in inFlight : Serve(request)

Spec == Init /\ [][Next]_vars

--------------------------------------------------------------------------------
(* Correctness. *)

Group == [client_id : Nat, shockers : Seq(Share)]
Request == [call : Call, share : Share]

TypeOK ==
  /\ pc \in {"idle", "listing", "merging", "posting", "waiting"}
  /\ groups \in Seq(Group)
  /\ shares \in Seq(Share)
  /\ next \in Nat \ {0}
  /\ devices \in Seq(Group)
  /\ call \in 0 .. MaxCalls
  /\ command \in Command \cup {None}
  /\ selected \in SUBSET Share
  /\ pc \notin {"posting", "waiting"} => selected = {}
  /\ answer \in {"204", "refused", None}
  /\ inFlight \in SUBSET Request
  /\ result \in [Call -> {"none", "refused", "failed", "ok"}]
  /\ executed \in [Call -> [ShockerId -> Nat]]
  /\ target \in [Call -> SUBSET Share]
  /\ posted \in SUBSET Request
  /\ listed \in Seq(Share)

\* The groups hold each share once, in the group of its hub, and a hub is one group.
Complete(hubs, held) ==
  /\ \A i, j \in 1 .. Len(hubs) : hubs[i].client_id = hubs[j].client_id => i = j
  /\ \A i \in 1 .. Len(hubs) :
       /\ Range(hubs[i].shockers) = {share \in held : share.client_id = hubs[i].client_id}
       /\ IsInjective(hubs[i].shockers)
  /\ \A share \in held : \E i \in 1 .. Len(hubs) : hubs[i].client_id = share.client_id

\* The listing loses no share and shows none twice: every share listed is in the group of
\* its hub, alternative shares of a shocker stay apart, and a hub is one group.
ListingComplete == Complete(devices, Range(listed))

\* One call operates each shocker at most once, however many shares it has and however
\* its POSTs end.
AtMostOnce == \A n \in Call, id \in ShockerId : executed[n][id] <= 1

\* Ok means that every shocker of the group that was not paused or locked, or the one
\* that was named, carried the command out.
OkIsEveryShocker ==
  \A n \in Call :
    result[n] = "ok" =>
      /\ \A share \in target[n] : Available(share) => executed[n][share.id] = 1
      /\ \A request \in posted : request.call = n => executed[n][request.share.id] = 1

\* The group is checked before its first POST, each shocker against one whole share:
\* nothing is posted for a group with a shocker that has no share for the command, and
\* never through a share whose own limits forbid it.
CheckedBeforePost ==
  \A request \in posted : request.call = call /\ target[call] # {} =>
    /\ ValidParameters(command)
    /\ Available(request.share) /\ Permits(request.share, command)
    /\ \A share \in target[call] : Available(share) =>
         \E other \in target[call] :
           other.id = share.id /\ Available(other) /\ Permits(other, command)
================================================================================
