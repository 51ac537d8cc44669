---------------------------- MODULE OpenShockClient ----------------------------
(***************************************************************************)
(* The OpenShock client (openshock/src/lib.rs): threads that share one      *)
(* client send commands over one SignalR socket, which breaks, and whose    *)
(* server answers late, twice, not at all, or with what nobody can decode.  *)
(*                                                                          *)
(* Commands are named by their invocation ids.  A connection is a pair of   *)
(* channels that keep their order; what is in them outlives the client's    *)
(* end of the socket.                                                       *)
(***************************************************************************)
EXTENDS Naturals, Sequences, FiniteSets

CONSTANTS
  Caller,           \* the threads that hold the client
  MaxInvocation,    \* bound of the model: commands
  MaxConnection,    \* bound of the model: sockets
  MaxNoise,         \* bound of the model: messages that answer nothing
  None

Invocation == 1 .. MaxInvocation
Connection == 1 .. MaxConnection

ASSUME BoundAssumption ==
  /\ MaxInvocation \in Nat /\ MaxConnection \in Nat /\ MaxNoise \in Nat
  /\ None \notin Nat /\ None \notin Caller

ASSUME CallerAssumption == IsFiniteSet(Caller)

\* A record of the server: a completion, a keep-alive, a close or what is no JSON.
Record == [type : {"completion"}, invocation : Invocation, error : BOOLEAN]
          \cup [type : {"ping", "close", "garbage"}]

Ambiguous == {"transport", "disconnected"}

VARIABLES
  client,           \* "none", "connected", or "gone" when it is dropped
  lock,             \* who holds the mutex of the worker
  socket,           \* Worker::socket
  next_invocation,
  pc,               \* where each caller is
  current,          \* the invocation of the caller that holds the lock
  result,           \* what each invocation returned
  toServer, toClient,
  closed,           \* connections the server reads no more
  opened,           \* connections opened so far
  noise,            \* messages that answered nothing so far
  executed          \* history: how often each invocation reached the devices

clientVars == <<client, lock, socket, next_invocation, pc, current, result>>
serverVars == <<closed, noise, executed>>
vars == <<clientVars, serverVars, toServer, toClient, opened>>

--------------------------------------------------------------------------------
(* The life of the client. *)

\* open_socket: a new connection, past its handshake.
NewConnection ==
  /\ opened < MaxConnection
  /\ opened' = opened + 1
  /\ socket' = opened + 1

\* connect: the token is checked, then the socket is opened.
Connect ==
  /\ client = "none"
  /\ client' = "connected"
  /\ NewConnection
  /\ UNCHANGED <<lock, next_invocation, pc, current, result, toServer, toClient, serverVars>>

\* disconnect: the socket is taken from the worker and closed; a later command would
\* open another.
Disconnect ==
  /\ client = "connected"
  /\ lock = None
  /\ socket' = None
  /\ UNCHANGED <<client, lock, next_invocation, pc, current, result, toServer, toClient, opened, serverVars>>

\* The last owner drops the client.
Drop ==
  /\ client = "connected"
  /\ \A c \in Caller : pc[c] = "idle"
  /\ client' = "gone"
  /\ socket' = None
  /\ UNCHANGED <<lock, next_invocation, pc, current, result, toServer, toClient, opened, serverVars>>

--------------------------------------------------------------------------------
(* shock and test_sound. *)

\* The parameters are valid and some shocker of the group is not paused.
Call(c) ==
  /\ client = "connected"
  /\ pc[c] = "idle"
  /\ next_invocation + Cardinality({d \in Caller : pc[d] = "locking"}) \in Invocation
  /\ pc' = [pc EXCEPT ![c] = "locking"]
  /\ UNCHANGED <<client, lock, socket, next_invocation, current, result, toServer, toClient,
                 opened, serverVars>>

\* The mutex is taken and invoke numbers the command.
Lock(c) ==
  /\ pc[c] = "locking"
  /\ lock = None
  /\ lock' = c
  /\ current' = next_invocation
  /\ next_invocation' = next_invocation + 1
  /\ pc' = [pc EXCEPT ![c] = IF socket = None THEN "opening" ELSE "sending"]
  /\ UNCHANGED <<client, socket, result, toServer, toClient, opened, serverVars>>

\* invoke gives the socket up when the outcome is ambiguous.
SocketAfter(outcome) == IF outcome \in Ambiguous THEN None ELSE socket

\* A command that failed is sent once more on a new socket.
Replay(c, outcome) ==
  /\ pc' = [pc EXCEPT ![c] = IF outcome \in Ambiguous THEN "opening" ELSE "idle"]
  /\ lock' = IF outcome \in Ambiguous THEN c ELSE None
  /\ current' = IF outcome \in Ambiguous THEN current ELSE None
  /\ result' = [result EXCEPT ![current] = outcome]
  /\ UNCHANGED <<client, next_invocation>>

\* invoke returns and the mutex is free again.
Return(c, outcome) ==
  /\ result' = [result EXCEPT ![current] = outcome]
  /\ pc' = [pc EXCEPT ![c] = "idle"]
  /\ lock' = None
  /\ current' = None
  /\ UNCHANGED <<client, next_invocation>>

\* send_and_wait returns, and invoke looks at what it returned.
Finish(c, outcome) ==
  /\ Return(c, outcome)
  /\ socket' = SocketAfter(outcome)

\* invoke opens a socket where there is none; it returns at once if that fails.
OpenSocket(c) ==
  /\ pc[c] = "opening"
  /\ \/ /\ NewConnection
        /\ pc' = [pc EXCEPT ![c] = "sending"]
        /\ UNCHANGED <<client, lock, next_invocation, current, result>>
     \/ /\ Return(c, "transport")
        /\ UNCHANGED <<socket, opened>>
  /\ UNCHANGED <<toServer, toClient, serverVars>>

\* The frame is written; a write that fails may have reached the server.
Send(c) ==
  /\ pc[c] = "sending"
  /\ \/ /\ toServer' = [toServer EXCEPT ![socket] = Append(@, current)]
        /\ pc' = [pc EXCEPT ![c] = "waiting"]
        /\ UNCHANGED <<client, lock, socket, next_invocation, current, result>>
     \/ /\ toServer' \in {toServer, [toServer EXCEPT ![socket] = Append(@, current)]}
        /\ Finish(c, "transport")
  /\ UNCHANGED <<toClient, opened, serverVars>>

\* A completion is taken for the answer whatever it answers.
AnyCompletion(rec) == rec.type = "completion"

\* The completion of the invocation that is waiting.
IsAnswer(rec) == rec.type = "completion" /\ rec.invocation = current

\* What send_and_wait returns on a record; "none" if it reads on.
Outcome(rec) ==
  CASE IsAnswer(rec) -> IF rec.error THEN "rejected" ELSE "ok"
    [] rec.type = "close" -> "disconnected"
    [] rec.type = "garbage" -> "decode"
    [] OTHER -> "none"

\* One message holds one or more of the server's records; those after the one that
\* decides are dropped with it.
Receive(c) ==
  /\ pc[c] = "waiting"
  /\ \E k \in 1 .. Len(toClient[socket]) :
       LET deciding == {i \in 1 .. k : Outcome(toClient[socket][i]) # "none"}
       IN  /\ toClient' = [toClient EXCEPT ![socket] = SubSeq(@, k + 1, Len(@))]
           /\ IF deciding = {}
              THEN UNCHANGED clientVars
              ELSE \E i \in deciding :
                     /\ \A j \in deciding : i <= j
                     /\ Finish(c, Outcome(toClient[socket][i]))
  /\ UNCHANGED <<toServer, opened, serverVars>>

\* A socket without a read timeout: only a closed connection ends the wait.
ReadFailsIfClosed(c) ==
  /\ pc[c] = "waiting"
  /\ socket \in closed
  /\ Finish(c, "transport")
  /\ UNCHANGED <<toServer, toClient, opened, serverVars>>

\* The read times out, or the connection breaks.
ReadFails(c) ==
  /\ pc[c] = "waiting"
  /\ Finish(c, "transport")
  /\ UNCHANGED <<toServer, toClient, opened, serverVars>>

Invoke(c) == Lock(c) \/ OpenSocket(c) \/ Send(c) \/ Receive(c) \/ ReadFails(c)

--------------------------------------------------------------------------------
(* The server. *)

Answers(conn, rec) == toClient' = [toClient EXCEPT ![conn] = Append(@, rec)]

\* It carries a command out, or refuses it, and says so; or it never answers.
Serve(conn) ==
  /\ conn \notin closed
  /\ toServer[conn] # <<>>
  /\ toServer' = [toServer EXCEPT ![conn] = Tail(@)]
  /\ LET invocation == Head(toServer[conn])
     IN  \/ /\ executed' = [executed EXCEPT ![invocation] = @ + 1]
            /\ \/ Answers(conn, [type |-> "completion", invocation |-> invocation, error |-> FALSE])
               \/ UNCHANGED toClient
         \/ /\ Answers(conn, [type |-> "completion", invocation |-> invocation, error |-> TRUE])
            /\ UNCHANGED executed
  /\ UNCHANGED <<clientVars, closed, noise, opened>>

\* Keep-alives, and messages that are none.
MakeNoise(conn) ==
  /\ conn \notin closed
  /\ noise < MaxNoise
  /\ noise' = noise + 1
  /\ \E type \in {"ping", "garbage"} : Answers(conn, [type |-> type])
  /\ UNCHANGED <<clientVars, toServer, closed, executed, opened>>

Close(conn) ==
  /\ conn \notin closed
  /\ closed' = closed \cup {conn}
  /\ Answers(conn, [type |-> "close"]) \/ UNCHANGED toClient
  /\ UNCHANGED <<clientVars, toServer, noise, executed, opened>>

Server == \E conn \in 1 .. opened : Serve(conn) \/ MakeNoise(conn) \/ Close(conn)

--------------------------------------------------------------------------------

Init ==
  /\ client = "none"
  /\ lock = None
  /\ socket = None
  /\ next_invocation = 1
  /\ pc = [c \in Caller |-> "idle"]
  /\ current = None
  /\ result = [n \in Invocation |-> "none"]
  /\ toServer = [conn \in Connection |-> <<>>]
  /\ toClient = [conn \in Connection |-> <<>>]
  /\ closed = {}
  /\ opened = 0
  /\ noise = 0
  /\ executed = [n \in Invocation |-> 0]

Next ==
  \/ Connect \/ Disconnect \/ Drop
  \/ \E c \in Caller : Call(c) \/ Invoke(c)
  \/ Server

Spec == Init /\ [][Next]_vars

\* A thread in a call goes on: reads and writes have timeouts, and the mutex is free
\* in the end.
FairSpec == Spec /\ \A c \in Caller : WF_vars(Invoke(c))

--------------------------------------------------------------------------------
(* Correctness. *)

TypeOK ==
  /\ client \in {"none", "connected", "gone"}
  /\ lock \in Caller \cup {None}
  /\ socket \in Connection \cup {None}
  /\ next_invocation \in 1 .. MaxInvocation + 1
  /\ pc \in [Caller -> {"idle", "locking", "opening", "sending", "waiting"}]
  /\ current \in Invocation \cup {None}
  /\ result \in [Invocation -> {"none", "ok", "rejected", "decode"} \cup Ambiguous]
  /\ toServer \in [Connection -> Seq(Invocation)]
  /\ toClient \in [Connection -> Seq(Record)]
  /\ closed \in SUBSET Connection
  /\ opened \in 0 .. MaxConnection
  /\ noise \in 0 .. MaxNoise
  /\ executed \in [Invocation -> Nat]

\* No command reaches the devices twice, however its call ended (the comment in
\* invoke: "never replay this invocation").
AtMostOnce == \A n \in Invocation : executed[n] <= 1

\* A call says Ok only of a command the devices carried out, and that the server
\* refused a command only when it did: late completions, left behind by a call that
\* returned on an undecodable message, are not taken for the answer to the next one.
AnswerIsTrue ==
  \A n \in Invocation :
    /\ result[n] = "ok" => executed[n] = 1
    /\ result[n] = "rejected" => executed[n] = 0

\* Every call returns, also when the server is silent, and every thread that waits for
\* the mutex gets it.
CallsReturn == \A c \in Caller : pc[c] # "idle" ~> pc[c] = "idle"
================================================================================
