---------------------------- MODULE OpenShockProof ----------------------------
(***************************************************************************)
(* What the OpenShock client promises of its commands, proved for every     *)
(* number of threads, commands and sockets.                                 *)
(***************************************************************************)
EXTENDS OpenShockClient, FiniteSetTheorems, SequenceTheorems, TLAPS

--------------------------------------------------------------------------------
(* The inductive invariant. *)

\* A command lies in a channel to the server.
Queued(n) ==
  \E conn \in Connection : \E i \in 1 .. Len(toServer[conn]) : toServer[conn][i] = n

\* A record lies in a channel to the client.
Arriving(rec) ==
  \E conn \in Connection : \E i \in 1 .. Len(toClient[conn]) : toClient[conn][i] = rec

\* A completion of a command lies in a channel to the client.
Answered(n) == \E rec \in Record : Arriving(rec) /\ rec.type = "completion" /\ rec.invocation = n

\* A command that was not written to any socket yet.
Unsent(n) == n >= next_invocation \/ (n = current /\ pc[lock] # "waiting")

Waiters == {c \in Caller : pc[c] = "locking"}

\* The mutex is held by the one thread that is in invoke, whose command is current.
LockInv ==
  /\ lock = None => current = None
  /\ lock # None => current \in Invocation /\ current < next_invocation
  /\ \A c \in Caller : pc[c] \in {"opening", "sending", "waiting"} <=> lock = c
  /\ lock # None /\ pc[lock] \in {"sending", "waiting"} => socket # None
  /\ next_invocation + Cardinality(Waiters) <= MaxInvocation + 1

\* A command lies in one place at most: unsent, in one channel to the server, or in the
\* hands of the server, which answers it at most once and truly.
UnsentInv ==
  \A n \in Invocation : Unsent(n) => executed[n] = 0 /\ ~Queued(n) /\ ~Answered(n)
QueuedInv ==
  /\ \A n \in Invocation : Queued(n) => executed[n] = 0 /\ ~Answered(n)
  /\ \A conn, other \in Connection :
       \A i \in 1 .. Len(toServer[conn]), j \in 1 .. Len(toServer[other]) :
         toServer[conn][i] = toServer[other][j] => conn = other /\ i = j
AnswerInv ==
  \A rec \in Record : Arriving(rec) /\ rec.type = "completion" =>
    executed[rec.invocation] = IF rec.error THEN 0 ELSE 1

\* What a call returned was decided when the command had left the channels.
ResultInv ==
  \A n \in Invocation :
    /\ result[n] # "none" => n < next_invocation /\ n # current
    /\ result[n] = "ok" => executed[n] = 1
    /\ result[n] = "rejected" => executed[n] = 0 /\ ~Queued(n)

IInv ==
  /\ TypeOK
  /\ LockInv
  /\ UnsentInv
  /\ QueuedInv
  /\ AnswerInv
  /\ AtMostOnce
  /\ ResultInv

--------------------------------------------------------------------------------
(* Types and the mutex. *)

\* Before the first connection nothing is sent, held or waited for.
LEMMA InitIInv == Init => IInv
<1> SUFFICES ASSUME Init PROVE IInv
  OBVIOUS
<1> USE BoundAssumption, CallerAssumption DEF Init
<1>1. TypeOK
  <2>1. toServer \in [Connection -> Seq(Invocation)] /\ toClient \in [Connection -> Seq(Record)]
    BY EmptySeq
  <2>2. QED
    BY <2>1 DEF TypeOK
<1>2. LockInv
  <2>1. Waiters = {}
    BY DEF Waiters
  <2>2. Cardinality(Waiters) = 0
    BY <2>1, FS_EmptySet
  <2>3. QED
    BY <2>2 DEF LockInv
<1>3. \A conn \in Connection : Len(toServer[conn]) = 0 /\ Len(toClient[conn]) = 0
  BY EmptySeq
<1>4. (\A n \in Invocation : ~Queued(n)) /\ (\A rec \in Record : ~Arriving(rec))
  BY <1>3 DEF Queued, Arriving
<1>5. UnsentInv /\ QueuedInv /\ AnswerInv /\ AtMostOnce /\ ResultInv
  BY <1>3, <1>4 DEF UnsentInv, QueuedInv, AnswerInv, Answered, AtMostOnce, ResultInv
<1>6. QED
  BY <1>1, <1>2, <1>5 DEF IInv

\* A caller that is in invoke holds the mutex and its command is current.
LEMMA Holder ==
  ASSUME IInv, NEW c \in Caller, pc[c] \in {"opening", "sending", "waiting"}
  PROVE  /\ lock = c /\ lock # None
         /\ current \in Invocation /\ current < next_invocation
         /\ pc[c] \in {"sending", "waiting"} => socket \in Connection
<1>1. lock = c /\ lock # None
  BY BoundAssumption DEF IInv, LockInv
<1>2. QED
  BY <1>1 DEF IInv, LockInv, TypeOK

\* The threads that wait for the mutex are finitely many.
LEMMA WaitersCounted ==
  IsFiniteSet(Waiters) /\ Cardinality(Waiters) \in Nat
<1>1. IsFiniteSet(Waiters)
  BY CallerAssumption, FS_Subset DEF Waiters
<1>2. QED
  BY <1>1, FS_CardinalityType

\* A step of the mutex's holder within invoke, or its return: nobody else's place changes.
LEMMA HolderSteps ==
  ASSUME IInv, NEW c \in Caller, pc[c] \in {"opening", "sending", "waiting"},
         NEW place \in {"idle", "opening", "sending", "waiting"}, pc' = [pc EXCEPT ![c] = place],
         next_invocation' = next_invocation,
         IF place = "idle" THEN lock' = None /\ current' = None
         ELSE lock' = lock /\ current' = current,
         place \in {"sending", "waiting"} => socket' # None
  PROVE  LockInv' /\ (\A n \in Invocation : Unsent(n)' => Unsent(n) \/ n = current)
<1>1. lock = c /\ c # None /\ current \in Invocation /\ current < next_invocation
  BY Holder
<1>2. pc'[c] = place /\ \A d \in Caller : d # c => pc'[d] = pc[d]
  BY DEF IInv, TypeOK
<1>3. Waiters' = Waiters
  BY <1>2 DEF Waiters
<1>4. next_invocation' + Cardinality(Waiters') <= MaxInvocation + 1
  BY <1>3 DEF IInv, LockInv
<1>5. lock' = None \/ lock' = c
  BY <1>1
<1>6. \A d \in Caller : pc'[d] \in {"opening", "sending", "waiting"} <=> lock' = d
  <2>1. \A d \in Caller : pc[d] \in {"opening", "sending", "waiting"} <=> lock = d
    BY DEF IInv, LockInv
  <2>2. CASE place = "idle"
    BY <1>1, <1>2, <2>1, <2>2, BoundAssumption
  <2>3. CASE place # "idle"
    BY <1>1, <1>2, <2>1, <2>3
  <2>4. QED
    BY <2>2, <2>3
<1>7. LockInv'
  BY <1>1, <1>2, <1>4, <1>5, <1>6 DEF LockInv
<1>8. \A n \in Invocation : Unsent(n)' => Unsent(n) \/ n = current
  BY BoundAssumption, <1>1 DEF Unsent, Invocation
<1>9. QED
  BY <1>7, <1>8

\* Steps that send and serve nothing, and bring no completion, keep what is known of the
\* commands in the channels.
LEMMA DeliveryKept ==
  ASSUME IInv, UNCHANGED <<toServer, executed>>,
         \A rec \in Record : rec.type = "completion" /\ Arriving(rec)' => Arriving(rec),
         \A n \in Invocation : Unsent(n)' => Unsent(n)
  PROVE  UnsentInv' /\ QueuedInv' /\ AnswerInv' /\ AtMostOnce'
<1>1. \A n \in Invocation : (Queued(n)' <=> Queued(n)) /\ (Answered(n)' => Answered(n))
  BY DEF Queued, Answered
<1>2. UnsentInv'
  BY <1>1 DEF IInv, UnsentInv
<1>3. QueuedInv'
  BY <1>1 DEF IInv, QueuedInv
<1>4. AnswerInv' /\ AtMostOnce'
  BY DEF IInv, AnswerInv, AtMostOnce
<1>5. QED
  BY <1>2, <1>3, <1>4

\* A call that returns has decided what it says of its command.
LEMMA ResultDecided ==
  ASSUME IInv, NEW c \in Caller, pc[c] \in {"opening", "sending", "waiting"},
         NEW m \in Invocation, m = current,
         NEW outcome \in {"ok", "rejected", "decode"} \cup Ambiguous,
         result' = [result EXCEPT ![m] = outcome],
         current' = None, next_invocation' = next_invocation, executed' = executed,
         \A n \in Invocation : n # m => (Queued(n)' => Queued(n)),
         outcome = "ok" => executed[m] = 1,
         outcome = "rejected" => executed[m] = 0 /\ ~Queued(m)'
  PROVE  ResultInv'
<1>1. m < next_invocation
  BY Holder
<1>2. result'[m] = outcome /\ \A n \in Invocation : n # m => result'[n] = result[n]
  BY <1>1 DEF IInv, TypeOK
<1> SUFFICES ASSUME NEW n \in Invocation
             PROVE  /\ result'[n] # "none" => n < next_invocation' /\ n # current'
                    /\ result'[n] = "ok" => executed'[n] = 1
                    /\ result'[n] = "rejected" => executed'[n] = 0 /\ ~Queued(n)'
  BY DEF ResultInv
<1>3. n # None
  BY BoundAssumption DEF Invocation
<1>4. CASE n = m
  BY <1>1, <1>2, <1>3, <1>4 DEF Ambiguous
<1>5. CASE n # m
  BY <1>2, <1>3, <1>5 DEF IInv, ResultInv
<1>6. QED
  BY <1>4, <1>5

\* A step that returns from no call and serves nothing says nothing new of the commands.
LEMMA ResultKept ==
  ASSUME IInv, UNCHANGED <<result, executed>>,
         \A n \in Invocation : result[n] # "none" => n < next_invocation' /\ n # current',
         \A n \in Invocation : result[n] # "none" => (Queued(n)' => Queued(n))
  PROVE  ResultInv'
BY DEF IInv, ResultInv

--------------------------------------------------------------------------------
(* The steps of the client. *)

\* Connecting, disconnecting and dropping the client touch no command.
LEMMA LifeKeeps ==
  ASSUME IInv, Connect \/ Disconnect \/ Drop
  PROVE  IInv'
<1>1. UNCHANGED <<lock, next_invocation, pc, current, result, toServer, toClient, serverVars>>
  BY DEF Connect, Disconnect, Drop
<1>2. opened' \in 0 .. MaxConnection /\ socket' \in Connection \cup {None}
      /\ client' \in {"none", "connected", "gone"}
  BY BoundAssumption DEF IInv, TypeOK, Connect, Disconnect, Drop, NewConnection, Connection
<1>3. TypeOK'
  BY <1>1, <1>2 DEF IInv, TypeOK, serverVars
<1>4. lock # None => socket' # None
  <2>1. CASE Connect
    BY <2>1, BoundAssumption DEF IInv, TypeOK, Connect, NewConnection
  <2>2. CASE Disconnect
    BY <2>2 DEF Disconnect
  <2>3. CASE Drop
    BY <2>3 DEF Drop, IInv, TypeOK, LockInv
  <2>4. QED
    BY <2>1, <2>2, <2>3
<1>5. LockInv'
  BY <1>1, <1>4 DEF IInv, LockInv, Waiters
<1>6. \A n \in Invocation : Unsent(n)' => Unsent(n)
  BY <1>1 DEF Unsent
<1>7. UnsentInv' /\ QueuedInv' /\ AnswerInv' /\ AtMostOnce'
  BY <1>1, <1>6, DeliveryKept DEF Arriving, serverVars
<1>8. ResultInv'
  BY <1>1 DEF IInv, ResultInv, Queued, serverVars
<1>9. QED
  BY <1>3, <1>5, <1>7, <1>8 DEF IInv

\* A call waits for the mutex; the command it will have is still to be numbered.
LEMMA CallKeeps ==
  ASSUME IInv, NEW c \in Caller, Call(c)
  PROVE  IInv'
<1>1. UNCHANGED <<client, lock, socket, next_invocation, current, result, toServer, toClient,
                  opened, serverVars>>
  BY DEF Call
<1>2. pc[c] = "idle" /\ pc' = [pc EXCEPT ![c] = "locking"]
  BY DEF Call
<1>3. TypeOK'
  BY <1>1, <1>2 DEF IInv, TypeOK, serverVars
<1>4. pc'[c] = "locking" /\ \A d \in Caller : d # c => pc'[d] = pc[d]
  BY <1>2 DEF IInv, TypeOK
<1>5. lock # c
  BY <1>2 DEF IInv, LockInv
<1>6. next_invocation' + Cardinality(Waiters') <= MaxInvocation + 1
  <2>1. Waiters' = Waiters \cup {c} /\ c \notin Waiters
    BY <1>2, <1>4 DEF Waiters
  <2>2. Cardinality(Waiters') = Cardinality(Waiters) + 1
    BY <2>1, WaitersCounted, FS_AddElement
  <2>3. next_invocation + Cardinality(Waiters) \in Invocation
    BY DEF Call, Waiters
  <2>4. QED
    BY <1>1, <2>2, <2>3, WaitersCounted, BoundAssumption DEF IInv, TypeOK, Invocation
<1>7. LockInv'
  BY <1>1, <1>2, <1>4, <1>5, <1>6 DEF IInv, LockInv, TypeOK
<1>8. \A n \in Invocation : Unsent(n)' => Unsent(n)
  <2>1. lock \in Caller => pc'[lock] = pc[lock]
    BY <1>4, <1>5
  <2>2. \A n \in Invocation : n = current => lock \in Caller
    BY BoundAssumption DEF IInv, LockInv, TypeOK, Invocation
  <2>3. QED
    BY <1>1, <2>1, <2>2 DEF Unsent
<1>9. UnsentInv' /\ QueuedInv' /\ AnswerInv' /\ AtMostOnce'
  BY <1>1, <1>8, DeliveryKept DEF Arriving, serverVars
<1>10. ResultInv'
  BY <1>1 DEF IInv, ResultInv, Queued, serverVars
<1>11. QED
  BY <1>3, <1>7, <1>9, <1>10 DEF IInv

\* The mutex goes to one waiter, whose command gets the next number.
LEMMA LockKeeps ==
  ASSUME IInv, NEW c \in Caller, Lock(c)
  PROVE  IInv'
<1>1. UNCHANGED <<client, socket, result, toServer, toClient, opened, serverVars>>
  BY DEF Lock
<1>2. /\ pc[c] = "locking" /\ lock = None /\ lock' = c
      /\ current' = next_invocation /\ next_invocation' = next_invocation + 1
      /\ pc' = [pc EXCEPT ![c] = IF socket = None THEN "opening" ELSE "sending"]
  BY DEF Lock
<1>3. /\ pc'[c] = IF socket = None THEN "opening" ELSE "sending"
      /\ \A d \in Caller : d # c => pc'[d] = pc[d]
  BY <1>2 DEF IInv, TypeOK
<1>4. c \in Waiters /\ Waiters' = Waiters \ {c}
  BY <1>2, <1>3 DEF Waiters
<1>5. Cardinality(Waiters') = Cardinality(Waiters) - 1 /\ Cardinality(Waiters) >= 1
  <2>1. Cardinality(Waiters) # 0
    BY <1>4, WaitersCounted, FS_EmptySet
  <2>2. QED
    BY <1>4, <2>1, WaitersCounted, FS_RemoveElement
<1>6. /\ next_invocation \in Invocation
      /\ next_invocation' + Cardinality(Waiters') <= MaxInvocation + 1
  BY <1>2, <1>5, WaitersCounted, BoundAssumption DEF IInv, TypeOK, LockInv, Invocation
<1>7. TypeOK'
  <2>1. pc' \in [Caller -> {"idle", "locking", "opening", "sending", "waiting"}]
    BY <1>2 DEF IInv, TypeOK
  <2>2. next_invocation' \in 1 .. MaxInvocation + 1
    BY <1>2, <1>6, BoundAssumption DEF Invocation
  <2>3. QED
    BY <1>1, <1>2, <1>6, <2>1, <2>2 DEF IInv, TypeOK, serverVars
<1>8. LockInv'
  <2>1. \A d \in Caller : pc'[d] \in {"opening", "sending", "waiting"} <=> d = c
    <3>1. \A d \in Caller : pc[d] \notin {"opening", "sending", "waiting"}
      BY <1>2, BoundAssumption DEF IInv, LockInv
    <3>2. QED
      BY <1>3, <3>1
  <2>2. c # None
    BY BoundAssumption
  <2>3. current' < next_invocation'
    BY <1>2, <1>6 DEF Invocation
  <2>4. QED
    BY <1>1, <1>2, <1>3, <1>6, <2>1, <2>2, <2>3 DEF LockInv
<1>9. \A n \in Invocation : Unsent(n)' => Unsent(n)
  BY <1>2, <1>6 DEF Unsent, Invocation
<1>10. UnsentInv' /\ QueuedInv' /\ AnswerInv' /\ AtMostOnce'
  BY <1>1, <1>9, DeliveryKept DEF Arriving, serverVars
<1>11. ResultInv'
  <2>1. \A n \in Invocation : result[n] # "none" => n < next_invocation' /\ n # current'
    BY <1>2, <1>6 DEF IInv, ResultInv, Invocation
  <2>2. QED
    BY <1>1, <2>1, ResultKept DEF Queued, serverVars
<1>12. QED
  BY <1>7, <1>8, <1>10, <1>11 DEF IInv

\* A socket is opened for the command, or its call returns.
LEMMA OpenSocketKeeps ==
  ASSUME IInv, NEW c \in Caller, OpenSocket(c)
  PROVE  IInv'
<1>1. UNCHANGED <<toServer, toClient, serverVars>> /\ pc[c] = "opening"
  BY DEF OpenSocket
<1>2. lock = c /\ current \in Invocation
  BY <1>1, Holder
<1>3. \A n \in Invocation : n = current => Unsent(n)
  BY <1>1, <1>2 DEF Unsent
<1>4. CASE NewConnection /\ pc' = [pc EXCEPT ![c] = "sending"]
           /\ UNCHANGED <<client, lock, next_invocation, current, result>>
  <2>1. opened' \in 0 .. MaxConnection /\ socket' \in Connection /\ socket' # None
    BY <1>4, BoundAssumption DEF IInv, TypeOK, NewConnection, Connection
  <2>2. TypeOK'
    BY <1>1, <1>4, <2>1 DEF IInv, TypeOK, serverVars
  <2>3. LockInv' /\ \A n \in Invocation : Unsent(n)' => Unsent(n)
    BY <1>1, <1>3, <1>4, <2>1, HolderSteps
  <2>4. UnsentInv' /\ QueuedInv' /\ AnswerInv' /\ AtMostOnce'
    BY <1>1, <2>3, DeliveryKept DEF Arriving, serverVars
  <2>5. ResultInv'
    BY <1>1, <1>4 DEF IInv, ResultInv, Queued, serverVars
  <2>6. QED
    BY <2>2, <2>3, <2>4, <2>5 DEF IInv
<1>5. CASE Return(c, "transport") /\ UNCHANGED <<socket, opened>>
  <2>1. /\ result' = [result EXCEPT ![current] = "transport"] /\ pc' = [pc EXCEPT ![c] = "idle"]
        /\ lock' = None /\ current' = None /\ UNCHANGED <<client, next_invocation>>
    BY <1>5 DEF Return
  <2>2. TypeOK'
    BY <1>1, <1>2, <1>5, <2>1 DEF IInv, TypeOK, serverVars, Ambiguous
  <2>3. LockInv' /\ \A n \in Invocation : Unsent(n)' => Unsent(n)
    BY <1>1, <1>3, <2>1, HolderSteps
  <2>4. UnsentInv' /\ QueuedInv' /\ AnswerInv' /\ AtMostOnce'
    BY <1>1, <2>3, DeliveryKept DEF Arriving, serverVars
  <2>5. PICK m \in Invocation : m = current
    BY <1>2
  <2>6. ResultInv'
    BY <1>1, <2>1, <2>5, ResultDecided DEF Queued, serverVars, Ambiguous
  <2>7. QED
    BY <2>2, <2>3, <2>4, <2>6 DEF IInv
<1>6. QED
  BY <1>4, <1>5 DEF OpenSocket

\* A call that is in send_and_wait returns, with an answer that is true or with none.
LEMMA FinishKeeps ==
  ASSUME IInv, NEW c \in Caller, pc[c] \in {"sending", "waiting"},
         NEW outcome \in {"ok", "rejected", "decode"} \cup Ambiguous, Finish(c, outcome),
         UNCHANGED <<toServer, opened, serverVars>>,
         toClient' \in [Connection -> Seq(Record)],
         \A rec \in Record : rec.type = "completion" /\ Arriving(rec)' => Arriving(rec),
         NEW m \in Invocation, m = current,
         outcome = "ok" => executed[m] = 1,
         outcome = "rejected" => executed[m] = 0 /\ ~Queued(m)
  PROVE  IInv'
<1>1. lock = c /\ m < next_invocation
  BY Holder
<1>2. /\ result' = [result EXCEPT ![m] = outcome] /\ pc' = [pc EXCEPT ![c] = "idle"]
      /\ lock' = None /\ current' = None /\ UNCHANGED <<client, next_invocation>>
      /\ socket' \in {None, socket}
  BY DEF Finish, Return, SocketAfter
<1>3. TypeOK'
  BY <1>2 DEF IInv, TypeOK, serverVars
<1>4. LockInv'
  BY <1>2, HolderSteps
<1>5. \A n \in Invocation : Unsent(n)' => Unsent(n)
  BY <1>2, BoundAssumption DEF Unsent, Invocation
<1>6. UnsentInv' /\ QueuedInv' /\ AnswerInv' /\ AtMostOnce'
  BY <1>5, DeliveryKept DEF serverVars
<1>7. ResultInv'
  BY <1>2, ResultDecided DEF Queued, serverVars
<1>8. QED
  BY <1>3, <1>4, <1>6, <1>7 DEF IInv

\* The command is written: it lies behind all others of its socket, and nowhere else.
LEMMA Written ==
  ASSUME IInv, NEW c \in Caller, pc[c] = "sending",
         toServer' = [toServer EXCEPT ![socket] = Append(@, current)]
  PROVE  /\ toServer' \in [Connection -> Seq(Invocation)]
         /\ \A n \in Invocation : Queued(n)' => Queued(n) \/ n = current
         /\ \A conn, other \in Connection :
              \A i \in 1 .. Len(toServer'[conn]), j \in 1 .. Len(toServer'[other]) :
                toServer'[conn][i] = toServer'[other][j] => conn = other /\ i = j
<1>1. lock = c /\ current \in Invocation /\ socket \in Connection
  BY Holder
<1>2. ~Queued(current)
  BY <1>1 DEF IInv, UnsentInv, Unsent
<1>3. \A conn \in Connection : toServer[conn] \in Seq(Invocation)
  BY DEF IInv, TypeOK
<1> DEFINE old == toServer[socket]
<1>4. /\ toServer'[socket] = Append(old, current)
      /\ \A conn \in Connection : conn # socket => toServer'[conn] = toServer[conn]
  BY <1>1 DEF IInv, TypeOK
<1>5. /\ Append(old, current) \in Seq(Invocation)
      /\ Len(toServer'[socket]) = Len(old) + 1 /\ Len(old) \in Nat
      /\ toServer'[socket][Len(old) + 1] = current
      /\ \A i \in 1 .. Len(old) : toServer'[socket][i] = old[i]
  BY <1>1, <1>3, <1>4, AppendProperties, LenProperties
<1>6. toServer' \in [Connection -> Seq(Invocation)]
  BY <1>1, <1>5 DEF IInv, TypeOK
<1>7. \A conn \in Connection : \A i \in 1 .. Len(toServer'[conn]) :
        \/ i \in 1 .. Len(toServer[conn]) /\ toServer'[conn][i] = toServer[conn][i]
        \/ conn = socket /\ i = Len(old) + 1 /\ toServer'[conn][i] = current
  BY <1>4, <1>5
<1>8. \A n \in Invocation : Queued(n)' => Queued(n) \/ n = current
  BY <1>7 DEF Queued
<1>9. ASSUME NEW conn \in Connection, NEW other \in Connection,
             NEW i \in 1 .. Len(toServer'[conn]), NEW j \in 1 .. Len(toServer'[other]),
             toServer'[conn][i] = toServer'[other][j]
      PROVE  conn = other /\ i = j
  <2>1. \A k \in Connection : \A l \in 1 .. Len(toServer[k]) : toServer[k][l] # current
    BY <1>2 DEF Queued
  <2>2. CASE toServer'[conn][i] = current
    BY <1>7, <1>9, <2>1, <2>2
  <2>3. CASE toServer'[conn][i] # current
    <3>1. /\ i \in 1 .. Len(toServer[conn]) /\ toServer'[conn][i] = toServer[conn][i]
          /\ j \in 1 .. Len(toServer[other]) /\ toServer'[other][j] = toServer[other][j]
      BY <1>7, <1>9, <2>3
    <3>2. QED
      BY <1>9, <3>1 DEF IInv, QueuedInv
  <2>4. QED
    BY <2>2, <2>3
<1>10. QED
  BY <1>6, <1>8, <1>9

\* The command is sent, once, and waited for or given up.
LEMMA SendKeeps ==
  ASSUME IInv, NEW c \in Caller, Send(c)
  PROVE  IInv'
<1>1. UNCHANGED <<toClient, opened, serverVars>> /\ pc[c] = "sending"
  BY DEF Send
<1>2. lock = c /\ lock # None /\ current \in Invocation /\ current < next_invocation
      /\ socket \in Connection /\ next_invocation \in Nat
  BY <1>1, Holder DEF IInv, TypeOK
<1>3. PICK m \in Invocation : m = current
  BY <1>2
<1>4. Unsent(m)
  BY <1>1, <1>2, <1>3 DEF Unsent
<1>5. executed[m] = 0 /\ ~Answered(m)
  BY <1>4 DEF IInv, UnsentInv
<1>6. \A n \in Invocation : Answered(n)' <=> Answered(n)
  BY <1>1 DEF Answered, Arriving
<1>7. AnswerInv' /\ AtMostOnce'
  BY <1>1 DEF IInv, AnswerInv, AtMostOnce, Arriving, serverVars
<1>8. CASE Finish(c, "transport") /\ toServer' = toServer
  <2>1. toClient' \in [Connection -> Seq(Record)]
        /\ \A rec \in Record : rec.type = "completion" /\ Arriving(rec)' => Arriving(rec)
    BY <1>1 DEF IInv, TypeOK, Arriving
  <2>2. QED
    BY <1>1, <1>3, <1>8, <2>1, FinishKeeps DEF Ambiguous
<1>9. ASSUME toServer' = [toServer EXCEPT ![socket] = Append(@, current)],
             \A n \in Invocation : Unsent(n)' => Unsent(n) /\ n # m
      PROVE  UnsentInv' /\ QueuedInv'
  <2>1. \A n \in Invocation : Queued(n)' => Queued(n) \/ n = m
    BY <1>1, <1>3, <1>9, Written
  <2>2. UnsentInv'
    BY <1>1, <1>6, <1>9, <2>1 DEF IInv, UnsentInv, serverVars
  <2>3. \A n \in Invocation : Queued(n)' => executed'[n] = 0 /\ ~Answered(n)'
    BY <1>1, <1>5, <1>6, <2>1 DEF IInv, QueuedInv, serverVars
  <2>4. QED
    BY <1>1, <1>9, <2>2, <2>3, Written DEF QueuedInv
<1>10. CASE /\ toServer' = [toServer EXCEPT ![socket] = Append(@, current)]
            /\ pc' = [pc EXCEPT ![c] = "waiting"]
            /\ UNCHANGED <<client, lock, socket, next_invocation, current, result>>
  <2>1. TypeOK'
    BY <1>1, <1>10, Written DEF IInv, TypeOK, serverVars
  <2>2. LockInv'
    <3>1. socket # None
      BY <1>2, BoundAssumption DEF Connection
    <3>2. QED
      BY <1>1, <1>10, <3>1, HolderSteps
  <2>3. pc'[c] = "waiting"
    BY <1>10 DEF IInv, TypeOK
  <2>4. \A n \in Invocation : Unsent(n)' => Unsent(n) /\ n # m
    BY <1>2, <1>3, <1>10, <2>3 DEF Unsent, Invocation
  <2>5. UnsentInv' /\ QueuedInv'
    BY <1>9, <1>10, <2>4
  <2>6. ResultInv'
    <3>1. \A n \in Invocation : result[n] # "none" => n # current
      BY DEF IInv, ResultInv
    <3>2. \A n \in Invocation : result[n] # "none" => (Queued(n)' => Queued(n))
      BY <1>1, <1>10, <3>1, Written
    <3>3. QED
      BY <1>1, <1>10, <3>2, ResultKept DEF IInv, ResultInv, serverVars
  <2>7. QED
    BY <1>7, <2>1, <2>2, <2>5, <2>6 DEF IInv
<1>11. CASE /\ toServer' = [toServer EXCEPT ![socket] = Append(@, current)]
            /\ Finish(c, "transport")
  <2>1. /\ result' = [result EXCEPT ![m] = "transport"] /\ pc' = [pc EXCEPT ![c] = "idle"]
        /\ lock' = None /\ current' = None /\ UNCHANGED <<client, next_invocation>>
        /\ socket' \in {None, socket}
    BY <1>3, <1>11 DEF Finish, Return, SocketAfter
  <2>2. TypeOK'
    BY <1>1, <1>11, <2>1, Written DEF IInv, TypeOK, serverVars, Ambiguous
  <2>3. LockInv'
    BY <1>1, <2>1, HolderSteps
  <2>4. \A n \in Invocation : Unsent(n)' => Unsent(n) /\ n # m
    BY <1>2, <1>3, <2>1, BoundAssumption DEF Unsent, Invocation
  <2>5. UnsentInv' /\ QueuedInv'
    BY <1>9, <1>11, <2>4
  <2>6. ResultInv'
    <3>1. \A n \in Invocation : n # m => (Queued(n)' => Queued(n))
      BY <1>1, <1>3, <1>11, Written
    <3>2. QED
      BY <1>1, <1>3, <2>1, <3>1, ResultDecided DEF serverVars, Ambiguous
  <2>7. QED
    BY <1>7, <2>2, <2>3, <2>5, <2>6 DEF IInv
<1>12. QED
  BY <1>8, <1>10, <1>11 DEF Send

\* A record taken from the front of a channel leaves the others in it.
LEMMA Taken ==
  ASSUME IInv, NEW conn \in Connection, NEW k \in 1 .. Len(toClient[conn]),
         toClient' = [toClient EXCEPT ![conn] = SubSeq(@, k + 1, Len(@))]
  PROVE  /\ toClient' \in [Connection -> Seq(Record)]
         /\ \A rec \in Record : Arriving(rec)' => Arriving(rec)
<1>1. \A other \in Connection : toClient[other] \in Seq(Record) /\ Len(toClient[other]) \in Nat
  BY LenProperties DEF IInv, TypeOK
<1> DEFINE s == toClient[conn]
           t == SubSeq(s, k + 1, Len(s))
<1>2. /\ t \in Seq(Record)
      /\ Len(t) = IF k + 1 <= Len(s) THEN Len(s) - k ELSE 0
      /\ \A i \in 1 .. Len(s) - k : t[i] = s[k + i]
  <2>1. \A i \in k + 1 .. Len(s) : s[i] \in Record
    BY <1>1, ElementOfSeq
  <2>2. k + 1 \in Int /\ Len(s) \in Int
    BY <1>1
  <2>3. /\ t \in Seq(Record)
        /\ Len(t) = IF k + 1 <= Len(s) THEN Len(s) - (k + 1) + 1 ELSE 0
        /\ \A i \in 1 .. Len(s) - (k + 1) + 1 : t[i] = s[(k + 1) + i - 1]
    BY <2>1, <2>2, SubSeqProperties
  <2>4. QED
    BY <1>1, <2>3
<1>3. toClient'[conn] = t /\ \A other \in Connection : other # conn => toClient'[other] = toClient[other]
  BY DEF IInv, TypeOK
<1>4. toClient' \in [Connection -> Seq(Record)]
  BY <1>2 DEF IInv, TypeOK
<1>5. \A i \in 1 .. Len(t) : k + i \in 1 .. Len(s) /\ t[i] = s[k + i]
  BY <1>1, <1>2
<1>6. \A rec \in Record : Arriving(rec)' => Arriving(rec)
  BY <1>3, <1>5 DEF Arriving
<1>7. QED
  BY <1>4, <1>6

\* What a call reads is true of its command, and the rest of the message is dropped.
LEMMA ReceiveKeeps ==
  ASSUME IInv, NEW c \in Caller, Receive(c)
  PROVE  IInv'
<1>1. UNCHANGED <<toServer, opened, serverVars>> /\ pc[c] = "waiting"
  BY DEF Receive
<1>2. lock = c /\ current \in Invocation /\ socket \in Connection
  BY <1>1, Holder
<1>3. PICK k \in 1 .. Len(toClient[socket]) :
        LET deciding == {i \in 1 .. k : Outcome(toClient[socket][i]) # "none"}
        IN  /\ toClient' = [toClient EXCEPT ![socket] = SubSeq(@, k + 1, Len(@))]
            /\ IF deciding = {}
               THEN UNCHANGED clientVars
               ELSE \E i \in deciding :
                      /\ \A j \in deciding : i <= j
                      /\ Finish(c, Outcome(toClient[socket][i]))
  BY DEF Receive
<1>4. toClient' \in [Connection -> Seq(Record)] /\ \A rec \in Record : Arriving(rec)' => Arriving(rec)
  BY <1>2, <1>3, Taken
<1>5. CASE UNCHANGED clientVars
  <2>1. TypeOK'
    BY <1>1, <1>4, <1>5 DEF IInv, TypeOK, serverVars, clientVars
  <2>2. LockInv' /\ \A n \in Invocation : Unsent(n)' => Unsent(n)
    BY <1>5 DEF IInv, LockInv, Unsent, Waiters, clientVars
  <2>3. UnsentInv' /\ QueuedInv' /\ AnswerInv' /\ AtMostOnce'
    BY <1>1, <1>4, <2>2, DeliveryKept DEF serverVars
  <2>4. ResultInv'
    BY <1>1, <1>5 DEF IInv, ResultInv, Queued, serverVars, clientVars
  <2>5. QED
    BY <2>1, <2>2, <2>3, <2>4 DEF IInv
<1>6. ASSUME NEW i \in 1 .. k, Outcome(toClient[socket][i]) # "none",
             Finish(c, Outcome(toClient[socket][i]))
      PROVE  IInv'
  <2>1. toClient[socket] \in Seq(Record) /\ i \in 1 .. Len(toClient[socket])
    BY <1>2, <1>6, LenProperties DEF IInv, TypeOK
  <2>2. PICK rec \in Record : rec = toClient[socket][i]
    BY <2>1, ElementOfSeq
  <2>3. Arriving(rec)
    BY <1>2, <2>1, <2>2 DEF Arriving
  <2>4. PICK m \in Invocation : m = current
    BY <1>2
  <2>5. Outcome(rec) \in {"ok", "rejected", "decode"} \cup Ambiguous
    BY <1>6, <2>2 DEF Outcome, Ambiguous
  <2>6. ASSUME IsAnswer(rec)
        PROVE  executed[m] = (IF rec.error THEN 0 ELSE 1) /\ ~Queued(m)
    <3>1. rec.type = "completion" /\ rec.invocation = m
      BY <2>4, <2>6 DEF IsAnswer
    <3>2. Answered(m)
      BY <2>3, <3>1 DEF Answered
    <3>3. QED
      BY <2>3, <3>1, <3>2 DEF IInv, AnswerInv, QueuedInv
  <2>7. (Outcome(rec) = "ok" => executed[m] = 1)
        /\ (Outcome(rec) = "rejected" => executed[m] = 0 /\ ~Queued(m))
    BY <2>6 DEF Outcome
  <2>8. QED
    BY <1>1, <1>4, <1>6, <2>2, <2>4, <2>5, <2>7, FinishKeeps
<1>7. QED
  BY <1>3, <1>5, <1>6

\* A read that fails decides nothing about the command.
LEMMA ReadFailsKeeps ==
  ASSUME IInv, NEW c \in Caller, ReadFails(c)
  PROVE  IInv'
<1>1. Finish(c, "transport") /\ pc[c] = "waiting" /\ UNCHANGED <<toServer, toClient, opened, serverVars>>
  BY DEF ReadFails
<1>2. current \in Invocation
  BY <1>1, Holder
<1>3. PICK m \in Invocation : m = current
  BY <1>2
<1>4. toClient' \in [Connection -> Seq(Record)]
      /\ \A rec \in Record : rec.type = "completion" /\ Arriving(rec)' => Arriving(rec)
  BY <1>1 DEF IInv, TypeOK, Arriving
<1>5. QED
  BY <1>1, <1>3, <1>4, FinishKeeps DEF Ambiguous

--------------------------------------------------------------------------------
(* The steps of the server. *)

\* A record put behind the others of a channel.
LEMMA Put ==
  ASSUME IInv, NEW conn \in Connection, NEW new \in Record, Answers(conn, new)
  PROVE  /\ toClient' \in [Connection -> Seq(Record)]
         /\ \A rec \in Record : Arriving(rec)' => Arriving(rec) \/ rec = new
<1> DEFINE s == toClient[conn]
<1>1. s \in Seq(Record)
  BY DEF IInv, TypeOK
<1>2. /\ toClient'[conn] = Append(s, new)
      /\ \A other \in Connection : other # conn => toClient'[other] = toClient[other]
  BY DEF IInv, TypeOK, Answers
<1>3. /\ Append(s, new) \in Seq(Record) /\ Len(s) \in Nat
      /\ Len(Append(s, new)) = Len(s) + 1
      /\ Append(s, new)[Len(s) + 1] = new
      /\ \A i \in 1 .. Len(s) : Append(s, new)[i] = s[i]
  BY <1>1, AppendProperties, LenProperties
<1>4. toClient' \in [Connection -> Seq(Record)]
  BY <1>3 DEF IInv, TypeOK, Answers
<1>5. \A i \in 1 .. Len(Append(s, new)) :
        (i \in 1 .. Len(s) /\ Append(s, new)[i] = s[i]) \/ Append(s, new)[i] = new
  BY <1>3
<1>6. \A rec \in Record : Arriving(rec)' => Arriving(rec) \/ rec = new
  BY <1>2, <1>5 DEF Arriving
<1>7. QED
  BY <1>4, <1>6

\* The steps of the server but Serve bring no completion.
LEMMA NoiseKeeps ==
  ASSUME IInv, NEW conn \in Connection, MakeNoise(conn) \/ Close(conn)
  PROVE  IInv'
<1>1. UNCHANGED <<clientVars, toServer, executed, opened>>
  BY DEF MakeNoise, Close
<1>2. PICK new \in Record : new.type # "completion" /\ (Answers(conn, new) \/ toClient' = toClient)
  <2>1. CASE MakeNoise(conn)
    <3>1. PICK type \in {"ping", "garbage"} : Answers(conn, [type |-> type])
      BY <2>1 DEF MakeNoise
    <3>2. [type |-> type] \in Record /\ [type |-> type].type # "completion"
      BY DEF Record
    <3>3. QED
      BY <3>1, <3>2
  <2>2. CASE Close(conn)
    <3>1. [type |-> "close"] \in Record /\ [type |-> "close"].type # "completion"
      BY DEF Record
    <3>2. QED
      BY <2>2, <3>1 DEF Close
  <2>3. QED
    BY <2>1, <2>2
<1>3. /\ toClient' \in [Connection -> Seq(Record)]
      /\ \A rec \in Record : rec.type = "completion" /\ Arriving(rec)' => Arriving(rec)
  <2>1. CASE Answers(conn, new)
    BY <1>2, <2>1, Put
  <2>2. CASE toClient' = toClient
    BY <2>2 DEF IInv, TypeOK, Arriving
  <2>3. QED
    BY <1>2, <2>1, <2>2
<1>4. closed' \in SUBSET Connection /\ noise' \in 0 .. MaxNoise
  <2>1. CASE MakeNoise(conn)
    BY <2>1, BoundAssumption DEF IInv, TypeOK, MakeNoise
  <2>2. CASE Close(conn)
    BY <2>2 DEF IInv, TypeOK, Close
  <2>3. QED
    BY <2>1, <2>2
<1>5. TypeOK'
  BY <1>1, <1>3, <1>4 DEF IInv, TypeOK, clientVars
<1>6. LockInv' /\ \A n \in Invocation : Unsent(n)' => Unsent(n)
  BY <1>1 DEF IInv, LockInv, Unsent, Waiters, clientVars
<1>7. UnsentInv' /\ QueuedInv' /\ AnswerInv' /\ AtMostOnce'
  BY <1>1, <1>3, <1>6, DeliveryKept
<1>8. ResultInv'
  BY <1>1 DEF IInv, ResultInv, Queued, clientVars
<1>9. QED
  BY <1>5, <1>6, <1>7, <1>8 DEF IInv

\* The command the server takes lies in no channel any more, and no other is added.
LEMMA Fetched ==
  ASSUME IInv, NEW conn \in Connection, toServer[conn] # <<>>,
         toServer' = [toServer EXCEPT ![conn] = Tail(@)],
         NEW h \in Invocation, h = Head(toServer[conn])
  PROVE  /\ toServer' \in [Connection -> Seq(Invocation)]
         /\ Queued(h)
         /\ \A n \in Invocation : Queued(n)' => Queued(n) /\ n # h
         /\ \A k, l \in Connection :
              \A i \in 1 .. Len(toServer'[k]), j \in 1 .. Len(toServer'[l]) :
                toServer'[k][i] = toServer'[l][j] => k = l /\ i = j
<1> DEFINE s == toServer[conn]
<1>1. \A k \in Connection : toServer[k] \in Seq(Invocation) /\ Len(toServer[k]) \in Nat
  BY LenProperties DEF IInv, TypeOK
<1>2. /\ Tail(s) \in Seq(Invocation) /\ Len(Tail(s)) = Len(s) - 1
      /\ \A i \in 1 .. Len(Tail(s)) : Tail(s)[i] = s[i + 1]
  BY <1>1, HeadTailProperties
<1>3. Len(s) >= 1 /\ s[1] = h
  BY <1>1, EmptySeq
<1>4. toServer'[conn] = Tail(s) /\ \A k \in Connection : k # conn => toServer'[k] = toServer[k]
  BY DEF IInv, TypeOK
<1>5. toServer' \in [Connection -> Seq(Invocation)]
  BY <1>2 DEF IInv, TypeOK
<1> DEFINE before(k, i) == IF k = conn THEN i + 1 ELSE i
<1>6. \A k \in Connection : \A i \in 1 .. Len(toServer'[k]) :
        /\ before(k, i) \in 1 .. Len(toServer[k])
        /\ toServer'[k][i] = toServer[k][before(k, i)]
        /\ k = conn => before(k, i) # 1
  <2> SUFFICES ASSUME NEW k \in Connection, NEW i \in 1 .. Len(toServer'[k])
               PROVE  /\ before(k, i) \in 1 .. Len(toServer[k])
                      /\ toServer'[k][i] = toServer[k][before(k, i)]
                      /\ k = conn => before(k, i) # 1
    OBVIOUS
  <2>1. CASE k = conn
    <3>1. toServer'[k] = Tail(s) /\ toServer[k] = s
      BY <1>4, <2>1
    <3>2. i \in 1 .. Len(Tail(s)) /\ Len(s) \in Nat
      BY <1>1, <3>1
    <3>3. i + 1 \in 1 .. Len(s) /\ Tail(s)[i] = s[i + 1] /\ i + 1 # 1
      <4> HIDE DEF s
      <4>1. QED
        BY <1>2, <3>2
    <3>4. before(k, i) = i + 1
      BY <2>1
    <3>5. QED
      BY <3>1, <3>3, <3>4
  <2>2. CASE k # conn
    BY <1>4, <2>2
  <2>3. QED
    BY <2>1, <2>2
<1>7. Queued(h)
  BY <1>1, <1>3 DEF Queued
<1>8. \A k \in Connection : \A i \in 1 .. Len(toServer'[k]) : toServer'[k][i] # h
  <2>1. 1 \in 1 .. Len(toServer[conn])
    BY <1>1, <1>3
  <2>2. QED
    BY <1>3, <1>6, <2>1 DEF IInv, QueuedInv
<1>9. \A n \in Invocation : Queued(n)' => Queued(n) /\ n # h
  <2> HIDE DEF before
  <2>1. QED
    BY <1>6, <1>8 DEF Queued
<1>10. ASSUME NEW k \in Connection, NEW l \in Connection,
              NEW i \in 1 .. Len(toServer'[k]), NEW j \in 1 .. Len(toServer'[l]),
              toServer'[k][i] = toServer'[l][j]
       PROVE  k = l /\ i = j
  <2>1. k = l /\ before(k, i) = before(l, j)
    <3> HIDE DEF before
    <3>1. QED
      BY <1>6, <1>10 DEF IInv, QueuedInv
  <2>2. QED
    BY <2>1
<1>11. QED
  BY <1>5, <1>7, <1>9, <1>10

\* The server carries a command out or refuses it, and what it says of it is true.
LEMMA ServeKeeps ==
  ASSUME IInv, NEW conn \in Connection, Serve(conn)
  PROVE  IInv'
<1>1. UNCHANGED <<clientVars, closed, noise, opened>> /\ toServer[conn] # <<>>
      /\ toServer' = [toServer EXCEPT ![conn] = Tail(@)]
  BY DEF Serve
<1>2. PICK h \in Invocation : h = Head(toServer[conn])
  BY <1>1, HeadTailProperties DEF IInv, TypeOK
<1>3. /\ toServer' \in [Connection -> Seq(Invocation)]
      /\ Queued(h) /\ \A n \in Invocation : Queued(n)' => Queued(n) /\ n # h
      /\ \A k, l \in Connection :
           \A i \in 1 .. Len(toServer'[k]), j \in 1 .. Len(toServer'[l]) :
             toServer'[k][i] = toServer'[l][j] => k = l /\ i = j
  BY <1>1, <1>2, Fetched
<1>4. executed[h] = 0 /\ ~Answered(h) /\ ~Unsent(h)
  BY <1>3 DEF IInv, QueuedInv, UnsentInv
<1>5. PICK refused \in BOOLEAN :
        /\ executed' = [executed EXCEPT ![h] = IF refused THEN 0 ELSE 1]
        /\ \/ Answers(conn, [type |-> "completion", invocation |-> h, error |-> refused])
           \/ toClient' = toClient
  <2>1. executed = [executed EXCEPT ![h] = 0] /\ executed[h] + 1 = 1
    BY <1>4 DEF IInv, TypeOK
  <2>2. \/ /\ executed' = [executed EXCEPT ![h] = @ + 1]
           /\ \/ Answers(conn, [type |-> "completion", invocation |-> h, error |-> FALSE])
              \/ UNCHANGED toClient
        \/ /\ Answers(conn, [type |-> "completion", invocation |-> h, error |-> TRUE])
           /\ UNCHANGED executed
    BY <1>2 DEF Serve
  <2>3. CASE executed' = [executed EXCEPT ![h] = @ + 1]
             /\ \/ Answers(conn, [type |-> "completion", invocation |-> h, error |-> FALSE])
                \/ UNCHANGED toClient
    BY <2>1, <2>3
  <2>4. CASE Answers(conn, [type |-> "completion", invocation |-> h, error |-> TRUE])
             /\ UNCHANGED executed
    BY <2>1, <2>4
  <2>5. QED
    BY <2>2, <2>3, <2>4
<1> DEFINE new == [type |-> "completion", invocation |-> h, error |-> refused]
<1>6. new \in Record
  BY DEF Record
<1>7. /\ toClient' \in [Connection -> Seq(Record)]
      /\ \A rec \in Record : Arriving(rec)' => Arriving(rec) \/ rec = new
  <2>1. CASE Answers(conn, new)
    BY <1>6, <2>1, Put
  <2>2. CASE toClient' = toClient
    BY <2>2 DEF IInv, TypeOK, Arriving
  <2>3. QED
    BY <1>5, <2>1, <2>2
<1>8. /\ executed' \in [Invocation -> Nat]
      /\ executed'[h] = IF refused THEN 0 ELSE 1
      /\ \A n \in Invocation : n # h => executed'[n] = executed[n]
  BY <1>5 DEF IInv, TypeOK
<1>9. TypeOK'
  BY <1>1, <1>3, <1>7, <1>8 DEF IInv, TypeOK, clientVars
<1>10. LockInv' /\ \A n \in Invocation : Unsent(n)' <=> Unsent(n)
  BY <1>1 DEF IInv, LockInv, Unsent, Waiters, clientVars
<1>11. \A n \in Invocation : Answered(n)' => Answered(n) \/ n = h
  BY <1>7 DEF Answered
<1>12. UnsentInv'
  BY <1>3, <1>4, <1>8, <1>10, <1>11 DEF IInv, UnsentInv
<1>13. QueuedInv'
  <2>1. \A n \in Invocation : Queued(n)' => executed'[n] = 0 /\ ~Answered(n)'
    BY <1>3, <1>8, <1>11 DEF IInv, QueuedInv
  <2>2. QED
    BY <1>3, <2>1 DEF QueuedInv
<1>14. AnswerInv'
  <2> SUFFICES ASSUME NEW rec \in Record, Arriving(rec)', rec.type = "completion"
               PROVE  executed'[rec.invocation] = IF rec.error THEN 0 ELSE 1
    BY DEF AnswerInv
  <2>1. CASE rec = new
    BY <1>8, <2>1
  <2>2. CASE rec # new
    <3>1. Arriving(rec)
      BY <1>7, <2>2
    <3>2. rec.invocation \in Invocation
      BY DEF Record
    <3>3. rec.invocation # h
      BY <1>4, <3>1 DEF Answered
    <3>4. QED
      BY <1>8, <3>1, <3>2, <3>3 DEF IInv, AnswerInv
  <2>3. QED
    BY <2>1, <2>2
<1>15. AtMostOnce'
  BY <1>8 DEF IInv, AtMostOnce
<1>16. ResultInv'
  <2> SUFFICES ASSUME NEW n \in Invocation
               PROVE  /\ result'[n] # "none" => n < next_invocation' /\ n # current'
                      /\ result'[n] = "ok" => executed'[n] = 1
                      /\ result'[n] = "rejected" => executed'[n] = 0 /\ ~Queued(n)'
    BY DEF ResultInv
  <2>1. result' = result /\ next_invocation' = next_invocation /\ current' = current
    BY <1>1 DEF clientVars
  <2>2. result[n] \in {"ok", "rejected"} => n # h
    BY <1>3, <1>4 DEF IInv, ResultInv
  <2>3. QED
    BY <1>3, <1>8, <2>1, <2>2 DEF IInv, ResultInv
<1>17. QED
  BY <1>9, <1>10, <1>12, <1>13, <1>14, <1>15, <1>16 DEF IInv

--------------------------------------------------------------------------------
(* The theorems. *)

\* Every step of a client or of the server keeps the invariant.
LEMMA NextIInv == IInv /\ [Next]_vars => IInv'
<1> SUFFICES ASSUME IInv, [Next]_vars PROVE IInv'
  OBVIOUS
<1>1. CASE Connect \/ Disconnect \/ Drop
  BY <1>1, LifeKeeps
<1>2. CASE \E c \in Caller : Call(c) \/ Invoke(c)
  BY <1>2, CallKeeps, LockKeeps, OpenSocketKeeps, SendKeeps, ReceiveKeeps, ReadFailsKeeps DEF Invoke
<1>3. CASE Server
  <2>1. 1 .. opened \subseteq Connection
    BY BoundAssumption DEF IInv, TypeOK, Connection
  <2>2. QED
    BY <1>3, <2>1, ServeKeeps, NoiseKeeps DEF Server
<1>4. CASE UNCHANGED vars
  BY <1>4 DEF vars, clientVars, serverVars, IInv, TypeOK, LockInv, Waiters, UnsentInv, Unsent,
              Queued, Answered, Arriving, QueuedInv, AnswerInv, AtMostOnce, ResultInv
<1>5. QED
  BY <1>1, <1>2, <1>3, <1>4 DEF Next

\* The invariant holds throughout.
LEMMA Invariant == Spec => []IInv
<1>1. Init => IInv
  BY InitIInv
<1>2. IInv /\ [Next]_vars => IInv'
  BY NextIInv
<1>3. QED
  BY <1>1, <1>2, PTL DEF Spec

\* Every variable keeps its type: the invocation numbers stay within their range, and the
\* channels hold commands and records only.
THEOREM TypeCorrect == Spec => []TypeOK
<1>1. IInv => TypeOK
  BY DEF IInv
<1>2. QED
  BY <1>1, Invariant, PTL

\* No command is carried out twice: whatever breaks between a write and its completion, a
\* command is written once and its number is not used again.
THEOREM OnceCorrect == Spec => []AtMostOnce
<1>1. IInv => AtMostOnce
  BY DEF IInv
<1>2. QED
  BY <1>1, Invariant, PTL

\* What a call says of its command is what the devices did: no completion of an earlier
\* command on the same socket is taken for its answer.
THEOREM AnswersCorrect == Spec => []AnswerIsTrue
<1>1. IInv => AnswerIsTrue
  BY DEF IInv, ResultInv, AnswerIsTrue
<1>2. QED
  BY <1>1, Invariant, PTL
================================================================================
