------------------------- MODULE TsFullClientProofs -------------------------
(***************************************************************************)
(* What module TsFullClient keeps true for every number of connections and *)
(* of requests.  Inv is the inductive invariant.                           *)
(***************************************************************************)
EXTENDS TsFullClient, SequenceTheorems, TLAPS

\* OnDisconnected was raised for a connection at most once, and only when its
\* DisconnectEvent was completed.
EventsCounted ==
    \A c \in Connections : announced[c] = IF disconnectEvent[c] THEN 1 ELSE 0

\* The client is Disconnected exactly when it has no context.
ContextMatches == (context = 0) <=> (status = "Disconnected")

\* As long as no task strayed, only the current connection has an open handler.
OpenIsCurrent == strayed \/ \A c \in Connections : handler[c] = "open" => context = c

Admits(t) == t.op = "InitServer" => phase[t.ctx] \in {"in", "gone"}

\* An InitServer that waits to be handled was sent by a server that let the client in.
AdmittedFirst ==
    /\ \A i \in DOMAIN tasks : Admits(tasks[i])
    /\ \A c \in Connections : receiving[c] # Nothing => Admits(receiving[c])

Inv ==
    /\ TypeOK
    /\ EventsCounted
    /\ CodesAreFresh
    /\ ContextMatches
    /\ OpenIsCurrent
    /\ AdmittedFirst
    /\ ConnectedIsIn

USE DEF vars, connVars, callVars, threadVars, serverVars

-----------------------------------------------------------------------------
(* The queue of the scheduler *)

\* Taking the first task leaves a queue of tasks that were in it.
LEMMA TailOfTasks ==
    ASSUME tasks \in Seq(Task), tasks # <<>>
    PROVE  /\ Head(tasks) \in Task
           /\ 1 \in DOMAIN tasks
           /\ Head(tasks) = tasks[1]
           /\ Tail(tasks) \in Seq(Task)
           /\ \A i \in DOMAIN Tail(tasks) :
                 i + 1 \in DOMAIN tasks /\ Tail(tasks)[i] = tasks[i + 1]
OBVIOUS

\* Queueing a task leaves the others in their places.
LEMMA AppendToTasks ==
    ASSUME tasks \in Seq(Task), NEW t \in Task
    PROVE  /\ Append(tasks, t) \in Seq(Task)
           /\ \A i \in DOMAIN Append(tasks, t) :
                 Append(tasks, t)[i] = t \/ (i \in DOMAIN tasks /\ Append(tasks, t)[i] = tasks[i])
OBVIOUS

-----------------------------------------------------------------------------
(* The initial states *)

LEMMA InitInv == Init => Inv
<1> SUFFICES ASSUME Init PROVE Inv
    OBVIOUS
<1>1. TypeOK
    <2>1. 0 \in 0 .. MaxRequests /\ 0 \in Nat
        BY ClientAssumption
    <2>2. tasks \in Seq(Task)
        BY DEF Init
    <2>3. /\ awaited \in [Waiters -> Connections \cup {0}]
          /\ receiving \in [Connections -> Task \cup {Nothing}]
          /\ asked \in [Connections -> SUBSET Codes]
        BY DEF Init
    <2> QED
        BY <2>1, <2>2, <2>3 DEF Init, TypeOK
<1>2. EventsCounted /\ CodesAreFresh /\ ContextMatches /\ OpenIsCurrent
    BY DEF Init, EventsCounted, CodesAreFresh, ContextMatches, OpenIsCurrent
<1>3. AdmittedFirst /\ ConnectedIsIn
    BY DEF Init, AdmittedFirst, ConnectedIsIn, Admits
<1> QED
    BY <1>1, <1>2, <1>3 DEF Inv

-----------------------------------------------------------------------------
(* The two changes of the state *)

\* What the variables of the connections are, as part of TypeOK.
ConnTypes ==
    /\ status \in {"Disconnected", "Connecting", "Connected", "Disconnecting"}
    /\ context \in Connections \cup {0}
    /\ handler \in [Connections -> {"new", "open", "closed"}]
    /\ disconnectEvent \in [Connections -> BOOLEAN]
    /\ connectEvent \in [Connections -> BOOLEAN]
    /\ requestDict \subseteq Codes
    /\ announced \in [Connections -> Nat]

\* The parts of Inv that speak of the connections and the return codes only.
ConnInv == ConnTypes /\ EventsCounted /\ CodesAreFresh /\ ContextMatches

\* Completing a DisconnectEvent raises OnDisconnected for the first time or not at all.
LEMMA AnnounceCounts ==
    ASSUME ConnInv, NEW c \in Connections, Announce(c)
    PROVE  /\ disconnectEvent' \in [Connections -> BOOLEAN]
           /\ announced' \in [Connections -> Nat]
           /\ EventsCounted'
BY DEF ConnInv, ConnTypes, Announce, EventsCounted

\* ChangeState(ctx, Disconnected), whatever connection the client has.
LEMMA ToDisconnectedConn ==
    ASSUME ConnInv, NEW c \in Connections, ToDisconnected(c), UNCHANGED returnCode
    PROVE  /\ ConnInv'
           /\ connectEvent' = connectEvent
           /\ status' = "Disconnected"
           /\ \A d \in Connections : handler'[d] = "open" => handler[d] = "open"
           /\ status # "Disconnected" => handler'[c] = "closed"
<1>1. CASE status = "Disconnected"
    BY <1>1 DEF ToDisconnected, ConnInv, ConnTypes, EventsCounted, CodesAreFresh,
                ContextMatches
<1>2. CASE status # "Disconnected"
    <2>1. Announce(c) /\ status' = "Disconnected" /\ requestDict' = {} /\ context' = 0
          /\ handler' = [handler EXCEPT ![c] = "closed"] /\ connectEvent' = connectEvent
        BY <1>2 DEF ToDisconnected
    <2>2. /\ disconnectEvent' \in [Connections -> BOOLEAN]
          /\ announced' \in [Connections -> Nat]
          /\ EventsCounted'
        BY <2>1, AnnounceCounts
    <2> QED
        BY <2>1, <2>2 DEF ConnInv, ConnTypes, CodesAreFresh, ContextMatches
<1> QED
    BY <1>1, <1>2

\* ChangeState(ctx, Connected) for the current connection.
LEMMA ToConnectedConn ==
    ASSUME ConnInv, context # 0, ToConnected(context), UNCHANGED returnCode
    PROVE  /\ ConnInv'
           /\ context' = context /\ handler' = handler
           /\ \A d \in Connections : d # context => connectEvent'[d] = connectEvent[d]
           /\ fault' = fault \/ fault' = "process"
<1>1. CASE status = "Connecting"
    <2>1. /\ status' = "Connected"
          /\ connectEvent' = [connectEvent EXCEPT ![context] = TRUE]
          /\ UNCHANGED <<context, handler, disconnectEvent, requestDict, announced, fault>>
        BY <1>1 DEF ToConnected
    <2>2. ConnTypes'
        BY <2>1 DEF ConnInv, ConnTypes
    <2>3. EventsCounted' /\ CodesAreFresh' /\ ContextMatches'
        BY <2>1, <1>1 DEF ConnInv, EventsCounted, CodesAreFresh, ContextMatches
    <2>4. \A d \in Connections : d # context => connectEvent'[d] = connectEvent[d]
        BY <2>1 DEF ConnInv, ConnTypes
    <2> QED
        BY <2>1, <2>2, <2>3, <2>4 DEF ConnInv
<1>2. CASE status # "Connecting"
    <2>1. fault' = "process" /\ UNCHANGED connVars
        BY <1>2 DEF ToConnected
    <2>2. ConnTypes'
        BY <2>1 DEF ConnInv, ConnTypes
    <2>3. EventsCounted' /\ CodesAreFresh' /\ ContextMatches'
        BY <2>1 DEF ConnInv, EventsCounted, CodesAreFresh, ContextMatches
    <2> QED
        BY <2>1, <2>2, <2>3 DEF ConnInv
<1> QED
    BY <1>1, <1>2

\* Disconnect, up to its await.
LEMMA LeaveConn ==
    ASSUME ConnInv, NEW w, Leave(w), UNCHANGED returnCode
    PROVE  /\ ConnInv'
           /\ connectEvent' = connectEvent
           /\ \A d \in Connections : handler'[d] = "open" => handler[d] = "open"
           /\ context' = context \/ handler'[context] = "closed"
<1>1. context \in Connections
    BY DEF Leave, ConnInv, ConnTypes
<1>2. CASE status = "Connected"
    <2>1. /\ status' = "Disconnecting"
          /\ UNCHANGED <<context, handler, disconnectEvent, connectEvent, requestDict,
                         announced>>
        BY <1>2 DEF Leave
    <2> QED
        BY <2>1, <1>2 DEF ConnInv, ConnTypes, EventsCounted, CodesAreFresh, ContextMatches
<1>3. CASE status # "Connected"
    <2>1. ToDisconnected(context)
        BY <1>3 DEF Leave
    <2>2. status # "Disconnected"
        BY <1>1 DEF Leave, ConnInv, ContextMatches
    <2> QED
        BY <1>1, <2>1, <2>2, ToDisconnectedConn
<1> QED
    BY <1>2, <1>3

\* The handlers of commands run with the current context.
LEMMA CurrentContext ==
    ASSUME TypeOK, context # 0
    PROVE  context \in Connections
BY DEF TypeOK

\* A task at the head of the queue is a task of a connection.
LEMMA HeadOfTasks ==
    ASSUME TypeOK, NEW ops, Takes(ops)
    PROVE  /\ Head(tasks) \in Task
           /\ Head(tasks).op \in ops
           /\ Head(tasks).ctx \in Connections
           /\ tasks' \in Seq(Task)
<1>1. tasks \in Seq(Task) /\ tasks # <<>>
    BY DEF TypeOK, Takes
<1>2. Head(tasks) \in Task /\ Tail(tasks) \in Seq(Task)
    BY <1>1, TailOfTasks
<1> QED
    BY <1>2 DEF Takes, Task

-----------------------------------------------------------------------------
(* Every step keeps the parts about the connections *)

LEMMA ConnStep ==
    ASSUME TypeOK, ConnInv, [Next]_vars
    PROVE  ConnInv'
<1>1. CASE Disconnect
    BY <1>1, LeaveConn DEF Disconnect
<1>2. CASE Send
    <2>1. /\ returnCode \in 0 .. MaxRequests /\ returnCode < MaxRequests
          /\ returnCode' = returnCode + 1
          /\ requestDict' = requestDict \cup {returnCode + 1}
        BY <1>2 DEF Send, TypeOK
    <2>2. /\ UNCHANGED <<status, context, handler, disconnectEvent, connectEvent, announced>>
          /\ status # "Disconnected"
        BY <1>2 DEF Send
    <2>3. returnCode + 1 \in Codes /\ Codes \subseteq Nat
        BY <2>1, ClientAssumption DEF Codes
    <2>4. requestDict' \subseteq Codes
        BY <2>1, <2>3 DEF ConnInv, ConnTypes
    <2>5. CodesAreFresh'
        BY <2>1, <2>2, <2>3, <2>4 DEF ConnInv, ConnTypes, CodesAreFresh
    <2> QED
        BY <2>2, <2>4, <2>5 DEF ConnInv, ConnTypes, EventsCounted, ContextMatches
<1>3. ASSUME NEW w \in Waiters, Resume(w) PROVE ConnInv'
    BY <1>3 DEF Resume, ConnInv, ConnTypes, EventsCounted, CodesAreFresh, ContextMatches
<1>4. ASSUME NEW c \in Connections, Connect(c) PROVE ConnInv'
    <2>1. CASE UNCHANGED connVars
        BY <1>4, <2>1 DEF Connect, ConnInv, ConnTypes, EventsCounted, CodesAreFresh,
                          ContextMatches
    <2>2. CASE Leave(c)
        BY <1>4, <2>2, LeaveConn DEF Connect
    <2> QED
        BY <1>4, <2>1, <2>2 DEF Connect
<1>5. ASSUME NEW c \in Connections, ResolveFails(c) \/ ConnectReturn(c) PROVE ConnInv'
    BY <1>5 DEF ResolveFails, ConnectReturn, ConnInv, ConnTypes, EventsCounted,
                CodesAreFresh, ContextMatches
<1>6. ASSUME NEW c \in Connections, Resolved(c) PROVE ConnInv'
    <2>1. c # 0
        BY ClientAssumption DEF Connections
    <2> QED
        BY <1>6, <2>1 DEF Resolved, ConnInv, ConnTypes, EventsCounted, CodesAreFresh,
                          ContextMatches
<1>7. ASSUME NEW c \in Connections, SocketFails(c) PROVE ConnInv'
    <2>1. /\ disconnectEvent' \in [Connections -> BOOLEAN]
          /\ announced' \in [Connections -> Nat]
          /\ EventsCounted'
        BY <1>7, AnnounceCounts DEF SocketFails
    <2> QED
        BY <1>7, <2>1 DEF SocketFails, ConnInv, ConnTypes, CodesAreFresh, ContextMatches
<1>8. ASSUME NEW c \in Connections, PacketEvent(c) \/ Enqueue(c) \/ StopEvent(c)
      PROVE  ConnInv'
    BY <1>8 DEF PacketEvent, Says, Hear, Enqueue, StopEvent, ConnInv, ConnTypes,
                EventsCounted, CodesAreFresh, ContextMatches
<1>9. ASSUME NEW c \in Connections, TimerStop(c) PROVE ConnInv'
    BY <1>9 DEF TimerStop, ConnInv, ConnTypes, EventsCounted, CodesAreFresh, ContextMatches
<1>10. CASE EndTask
    <2>1. Head(tasks).ctx \in Connections
        BY <1>10, HeadOfTasks DEF EndTask
    <2> QED
        BY <1>10, <2>1, ToDisconnectedConn DEF EndTask, Takes
<1>11. CASE WithoutContext
    BY <1>11 DEF WithoutContext, Takes, ConnInv, ConnTypes, EventsCounted, CodesAreFresh,
                 ContextMatches
<1>12. CASE InitIvExpand
    <2>1. context \in Connections
        BY <1>12, CurrentContext DEF InitIvExpand
    <2>2. CASE UNCHANGED connVars
        BY <1>12, <2>2 DEF InitIvExpand, Takes, ConnInv, ConnTypes, EventsCounted,
                           CodesAreFresh, ContextMatches
    <2>3. CASE ToDisconnected(context)
        BY <1>12, <2>1, <2>3, ToDisconnectedConn DEF InitIvExpand, Takes
    <2> QED
        BY <1>12, <2>2, <2>3 DEF InitIvExpand
<1>13. CASE InitServer
    BY <1>13, ToConnectedConn DEF InitServer, Takes
<1>14. CASE CommandErrorTask \/ ClientLeftView
    <2>1. context \in Connections
        BY <1>14, CurrentContext DEF CommandErrorTask, ClientLeftView
    <2>2. UNCHANGED returnCode
        BY <1>14 DEF CommandErrorTask, ClientLeftView, Takes
    <2>3. CASE UNCHANGED connVars
        BY <2>2, <2>3 DEF ConnInv, ConnTypes, EventsCounted, CodesAreFresh, ContextMatches
    <2>4. CASE ToDisconnected(context)
        BY <2>1, <2>2, <2>4, ToDisconnectedConn
    <2> QED
        BY <1>14, <2>3, <2>4 DEF CommandErrorTask, ClientLeftView
<1>15. CASE Answer
    BY <1>15 DEF Answer, Takes, ConnInv, ConnTypes, EventsCounted, CodesAreFresh,
                 ContextMatches
<1>16. CASE UNCHANGED vars
    BY <1>16 DEF ConnInv, ConnTypes, EventsCounted, CodesAreFresh, ContextMatches
<1> QED
    BY <1>1, <1>2, <1>3, <1>4, <1>5, <1>6, <1>7, <1>8, <1>9, <1>10, <1>11, <1>12, <1>13,
       <1>14, <1>15, <1>16 DEF Next, Run

-----------------------------------------------------------------------------
(* Every step keeps the types *)

\* The variables that ConnTypes does not speak of.
OtherTypes ==
    /\ returnCode \in 0 .. MaxRequests
    /\ tasks \in Seq(Task)
    /\ receiving \in [Connections -> Task \cup {Nothing}]
    /\ stopping \subseteq Connections
    /\ call \in [Connections -> {"none", "leaving", "resolving", "connecting", "returned"}]
    /\ awaited \in [Waiters -> Connections \cup {0}]
    /\ phase \in [Connections -> {"silent", "expanding", "expanded", "in", "gone"}]
    /\ asked \in [Connections -> SUBSET Codes]
    /\ strayed \in BOOLEAN
    /\ fault \in {"no", "task", "process"}

LEMMA OtherStep ==
    ASSUME TypeOK, ConnInv, [Next]_vars
    PROVE  OtherTypes'
<1>0. OtherTypes /\ context \in Connections \cup {0}
    BY DEF TypeOK, OtherTypes
<1>1. CASE Disconnect
    BY <1>0, <1>1 DEF Disconnect, Leave, OtherTypes
<1>2. CASE Send
    <2>1. context \in Connections
        BY <1>0, <1>2 DEF Send, ConnInv, ContextMatches
    <2>2. returnCode + 1 \in Codes /\ returnCode' \in 0 .. MaxRequests
        BY <1>0, <1>2, ClientAssumption DEF Send, OtherTypes, Codes
    <2> QED
        BY <1>0, <1>2, <2>1, <2>2 DEF Send, OtherTypes
<1>3. ASSUME NEW w \in Waiters, Resume(w) PROVE OtherTypes'
    BY <1>0, <1>3 DEF Resume, OtherTypes, Waiters
<1>4. ASSUME NEW c \in Connections, Connect(c) PROVE OtherTypes'
    BY <1>0, <1>4 DEF Connect, Leave, OtherTypes, Waiters
<1>5. ASSUME NEW c \in Connections,
             ResolveFails(c) \/ ConnectReturn(c) \/ Resolved(c) \/ SocketFails(c)
      PROVE  OtherTypes'
    BY <1>0, <1>5, ClientAssumption
       DEF ResolveFails, ConnectReturn, Resolved, SocketFails, OtherTypes
<1>6. ASSUME NEW c \in Connections, PacketEvent(c) PROVE OtherTypes'
    <2>1. ASSUME NEW op \in Ops, NEW code \in 0 .. MaxRequests, Hear(c, op, code)
          PROVE  receiving' \in [Connections -> Task \cup {Nothing}]
        <3>1. [op |-> op, ctx |-> c, code |-> code] \in Task
            BY DEF Task
        <3> QED
            BY <1>0, <2>1, <3>1 DEF Hear, OtherTypes
    <2>2. 0 \in 0 .. MaxRequests /\ Codes \subseteq 0 .. MaxRequests
        BY ClientAssumption DEF Codes
    <2>3. ASSUME NEW op \in Ops, NEW b, NEW a \in {"expanding", "in", "gone"}, Says(c, op, b, a)
          PROVE  OtherTypes'
        BY <1>0, <2>1, <2>2, <2>3 DEF Says, Hear, OtherTypes
    <2>4. ASSUME NEW code \in asked[c], phase[c] = "in", UNCHANGED phase,
                 asked' = [asked EXCEPT ![c] = @ \ {code}], Hear(c, "Answer", code)
          PROVE  OtherTypes'
        <3>1. code \in Codes
            BY <1>0 DEF OtherTypes
        <3>2. receiving' \in [Connections -> Task \cup {Nothing}]
            BY <2>1, <2>2, <2>4, <3>1 DEF Ops
        <3>3. asked' \in [Connections -> SUBSET Codes]
            BY <1>0, <2>4 DEF OtherTypes
        <3> QED
            BY <1>0, <2>4, <3>2, <3>3 DEF Hear, OtherTypes
    <2> QED
        BY <1>6, <2>3, <2>4 DEF PacketEvent, Ops
<1>7. ASSUME NEW c \in Connections, Enqueue(c) PROVE OtherTypes'
    <2>1. receiving[c] \in Task
        BY <1>0, <1>7 DEF Enqueue, OtherTypes
    <2>2. Append(tasks, receiving[c]) \in Seq(Task)
        BY <1>0, <2>1, AppendToTasks DEF OtherTypes
    <2> QED
        BY <1>0, <1>7, <2>2 DEF Enqueue, OtherTypes
<1>8. ASSUME NEW c \in Connections, TimerStop(c) PROVE OtherTypes'
    BY <1>0, <1>8 DEF TimerStop, OtherTypes
<1>9. ASSUME NEW c \in Connections, StopEvent(c) PROVE OtherTypes'
    <2>1. [op |-> "Stop", ctx |-> c, code |-> 0] \in Task
        BY ClientAssumption DEF Task, Ops
    <2>2. Append(tasks, [op |-> "Stop", ctx |-> c, code |-> 0]) \in Seq(Task)
        BY <1>0, <2>1, AppendToTasks DEF OtherTypes
    <2> QED
        BY <1>0, <1>9, <2>2 DEF StopEvent, OtherTypes
<1>10. ASSUME NEW ops, Takes(ops), UNCHANGED asked,
              phase' \in [Connections -> {"silent", "expanding", "expanded", "in", "gone"}],
              fault' \in {"no", "task", "process"}
       PROVE  OtherTypes'
    <2>1. tasks' \in Seq(Task)
        BY <1>10, HeadOfTasks
    <2>2. strayed' \in BOOLEAN
        BY <1>10 DEF Takes
    <2> QED
        BY <1>0, <1>10, <2>1, <2>2 DEF Takes, OtherTypes
<1>11. CASE EndTask \/ WithoutContext \/ CommandErrorTask \/ ClientLeftView \/ Answer
    BY <1>0, <1>10, <1>11
       DEF EndTask, WithoutContext, CommandErrorTask, ClientLeftView, Answer, OtherTypes
<1>12. CASE InitIvExpand
    BY <1>0, <1>10, <1>12 DEF InitIvExpand, OtherTypes
<1>13. CASE InitServer
    <2>1. fault' \in {"no", "task", "process"}
        BY <1>0, <1>13 DEF InitServer, ToConnected, OtherTypes
    <2> QED
        BY <1>0, <1>10, <1>13, <2>1 DEF InitServer, OtherTypes
<1>14. CASE UNCHANGED vars
    BY <1>0, <1>14 DEF OtherTypes
<1> QED
    BY <1>1, <1>2, <1>3, <1>4, <1>5, <1>6, <1>7, <1>8, <1>9, <1>11, <1>12, <1>13, <1>14
       DEF Next, Run

-----------------------------------------------------------------------------
(* Every step keeps the open handler current, unless a task strays *)

\* The end of the current connection, or of one when there is no current one, leaves
\* no handler open.
LEMMA ToDisconnectedOpen ==
    ASSUME ConnInv, NEW c \in Connections, ToDisconnected(c), UNCHANGED returnCode,
           context \in {0, c},
           \A d \in Connections : handler[d] = "open" => context = d
    PROVE  \A d \in Connections : handler'[d] = "open" => context' = d
<1>1. /\ \A d \in Connections : handler'[d] = "open" => handler[d] = "open"
      /\ status # "Disconnected" => handler'[c] = "closed"
    BY ToDisconnectedConn
<1>2. CASE status = "Disconnected"
    BY <1>2 DEF ToDisconnected
<1>3. CASE status # "Disconnected"
    BY <1>1, <1>3 DEF ConnInv, ContextMatches
<1> QED
    BY <1>2, <1>3

LEMMA OpenStep ==
    ASSUME TypeOK, ConnInv, OpenIsCurrent, [Next]_vars
    PROVE  OpenIsCurrent'
<1> DEFINE Current == \A d \in Connections : handler[d] = "open" => context = d
<1>1. strayed' = strayed \/ strayed' = TRUE
      \/ strayed' = (strayed \/ context \notin {0, Head(tasks).ctx})
    BY DEF Next, Run, Disconnect, Send, Resume, Connect, ResolveFails, Resolved, SocketFails,
           ConnectReturn, PacketEvent, Says, Hear, Enqueue, TimerStop, StopEvent, EndTask,
           WithoutContext, InitIvExpand, InitServer, CommandErrorTask, ClientLeftView,
           Answer, Takes
<1>2. SUFFICES ASSUME Current, ~strayed'
               PROVE  Current'
    BY <1>1 DEF OpenIsCurrent
<1>3. CASE UNCHANGED <<handler, context>>
    BY <1>2, <1>3
<1>4. ASSUME NEW w, Leave(w), UNCHANGED returnCode PROVE Current'
    BY <1>2, <1>4, LeaveConn
<1>5. ASSUME NEW c \in Connections, Resolved(c) \/ SocketFails(c) PROVE Current'
    <2>1. \A d \in Connections : d # 0
        BY ClientAssumption DEF Connections
    <2>2. context = 0
        BY <1>5 DEF Resolved, SocketFails, ConnInv, ContextMatches
    <2>3. \A d \in Connections : handler[d] # "open"
        BY <1>2, <2>1, <2>2
    <2>4. \A d \in Connections : d # c => handler'[d] = handler[d]
        BY <1>5 DEF Resolved, SocketFails, ConnInv, ConnTypes
    <2>5. handler'[c] = "open" => context' = c
        BY <1>5 DEF Resolved, SocketFails, ConnInv, ConnTypes
    <2> QED
        BY <2>3, <2>4, <2>5
<1>6. ASSUME NEW c \in Connections, TimerStop(c) PROVE Current'
    BY <1>2, <1>6 DEF TimerStop, ConnInv, ConnTypes
<1>7. CASE EndTask
    <2>1. Head(tasks).ctx \in Connections
        BY <1>7, HeadOfTasks DEF EndTask
    <2>2. context \in {0, Head(tasks).ctx}
        BY <1>2, <1>7 DEF EndTask, Takes
    <2> QED
        BY <1>2, <1>7, <2>1, <2>2, ToDisconnectedOpen DEF EndTask, Takes
<1>8. ASSUME context # 0, ToDisconnected(context), UNCHANGED returnCode PROVE Current'
    BY <1>2, <1>8, CurrentContext, ToDisconnectedOpen
<1>9. CASE InitIvExpand \/ CommandErrorTask \/ ClientLeftView
    BY <1>3, <1>8, <1>9 DEF InitIvExpand, CommandErrorTask, ClientLeftView, Takes
<1>10. CASE InitServer
    BY <1>3, <1>10 DEF InitServer, ToConnected
<1> QED
    BY <1>3, <1>4, <1>5, <1>6, <1>7, <1>9, <1>10
       DEF Next, Run, Disconnect, Send, Resume, Connect, ResolveFails, ConnectReturn,
           PacketEvent, Says, Hear, Enqueue, StopEvent, WithoutContext, Answer

-----------------------------------------------------------------------------
(* Every step keeps what the server's admission is worth *)

\* A server that let the client in has done so for good.
LEMMA PhaseStep ==
    ASSUME TypeOK, [Next]_vars, NEW c \in Connections, phase[c] \in {"in", "gone"}
    PROVE  phase'[c] \in {"in", "gone"}
<1>1. CASE UNCHANGED phase
    BY <1>1
<1>2. ASSUME NEW d \in Connections, PacketEvent(d) PROVE phase'[c] \in {"in", "gone"}
    BY <1>2 DEF PacketEvent, Says, TypeOK
<1>3. CASE InitIvExpand
    BY <1>3 DEF InitIvExpand, TypeOK
<1> QED
    BY <1>1, <1>2, <1>3
       DEF Next, Run, Disconnect, Send, Resume, Connect, ResolveFails, Resolved, SocketFails,
           ConnectReturn, Enqueue, TimerStop, StopEvent, EndTask,
           WithoutContext, InitServer, CommandErrorTask, ClientLeftView, Answer

LEMMA AdmittedStep ==
    ASSUME TypeOK, AdmittedFirst, [Next]_vars
    PROVE  AdmittedFirst'
<1>1. ASSUME NEW t \in Task, Admits(t) PROVE Admits(t)'
    BY <1>1, PhaseStep DEF Admits, Task
<1>2. \A i \in DOMAIN tasks : tasks[i] \in Task
    BY DEF TypeOK
<1>3. CASE UNCHANGED <<tasks, receiving>>
    BY <1>1, <1>2, <1>3 DEF AdmittedFirst, TypeOK
<1>4. ASSUME NEW c \in Connections, PacketEvent(c) PROVE AdmittedFirst'
    <2>1. UNCHANGED tasks
        BY <1>4 DEF PacketEvent, Says, Hear
    <2>2. \A d \in Connections : receiving'[d] = receiving[d] \/ (Admits(receiving[d]))'
        BY <1>4 DEF PacketEvent, Says, Hear, Admits, TypeOK
    <2>3. (\A d \in Connections : receiving[d] # Nothing => Admits(receiving[d]))'
        BY <1>1, <2>2 DEF AdmittedFirst, TypeOK
    <2> QED
        BY <1>1, <1>2, <2>1, <2>3 DEF AdmittedFirst
<1>5. ASSUME NEW t \in Task, Admits(t), tasks' = Append(tasks, t),
             \A d \in Connections : receiving'[d] \in {receiving[d], Nothing}
      PROVE  AdmittedFirst'
    <2>1. \A i \in DOMAIN tasks' : tasks'[i] = t \/ (i \in DOMAIN tasks /\ tasks'[i] = tasks[i])
        BY <1>5, AppendToTasks DEF TypeOK
    <2>2. (\A i \in DOMAIN tasks : Admits(tasks[i]))'
        BY <1>1, <1>2, <1>5, <2>1 DEF AdmittedFirst
    <2>3. (\A d \in Connections : receiving[d] # Nothing => Admits(receiving[d]))'
        BY <1>1, <1>5 DEF AdmittedFirst, TypeOK
    <2> QED
        BY <2>2, <2>3 DEF AdmittedFirst
<1>6. ASSUME NEW c \in Connections, Enqueue(c) PROVE AdmittedFirst'
    <2>1. receiving[c] \in Task /\ Admits(receiving[c])
        BY <1>6 DEF Enqueue, TypeOK, AdmittedFirst
    <2>2. \A d \in Connections : receiving'[d] \in {receiving[d], Nothing}
        BY <1>6 DEF Enqueue, TypeOK
    <2> QED
        BY <1>5, <1>6, <2>1, <2>2 DEF Enqueue
<1>7. ASSUME NEW c \in Connections, StopEvent(c) PROVE AdmittedFirst'
    <2>1. /\ [op |-> "Stop", ctx |-> c, code |-> 0] \in Task
          /\ Admits([op |-> "Stop", ctx |-> c, code |-> 0])
        BY ClientAssumption DEF Task, Ops, Admits
    <2> QED
        BY <1>5, <1>7, <2>1 DEF StopEvent
<1>8. ASSUME NEW ops, Takes(ops) PROVE AdmittedFirst'
    <2>1. \A i \in DOMAIN tasks' : i + 1 \in DOMAIN tasks /\ tasks'[i] = tasks[i + 1]
        BY <1>8, TailOfTasks DEF Takes, TypeOK
    <2>2. UNCHANGED receiving
        BY <1>8 DEF Takes
    <2> QED
        BY <1>1, <1>2, <2>1, <2>2 DEF AdmittedFirst, TypeOK
<1> QED
    BY <1>3, <1>4, <1>6, <1>7, <1>8
       DEF Next, Run, Disconnect, Send, Resume, Connect, ResolveFails, Resolved, SocketFails,
           ConnectReturn, TimerStop, EndTask, WithoutContext, InitIvExpand, InitServer,
           CommandErrorTask, ClientLeftView, Answer

LEMMA ConnectedStep ==
    ASSUME TypeOK, ConnInv, AdmittedFirst, ConnectedIsIn, [Next]_vars
    PROVE  ConnectedIsIn'
<1>1. strayed => strayed'
    BY DEF Next, Run, Disconnect, Send, Resume, Connect, ResolveFails, Resolved, SocketFails,
           ConnectReturn, PacketEvent, Says, Hear, Enqueue, TimerStop, StopEvent, EndTask,
           WithoutContext, InitIvExpand, InitServer, CommandErrorTask, ClientLeftView,
           Answer, Takes
<1>2. CASE UNCHANGED connectEvent
    BY <1>1, <1>2, PhaseStep DEF ConnectedIsIn
<1>3. CASE InitServer
    <2>1. tasks \in Seq(Task) /\ tasks # <<>> /\ UNCHANGED phase
        BY <1>3 DEF InitServer, Takes, TypeOK
    <2>2. Head(tasks).op = "InitServer" /\ Admits(Head(tasks))
        BY <1>3, <2>1, TailOfTasks DEF InitServer, Takes, AdmittedFirst
    <2>3. strayed' \/ phase[context] \in {"in", "gone"}
        BY <1>3, <2>2 DEF InitServer, Takes, Admits
    <2>4. \A d \in Connections : d # context => connectEvent'[d] = connectEvent[d]
        BY <1>3, ToConnectedConn DEF InitServer, Takes
    <2> QED
        BY <1>1, <2>1, <2>3, <2>4 DEF ConnectedIsIn
<1> QED
    BY <1>2, <1>3
       DEF Next, Run, Disconnect, Send, Resume, Leave, Connect, ResolveFails, Resolved,
           SocketFails, ConnectReturn, PacketEvent, Says, Hear, Enqueue, TimerStop, StopEvent,
           EndTask, WithoutContext, InitIvExpand, CommandErrorTask, ClientLeftView, Answer,
           ToDisconnected

-----------------------------------------------------------------------------
(* The theorems *)

\* The inductive invariant holds in every behaviour.
THEOREM InvHolds == Spec => []Inv
<1>1. Inv /\ [Next]_vars => Inv'
    <2> SUFFICES ASSUME Inv, [Next]_vars PROVE Inv'
        OBVIOUS
    <2>1. ConnInv
        BY DEF Inv, ConnInv, ConnTypes, TypeOK
    <2>2. ConnInv' /\ OtherTypes'
        BY <2>1, ConnStep, OtherStep DEF Inv
    <2>3. TypeOK'
        BY <2>2 DEF TypeOK, ConnInv, ConnTypes, OtherTypes
    <2>4. OpenIsCurrent' /\ AdmittedFirst' /\ ConnectedIsIn'
        BY <2>1, OpenStep, AdmittedStep, ConnectedStep DEF Inv
    <2> QED
        BY <2>2, <2>3, <2>4 DEF Inv, ConnInv
<1> QED
    BY InitInv, <1>1, PTL DEF Spec

\* Every variable keeps its type.
THEOREM TypeCorrect == Spec => []TypeOK
<1>1. Inv => TypeOK
    BY DEF Inv
<1> QED
    BY <1>1, InvHolds, PTL

\* OnDisconnected is raised at most once for a connection, whichever threads find its
\* end, and in whatever order their reports are handled.
THEOREM OnDisconnectedOnce == Spec => []AnnouncedOnce
<1>1. Inv => AnnouncedOnce
    <2> SUFFICES ASSUME Inv, NEW c \in Connections PROVE announced[c] <= 1
        BY DEF AnnouncedOnce
    <2>1. announced[c] = 0 \/ announced[c] = 1
        BY DEF Inv, EventsCounted
    <2> QED
        BY <2>1
<1> QED
    BY <1>1, InvHolds, PTL

\* No request outlives its connection, and a return code is never given out twice.
THEOREM RequestsEndWithConnection == Spec => []CodesAreFresh
<1>1. Inv => CodesAreFresh
    BY DEF Inv
<1> QED
    BY <1>1, InvHolds, PTL

\* A Disconnected client has neither a context nor an open handler, unless a task of an
\* old connection ran while a newer one was there.
THEOREM ClosedWhenDisconnected == Spec => []ClosedWithoutStray
<1>1. Inv => ClosedWithoutStray
    <2> SUFFICES ASSUME Inv PROVE ClosedWithoutStray
        OBVIOUS
    <2>1. \A c \in Connections : c # 0
        BY ClientAssumption DEF Connections
    <2> QED
        BY <2>1 DEF Inv, OpenIsCurrent, ContextMatches, ClosedWithoutStray,
                    DisconnectedIsClosed
<1> QED
    BY <1>1, InvHolds, PTL

\* Connect reports success only for a connection the server let in, unless a task of an
\* old connection ran while a newer one was there.
THEOREM ConnectTellsTheTruth == Spec => []ConnectedIsIn
<1>1. Inv => ConnectedIsIn
    BY DEF Inv
<1> QED
    BY <1>1, InvHolds, PTL
=============================================================================
