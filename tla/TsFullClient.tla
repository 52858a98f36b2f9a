---------------------------- MODULE TsFullClient -----------------------------
(***************************************************************************)
(* TSLib/Full/TsFullClient.cs: the life of a client and of its connections *)
(* to a server.  The client belongs to a DedicatedTaskScheduler: one       *)
(* thread that runs tasks in the order they were queued.  Three kinds of   *)
(* threads meet here: the scheduler's, the thread that reads the socket of *)
(* a PacketHandler, and the timer that finds a connection lost.            *)
(*                                                                         *)
(* Connection c is the one the c-th call of Connect makes.  The commands   *)
(* of a connection come in order and once: module CommandChannel.          *)
(* A call of the client, and the continuation of an await, runs on the     *)
(* scheduler; it may run before tasks that are queued, since it may have   *)
(* been queued before them.                                                *)
(***************************************************************************)
EXTENDS Naturals, Sequences

CONSTANTS
    MaxConnections,     \* bound: the calls of Connect
    MaxRequests,        \* bound: the requests of a connection
    User,               \* the caller of Disconnect
    Nothing             \* no task

ASSUME ClientAssumption ==
    /\ MaxConnections \in Nat \ {0}
    /\ MaxRequests \in Nat
    /\ User \notin 1 .. MaxConnections

Connections == 1 .. MaxConnections
Codes == 1 .. MaxRequests
Waiters == Connections \cup {User}

\* The commands of the server that change the client's state, and the ends of a
\* connection that a PacketHandler reports.
Ops == {"InitIvExpand", "InitServer", "CommandError", "ClientLeftView", "Answer",
        "InitError", "Stop"}

Task == [op : Ops, ctx : Connections, code : 0 .. MaxRequests]

VARIABLES
    status,
    context,            \* the current ConnectionContext; 0 is null
    handler,            \* the PacketHandler of a context: new, open or closed
    disconnectEvent,    \* is DisconnectEvent completed?
    connectEvent,       \* is ConnectEvent completed?
    requestDict,        \* return codes of the requests that wait for an answer
    returnCode,         \* the last return code given out
    tasks,              \* the queue of the scheduler
    receiving,          \* what the socket's thread is about to queue
    stopping,           \* the timers between closing a handler and telling it
    call,               \* where the calls of Connect are
    awaited,            \* whose DisconnectEvent a caller of Disconnect awaits
    phase,              \* how far the server is with a connection
    asked,              \* requests the server has not answered
    announced,          \* history: how often OnDisconnected was raised for it
    strayed,            \* history: a task of an old connection met a newer one
    fault               \* how code failed: no, a task of the scheduler, the process

connVars == <<status, context, handler, disconnectEvent, connectEvent, requestDict, announced>>
callVars == <<call, awaited, returnCode>>
threadVars == <<receiving, stopping>>
serverVars == <<phase, asked>>
vars == <<connVars, callVars, threadVars, serverVars, tasks, strayed, fault>>

Init ==
    /\ status = "Disconnected"
    /\ context = 0
    /\ handler = [c \in Connections |-> "new"]
    /\ disconnectEvent = [c \in Connections |-> FALSE]
    /\ connectEvent = [c \in Connections |-> FALSE]
    /\ requestDict = {}
    /\ returnCode = 0
    /\ tasks = <<>>
    /\ receiving = [c \in Connections |-> Nothing]
    /\ stopping = {}
    /\ call = [c \in Connections |-> "none"]
    /\ awaited = [w \in Waiters |-> 0]
    /\ phase = [c \in Connections |-> "silent"]
    /\ asked = [c \in Connections |-> {}]
    /\ announced = [c \in Connections |-> 0]
    /\ strayed = FALSE
    /\ fault = "no"

Alive == fault # "process"

-----------------------------------------------------------------------------
(* ChangeState *)

AnnounceFirst(c) ==                 \* mutant: OnDisconnected before SetResult
    /\ disconnectEvent' = [disconnectEvent EXCEPT ![c] = TRUE]
    /\ announced' = [announced EXCEPT ![c] = @ + 1]

\* SetResult on a DisconnectEvent that is completed throws: OnDisconnected is not
\* raised.  ConnectEvent stays as it is: the code compares the status after it set it.
Announce(c) ==
    /\ disconnectEvent' = [disconnectEvent EXCEPT ![c] = TRUE]
    /\ announced' = IF disconnectEvent[c] THEN announced
                    ELSE [announced EXCEPT ![c] = @ + 1]

ToDisconnectedUnstopped(c) ==       \* mutant: the handler is not stopped
    IF status = "Disconnected" THEN UNCHANGED connVars
    ELSE
        /\ status' = "Disconnected"
        /\ requestDict' = {}
        /\ context' = 0
        /\ Announce(c)
        /\ UNCHANGED <<connectEvent, handler>>

ToDisconnectedForgets(c) ==         \* mutant: an unannounced end of a connection
    IF status = "Disconnected" THEN UNCHANGED connVars
    ELSE
        /\ status' = "Disconnected"
        /\ handler' = [handler EXCEPT ![c] = "closed"]
        /\ requestDict' = {}
        /\ context' = 0
        /\ UNCHANGED <<connectEvent, disconnectEvent, announced>>

\* ChangeState(ctx, Disconnected).  It acts on the handler and the events of ctx, but
\* on the status and the requests of the client, whatever connection it has now.
ToDisconnected(c) ==
    IF status = "Disconnected" THEN UNCHANGED connVars
    ELSE
        /\ status' = "Disconnected"
        /\ handler' = [handler EXCEPT ![c] = "closed"]
        /\ requestDict' = {}
        /\ context' = 0
        /\ Announce(c)
        /\ UNCHANGED connectEvent

\* ChangeState(ctx, Connected): any other status is Trace.Fail, which ends the process.
ToConnected(c) ==
    IF status = "Connecting"
    THEN /\ status' = "Connected"
         /\ connectEvent' = [connectEvent EXCEPT ![c] = TRUE]
         /\ UNCHANGED <<context, handler, disconnectEvent, requestDict, announced, fault>>
    ELSE fault' = "process" /\ UNCHANGED connVars

-----------------------------------------------------------------------------
(* Calls of the client *)

\* Disconnect, up to its await.  Without context it returns at once.
Leave(w) ==
    /\ context # 0
    /\ awaited' = [awaited EXCEPT ![w] = context]
    /\ IF status = "Connected"
       THEN /\ status' = "Disconnecting"
            /\ UNCHANGED <<context, handler, disconnectEvent, connectEvent, requestDict,
                           announced>>
       ELSE ToDisconnected(context)

Disconnect ==
    /\ Alive
    /\ awaited[User] = 0
    /\ Leave(User)
    /\ UNCHANGED <<call, returnCode, threadVars, serverVars, tasks, strayed, fault>>

\* Connect, up to the first await that waits.  The calls of Connect do not overlap
\* before the new context is there.
Connect(c) ==
    /\ Alive
    /\ call[c] = "none"
    /\ c > 1 => call[c - 1] \in {"connecting", "returned"}
    /\ \/ /\ context = 0
          /\ call' = [call EXCEPT ![c] = "resolving"]
          /\ UNCHANGED <<connVars, awaited>>
       \/ /\ Leave(c)
          /\ call' = [call EXCEPT ![c] = "leaving"]
    /\ UNCHANGED <<returnCode, threadVars, serverVars, tasks, strayed, fault>>

\* Disconnect, after its await.
Resume(w) ==
    /\ Alive
    /\ awaited[w] # 0
    /\ disconnectEvent[awaited[w]]
    /\ awaited' = [awaited EXCEPT ![w] = 0]
    /\ call' = IF w = User THEN call ELSE [call EXCEPT ![w] = "resolving"]
    /\ UNCHANGED <<connVars, returnCode, threadVars, serverVars, tasks, strayed, fault>>

\* The name of the server is not found.
ResolveFails(c) ==
    /\ Alive
    /\ call[c] = "resolving"
    /\ call' = [call EXCEPT ![c] = "returned"]
    /\ UNCHANGED <<connVars, awaited, returnCode, threadVars, serverVars, tasks, strayed, fault>>

\* The rest of Connect, up to the await of ConnectEvent.
Resolved(c) ==
    /\ Alive
    /\ call[c] = "resolving"
    /\ status = "Disconnected"
    /\ context' = c
    /\ status' = "Connecting"
    /\ handler' = [handler EXCEPT ![c] = "open"]
    /\ returnCode' = 0
    /\ call' = [call EXCEPT ![c] = "connecting"]
    /\ UNCHANGED <<disconnectEvent, connectEvent, requestDict, announced,
                   awaited, threadVars, serverVars, tasks, strayed, fault>>

\* The same, when the handler gets no socket: Connecting and Disconnected at once.
SocketFails(c) ==
    /\ Alive
    /\ call[c] = "resolving"
    /\ status = "Disconnected"
    /\ handler' = [handler EXCEPT ![c] = "closed"]
    /\ context' = 0
    /\ requestDict' = {}
    /\ Announce(c)
    /\ returnCode' = 0
    /\ call' = [call EXCEPT ![c] = "returned"]
    /\ UNCHANGED <<status, connectEvent, awaited, threadVars, serverVars, tasks, strayed, fault>>

ConnectReturn(c) ==
    /\ Alive
    /\ call[c] = "connecting"
    /\ connectEvent[c]
    /\ call' = [call EXCEPT ![c] = "returned"]
    /\ UNCHANGED <<connVars, awaited, returnCode, threadVars, serverVars, tasks, strayed, fault>>

SendUnchecked ==                    \* mutant: the status is not looked at
    /\ Alive
    /\ returnCode < MaxRequests
    /\ returnCode' = returnCode + 1
    /\ requestDict' = requestDict \cup {returnCode + 1}
    /\ asked' = IF context = 0 THEN asked
                ELSE [asked EXCEPT ![context] = @ \cup {returnCode + 1}]
    /\ UNCHANGED <<status, context, handler, disconnectEvent, connectEvent, announced,
                   call, awaited, threadVars, phase, tasks, strayed, fault>>

SendPostIncrement ==                \* mutant: returnCode++ for ++returnCode
    /\ Alive
    /\ status \in {"Connecting", "Connected"}
    /\ returnCode < MaxRequests
    /\ returnCode' = returnCode + 1
    /\ requestDict' = requestDict \cup {returnCode}
    /\ asked' = [asked EXCEPT ![context] = @ \cup {returnCode}]
    /\ UNCHANGED <<status, context, handler, disconnectEvent, connectEvent, announced,
                   call, awaited, threadVars, phase, tasks, strayed, fault>>

\* Send and SendCommandBase, for a command that has an answer.
Send ==
    /\ Alive
    /\ status \in {"Connecting", "Connected"}
    /\ returnCode < MaxRequests
    /\ returnCode' = returnCode + 1
    /\ requestDict' = requestDict \cup {returnCode + 1}
    /\ asked' = [asked EXCEPT ![context] = @ \cup {returnCode + 1}]
    /\ UNCHANGED <<status, context, handler, disconnectEvent, connectEvent, announced,
                   call, awaited, threadVars, phase, tasks, strayed, fault>>

-----------------------------------------------------------------------------
(* The other threads *)

\* PacketEvent, on the thread of the socket: the status is read, and a task is queued
\* some time later.
Hear(c, op, code) ==
    /\ Alive
    /\ handler[c] = "open"
    /\ receiving[c] = Nothing
    /\ receiving' = IF status = "Disconnected" THEN receiving
                    ELSE [receiving EXCEPT ![c] = [op |-> op, ctx |-> c, code |-> code]]
    /\ UNCHANGED <<connVars, callVars, stopping, tasks, strayed, fault>>

\* The server's side of a connection: first its part of the key exchange, or an error;
\* then, once it has clientinit, the client is in or it is refused; in the end it left.
Says(c, op, before, after) ==
    /\ phase[c] = before
    /\ phase' = [phase EXCEPT ![c] = after]
    /\ UNCHANGED asked
    /\ Hear(c, op, 0)

PacketEvent(c) ==
    \/ Says(c, "InitIvExpand", "silent", "expanding")
    \/ Says(c, "InitError", "silent", "gone")
    \/ Says(c, "InitServer", "expanded", "in")
    \/ Says(c, "CommandError", "expanded", "gone")
    \/ Says(c, "ClientLeftView", "in", "gone")
    \/ \E code \in asked[c] :
          /\ phase[c] = "in"
          /\ asked' = [asked EXCEPT ![c] = @ \ {code}]
          /\ UNCHANGED phase
          /\ Hear(c, "Answer", code)

Enqueue(c) ==
    /\ Alive
    /\ receiving[c] # Nothing
    /\ tasks' = Append(tasks, receiving[c])
    /\ receiving' = [receiving EXCEPT ![c] = Nothing]
    /\ UNCHANGED <<connVars, callVars, serverVars, stopping, strayed, fault>>

\* PacketHandler.Stop on the timer's or the socket's thread, or called by Dispose: the
\* handler is closed, ...
TimerStop(c) ==
    /\ Alive
    /\ handler[c] = "open"
    /\ handler' = [handler EXCEPT ![c] = "closed"]
    /\ stopping' = stopping \cup {c}
    /\ UNCHANGED <<status, context, disconnectEvent, connectEvent, requestDict, announced,
                   callVars, serverVars, receiving, tasks, strayed, fault>>

\* ... and some time later StopEvent queues the end of the connection.
StopEvent(c) ==
    /\ Alive
    /\ c \in stopping
    /\ stopping' = stopping \ {c}
    /\ tasks' = Append(tasks, [op |-> "Stop", ctx |-> c, code |-> 0])
    /\ UNCHANGED <<connVars, callVars, serverVars, receiving, strayed, fault>>

-----------------------------------------------------------------------------
(* The tasks of the scheduler.  The handlers of commands act on the current *)
(* context, not on the one the command came for.                           *)

Takes(ops) ==
    /\ Alive
    /\ tasks # <<>>
    /\ Head(tasks).op \in ops
    /\ tasks' = Tail(tasks)
    /\ strayed' = (strayed \/ context \notin {0, Head(tasks).ctx})
    /\ UNCHANGED <<callVars, threadVars>>

EndTask ==
    /\ Takes({"Stop", "InitError"})
    /\ ToDisconnected(Head(tasks).ctx)
    /\ UNCHANGED <<serverVars, fault>>

\* "context should be set": the exception of an async void handler ends the process,
\* the one of another handler only the task.
WithoutContext ==
    /\ Takes({"InitIvExpand", "InitServer", "CommandError", "ClientLeftView"})
    /\ context = 0
    /\ fault' = IF Head(tasks).op = "InitIvExpand" THEN "process" ELSE "task"
    /\ UNCHANGED <<connVars, serverVars>>

InitIvExpandConnects ==             \* mutant: connected before the server agreed
    /\ Takes({"InitIvExpand"})
    /\ context # 0
    /\ phase' = [phase EXCEPT ![context] = IF @ = "expanding" THEN "expanded" ELSE @]
    /\ ToConnected(context)
    /\ UNCHANGED asked

\* ProcessEachInitIvExpand and ProcessEachInitIvExpand2: the key is agreed on, and
\* clientinit is sent; or the server's part of it is not valid.
InitIvExpand ==
    /\ Takes({"InitIvExpand"})
    /\ context # 0
    /\ \/ /\ phase' = [phase EXCEPT ![context] = IF @ = "expanding" THEN "expanded" ELSE @]
          /\ UNCHANGED connVars
       \/ /\ ToDisconnected(context)
          /\ UNCHANGED phase
    /\ UNCHANGED <<asked, fault>>

InitServer ==
    /\ Takes({"InitServer"})
    /\ context # 0
    /\ ToConnected(context)
    /\ UNCHANGED serverVars

\* ProcessEachCommandError, for an error without return code.
CommandErrorTask ==
    /\ Takes({"CommandError"})
    /\ context # 0
    /\ IF status = "Connecting" THEN ToDisconnected(context) ELSE UNCHANGED connVars
    /\ UNCHANGED <<serverVars, fault>>

\* ProcessEachClientLeftView, for the client itself.  The server never gives two
\* connections of the client the same ClientId.
ClientLeftView ==
    /\ Takes({"ClientLeftView"})
    /\ context # 0
    /\ IF Head(tasks).ctx = context THEN ToDisconnected(context) ELSE UNCHANGED connVars
    /\ UNCHANGED <<serverVars, fault>>

\* PushMessageInternal: an answer for a request, found by its return code only.
Answer ==
    /\ Takes({"Answer"})
    /\ requestDict' = requestDict \ {Head(tasks).code}
    /\ UNCHANGED <<status, context, handler, disconnectEvent, connectEvent, announced,
                   serverVars, fault>>

Run == \/ EndTask
       \/ WithoutContext
       \/ InitIvExpand
       \/ InitServer
       \/ CommandErrorTask
       \/ ClientLeftView
       \/ Answer

Next ==
    \/ Disconnect
    \/ Send
    \/ \E w \in Waiters : Resume(w)
    \/ \E c \in Connections :
          \/ Connect(c) \/ ResolveFails(c) \/ Resolved(c) \/ SocketFails(c)
          \/ ConnectReturn(c)
          \/ PacketEvent(c) \/ Enqueue(c)
          \/ TimerStop(c) \/ StopEvent(c)
    \/ Run

Spec == Init /\ [][Next]_vars

\* The threads go on.  A server that is told clientdisconnect answers, or falls silent
\* and the timer finds out.
Ends(c) ==
    /\ status = "Disconnecting"
    /\ TimerStop(c) \/ Says(c, "ClientLeftView", "in", "gone")

Fairness ==
    /\ WF_vars(Run)
    /\ \A w \in Waiters : WF_vars(Resume(w))
    /\ \A c \in Connections :
          /\ WF_vars(Enqueue(c))
          /\ WF_vars(StopEvent(c))
          /\ WF_vars(ConnectReturn(c))
          /\ WF_vars(Ends(c))

FairSpec == Spec /\ Fairness

-----------------------------------------------------------------------------
(* Properties *)

TypeOK ==
    /\ status \in {"Disconnected", "Connecting", "Connected", "Disconnecting"}
    /\ context \in Connections \cup {0}
    /\ handler \in [Connections -> {"new", "open", "closed"}]
    /\ disconnectEvent \in [Connections -> BOOLEAN]
    /\ connectEvent \in [Connections -> BOOLEAN]
    /\ requestDict \subseteq Codes
    /\ returnCode \in 0 .. MaxRequests
    /\ tasks \in Seq(Task)
    /\ receiving \in [Connections -> Task \cup {Nothing}]
    /\ stopping \subseteq Connections
    /\ call \in [Connections -> {"none", "leaving", "resolving", "connecting", "returned"}]
    /\ awaited \in [Waiters -> Connections \cup {0}]
    /\ phase \in [Connections -> {"silent", "expanding", "expanded", "in", "gone"}]
    /\ asked \in [Connections -> SUBSET Codes]
    /\ announced \in [Connections -> Nat]
    /\ strayed \in BOOLEAN
    /\ fault \in {"no", "task", "process"}

\* OnDisconnected is raised at most once for a connection, however its end is found:
\* a timeout, a kick and a call of Disconnect at the same time, or a report that comes
\* when the next connection is there (ChangeState).
AnnouncedOnce == \A c \in Connections : announced[c] <= 1

\* Connect restarts the return codes at 0.  No request of an earlier connection is left
\* in requestDict then: EnqueueRequest never meets a code that is in use, and no answer
\* goes to a request of the connection before (SendCommandBase, DropQueue).
CodesAreFresh == \A code \in requestDict : code <= returnCode /\ status # "Disconnected"

\* What TsFullClient says of the status Disconnected: "PacketHandler is not initalized,
\* context == null".
DisconnectedIsClosed ==
    status = "Disconnected" => context = 0 /\ \A c \in Connections : handler[c] # "open"

\* The same, as long as no task of an old connection ran while a newer one was there:
\* nothing else leaves a connection open that the client forgot.
ClosedWithoutStray == strayed \/ DisconnectedIsClosed

\* Connect reports success only for a connection the server let in, as long as no task
\* of an old connection ran while a newer one was there: such a task may be the old
\* server's InitServer, which connects the new one.
ConnectedIsIn ==
    \A c \in Connections : connectEvent[c] => strayed \/ phase[c] \in {"in", "gone"}

\* What the handlers of commands assert: "context should be set".
ContextIsSet == fault = "no"

\* Disconnect returns: the connection it ends is closed in the end, whatever the server
\* does, unless a stray task took the new connection's place or the process failed.
DisconnectReturns ==
    \A w \in Waiters : awaited[w] # 0 ~> (awaited[w] = 0 \/ strayed \/ ~Alive)

\* What Connect promises: an error "when the connection could not be established".
\* A call of Connect whose connection came to its end returns.
ConnectReturns ==
    \A c \in Connections :
        (call[c] = "connecting" /\ announced[c] > 0) ~> (call[c] = "returned" \/ ~Alive)
=============================================================================
