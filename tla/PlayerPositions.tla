--------------------------- MODULE PlayerPositions ---------------------------
(***************************************************************************)
(* AviaBot: Services/PlayerPositionService.cs, which keeps the players in  *)
(* four concurrent dictionaries, and Services/RabbitMqConsumer.cs, which   *)
(* gives every delivery to a task of its own.  The tasks run on the thread *)
(* pool, in any order and at the same time; a step of a task is one        *)
(* operation on one dictionary.                                            *)
(*                                                                         *)
(* Delivery n is the n-th event published.  A PlayerPosition is an object  *)
(* the dictionaries refer to; it is named after the delivery that made it. *)
(***************************************************************************)
EXTENDS Naturals

CONSTANTS
    Players,        \* normalized names
    MaxEvents       \* bound: the events published

ASSUME PositionAssumption == MaxEvents \in Nat /\ Players # {}

Coalitions == {101, 201}
Lists == {"lobby", "active"} \X Coalitions
Numbers == 1 .. MaxEvents

Out == <<"out", 0>>

\* "detach" is handled as "despawn" is; of the two, the second finds nothing to do.
Kinds == {"join", "leave", "spawn", "despawn", "position", "clear"}

Event == [kind : Kinds \cup {"none"}, player : Players, country : Coalitions]

NoEvent == [kind |-> "none", player |-> CHOOSE q \in Players : TRUE, country |-> 101]

VARIABLES
    dict,           \* the four dictionaries: the object of a player, or 0
    isInLobby,      \* PlayerPosition.IsInLobby
    data,           \* the delivery an object's other fields were set by
    published,      \* deliveries so far
    event,          \* what they said
    pc,             \* the next operation of their tasks
    step,           \* the dictionary RemoveFromAll and HandleClear are at
    held,           \* the object a task got out of a dictionary; 0 is null
    place,          \* where the players are, as the game server knows
    settled,        \* history: the last delivery that settles a player's place
    tangled         \* history: the last delivery whose task overtook another one's

objectVars == <<dict, isInLobby, data>>
gameVars == <<published, event, place>>
historyVars == <<settled, tangled>>
vars == <<objectVars, gameVars, pc, step, held, historyVars>>

Init ==
    /\ dict = [l \in Lists |-> [q \in Players |-> 0]]
    /\ isInLobby = [o \in Numbers |-> FALSE]
    /\ data = [o \in Numbers |-> 0]
    /\ published = 0
    /\ event = [n \in Numbers |-> NoEvent]
    /\ pc = [n \in Numbers |-> "none"]
    /\ step = [n \in Numbers |-> 1]
    /\ held = [n \in Numbers |-> 0]
    /\ place \in [Players -> Lists \cup {Out}]
    /\ settled = [q \in Players |-> 0]
    /\ tangled = [q \in Players |-> 0]

Concerns(n, q) == event[n].kind = "clear" \/ event[n].player = q

Unfinished(n) == n <= published /\ pc[n] # "done"

Lobby(n) == <<"lobby", event[n].country>>
Active(n) == <<"active", event[n].country>>

At(n, l) == dict[l][event[n].player]

-----------------------------------------------------------------------------
(* The game server and RabbitMQ.  A player joins for a coalition, spawns and   *)
(* despawns for it, and leaves; a mission's end clears everything.  The bot    *)
(* may be started when the game is on.                                         *)

Moves(kind, q, c) ==
    \/ kind = "join" /\ place[q] = Out /\ place' = [place EXCEPT ![q] = <<"lobby", c>>]
    \/ /\ kind = "spawn"
       /\ place[q] = <<"lobby", c>>
       /\ place' = [place EXCEPT ![q] = <<"active", c>>]
    \/ kind = "position" /\ place[q] = <<"active", c>> /\ UNCHANGED place
    \/ /\ kind = "despawn"
       /\ place[q] \in {<<"lobby", c>>, <<"active", c>>}
       /\ place' = [place EXCEPT ![q] = <<"lobby", c>>]
    \/ /\ kind = "leave"
       /\ place[q] \in {<<"lobby", c>>, <<"active", c>>}
       /\ place' = [place EXCEPT ![q] = Out]
    \/ kind = "clear" /\ place' = [r \in Players |-> Out]

\* The first operation of the handler that ProcessEvent calls.
FirstStep ==
    [join |-> "remove", leave |-> "remove", spawn |-> "unlobby", despawn |-> "take",
     position |-> "look", clear |-> "clear"]

Publish(kind, q, c) ==
    /\ published < MaxEvents
    /\ Moves(kind, q, c)
    /\ published' = published + 1
    /\ event' = [event EXCEPT ![published + 1] =
                    [kind |-> kind, player |-> q, country |-> c]]
    /\ pc' = [pc EXCEPT ![published + 1] = FirstStep[kind]]
    /\ UNCHANGED <<objectVars, step, held, historyVars>>

-----------------------------------------------------------------------------
(* The tasks *)

\* A task that goes on while an earlier one is not done has overtaken it.
Overtakes(n, q) ==
    /\ Concerns(n, q)
    /\ \E m \in Numbers : m < n /\ Unfinished(m) /\ Concerns(m, q)

\* A join, a leave and a clear settle where a player is, whatever was known before;
\* a spawn and a position do so as long as nothing was ever out of order.
Settles(n, q) ==
    /\ Concerns(n, q)
    /\ \/ event[n].kind \in {"join", "leave", "clear"}
       \/ event[n].kind \in {"spawn", "position"} /\ tangled[q] = 0

Larger(a, b) == IF a < b THEN b ELSE a

\* The task of delivery n does its operation `at` and goes on to `to`.
Goes(n, at, to) ==
    /\ pc[n] = at
    /\ pc' = [pc EXCEPT ![n] = to]
    /\ tangled' = [q \in Players |->
                      IF Overtakes(n, q) THEN Larger(n, tangled[q]) ELSE tangled[q]]
    /\ settled' = [q \in Players |->
                      IF to = "done" /\ Settles(n, q) THEN Larger(n, settled[q])
                      ELSE settled[q]]
    /\ UNCHANGED gameVars

Put(n, l, o) == dict' = [dict EXCEPT ![l] = [@ EXCEPT ![event[n].player] = o]]

TryAdd(n, l, o) == IF At(n, l) = 0 THEN Put(n, l, o) ELSE UNCHANGED dict

\* RemoveFromAll and HandleClear go through the dictionaries one by one.
Order == <<<<"lobby", 101>>, <<"lobby", 201>>, <<"active", 101>>, <<"active", 201>>>>

NextStep(n) == step' = [step EXCEPT ![n] = IF @ < 4 THEN @ + 1 ELSE @]

Remove(n) ==
    /\ Goes(n, "remove", IF step[n] < 4 THEN "remove"
                         ELSE IF event[n].kind = "join" THEN "join" ELSE "done")
    /\ Put(n, Order[step[n]], 0)
    /\ NextStep(n)
    /\ UNCHANGED <<isInLobby, data, held>>

Clear(n) ==
    /\ Goes(n, "clear", IF step[n] < 4 THEN "clear" ELSE "done")
    /\ dict' = [dict EXCEPT ![Order[step[n]]] = [q \in Players |-> 0]]
    /\ NextStep(n)
    /\ UNCHANGED <<isInLobby, data, held>>

\* HandleJoin, after RemoveFromAll.
Join(n) ==
    /\ Goes(n, "join", "done")
    /\ isInLobby' = [isInLobby EXCEPT ![n] = TRUE]
    /\ data' = [data EXCEPT ![n] = n]
    /\ TryAdd(n, Lobby(n), n)
    /\ UNCHANGED <<step, held>>

UnlobbySkips(n) ==                  \* mutant: a spawn leaves the player in the lobby
    /\ Goes(n, "unlobby", "spawn")
    /\ UNCHANGED <<objectVars, step, held>>

\* HandleSpawn: out of the lobby ...
Unlobby(n) ==
    /\ Goes(n, "unlobby", "spawn")
    /\ Put(n, Lobby(n), 0)
    /\ UNCHANGED <<isInLobby, data, step, held>>

\* ... and into the game, as a new object.
Spawn(n) ==
    /\ Goes(n, "spawn", "done")
    /\ isInLobby' = [isInLobby EXCEPT ![n] = FALSE]
    /\ data' = [data EXCEPT ![n] = n]
    /\ TryAdd(n, Active(n), n)
    /\ UNCHANGED <<step, held>>

TakeUnchecked(n) ==                 \* mutant: the result of TryRemove is not looked at
    /\ Goes(n, "take", "move")
    /\ held' = [held EXCEPT ![n] = At(n, Active(n))]
    /\ Put(n, Active(n), 0)
    /\ UNCHANGED <<isInLobby, data, step>>

TakeKeeps(n) ==                     \* mutant: TryGetValue for TryRemove
    /\ Goes(n, "take", IF At(n, Active(n)) = 0 THEN "done" ELSE "move")
    /\ held' = [held EXCEPT ![n] = At(n, Active(n))]
    /\ UNCHANGED <<objectVars, step>>

\* MoveToLobby: TryRemove decides which of several tasks has the object, ...
Take(n) ==
    /\ Goes(n, "take", IF At(n, Active(n)) = 0 THEN "done" ELSE "move")
    /\ held' = [held EXCEPT ![n] = At(n, Active(n))]
    /\ Put(n, Active(n), 0)
    /\ UNCHANGED <<isInLobby, data, step>>

\* ... which is changed and added to the lobby, unless a newer one is there.
Move(n) ==
    /\ Goes(n, "move", "done")
    /\ isInLobby' = [isInLobby EXCEPT ![held[n]] = TRUE]
    /\ TryAdd(n, Lobby(n), held[n])
    /\ UNCHANGED <<data, step, held>>

LookAlwaysSpawns(n) ==              \* mutant: every position is a spawn
    /\ Goes(n, "look", "unlobby")
    /\ UNCHANGED <<objectVars, step, held>>

\* HandlePosition: a player who is not in the game yet is spawned.
Look(n) ==
    /\ Goes(n, "look", IF At(n, Active(n)) = 0 THEN "unlobby" ELSE "update")
    /\ held' = [held EXCEPT ![n] = At(n, Active(n))]
    /\ UNCHANGED <<objectVars, step>>

\* The object is changed, wherever it is by now.
Update(n) ==
    /\ Goes(n, "update", "done")
    /\ data' = [data EXCEPT ![held[n]] = n]
    /\ UNCHANGED <<dict, isInLobby, step, held>>

Next ==
    \/ \E kind \in Kinds, q \in Players, c \in Coalitions : Publish(kind, q, c)
    \/ \E n \in Numbers :
          \/ Remove(n) \/ Clear(n) \/ Join(n)
          \/ Unlobby(n) \/ Spawn(n)
          \/ Take(n) \/ Move(n)
          \/ Look(n) \/ Update(n)

Spec == Init /\ [][Next]_vars

-----------------------------------------------------------------------------
(* Properties *)

\* The variables have their types, and a task that holds an object has one: nothing
\* is read from a null (MoveToLobby, HandlePosition).
TypeOK ==
    /\ dict \in [Lists -> [Players -> 0 .. MaxEvents]]
    /\ isInLobby \in [Numbers -> BOOLEAN]
    /\ data \in [Numbers -> 0 .. MaxEvents]
    /\ published \in 0 .. MaxEvents
    /\ event \in [Numbers -> Event]
    /\ pc \in [Numbers -> {"none", "remove", "clear", "join", "unlobby", "spawn",
                           "take", "move", "look", "update", "done"}]
    /\ step \in [Numbers -> 1 .. 4]
    /\ held \in [Numbers -> 0 .. MaxEvents]
    /\ place \in [Players -> Lists \cup {Out}]
    /\ settled \in [Players -> 0 .. MaxEvents]
    /\ tangled \in [Players -> 0 .. MaxEvents]
    /\ \A n \in Numbers : pc[n] \in {"move", "update"} => held[n] # 0

\* Whatever the tasks do at the same time: an object is in one dictionary at most, and
\* its IsInLobby, by which the voice relay chooses who hears a player, agrees with it.
FlagMatchesList ==
    \A l \in Lists, q \in Players : dict[l][q] # 0 =>
        /\ isInLobby[dict[l][q]] = (l[1] = "lobby")
        /\ \A m \in Lists, r \in Players :
              dict[m][r] = dict[l][q] => m = l /\ r = q

Where(q) == {l \in Lists : dict[l][q] # 0}

Quiet(q) == \A n \in Numbers : Unfinished(n) => ~Concerns(n, q)

Settled(q) == Quiet(q) /\ settled[q] > tangled[q]

\* Once a player's events are handled, he is where the game has him, and nowhere else,
\* if none of them was overtaken since he last joined or left, or ever: one join, leave
\* or clear handled on its own repairs whatever went wrong before (HandleJoin's
\* RemoveFromAll), and a spawn or a position is enough for a bot that was started late.
PlaceIsRight ==
    \A q \in Players : Settled(q) =>
        Where(q) = IF place[q] = Out THEN {} ELSE {place[q]}

Tells(n, q) == event[n].player = q /\ event[n].kind \in {"join", "spawn", "position"}

\* In that case his object, with the TeamSpeak id that connects him to his voice, is as
\* the last event said that tells it: TryAdd never meets an older object (HandleSpawn,
\* HandlePosition).
DataIsFresh ==
    \A q \in Players : (Settled(q) /\ place[q] # Out) =>
        \A n \in 1 .. published :
            Tells(n, q) => n <= data[dict[place[q]][q]]

\* HandleLeave says that it removes the player completely: a player who left, and whose
\* events are all handled, is in no dictionary.
LeftIsGone ==
    \A q \in Players : (Quiet(q) /\ place[q] = Out) => Where(q) = {}
=============================================================================
