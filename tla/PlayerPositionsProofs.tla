------------------------ MODULE PlayerPositionsProofs ------------------------
(***************************************************************************)
(* What the dictionaries of AviaBot keep true however the tasks of the     *)
(* deliveries interleave, for every number of players and deliveries.      *)
(*                                                                         *)
(* An object belongs to one owner at a time: the task that makes it, until *)
(* that is done; a dictionary; or the task that took it out (pc "move").   *)
(* IsInLobby is only changed by an owner that is a task (Owned).           *)
(*                                                                         *)
(* Where a player is follows from the story of his own events (Story): a   *)
(* task that overtakes none finds him where the event before put him, and  *)
(* puts him where its own event says.                                      *)
(***************************************************************************)
EXTENDS PlayerPositions, TLAPS

\* A delivery that was not published has no task.
NotYet == \A n \in Numbers : n > published => pc[n] = "none"

\* What lies in a dictionary was finished by its maker.
ListedIsMade ==
    \A l \in Lists, q \in Players : dict[l][q] # 0 => pc[dict[l][q]] = "done"

\* A task that took an object out is its only owner.
MovedIsOwned ==
    \A n \in Numbers : pc[n] = "move" =>
        /\ pc[held[n]] = "done"
        /\ \A l \in Lists, q \in Players : dict[l][q] # held[n]
        /\ \A m \in Numbers : pc[m] = "move" /\ held[m] = held[n] => m = n

Owned == ListedIsMade /\ MovedIsOwned /\ FlagMatchesList

Inv == TypeOK /\ NotYet /\ Owned

\* No dictionary and no other task has the object o.
OnlyMine(n, o) ==
    /\ \A l \in Lists, q \in Players : dict[l][q] # o
    /\ \A m \in Numbers : m # n /\ pc[m] = "move" => held[m] # o

USE DEF objectVars, gameVars, historyVars, vars

-----------------------------------------------------------------------------
(* Types *)

LEMMA ListsAre ==
    /\ \A i \in 1 .. 4 : Order[i] \in Lists
    /\ \A c \in Coalitions : <<"lobby", c>> \in Lists /\ <<"active", c>> \in Lists
    /\ \A c \in Coalitions : <<"lobby", c>>[1] = "lobby" /\ <<"active", c>>[1] # "lobby"
<1>1. \A i \in 1 .. 4 : Order[i] \in Lists
    BY DEF Order, Lists, Coalitions
<1> QED BY <1>1 DEF Lists

LEMMA InitInv == Init => Inv
<1> SUFFICES ASSUME Init PROVE Inv
    OBVIOUS
<1>1. NoEvent \in Event
    BY PositionAssumption DEF NoEvent, Event, Coalitions
<1>2. \A l \in Lists, q \in Players : dict[l][q] = 0
    BY DEF Init
<1>3. \A n \in Numbers : pc[n] = "none"
    BY DEF Init
<1>4. TypeOK
    <2>1. pc \in [Numbers -> {"none", "remove", "clear", "join", "unlobby", "spawn",
                              "take", "move", "look", "update", "done"}]
        BY DEF Init
    <2>2. event \in [Numbers -> Event]
        BY <1>1 DEF Init
    <2>3. dict \in [Lists -> [Players -> 0 .. MaxEvents]]
        BY PositionAssumption DEF Init
    <2> QED BY <1>3, <2>1, <2>2, <2>3, PositionAssumption DEF Init, TypeOK
<1> QED BY <1>2, <1>3, <1>4 DEF Inv, NotYet, Owned, ListedIsMade, MovedIsOwned, FlagMatchesList

\* The numbers of deliveries, and the player and the dictionaries of an event.
LEMMA EventType ==
    ASSUME TypeOK, NEW n \in Numbers
    PROVE  /\ event[n].player \in Players
           /\ Lobby(n) \in Lists /\ Lobby(n)[1] = "lobby"
           /\ Active(n) \in Lists /\ Active(n)[1] # "lobby"
           /\ At(n, Lobby(n)) \in 0 .. MaxEvents /\ At(n, Active(n)) \in 0 .. MaxEvents
<1>1. event[n] \in Event
    BY DEF TypeOK
<1>2. event[n].player \in Players /\ event[n].country \in Coalitions
    BY <1>1 DEF Event
<1>3. /\ Lobby(n) \in Lists /\ Lobby(n)[1] = "lobby"
      /\ Active(n) \in Lists /\ Active(n)[1] # "lobby"
    BY <1>2, ListsAre DEF Lobby, Active
<1> QED BY <1>2, <1>3 DEF At, TypeOK

\* What every operation of a task leaves in order.
LEMMA GoesType ==
    ASSUME TypeOK, NotYet, NEW n \in Numbers,
           NEW at \in {"remove", "clear", "join", "unlobby", "spawn", "take", "move",
                       "look", "update"},
           NEW to \in {"remove", "clear", "join", "unlobby", "spawn", "take", "move",
                       "look", "update", "done"},
           Goes(n, at, to)
    PROVE  /\ pc' \in [Numbers -> {"none", "remove", "clear", "join", "unlobby", "spawn",
                                   "take", "move", "look", "update", "done"}]
           /\ \A m \in Numbers : pc'[m] = IF m = n THEN to ELSE pc[m]
           /\ settled' \in [Players -> 0 .. MaxEvents]
           /\ tangled' \in [Players -> 0 .. MaxEvents]
           /\ published' \in 0 .. MaxEvents /\ event' \in [Numbers -> Event]
           /\ place' \in [Players -> Lists \cup {Out}]
           /\ NotYet'
<1>1. n \in 0 .. MaxEvents
    BY DEF Numbers
<1>2. \A q \in Players : settled[q] \in 0 .. MaxEvents /\ tangled[q] \in 0 .. MaxEvents
    BY DEF TypeOK
<1>3. settled' \in [Players -> 0 .. MaxEvents]
    BY <1>1, <1>2 DEF Goes, Larger
<1>4. tangled' \in [Players -> 0 .. MaxEvents]
    BY <1>1, <1>2 DEF Goes, Larger
<1>5. \A m \in Numbers : pc'[m] = IF m = n THEN to ELSE pc[m]
    BY DEF Goes, TypeOK
<1>6. pc' \in [Numbers -> {"none", "remove", "clear", "join", "unlobby", "spawn",
                           "take", "move", "look", "update", "done"}]
    BY DEF Goes, TypeOK
<1>7. UNCHANGED <<published, event, place>>
    BY DEF Goes
<1>8. NotYet'
    <2> SUFFICES ASSUME NEW m \in Numbers, m > published PROVE pc'[m] = "none"
        BY <1>7 DEF NotYet
    <2>1. pc[m] = "none"
        BY DEF NotYet
    <2>2. m # n
        BY <2>1 DEF Goes
    <2> QED BY <1>5, <2>1, <2>2
<1> QED BY <1>3, <1>4, <1>5, <1>6, <1>7, <1>8 DEF TypeOK

-----------------------------------------------------------------------------
(* Who owns an object *)

\* An entry of a dictionary is null or the number of a delivery.
LEMMA EntryType ==
    ASSUME TypeOK, NEW l \in Lists, NEW q \in Players, dict[l][q] # 0
    PROVE  dict[l][q] \in Numbers
<1>1. dict[l] \in [Players -> 0 .. MaxEvents]
    BY DEF TypeOK
<1>2. dict[l][q] \in 0 .. MaxEvents
    BY <1>1
<1> QED BY <1>2, PositionAssumption DEF Numbers

\* An operation that at most takes objects out of dictionaries, and hands none over.
LEMMA Shrinks ==
    ASSUME TypeOK, TypeOK', Owned, NEW n \in Numbers,
           pc[n] # "done", pc'[n] # "move",
           \A m \in Numbers : m # n => pc'[m] = pc[m],
           \A m \in Numbers : m # n => held'[m] = held[m],
           UNCHANGED isInLobby,
           \A l \in Lists, q \in Players : dict'[l][q] \in {0, dict[l][q]}
    PROVE  Owned'
<1>1. ASSUME NEW l \in Lists, NEW q \in Players, dict'[l][q] # 0
      PROVE  dict'[l][q] = dict[l][q] /\ dict[l][q] \in Numbers
    BY <1>1, EntryType
<1>2. ListedIsMade'
    <2> SUFFICES ASSUME NEW l \in Lists, NEW q \in Players, dict'[l][q] # 0
                 PROVE  pc'[dict'[l][q]] = "done"
        BY DEF ListedIsMade
    <2>1. pc[dict[l][q]] = "done"
        BY <1>1 DEF Owned, ListedIsMade
    <2> QED BY <1>1, <2>1
<1>3. MovedIsOwned'
    <2> SUFFICES ASSUME NEW m \in Numbers, pc'[m] = "move"
                 PROVE  /\ pc'[held'[m]] = "done"
                        /\ \A l \in Lists, q \in Players : dict'[l][q] # held'[m]
                        /\ \A k \in Numbers : pc'[k] = "move" /\ held'[k] = held'[m] => k = m
        BY DEF MovedIsOwned
    <2>1. m # n /\ pc[m] = "move" /\ held'[m] = held[m]
        OBVIOUS
    <2>2. held[m] \in Numbers
        BY <2>1, PositionAssumption DEF TypeOK, Numbers
    <2>3. pc[held[m]] = "done"
        BY <2>1 DEF Owned, MovedIsOwned
    <2>4. \A l \in Lists, q \in Players : dict[l][q] # held[m]
        BY <2>1 DEF Owned, MovedIsOwned
    <2>5. \A l \in Lists, q \in Players : dict'[l][q] # held'[m]
        <3>1. held'[m] # 0
            BY <2>1, <2>2 DEF Numbers
        <3> QED BY <2>1, <2>4, <3>1
    <2>6. \A k \in Numbers : pc'[k] = "move" /\ held'[k] = held'[m] => k = m
        BY <2>1 DEF Owned, MovedIsOwned
    <2> QED BY <2>1, <2>2, <2>3, <2>5, <2>6
<1>4. FlagMatchesList'
    <2> SUFFICES ASSUME NEW l \in Lists, NEW q \in Players, dict'[l][q] # 0
                 PROVE  /\ isInLobby'[dict'[l][q]] = (l[1] = "lobby")
                        /\ \A m \in Lists, r \in Players :
                              dict'[m][r] = dict'[l][q] => m = l /\ r = q
        BY DEF FlagMatchesList
    <2>1. dict'[l][q] = dict[l][q]
        BY <1>1
    <2>2. isInLobby[dict[l][q]] = (l[1] = "lobby")
        BY <2>1 DEF Owned, FlagMatchesList
    <2>3. \A m \in Lists, r \in Players : dict[m][r] = dict[l][q] => m = l /\ r = q
        BY <2>1 DEF Owned, FlagMatchesList
    <2>4. \A m \in Lists, r \in Players : dict'[m][r] = dict'[l][q] => dict'[m][r] = dict[m][r]
        BY <1>1
    <2> QED BY <2>1, <2>2, <2>3, <2>4
<1> QED BY <1>2, <1>3, <1>4 DEF Owned

\* A task that is done with TryAdd: its object o, which nobody else owned, is in one
\* dictionary afterwards, or in none.
LEMMA Adds ==
    ASSUME TypeOK, TypeOK', Owned, NEW n \in Numbers, NEW o \in Numbers,
           NEW list \in Lists,
           \A m \in Numbers : pc'[m] = IF m = n THEN "done" ELSE pc[m],
           pc'[o] = "done",
           UNCHANGED held,
           OnlyMine(n, o),
           isInLobby' = [isInLobby EXCEPT ![o] = (list[1] = "lobby")],
           TryAdd(n, list, o)
    PROVE  Owned'
<1> DEFINE p == event[n].player
<1>0. p \in Players /\ o # 0
    BY EventType DEF Numbers
<1>1. \A l \in Lists, q \in Players :
          \/ dict'[l][q] = dict[l][q]
          \/ l = list /\ q = p /\ dict'[l][q] = o
    BY <1>0 DEF TryAdd, Put, TypeOK
<1>2. \A l \in Lists, q \in Players : dict'[l][q] = o => l = list /\ q = p
    BY <1>1 DEF OnlyMine
<1>3. \A l \in Lists, q \in Players : dict'[l][q] # o => dict'[l][q] = dict[l][q]
    BY <1>1
<1>4. \A m \in Numbers : m # o => isInLobby'[m] = isInLobby[m]
    BY DEF TypeOK
<1>5. isInLobby'[o] = (list[1] = "lobby")
    BY DEF TypeOK
<1>6. \A m \in Numbers : pc[m] = "done" => pc'[m] = "done"
    OBVIOUS
<1>7. \A l \in Lists, q \in Players : dict[l][q] # 0 => dict[l][q] \in Numbers
    BY EntryType
<1>8. ListedIsMade'
    <2> SUFFICES ASSUME NEW l \in Lists, NEW q \in Players, dict'[l][q] # 0
                 PROVE  pc'[dict'[l][q]] = "done"
        BY DEF ListedIsMade
    <2>1. CASE dict'[l][q] = o
        BY <2>1
    <2>2. CASE dict'[l][q] # o
        <3>1. dict'[l][q] = dict[l][q]
            BY <1>3, <2>2
        <3>2. pc[dict[l][q]] = "done"
            BY <3>1 DEF Owned, ListedIsMade
        <3> QED BY <1>6, <1>7, <3>1, <3>2
    <2> QED BY <2>1, <2>2
<1>9. MovedIsOwned'
    <2> SUFFICES ASSUME NEW m \in Numbers, pc'[m] = "move"
                 PROVE  /\ pc'[held'[m]] = "done"
                        /\ \A l \in Lists, q \in Players : dict'[l][q] # held'[m]
                        /\ \A k \in Numbers : pc'[k] = "move" /\ held'[k] = held'[m] => k = m
        BY DEF MovedIsOwned
    <2>1. m # n /\ pc[m] = "move" /\ held'[m] = held[m]
        OBVIOUS
    <2>2. held[m] \in Numbers /\ held[m] # o
        BY <2>1, PositionAssumption DEF TypeOK, Numbers, OnlyMine
    <2>3. pc[held[m]] = "done"
        BY <2>1 DEF Owned, MovedIsOwned
    <2>4. \A l \in Lists, q \in Players : dict[l][q] # held[m]
        BY <2>1 DEF Owned, MovedIsOwned
    <2>5. \A l \in Lists, q \in Players : dict'[l][q] # held'[m]
        BY <1>1, <2>1, <2>2, <2>4
    <2>6. \A k \in Numbers : pc[k] = "move" /\ held[k] = held[m] => k = m
        BY <2>1 DEF Owned, MovedIsOwned
    <2>7. \A k \in Numbers : pc'[k] = "move" => pc[k] = "move"
        OBVIOUS
    <2> QED BY <1>6, <2>1, <2>2, <2>3, <2>5, <2>6, <2>7
<1>10. FlagMatchesList'
    <2> SUFFICES ASSUME NEW l \in Lists, NEW q \in Players, dict'[l][q] # 0
                 PROVE  /\ isInLobby'[dict'[l][q]] = (l[1] = "lobby")
                        /\ \A m \in Lists, r \in Players :
                              dict'[m][r] = dict'[l][q] => m = l /\ r = q
        BY DEF FlagMatchesList
    <2>1. CASE dict'[l][q] = o
        BY <1>2, <1>5, <2>1
    <2>2. CASE dict'[l][q] # o
        <3>1. dict'[l][q] = dict[l][q] /\ dict[l][q] \in Numbers
            BY <1>3, <1>7, <2>2
        <3>2. isInLobby[dict[l][q]] = (l[1] = "lobby")
            BY <3>1 DEF Owned, FlagMatchesList
        <3>3. \A m \in Lists, r \in Players : dict[m][r] = dict[l][q] => m = l /\ r = q
            BY <3>1 DEF Owned, FlagMatchesList
        <3>4. \A m \in Lists, r \in Players :
                  dict'[m][r] = dict'[l][q] => dict[m][r] = dict[l][q]
            BY <1>3, <2>2, <3>1
        <3>5. isInLobby'[dict'[l][q]] = (l[1] = "lobby")
            BY <1>4, <2>2, <3>1, <3>2
        <3> QED BY <3>3, <3>4, <3>5
    <2> QED BY <2>1, <2>2
<1> QED BY <1>8, <1>9, <1>10 DEF Owned

-----------------------------------------------------------------------------
(* The operations *)

LEMMA PublishInv ==
    ASSUME Inv, NEW kind \in Kinds, NEW q \in Players, NEW c \in Coalitions,
           Publish(kind, q, c)
    PROVE  Inv'
<1> DEFINE n == published + 1
<1>1. TypeOK /\ NotYet /\ Owned
    BY DEF Inv
<1>2. n \in Numbers /\ published' = n /\ n \in 0 .. MaxEvents
    BY <1>1, PositionAssumption DEF Publish, TypeOK, Numbers
<1>3. pc[n] = "none"
    BY <1>1, <1>2 DEF NotYet, TypeOK
<1>4. FirstStep[kind] \in {"remove", "clear", "unlobby", "take", "look"}
    <2>1. kind \in {"join", "leave", "spawn", "despawn", "position", "clear"}
        BY DEF Kinds
    <2>2. /\ FirstStep["join"] = "remove"
          /\ FirstStep["leave"] = "remove"
          /\ FirstStep["spawn"] = "unlobby"
          /\ FirstStep["despawn"] = "take"
          /\ FirstStep["position"] = "look"
          /\ FirstStep["clear"] = "clear"
        BY DEF FirstStep
    <2> QED BY <2>1, <2>2
<1>5. /\ pc' \in [Numbers -> {"none", "remove", "clear", "join", "unlobby", "spawn",
                              "take", "move", "look", "update", "done"}]
      /\ \A m \in Numbers : pc'[m] = IF m = n THEN FirstStep[kind] ELSE pc[m]
    BY <1>1, <1>2, <1>4 DEF Publish, TypeOK
<1>6. event' \in [Numbers -> Event]
    BY <1>1, <1>2 DEF Publish, TypeOK, Event
<1>7. place' \in [Players -> Lists \cup {Out}]
    <2>1. <<"lobby", c>> \in Lists /\ <<"active", c>> \in Lists
        BY ListsAre
    <2> QED BY <1>1, <2>1 DEF Publish, Moves, TypeOK
<1>8. UNCHANGED <<dict, isInLobby, data, step, held, settled, tangled>>
    BY DEF Publish
<1>9. TypeOK'
    <2>1. \A m \in Numbers : pc'[m] \in {"move", "update"} => held'[m] # 0
        BY <1>1, <1>4, <1>5, <1>8 DEF TypeOK
    <2> QED BY <1>1, <1>2, <1>5, <1>6, <1>7, <1>8, <2>1 DEF TypeOK
<1>10. NotYet'
    BY <1>1, <1>2, <1>5 DEF NotYet, TypeOK, Numbers
<1>11. Owned'
    <2>1. \A l \in Lists, r \in Players : dict'[l][r] \in {0, dict[l][r]}
        BY <1>8
    <2> QED BY <1>1, <1>2, <1>3, <1>4, <1>5, <1>8, <1>9, <2>1, Shrinks
<1> QED BY <1>9, <1>10, <1>11 DEF Inv

\* Emptying a place of a dictionary.
LEMMA PutNothing ==
    ASSUME TypeOK, NEW n \in Numbers, NEW list \in Lists, Put(n, list, 0)
    PROVE  /\ dict' \in [Lists -> [Players -> 0 .. MaxEvents]]
           /\ \A l \in Lists, q \in Players : dict'[l][q] \in {0, dict[l][q]}
           /\ dict'[list][event[n].player] = 0
<1>1. event[n].player \in Players
    BY EventType
<1>2. 0 \in 0 .. MaxEvents
    BY PositionAssumption
<1>3. dict[list] \in [Players -> 0 .. MaxEvents]
    BY DEF TypeOK
<1>4. [dict[list] EXCEPT ![event[n].player] = 0] \in [Players -> 0 .. MaxEvents]
    BY <1>2, <1>3
<1>5. dict' = [dict EXCEPT ![list] = [dict[list] EXCEPT ![event[n].player] = 0]]
    BY DEF Put
<1>6. dict' \in [Lists -> [Players -> 0 .. MaxEvents]]
    BY <1>4, <1>5 DEF TypeOK
<1>7. \A l \in Lists : dict'[l] = IF l = list THEN [dict[list] EXCEPT ![event[n].player] = 0]
                                  ELSE dict[l]
    BY <1>5 DEF TypeOK
<1>8. \A l \in Lists, q \in Players : dict'[l][q] \in {0, dict[l][q]}
    BY <1>3, <1>7
<1>9. dict'[list][event[n].player] = 0
    BY <1>1, <1>3, <1>7
<1> QED BY <1>6, <1>8, <1>9

\* Adding an object to a dictionary.
LEMMA AddType ==
    ASSUME TypeOK, NEW n \in Numbers, NEW list \in Lists, NEW o \in Numbers,
           TryAdd(n, list, o)
    PROVE  dict' \in [Lists -> [Players -> 0 .. MaxEvents]]
<1>1. event[n].player \in Players /\ o \in 0 .. MaxEvents
    BY EventType DEF Numbers
<1>2. dict[list] \in [Players -> 0 .. MaxEvents]
    BY DEF TypeOK
<1>3. [dict[list] EXCEPT ![event[n].player] = o] \in [Players -> 0 .. MaxEvents]
    BY <1>1, <1>2
<1>4. \/ dict' = [dict EXCEPT ![list] = [dict[list] EXCEPT ![event[n].player] = o]]
      \/ dict' = dict
    BY DEF TryAdd, Put
<1> QED BY <1>3, <1>4 DEF TypeOK

LEMMA RemoveInv ==
    ASSUME Inv, NEW n \in Numbers, Remove(n)
    PROVE  Inv'
<1> DEFINE to == IF step[n] < 4 THEN "remove"
                 ELSE IF event[n].kind = "join" THEN "join" ELSE "done"
<1>1. TypeOK /\ NotYet /\ Owned
    BY DEF Inv
<1>2. Goes(n, "remove", to) /\ to \in {"remove", "join", "done"}
    BY DEF Remove
<1> HIDE DEF to
<1>3. step[n] \in 1 .. 4 /\ Order[step[n]] \in Lists
    BY <1>1, ListsAre DEF TypeOK
<1>4. /\ dict' \in [Lists -> [Players -> 0 .. MaxEvents]]
      /\ \A l \in Lists, q \in Players : dict'[l][q] \in {0, dict[l][q]}
    BY <1>1, <1>3, PutNothing DEF Remove
<1>5. step' \in [Numbers -> 1 .. 4]
    BY <1>1, <1>3 DEF Remove, NextStep, TypeOK
<1>6. UNCHANGED <<isInLobby, data, held>>
    BY DEF Remove
<1>7. \A m \in Numbers : pc'[m] = IF m = n THEN to ELSE pc[m]
    BY <1>1, <1>2, GoesType
<1>8. TypeOK' /\ NotYet'
    <2>1. \A m \in Numbers : pc'[m] \in {"move", "update"} => held'[m] # 0
        BY <1>1, <1>2, <1>6, <1>7 DEF TypeOK
    <2> QED BY <1>1, <1>2, <1>4, <1>5, <1>6, <2>1, GoesType DEF TypeOK
<1>9. pc[n] # "done"
    BY <1>2 DEF Goes
<1>10. Owned'
    BY <1>1, <1>2, <1>4, <1>6, <1>7, <1>8, <1>9, Shrinks
<1> QED BY <1>8, <1>10 DEF Inv

LEMMA ClearInv ==
    ASSUME Inv, NEW n \in Numbers, Clear(n)
    PROVE  Inv'
<1> DEFINE to == IF step[n] < 4 THEN "clear" ELSE "done"
<1>1. TypeOK /\ NotYet /\ Owned
    BY DEF Inv
<1>2. Goes(n, "clear", to) /\ to \in {"clear", "done"}
    BY DEF Clear
<1> HIDE DEF to
<1>3. step[n] \in 1 .. 4 /\ Order[step[n]] \in Lists
    BY <1>1, ListsAre DEF TypeOK
<1>4. /\ dict' \in [Lists -> [Players -> 0 .. MaxEvents]]
      /\ \A l \in Lists, q \in Players : dict'[l][q] \in {0, dict[l][q]}
    <2>1. [q \in Players |-> 0] \in [Players -> 0 .. MaxEvents]
        BY PositionAssumption
    <2>2. dict' = [dict EXCEPT ![Order[step[n]]] = [q \in Players |-> 0]]
        BY DEF Clear
    <2> QED BY <1>1, <1>3, <2>1, <2>2 DEF TypeOK
<1>5. step' \in [Numbers -> 1 .. 4]
    BY <1>1, <1>3 DEF Clear, NextStep, TypeOK
<1>6. UNCHANGED <<isInLobby, data, held>>
    BY DEF Clear
<1>7. \A m \in Numbers : pc'[m] = IF m = n THEN to ELSE pc[m]
    BY <1>1, <1>2, GoesType
<1>8. TypeOK' /\ NotYet'
    <2>1. \A m \in Numbers : pc'[m] \in {"move", "update"} => held'[m] # 0
        BY <1>1, <1>2, <1>6, <1>7 DEF TypeOK
    <2> QED BY <1>1, <1>2, <1>4, <1>5, <1>6, <2>1, GoesType DEF TypeOK
<1>9. pc[n] # "done"
    BY <1>2 DEF Goes
<1>10. Owned'
    BY <1>1, <1>2, <1>4, <1>6, <1>7, <1>8, <1>9, Shrinks
<1> QED BY <1>8, <1>10 DEF Inv

LEMMA UnlobbyInv ==
    ASSUME Inv, NEW n \in Numbers, Unlobby(n)
    PROVE  Inv'
<1>1. TypeOK /\ NotYet /\ Owned
    BY DEF Inv
<1>2. Goes(n, "unlobby", "spawn") /\ pc[n] # "done"
    BY DEF Unlobby, Goes
<1>3. /\ dict' \in [Lists -> [Players -> 0 .. MaxEvents]]
      /\ \A l \in Lists, q \in Players : dict'[l][q] \in {0, dict[l][q]}
    BY <1>1, EventType, PutNothing DEF Unlobby
<1>4. UNCHANGED <<isInLobby, data, step, held>>
    BY DEF Unlobby
<1>5. \A m \in Numbers : pc'[m] = IF m = n THEN "spawn" ELSE pc[m]
    BY <1>1, <1>2, GoesType
<1>6. TypeOK' /\ NotYet'
    <2>1. \A m \in Numbers : pc'[m] \in {"move", "update"} => held'[m] # 0
        BY <1>1, <1>4, <1>5 DEF TypeOK
    <2> QED BY <1>1, <1>2, <1>3, <1>4, <2>1, GoesType DEF TypeOK
<1>7. Owned'
    BY <1>1, <1>2, <1>3, <1>4, <1>5, <1>6, Shrinks
<1> QED BY <1>6, <1>7 DEF Inv

\* Join and Spawn: the object is the task's own.
LEMMA MakeInv ==
    ASSUME Inv, NEW n \in Numbers, Join(n) \/ Spawn(n)
    PROVE  Inv'
<1> DEFINE at == pc[n]
           list == IF Join(n) THEN Lobby(n) ELSE Active(n)
<1>1. TypeOK /\ NotYet /\ Owned
    BY DEF Inv
<1>2. Goes(n, at, "done") /\ at \in {"join", "spawn"}
    BY DEF Join, Spawn, Goes
<1>3. list \in Lists /\ TryAdd(n, list, n)
    BY <1>1, EventType DEF Join, Spawn
<1>4. isInLobby' = [isInLobby EXCEPT ![n] = (list[1] = "lobby")]
    BY <1>1, EventType DEF Join, Spawn
<1>5. data' = [data EXCEPT ![n] = n] /\ UNCHANGED <<step, held>>
    BY DEF Join, Spawn
<1> HIDE DEF at, list
<1>6. \A m \in Numbers : pc'[m] = IF m = n THEN "done" ELSE pc[m]
    BY <1>1, <1>2, GoesType
<1>7. TypeOK' /\ NotYet'
    <2>1. \A m \in Numbers : pc'[m] \in {"move", "update"} => held'[m] # 0
        BY <1>1, <1>5, <1>6 DEF TypeOK
    <2>2. isInLobby' \in [Numbers -> BOOLEAN]
        BY <1>1, <1>4 DEF TypeOK
    <2>3. data' \in [Numbers -> 0 .. MaxEvents]
        BY <1>1, <1>5 DEF TypeOK, Numbers
    <2>4. dict' \in [Lists -> [Players -> 0 .. MaxEvents]]
        BY <1>1, <1>3, AddType
    <2> QED BY <1>1, <1>2, <1>5, <2>1, <2>2, <2>3, <2>4, GoesType DEF TypeOK
<1>8. pc[n] # "done"
    BY <1>2 DEF Goes
<1>9. OnlyMine(n, n)
    BY <1>1, <1>8 DEF Owned, ListedIsMade, MovedIsOwned, OnlyMine, Numbers
<1>10. Owned'
    BY <1>1, <1>3, <1>4, <1>5, <1>6, <1>7, <1>9, Adds
<1> QED BY <1>7, <1>10 DEF Inv

\* MoveToLobby's TryRemove.
LEMMA TakeInv ==
    ASSUME Inv, NEW n \in Numbers, Take(n)
    PROVE  Inv'
<1> DEFINE o == At(n, Active(n))
           p == event[n].player
           to == IF o = 0 THEN "done" ELSE "move"
<1>1. TypeOK /\ NotYet /\ Owned
    BY DEF Inv
<1>2. Goes(n, "take", to) /\ to \in {"done", "move"}
    BY DEF Take
<1>3. p \in Players /\ Active(n) \in Lists /\ o \in 0 .. MaxEvents /\ o = dict[Active(n)][p]
    BY <1>1, EventType DEF At
<1>4. /\ dict' \in [Lists -> [Players -> 0 .. MaxEvents]]
      /\ \A l \in Lists, q \in Players : dict'[l][q] \in {0, dict[l][q]}
      /\ dict'[Active(n)][p] = 0
    BY <1>1, <1>3, PutNothing DEF Take
<1>5. UNCHANGED <<isInLobby, data, step>>
    BY DEF Take
<1>6. /\ held' \in [Numbers -> 0 .. MaxEvents]
      /\ \A m \in Numbers : held'[m] = IF m = n THEN o ELSE held[m]
    BY <1>1, <1>3 DEF Take, TypeOK
<1>7. \A m \in Numbers : pc'[m] = IF m = n THEN to ELSE pc[m]
    BY <1>1, <1>2, GoesType
<1>8. TypeOK' /\ NotYet'
    <2>1. \A m \in Numbers : pc'[m] \in {"move", "update"} => held'[m] # 0
        BY <1>1, <1>6, <1>7 DEF TypeOK
    <2> HIDE DEF o, to
    <2> QED BY <1>1, <1>2, <1>4, <1>5, <1>6, <2>1, GoesType DEF TypeOK
<1>9. pc[n] # "done"
    BY <1>2 DEF Goes
<1>10. CASE o = 0
    <2>1. to = "done"
        BY <1>10
    <2> HIDE DEF o, to
    <2>2. \A m \in Numbers : m # n => held'[m] = held[m]
        BY <1>6
    <2>3. pc'[n] # "move" /\ \A m \in Numbers : m # n => pc'[m] = pc[m]
        BY <1>7, <2>1
    <2>4. UNCHANGED isInLobby
        BY <1>5
    <2>5. \A l \in Lists, q \in Players : dict'[l][q] \in {0, dict[l][q]}
        BY <1>4
    <2>6. TypeOK /\ TypeOK' /\ Owned
        BY <1>1, <1>8
    <2>7. Owned'
        BY <1>9, <2>2, <2>3, <2>4, <2>5, <2>6, Shrinks
    <2> QED BY <1>8, <2>7 DEF Inv
<1>11. CASE o # 0
    <2>1. o \in Numbers
        BY <1>1, <1>3, <1>11, EntryType
    <2>2. pc[o] = "done" /\ o # n
        BY <1>1, <1>3, <1>9, <1>11 DEF Owned, ListedIsMade
    <2>3. \A l \in Lists, q \in Players : dict[l][q] = o => l = Active(n) /\ q = p
        BY <1>1, <1>3, <1>11 DEF Owned, FlagMatchesList
    <2>4. \A m \in Numbers : pc[m] = "move" => held[m] # o
        BY <1>1, <1>3 DEF Owned, MovedIsOwned
    <2> HIDE DEF o, p
    <2>5. \A l \in Lists, q \in Players : dict'[l][q] # o
        BY <1>4, <1>11, <2>3
    <2>6. \A l \in Lists, q \in Players : dict'[l][q] # 0 =>
              dict'[l][q] = dict[l][q] /\ dict[l][q] \in Numbers
        BY <1>1, <1>4, EntryType
    <2>7. \A m \in Numbers : pc[m] = "done" => pc'[m] = "done"
        BY <1>7, <1>9
    <2>8. ListedIsMade'
        <3> SUFFICES ASSUME NEW l \in Lists, NEW q \in Players, dict'[l][q] # 0
                     PROVE  pc'[dict'[l][q]] = "done"
            BY DEF ListedIsMade
        <3>1. pc[dict[l][q]] = "done"
            BY <1>1, <2>6 DEF Owned, ListedIsMade
        <3> QED BY <2>6, <2>7, <3>1
    <2>9. MovedIsOwned'
        <3> SUFFICES ASSUME NEW m \in Numbers, pc'[m] = "move"
                     PROVE  /\ pc'[held'[m]] = "done"
                            /\ \A l \in Lists, q \in Players : dict'[l][q] # held'[m]
                            /\ \A k \in Numbers :
                                  pc'[k] = "move" /\ held'[k] = held'[m] => k = m
            BY DEF MovedIsOwned
        <3>1. CASE m = n
            <4>1. held'[m] = o
                BY <1>6, <3>1
            <4>2. \A k \in Numbers : pc'[k] = "move" /\ held'[k] = o => k = n
                BY <1>6, <1>7, <2>4
            <4> QED BY <2>1, <2>2, <2>5, <2>7, <3>1, <4>1, <4>2
        <3>2. CASE m # n
            <4>1. pc[m] = "move" /\ held'[m] = held[m]
                BY <1>6, <1>7, <3>2
            <4>2. held[m] # 0 /\ held[m] \in Numbers /\ held[m] # o
                BY <1>1, <2>4, <4>1, PositionAssumption DEF TypeOK, Numbers
            <4>3. pc'[held[m]] = "done"
                BY <1>1, <2>7, <4>1, <4>2 DEF Owned, MovedIsOwned
            <4>4. \A l \in Lists, q \in Players : dict[l][q] # held[m]
                BY <1>1, <4>1 DEF Owned, MovedIsOwned
            <4>5. \A l \in Lists, q \in Players : dict'[l][q] # held[m]
                BY <2>6, <4>2, <4>4
            <4>6. \A k \in Numbers : pc[k] = "move" /\ held[k] = held[m] => k = m
                BY <1>1, <4>1 DEF Owned, MovedIsOwned
            <4>7. \A k \in Numbers : pc'[k] = "move" /\ held'[k] = held[m] => k = m
                BY <1>6, <1>7, <4>2, <4>6
            <4> QED BY <4>1, <4>3, <4>5, <4>7
        <3> QED BY <3>1, <3>2
    <2>10. FlagMatchesList'
        <3> SUFFICES ASSUME NEW l \in Lists, NEW q \in Players, dict'[l][q] # 0
                     PROVE  /\ isInLobby'[dict'[l][q]] = (l[1] = "lobby")
                            /\ \A m \in Lists, r \in Players :
                                  dict'[m][r] = dict'[l][q] => m = l /\ r = q
            BY DEF FlagMatchesList
        <3>1. dict'[l][q] = dict[l][q] /\ dict[l][q] # 0
            BY <2>6
        <3>2. isInLobby[dict[l][q]] = (l[1] = "lobby")
            BY <1>1, <3>1 DEF Owned, FlagMatchesList
        <3>3. \A m \in Lists, r \in Players : dict[m][r] = dict[l][q] => m = l /\ r = q
            BY <1>1, <3>1 DEF Owned, FlagMatchesList
        <3>4. \A m \in Lists, r \in Players :
                  dict'[m][r] = dict'[l][q] => dict[m][r] = dict[l][q]
            BY <2>6, <3>1
        <3>5. isInLobby'[dict'[l][q]] = (l[1] = "lobby")
            BY <1>5, <3>1, <3>2
        <3>6. \A m \in Lists, r \in Players : dict'[m][r] = dict'[l][q] => m = l /\ r = q
            BY <3>3, <3>4
        <3> QED BY <3>5, <3>6
    <2> QED BY <1>8, <2>8, <2>9, <2>10 DEF Inv, Owned
<1> QED BY <1>10, <1>11

\* MoveToLobby's TryAdd: the task owns the object it took.
LEMMA MoveInv ==
    ASSUME Inv, NEW n \in Numbers, Move(n)
    PROVE  Inv'
<1> DEFINE o == held[n]
<1>1. TypeOK /\ NotYet /\ Owned
    BY DEF Inv
<1>2. Goes(n, "move", "done") /\ pc[n] = "move"
    BY DEF Move, Goes
<1>3. o \in Numbers
    BY <1>1, <1>2, PositionAssumption DEF TypeOK, Numbers
<1>4. Lobby(n) \in Lists /\ Lobby(n)[1] = "lobby"
    BY <1>1, EventType
<1>5. /\ pc[o] = "done"
      /\ \A l \in Lists, q \in Players : dict[l][q] # o
      /\ \A m \in Numbers : pc[m] = "move" /\ held[m] = o => m = n
    BY <1>1, <1>2 DEF Owned, MovedIsOwned
<1>6. TryAdd(n, Lobby(n), o) /\ UNCHANGED <<data, step>> /\ UNCHANGED held
    BY DEF Move
<1>7. isInLobby' = [isInLobby EXCEPT ![o] = (Lobby(n)[1] = "lobby")]
    BY <1>4 DEF Move
<1> HIDE DEF o
<1>8. \A m \in Numbers : pc'[m] = IF m = n THEN "done" ELSE pc[m]
    BY <1>1, <1>2, GoesType
<1>9. TypeOK' /\ NotYet'
    <2>1. \A m \in Numbers : pc'[m] \in {"move", "update"} => held'[m] # 0
        BY <1>1, <1>6, <1>8 DEF TypeOK
    <2>2. isInLobby' \in [Numbers -> BOOLEAN]
        BY <1>1, <1>7 DEF TypeOK
    <2>3. dict' \in [Lists -> [Players -> 0 .. MaxEvents]]
        BY <1>1, <1>3, <1>4, <1>6, AddType
    <2> QED BY <1>1, <1>2, <1>6, <2>1, <2>2, <2>3, GoesType DEF TypeOK
<1>10. OnlyMine(n, o)
    BY <1>5 DEF OnlyMine
<1>11. pc'[o] = "done"
    BY <1>3, <1>5, <1>8
<1>12. Owned'
    <2>1. TypeOK /\ TypeOK' /\ Owned
        BY <1>1, <1>9
    <2>2. PICK a \in Numbers, list \in Lists : a = o /\ list = Lobby(n)
        BY <1>3, <1>4
    <2>3. UNCHANGED held /\ TryAdd(n, list, a) /\ OnlyMine(n, a) /\ pc'[a] = "done"
        BY <1>6, <1>10, <1>11, <2>2
    <2>4. isInLobby' = [isInLobby EXCEPT ![a] = (list[1] = "lobby")]
        BY <1>7, <2>2
    <2> QED BY <1>8, <2>1, <2>3, <2>4, Adds
<1> QED BY <1>9, <1>12 DEF Inv

LEMMA LookInv ==
    ASSUME Inv, NEW n \in Numbers, Look(n)
    PROVE  Inv'
<1> DEFINE o == At(n, Active(n))
           to == IF o = 0 THEN "unlobby" ELSE "update"
<1>1. TypeOK /\ NotYet /\ Owned
    BY DEF Inv
<1>2. Goes(n, "look", to) /\ to \in {"unlobby", "update"} /\ pc[n] # "done"
    BY DEF Look, Goes
<1>3. o \in 0 .. MaxEvents
    BY <1>1, EventType
<1>4. /\ held' \in [Numbers -> 0 .. MaxEvents]
      /\ \A m \in Numbers : held'[m] = IF m = n THEN o ELSE held[m]
    BY <1>1, <1>3 DEF Look, TypeOK
<1>5. UNCHANGED <<dict, isInLobby, data, step>>
    BY DEF Look
<1>6. \A m \in Numbers : pc'[m] = IF m = n THEN to ELSE pc[m]
    BY <1>1, <1>2, GoesType
<1>7. TypeOK' /\ NotYet'
    <2>1. \A m \in Numbers : pc'[m] \in {"move", "update"} => held'[m] # 0
        BY <1>1, <1>4, <1>6 DEF TypeOK
    <2> HIDE DEF o, to
    <2> QED BY <1>1, <1>2, <1>4, <1>5, <2>1, GoesType DEF TypeOK
<1>8. \A l \in Lists, q \in Players : dict'[l][q] \in {0, dict[l][q]}
    BY <1>5
<1> HIDE DEF o, to
<1>9. Owned'
    BY <1>1, <1>2, <1>4, <1>5, <1>6, <1>7, <1>8, Shrinks
<1> QED BY <1>7, <1>9 DEF Inv

LEMMA UpdateInv ==
    ASSUME Inv, NEW n \in Numbers, Update(n)
    PROVE  Inv'
<1>1. TypeOK /\ NotYet /\ Owned
    BY DEF Inv
<1>2. Goes(n, "update", "done") /\ pc[n] # "done"
    BY DEF Update, Goes
<1>3. data' \in [Numbers -> 0 .. MaxEvents]
    <2>1. n \in 0 .. MaxEvents
        BY DEF Numbers
    <2> QED BY <1>1, <2>1 DEF Update, TypeOK
<1>4. UNCHANGED <<dict, isInLobby, step, held>>
    BY DEF Update
<1>5. \A m \in Numbers : pc'[m] = IF m = n THEN "done" ELSE pc[m]
    BY <1>1, <1>2, GoesType
<1>6. TypeOK' /\ NotYet'
    <2>1. \A m \in Numbers : pc'[m] \in {"move", "update"} => held'[m] # 0
        BY <1>1, <1>4, <1>5 DEF TypeOK
    <2> QED BY <1>1, <1>2, <1>3, <1>4, <2>1, GoesType DEF TypeOK
<1>7. \A l \in Lists, q \in Players : dict'[l][q] \in {0, dict[l][q]}
    BY <1>4
<1>8. Owned'
    BY <1>1, <1>2, <1>4, <1>5, <1>6, <1>7, Shrinks
<1> QED BY <1>6, <1>8 DEF Inv

-----------------------------------------------------------------------------
(* The theorems *)

LEMMA NextInv == Inv /\ [Next]_vars => Inv'
<1> SUFFICES ASSUME Inv, [Next]_vars PROVE Inv'
    OBVIOUS
<1>1. CASE \E kind \in Kinds, q \in Players, c \in Coalitions : Publish(kind, q, c)
    BY <1>1, PublishInv
<1>2. CASE \E n \in Numbers : Remove(n)
    BY <1>2, RemoveInv
<1>3. CASE \E n \in Numbers : Clear(n)
    BY <1>3, ClearInv
<1>4. CASE \E n \in Numbers : Join(n) \/ Spawn(n)
    BY <1>4, MakeInv
<1>5. CASE \E n \in Numbers : Unlobby(n)
    BY <1>5, UnlobbyInv
<1>6. CASE \E n \in Numbers : Take(n)
    BY <1>6, TakeInv
<1>7. CASE \E n \in Numbers : Move(n)
    BY <1>7, MoveInv
<1>8. CASE \E n \in Numbers : Look(n)
    BY <1>8, LookInv
<1>9. CASE \E n \in Numbers : Update(n)
    BY <1>9, UpdateInv
<1>10. CASE UNCHANGED vars
    BY <1>10 DEF Inv, TypeOK, NotYet, Owned, ListedIsMade, MovedIsOwned, FlagMatchesList
<1> QED BY <1>1, <1>2, <1>3, <1>4, <1>5, <1>6, <1>7, <1>8, <1>9, <1>10 DEF Next

LEMMA Inductive == Spec => []Inv
BY InitInv, NextInv, PTL DEF Spec

\* The variables keep their types, and no task reads from a null it got out of a
\* dictionary (MoveToLobby, HandlePosition).
THEOREM TypeCorrect == Spec => []TypeOK
<1>1. Inv => TypeOK
    BY DEF Inv
<1> QED BY Inductive, <1>1, PTL

\* For every number of players and of deliveries handled at the same time, an object is
\* in one dictionary at most and its IsInLobby agrees with it.
THEOREM OneOwner == Spec => []FlagMatchesList
<1>1. Inv => FlagMatchesList
    BY DEF Inv, Owned
<1> QED BY Inductive, <1>1, PTL
-----------------------------------------------------------------------------
(* Where the players are: what is handled in order is right *)

\* The object of q lies in the dictionary p and in no other; in none if p is Out.
Is(q, p) == \A l \in Lists : dict[l][q] # 0 <=> l = p

\* The operations a task may be at.
Course ==
    [join |-> {"remove", "join", "done"}, leave |-> {"remove", "done"},
     spawn |-> {"unlobby", "spawn", "done"}, despawn |-> {"take", "move", "done"},
     position |-> {"look", "unlobby", "spawn", "update", "done"}, clear |-> {"clear", "done"}]

OnCourse ==
    \A n \in Numbers :
        /\ n <= published => event[n].kind \in Kinds /\ pc[n] \in Course[event[n].kind]
        /\ step[n] # 1 => n <= published /\ event[n].kind \in {"join", "leave", "clear"}

\* The objects of a player were made for him.
Own ==
    /\ \A l \in Lists, q \in Players : dict[l][q] # 0 => event[dict[l][q]].player = q
    /\ \A n \in Numbers : pc[n] \in {"move", "update"} =>
          /\ event[held[n]].player = event[n].player
          /\ pc[held[n]] = "done"

\* Where an event finds a player, and where it puts him.
From(n) ==
    CASE event[n].kind = "join"     -> {Out}
      [] event[n].kind = "spawn"    -> {Lobby(n)}
      [] event[n].kind = "position" -> {Active(n)}
      [] event[n].kind = "clear"    -> Lists \cup {Out}
      [] OTHER                      -> {Lobby(n), Active(n)}
To(n) ==
    CASE event[n].kind \in {"join", "despawn"}   -> Lobby(n)
      [] event[n].kind \in {"spawn", "position"} -> Active(n)
      [] OTHER                                   -> Out

\* The events of a player follow one another, and the last one put him where he is.
IsLast(n, q) == \A k \in Numbers : n < k /\ k <= published => ~Concerns(k, q)
Follows(m, n, q) ==
    n < m /\ Concerns(m, q) /\ \A k \in Numbers : n < k /\ k < m => ~Concerns(k, q)
Chain(q) ==
    \A n \in Numbers : n <= published /\ Concerns(n, q) =>
        /\ IsLast(n, q) => place[q] = To(n)
        /\ \A m \in Numbers : m <= published /\ Follows(m, n, q) => To(n) \in From(m)

Started(n) == n <= published /\ (pc[n] # FirstStep[event[n].kind] \/ step[n] # 1)

\* The events of q before n have been handled.
IsNext(n, q) == \A m \in Numbers : m < n /\ Concerns(m, q) => pc[m] = "done"

\* A task that overtook none has none before it.
Serial(q) ==
    \A n \in Numbers : Concerns(n, q) /\ Started(n) /\ tangled[q] < n => IsNext(n, q)

Sound(q) == tangled[q] < settled[q]

SettledBy(q) ==
    settled[q] # 0 =>
        settled[q] <= published /\ Concerns(settled[q], q) /\ pc[settled[q]] = "done"

\* Nothing is known of a player whose first events have not been handled.
Fresh(q) ==
    tangled[q] = 0 /\ settled[q] = 0 =>
        /\ Is(q, Out)
        /\ \A n \in Numbers : Concerns(n, q) => pc[n] \notin {"move", "update"}

\* What the handled events tell of q is in the object o.
Fresher(q, o) == \A m \in Numbers : Tells(m, q) /\ pc[m] = "done" => m <= data[o]

\* What a task that overtook none has done so far.
Removed(n, q) == \A i \in 1 .. 4 : i < step[n] => dict[Order[i]][q] = 0
Placed(n, q) ==
    /\ pc[n] = "spawn" => Is(q, Out)
    /\ pc[n] = "unlobby" /\ event[n].kind = "position" => Is(q, Out)
    /\ pc[n] = "update" => Is(q, Active(n)) /\ held[n] = dict[Active(n)][q]
    /\ pc[n] = "move" => Is(q, Out) /\ Fresher(q, held[n])
Midway(n, q) ==
    /\ pc[n] \in {"remove", "clear"} => Removed(n, q)
    /\ pc[n] = "join" => Is(q, Out)
    /\ Sound(q) \/ tangled[q] = 0 => Placed(n, q)

Midways(q) ==
    \A n \in Numbers : n <= published /\ Concerns(n, q) /\ tangled[q] < n => Midway(n, q)

\* Between two tasks a player is where the next one expects him, or where he is in the
\* game.
Expected(m, q) == \E p \in From(m) : Is(q, p)
Newest(q) == \A l \in Lists : dict[l][q] # 0 => Fresher(q, dict[l][q])
Between(q) ==
    Sound(q) =>
        /\ \A m \in Numbers :
              m <= published /\ Concerns(m, q) /\ ~Started(m) /\ IsNext(m, q) => Expected(m, q)
        /\ Quiet(q) => Is(q, place[q])
        /\ Newest(q)

Story(q) ==
    Serial(q) /\ SettledBy(q) /\ Fresh(q) /\ Midways(q) /\ Between(q) /\ Chain(q)

Told == Inv /\ OnCourse /\ Own /\ \A q \in Players : Story(q)
-----------------------------------------------------------------------------
(* Lists, kinds and courses *)

LEMMA OutIsNone ==
    /\ Out \notin Lists
    /\ \A l \in Lists : \E i \in 1 .. 4 : Order[i] = l
<1>1. Out[1] = "out" /\ \A l \in Lists : l[1] \in {"lobby", "active"}
    BY DEF Out, Lists
<1>2. ASSUME NEW l \in Lists PROVE \E i \in 1 .. 4 : Order[i] = l
    <2>1. PICK w \in {"lobby", "active"}, c \in {101, 201} : l = <<w, c>>
        BY DEF Lists, Coalitions
    <2>2. /\ Order[1] = <<"lobby", 101>> /\ Order[2] = <<"lobby", 201>>
          /\ Order[3] = <<"active", 101>> /\ Order[4] = <<"active", 201>>
        BY DEF Order
    <2>3. CASE w = "lobby" /\ c = 101
        <3>1. 1 \in 1 .. 4 /\ Order[1] = l
            BY <2>1, <2>2, <2>3
        <3> QED BY <3>1
    <2>4. CASE w = "lobby" /\ c = 201
        <3>1. 2 \in 1 .. 4 /\ Order[2] = l
            BY <2>1, <2>2, <2>4
        <3> QED BY <3>1
    <2>5. CASE w = "active" /\ c = 101
        <3>1. 3 \in 1 .. 4 /\ Order[3] = l
            BY <2>1, <2>2, <2>5
        <3> QED BY <3>1
    <2>6. CASE w = "active" /\ c = 201
        <3>1. 4 \in 1 .. 4 /\ Order[4] = l
            BY <2>1, <2>2, <2>6
        <3> QED BY <3>1
    <2> QED BY <2>3, <2>4, <2>5, <2>6
<1> QED BY <1>1, <1>2

\* An object in a dictionary has a place.
LEMMA IsOne ==
    ASSUME NEW q \in Players
    PROVE  /\ \A l \in Lists : dict[l][q] # 0 => ~Is(q, Out)
           /\ \A p \in Lists, l \in Lists : Is(q, p) => (dict[l][q] # 0 <=> l = p)
BY OutIsNone DEF Is

LEMMA OrderIs ==
    \A i \in 1 .. 4, j \in 1 .. 4 : Order[i] = Order[j] => i = j
<1>1. /\ Order[1] = <<"lobby", 101>> /\ Order[2] = <<"lobby", 201>>
      /\ Order[3] = <<"active", 101>> /\ Order[4] = <<"active", 201>>
    BY DEF Order
<1>2. <<"lobby", 101>> # <<"lobby", 201>> /\ <<"active", 101>> # <<"active", 201>>
    OBVIOUS
<1>3. \A c \in {101, 201}, d \in {101, 201} : <<"lobby", c>> # <<"active", d>>
    OBVIOUS
<1> QED BY <1>1, <1>2, <1>3

\* Handlers start with their first operation, and only a position may hold an object to
\* change, only a detachment one to move.
LEMMA CourseIs ==
    /\ FirstStep["join"] = "remove" /\ FirstStep["leave"] = "remove"
    /\ FirstStep["spawn"] = "unlobby" /\ FirstStep["despawn"] = "take"
    /\ FirstStep["position"] = "look" /\ FirstStep["clear"] = "clear"
    /\ Course["join"] = {"remove", "join", "done"} /\ Course["leave"] = {"remove", "done"}
    /\ Course["spawn"] = {"unlobby", "spawn", "done"}
    /\ Course["despawn"] = {"take", "move", "done"}
    /\ Course["position"] = {"look", "unlobby", "spawn", "update", "done"}
    /\ Course["clear"] = {"clear", "done"}
    /\ \A kind \in Kinds :
          /\ FirstStep[kind] \in Course[kind]
          /\ FirstStep[kind] \notin {"done", "none", "join", "spawn", "move", "update"}
          /\ FirstStep[kind] = "unlobby" => kind = "spawn"
          /\ "none" \notin Course[kind]
<1>1. /\ FirstStep["join"] = "remove" /\ FirstStep["leave"] = "remove"
      /\ FirstStep["spawn"] = "unlobby" /\ FirstStep["despawn"] = "take"
      /\ FirstStep["position"] = "look" /\ FirstStep["clear"] = "clear"
    BY DEF FirstStep
<1>2. /\ Course["join"] = {"remove", "join", "done"} /\ Course["leave"] = {"remove", "done"}
      /\ Course["spawn"] = {"unlobby", "spawn", "done"}
      /\ Course["despawn"] = {"take", "move", "done"}
      /\ Course["position"] = {"look", "unlobby", "spawn", "update", "done"}
      /\ Course["clear"] = {"clear", "done"}
    BY DEF Course
<1> QED BY <1>1, <1>2 DEF Kinds

\* The task of a published event, by the operation it is at.
LEMMA TaskIs ==
    ASSUME TypeOK, NotYet, OnCourse, NEW n \in Numbers, pc[n] # "none"
    PROVE  /\ n <= published /\ event[n].kind \in Kinds
           /\ pc[n] = "remove" => event[n].kind \in {"join", "leave"}
           /\ pc[n] = "clear" => event[n].kind = "clear"
           /\ pc[n] = "join" => event[n].kind = "join"
           /\ pc[n] = "unlobby" => event[n].kind \in {"spawn", "position"}
           /\ pc[n] = "spawn" => event[n].kind \in {"spawn", "position"}
           /\ pc[n] \in {"take", "move"} => event[n].kind = "despawn"
           /\ pc[n] \in {"look", "update"} => event[n].kind = "position"
<1>1. n <= published
    BY DEF NotYet, TypeOK, Numbers
<1>2. event[n].kind \in Kinds /\ pc[n] \in Course[event[n].kind]
    BY <1>1 DEF OnCourse
<1> QED BY <1>1, <1>2, CourseIs DEF Kinds

LEMMA FromTo ==
    ASSUME NEW n \in Numbers
    PROVE  /\ event[n].kind = "join" => From(n) = {Out} /\ To(n) = Lobby(n)
           /\ event[n].kind = "leave" => From(n) = {Lobby(n), Active(n)} /\ To(n) = Out
           /\ event[n].kind = "spawn" => From(n) = {Lobby(n)} /\ To(n) = Active(n)
           /\ event[n].kind = "despawn" =>
                 From(n) = {Lobby(n), Active(n)} /\ To(n) = Lobby(n)
           /\ event[n].kind = "position" => From(n) = {Active(n)} /\ To(n) = Active(n)
           /\ event[n].kind = "clear" => From(n) = Lists \cup {Out} /\ To(n) = Out
BY DEF From, To

LEMMA EventsStay ==
    ASSUME NEW n \in Numbers, event'[n] = event[n]
    PROVE  /\ From(n)' = From(n) /\ To(n)' = To(n)
           /\ \A q : Concerns(n, q)' <=> Concerns(n, q)
           /\ \A q : Tells(n, q)' <=> Tells(n, q)
           /\ Lobby(n)' = Lobby(n) /\ Active(n)' = Active(n)
<1>1. Lobby(n)' = Lobby(n) /\ Active(n)' = Active(n)
    BY DEF Lobby, Active
<1> QED BY <1>1 DEF From, To, Concerns, Tells
-----------------------------------------------------------------------------
(* A step of a task *)

Task(n) ==
    Remove(n) \/ Clear(n) \/ Join(n) \/ Unlobby(n) \/ Spawn(n) \/ Take(n) \/ Move(n)
    \/ Look(n) \/ Update(n)

\* What a step of the task n does, whatever its operation: to the tasks, ...
Advance(n) ==
    /\ UNCHANGED <<published, event, place>>
    /\ n <= published /\ pc[n] # "done"
    /\ \A m \in Numbers : m # n =>
          pc'[m] = pc[m] /\ step'[m] = step[m] /\ held'[m] = held[m]

\* ... and to what is known of a player.
Overtaken(n, q) ==
    /\ Overtakes(n, q) => n <= tangled'[q]
    /\ ~Overtakes(n, q) => tangled'[q] = tangled[q]
    /\ tangled[q] <= tangled'[q]
Learned(n, q) ==
    \/ settled'[q] = settled[q]
    \/ settled'[q] = n /\ pc'[n] = "done" /\ Settles(n, q)
Learns(n, q) == pc'[n] = "done" /\ Settles(n, q) => n <= settled'[q]
History(n) == \A q \in Players : Overtaken(n, q) /\ Learned(n, q) /\ Learns(n, q)

LEMMA GoesStep ==
    ASSUME TypeOK, NotYet, NEW n \in Numbers,
           NEW at \in {"remove", "clear", "join", "unlobby", "spawn", "take", "move",
                       "look", "update"},
           NEW to \in {"remove", "clear", "join", "unlobby", "spawn", "take", "move",
                       "look", "update", "done"},
           Goes(n, at, to)
    PROVE  /\ pc[n] = at /\ pc'[n] = to
           /\ UNCHANGED <<published, event, place>>
           /\ n <= published
           /\ \A m \in Numbers : m # n => pc'[m] = pc[m]
           /\ History(n)
<1>1. /\ pc'[n] = to
      /\ \A m \in Numbers : m # n => pc'[m] = pc[m]
    BY GoesType
<1>2. pc[n] = at /\ UNCHANGED <<published, event, place>>
    BY DEF Goes
<1>3. n <= published
    BY <1>2 DEF NotYet, TypeOK, Numbers
<1>4. ASSUME NEW q \in Players PROVE Overtaken(n, q) /\ Learned(n, q) /\ Learns(n, q)
    <2>1. /\ tangled'[q] = IF Overtakes(n, q) THEN Larger(n, tangled[q]) ELSE tangled[q]
          /\ settled'[q] = IF to = "done" /\ Settles(n, q) THEN Larger(n, settled[q])
                           ELSE settled[q]
        BY DEF Goes
    <2>2. tangled[q] \in Nat /\ settled[q] \in Nat /\ n \in Nat
        BY DEF TypeOK, Numbers
    <2>3. Overtaken(n, q)
        <3>1. CASE Overtakes(n, q)
            <4>1. tangled'[q] = Larger(n, tangled[q])
                BY <2>1, <3>1
            <4> QED BY <2>2, <3>1, <4>1 DEF Larger, Overtaken
        <3>2. CASE ~Overtakes(n, q)
            <4>1. tangled'[q] = tangled[q]
                BY <2>1, <3>2
            <4> QED BY <2>2, <3>2, <4>1 DEF Overtaken
        <3> QED BY <3>1, <3>2
    <2>4. CASE to = "done" /\ Settles(n, q)
        <3>1. settled'[q] = Larger(n, settled[q])
            BY <2>1, <2>4
        <3>2. n <= settled'[q] /\ (settled'[q] = settled[q] \/ settled'[q] = n)
            BY <2>2, <3>1 DEF Larger
        <3> QED BY <1>1, <2>3, <2>4, <3>2 DEF Learned, Learns
    <2>5. CASE ~(to = "done" /\ Settles(n, q))
        <3>1. settled'[q] = settled[q]
            BY <2>1, <2>5
        <3> QED BY <1>1, <2>3, <2>5, <3>1 DEF Learned, Learns
    <2> QED BY <2>4, <2>5
<1> QED BY <1>1, <1>2, <1>3, <1>4 DEF History

\* The operations, by what they do to the tasks and to the objects.
LEMMA RemoveStep ==
    ASSUME Inv, OnCourse, NEW n \in Numbers, Remove(n)
    PROVE  /\ Advance(n) /\ pc[n] = "remove"
           /\ History(n)
           /\ step[n] < 4 => pc'[n] = "remove" /\ step'[n] = step[n] + 1
           /\ ~(step[n] < 4) =>
                 step[n] = 4 /\ step'[n] = 4 /\ pc'[n] = IF event[n].kind = "join" THEN "join" ELSE "done"
           /\ UNCHANGED <<isInLobby, data, held>>
           /\ dict'[Order[step[n]]][event[n].player] = 0
           /\ \A l \in Lists, q \in Players :
                 l # Order[step[n]] \/ q # event[n].player => dict'[l][q] = dict[l][q]
<1> DEFINE to == IF step[n] < 4 THEN "remove"
                 ELSE IF event[n].kind = "join" THEN "join" ELSE "done"
<1>1. TypeOK /\ NotYet
    BY DEF Inv
<1>2. Goes(n, "remove", to) /\ to \in {"remove", "join", "done"}
    BY DEF Remove
<1>3. step[n] \in 1 .. 4 /\ Order[step[n]] \in Lists
    BY <1>1, ListsAre DEF TypeOK
<1>4. /\ step[n] < 4 => to = "remove"
      /\ ~(step[n] < 4) => to = IF event[n].kind = "join" THEN "join" ELSE "done"
    OBVIOUS
<1> HIDE DEF to
<1>5. /\ pc[n] = "remove" /\ pc'[n] = to /\ UNCHANGED <<published, event, place>>
      /\ n <= published
      /\ \A m \in Numbers : m # n => pc'[m] = pc[m]
      /\ History(n)
    BY <1>1, <1>2, GoesStep
<1>6. UNCHANGED <<isInLobby, data, held>>
    BY DEF Remove
<1>7. /\ step'[n] = IF step[n] < 4 THEN step[n] + 1 ELSE step[n]
      /\ \A m \in Numbers : m # n => step'[m] = step[m]
    BY <1>1 DEF Remove, NextStep, TypeOK
<1>8. event[n].player \in Players
    BY <1>1, EventType
<1>9. /\ dict'[Order[step[n]]][event[n].player] = 0
      /\ \A l \in Lists, q \in Players :
            l # Order[step[n]] \/ q # event[n].player => dict'[l][q] = dict[l][q]
    BY <1>1, <1>3, <1>8 DEF Remove, Put, TypeOK
<1> QED BY <1>3, <1>4, <1>5, <1>6, <1>7, <1>9 DEF Advance

LEMMA ClearStep ==
    ASSUME Inv, OnCourse, NEW n \in Numbers, Clear(n)
    PROVE  /\ Advance(n) /\ pc[n] = "clear"
           /\ History(n)
           /\ step[n] < 4 => pc'[n] = "clear" /\ step'[n] = step[n] + 1
           /\ ~(step[n] < 4) => step[n] = 4 /\ step'[n] = 4 /\ pc'[n] = "done"
           /\ UNCHANGED <<isInLobby, data, held>>
           /\ \A q \in Players : dict'[Order[step[n]]][q] = 0
           /\ \A l \in Lists, q \in Players :
                 l # Order[step[n]] => dict'[l][q] = dict[l][q]
<1> DEFINE to == IF step[n] < 4 THEN "clear" ELSE "done"
<1>1. TypeOK /\ NotYet
    BY DEF Inv
<1>2. Goes(n, "clear", to) /\ to \in {"clear", "done"}
    BY DEF Clear
<1>3. step[n] \in 1 .. 4 /\ Order[step[n]] \in Lists
    BY <1>1, ListsAre DEF TypeOK
<1>4. (step[n] < 4 => to = "clear") /\ (~(step[n] < 4) => to = "done")
    OBVIOUS
<1> HIDE DEF to
<1>5. /\ pc[n] = "clear" /\ pc'[n] = to /\ UNCHANGED <<published, event, place>>
      /\ n <= published
      /\ \A m \in Numbers : m # n => pc'[m] = pc[m]
      /\ History(n)
    BY <1>1, <1>2, GoesStep
<1>6. UNCHANGED <<isInLobby, data, held>>
    BY DEF Clear
<1>7. /\ step'[n] = IF step[n] < 4 THEN step[n] + 1 ELSE step[n]
      /\ \A m \in Numbers : m # n => step'[m] = step[m]
    BY <1>1 DEF Clear, NextStep, TypeOK
<1>8. /\ \A q \in Players : dict'[Order[step[n]]][q] = 0
      /\ \A l \in Lists, q \in Players : l # Order[step[n]] => dict'[l][q] = dict[l][q]
    BY <1>1, <1>3 DEF Clear, TypeOK
<1> QED BY <1>3, <1>4, <1>5, <1>6, <1>7, <1>8 DEF Advance

LEMMA PutIs ==
    ASSUME TypeOK, NEW n \in Numbers, NEW list \in Lists, NEW o, Put(n, list, o)
    PROVE  /\ dict'[list][event[n].player] = o
           /\ \A l \in Lists, q \in Players :
                 l # list \/ q # event[n].player => dict'[l][q] = dict[l][q]
BY EventType DEF Put, TypeOK

LEMMA AddIs ==
    ASSUME TypeOK, NEW n \in Numbers, NEW list \in Lists, NEW o, TryAdd(n, list, o)
    PROVE  /\ dict[list][event[n].player] = 0 => dict'[list][event[n].player] = o
           /\ \A l \in Lists, q \in Players :
                 \/ dict'[l][q] = dict[l][q]
                 \/ l = list /\ q = event[n].player /\ dict[l][q] = 0 /\ dict'[l][q] = o
<1>1. CASE At(n, list) = 0
    <2>1. Put(n, list, o)
        BY <1>1 DEF TryAdd
    <2> QED BY <1>1, <2>1, PutIs DEF At
<1>2. CASE At(n, list) # 0
    <2>1. dict' = dict
        BY <1>2 DEF TryAdd
    <2> QED BY <1>2, <2>1 DEF At
<1> QED BY <1>1, <1>2

\* A join or a spawn, with a new object for the list it is added to.
LEMMA MakeStep ==
    ASSUME Inv, NEW n \in Numbers, NEW list \in Lists,
           \/ Join(n) /\ list = Lobby(n)
           \/ Spawn(n) /\ list = Active(n)
    PROVE  /\ Advance(n) /\ pc'[n] = "done" /\ pc[n] \in {"join", "spawn"}
           /\ Join(n) => pc[n] = "join"
           /\ Spawn(n) => pc[n] = "spawn"
           /\ History(n)
           /\ UNCHANGED <<step, held>>
           /\ data'[n] = n /\ \A o \in Numbers : o # n => data'[o] = data[o]
           /\ dict[list][event[n].player] = 0 => dict'[list][event[n].player] = n
           /\ \A l \in Lists, q \in Players :
                 \/ dict'[l][q] = dict[l][q]
                 \/ l = list /\ q = event[n].player /\ dict[l][q] = 0 /\ dict'[l][q] = n
<1>1. TypeOK /\ NotYet
    BY DEF Inv
<1>2. PICK at \in {"join", "spawn"} :
          Goes(n, at, "done") /\ (Join(n) => at = "join") /\ (Spawn(n) => at = "spawn")
    BY DEF Join, Spawn, Goes
<1>3. /\ pc[n] = at /\ pc'[n] = "done" /\ UNCHANGED <<published, event, place>>
      /\ n <= published
      /\ \A m \in Numbers : m # n => pc'[m] = pc[m]
      /\ History(n)
    BY <1>1, <1>2, GoesStep
<1>4. TryAdd(n, list, n) /\ data' = [data EXCEPT ![n] = n] /\ UNCHANGED <<step, held>>
    BY DEF Join, Spawn
<1>5. data'[n] = n /\ \A o \in Numbers : o # n => data'[o] = data[o]
    BY <1>1, <1>4 DEF TypeOK
<1>6. /\ dict[list][event[n].player] = 0 => dict'[list][event[n].player] = n
      /\ \A l \in Lists, q \in Players :
            \/ dict'[l][q] = dict[l][q]
            \/ l = list /\ q = event[n].player /\ dict[l][q] = 0 /\ dict'[l][q] = n
    BY <1>1, <1>4, AddIs
<1> QED BY <1>2, <1>3, <1>4, <1>5, <1>6 DEF Advance

LEMMA UnlobbyStep ==
    ASSUME Inv, NEW n \in Numbers, Unlobby(n)
    PROVE  /\ Advance(n) /\ pc[n] = "unlobby" /\ pc'[n] = "spawn"
           /\ History(n)
           /\ UNCHANGED <<data, step, held>>
           /\ dict'[Lobby(n)][event[n].player] = 0
           /\ \A l \in Lists, q \in Players :
                 l # Lobby(n) \/ q # event[n].player => dict'[l][q] = dict[l][q]
<1>1. TypeOK /\ NotYet
    BY DEF Inv
<1>2. Goes(n, "unlobby", "spawn") /\ UNCHANGED <<data, step, held>> /\ Put(n, Lobby(n), 0)
    BY DEF Unlobby
<1>3. /\ pc[n] = "unlobby" /\ pc'[n] = "spawn" /\ UNCHANGED <<published, event, place>>
      /\ n <= published
      /\ \A m \in Numbers : m # n => pc'[m] = pc[m]
      /\ History(n)
    BY <1>1, <1>2, GoesStep
<1>4. Lobby(n) \in Lists
    BY <1>1, EventType
<1>5. /\ dict'[Lobby(n)][event[n].player] = 0
      /\ \A l \in Lists, q \in Players :
            l # Lobby(n) \/ q # event[n].player => dict'[l][q] = dict[l][q]
    BY <1>1, <1>2, <1>4, PutIs
<1> QED BY <1>2, <1>3, <1>5 DEF Advance

LEMMA TakeStep ==
    ASSUME Inv, NEW n \in Numbers, Take(n)
    PROVE  /\ Advance(n) /\ pc[n] = "take"
           /\ dict[Active(n)][event[n].player] = 0 => pc'[n] = "done"
           /\ dict[Active(n)][event[n].player] # 0 => pc'[n] = "move"
           /\ held'[n] = dict[Active(n)][event[n].player]
           /\ History(n)
           /\ UNCHANGED <<data, step>>
           /\ dict'[Active(n)][event[n].player] = 0
           /\ \A l \in Lists, q \in Players :
                 l # Active(n) \/ q # event[n].player => dict'[l][q] = dict[l][q]
<1> DEFINE to == IF At(n, Active(n)) = 0 THEN "done" ELSE "move"
<1>1. TypeOK /\ NotYet
    BY DEF Inv
<1>2. Goes(n, "take", to) /\ to \in {"done", "move"}
    BY DEF Take
<1>3. /\ dict[Active(n)][event[n].player] = 0 => to = "done"
      /\ dict[Active(n)][event[n].player] # 0 => to = "move"
    BY DEF At
<1> HIDE DEF to
<1>4. /\ pc[n] = "take" /\ pc'[n] = to /\ UNCHANGED <<published, event, place>>
      /\ n <= published
      /\ \A m \in Numbers : m # n => pc'[m] = pc[m]
      /\ History(n)
    BY <1>1, <1>2, GoesStep
<1>5. Active(n) \in Lists
    BY <1>1, EventType
<1>6. UNCHANGED <<data, step>> /\ Put(n, Active(n), 0)
    BY DEF Take
<1>7. /\ held'[n] = dict[Active(n)][event[n].player]
      /\ \A m \in Numbers : m # n => held'[m] = held[m]
    BY <1>1 DEF Take, At, TypeOK
<1>8. /\ dict'[Active(n)][event[n].player] = 0
      /\ \A l \in Lists, q \in Players :
            l # Active(n) \/ q # event[n].player => dict'[l][q] = dict[l][q]
    BY <1>1, <1>5, <1>6, PutIs
<1> QED BY <1>3, <1>4, <1>6, <1>7, <1>8 DEF Advance

LEMMA MoveStep ==
    ASSUME Inv, NEW n \in Numbers, Move(n)
    PROVE  /\ Advance(n) /\ pc[n] = "move" /\ pc'[n] = "done"
           /\ History(n)
           /\ UNCHANGED <<data, step, held>>
           /\ dict[Lobby(n)][event[n].player] = 0 => dict'[Lobby(n)][event[n].player] = held[n]
           /\ \A l \in Lists, q \in Players :
                 \/ dict'[l][q] = dict[l][q]
                 \/ /\ l = Lobby(n) /\ q = event[n].player
                    /\ dict[l][q] = 0 /\ dict'[l][q] = held[n]
<1>1. TypeOK /\ NotYet
    BY DEF Inv
<1>2. Goes(n, "move", "done") /\ UNCHANGED <<data, step, held>> /\ TryAdd(n, Lobby(n), held[n])
    BY DEF Move
<1>3. /\ pc[n] = "move" /\ pc'[n] = "done" /\ UNCHANGED <<published, event, place>>
      /\ n <= published
      /\ \A m \in Numbers : m # n => pc'[m] = pc[m]
      /\ History(n)
    BY <1>1, <1>2, GoesStep
<1>4. Lobby(n) \in Lists
    BY <1>1, EventType
<1>5. /\ dict[Lobby(n)][event[n].player] = 0 => dict'[Lobby(n)][event[n].player] = held[n]
      /\ \A l \in Lists, q \in Players :
            \/ dict'[l][q] = dict[l][q]
            \/ l = Lobby(n) /\ q = event[n].player /\ dict[l][q] = 0 /\ dict'[l][q] = held[n]
    BY <1>1, <1>2, <1>4, AddIs
<1> QED BY <1>2, <1>3, <1>5 DEF Advance

LEMMA LookStep ==
    ASSUME Inv, NEW n \in Numbers, Look(n)
    PROVE  /\ Advance(n) /\ pc[n] = "look"
           /\ dict[Active(n)][event[n].player] = 0 => pc'[n] = "unlobby"
           /\ dict[Active(n)][event[n].player] # 0 => pc'[n] = "update"
           /\ held'[n] = dict[Active(n)][event[n].player]
           /\ History(n)
           /\ UNCHANGED <<dict, data, step>>
<1> DEFINE to == IF At(n, Active(n)) = 0 THEN "unlobby" ELSE "update"
<1>1. TypeOK /\ NotYet
    BY DEF Inv
<1>2. Goes(n, "look", to) /\ to \in {"unlobby", "update"}
    BY DEF Look
<1>3. /\ dict[Active(n)][event[n].player] = 0 => to = "unlobby"
      /\ dict[Active(n)][event[n].player] # 0 => to = "update"
    BY DEF At
<1> HIDE DEF to
<1>4. /\ pc[n] = "look" /\ pc'[n] = to /\ UNCHANGED <<published, event, place>>
      /\ n <= published
      /\ \A m \in Numbers : m # n => pc'[m] = pc[m]
      /\ History(n)
    BY <1>1, <1>2, GoesStep
<1>5. UNCHANGED <<dict, data, step>>
    BY DEF Look
<1>6. /\ held'[n] = dict[Active(n)][event[n].player]
      /\ \A m \in Numbers : m # n => held'[m] = held[m]
    BY <1>1 DEF Look, At, TypeOK
<1> QED BY <1>3, <1>4, <1>5, <1>6 DEF Advance

LEMMA UpdateStep ==
    ASSUME Inv, NEW n \in Numbers, Update(n)
    PROVE  /\ Advance(n) /\ pc[n] = "update" /\ pc'[n] = "done"
           /\ History(n)
           /\ UNCHANGED <<dict, step, held>>
           /\ data'[held[n]] = n /\ \A o \in Numbers : o # held[n] => data'[o] = data[o]
<1>1. TypeOK /\ NotYet
    BY DEF Inv
<1>2. /\ Goes(n, "update", "done") /\ UNCHANGED <<dict, step, held>>
      /\ data' = [data EXCEPT ![held[n]] = n]
    BY DEF Update
<1>3. /\ pc[n] = "update" /\ pc'[n] = "done" /\ UNCHANGED <<published, event, place>>
      /\ n <= published
      /\ \A m \in Numbers : m # n => pc'[m] = pc[m]
      /\ History(n)
    BY <1>1, <1>2, GoesStep
<1>4. held[n] \in Numbers
    BY <1>1, <1>3, PositionAssumption DEF TypeOK, Numbers
<1>5. data'[held[n]] = n /\ \A o \in Numbers : o # held[n] => data'[o] = data[o]
    BY <1>1, <1>2, <1>4 DEF TypeOK
<1> QED BY <1>2, <1>3, <1>5 DEF Advance
-----------------------------------------------------------------------------
(* What a step of a task leaves alone *)

\* Players an event does not concern do not notice its task.
Apart(n) ==
    \A q \in Players : ~Concerns(n, q) =>
        /\ \A l \in Lists : dict'[l][q] = dict[l][q]
        /\ \A o \in Numbers : event[o].player = q => data'[o] = data[o]

Steps(n) == Advance(n) /\ History(n) /\ Apart(n) /\ Started(n)'

LEMMA CourseStays ==
    ASSUME Inv, OnCourse, NEW n \in Numbers, Advance(n),
           pc'[n] \in Course[event[n].kind],
           step'[n] # 1 => event[n].kind \in {"join", "leave", "clear"}
    PROVE  OnCourse'
<1> SUFFICES ASSUME NEW m \in Numbers
             PROVE  /\ m <= published' => event'[m].kind \in Kinds /\ pc'[m] \in Course[event'[m].kind]
                    /\ step'[m] # 1 =>
                          m <= published' /\ event'[m].kind \in {"join", "leave", "clear"}
    BY DEF OnCourse
<1>1. UNCHANGED <<published, event>> /\ n <= published
    BY DEF Advance
<1>2. CASE m = n
    BY <1>1, <1>2 DEF OnCourse
<1>3. CASE m # n
    <2>1. pc'[m] = pc[m] /\ step'[m] = step[m]
        BY <1>3 DEF Advance
    <2> QED BY <1>1, <2>1 DEF OnCourse
<1> QED BY <1>2, <1>3

\* What lies in a dictionary afterwards was there, or was made for the player.
LEMMA OwnStays ==
    ASSUME Inv, Own, NEW n \in Numbers, Advance(n),
           \A l \in Lists, q \in Players :
              dict'[l][q] # 0 /\ dict'[l][q] # dict[l][q] => event[dict'[l][q]].player = q,
           pc'[n] \in {"move", "update"} =>
              /\ held'[n] \in Numbers /\ pc[held'[n]] = "done"
              /\ event[held'[n]].player = event[n].player
    PROVE  Own'
<1>1. UNCHANGED event
    BY DEF Advance
<1>2. ASSUME NEW l \in Lists, NEW q \in Players, dict'[l][q] # 0
      PROVE  event'[dict'[l][q]].player = q
    BY <1>1, <1>2 DEF Own
<1>3. \A o \in Numbers : pc[o] = "done" => pc'[o] = "done"
    BY DEF Advance
<1>4. ASSUME NEW m \in Numbers, pc'[m] \in {"move", "update"}
      PROVE  event'[held'[m]].player = event'[m].player /\ pc'[held'[m]] = "done"
    <2>1. CASE m = n
        BY <1>1, <1>3, <1>4, <2>1
    <2>2. CASE m # n
        <3>1. pc[m] \in {"move", "update"} /\ held'[m] = held[m]
            BY <1>4, <2>2 DEF Advance
        <3>2. held[m] \in Numbers
            BY <3>1, PositionAssumption DEF Inv, TypeOK, Numbers
        <3> QED BY <1>1, <1>3, <3>1, <3>2 DEF Own
    <2> QED BY <2>1, <2>2
<1> QED BY <1>2, <1>4 DEF Own

LEMMA RemoveRest ==
    ASSUME Inv, OnCourse, Own, NEW n \in Numbers, Remove(n) \/ Clear(n)
    PROVE  Steps(n) /\ OnCourse' /\ Own'
<1>1. TypeOK /\ NotYet
    BY DEF Inv
<1>2. /\ Advance(n) /\ History(n) /\ UNCHANGED <<data, held>>
      /\ pc[n] \in {"remove", "clear"}
      /\ step[n] < 4 => pc'[n] = pc[n] /\ step'[n] = step[n] + 1
      /\ ~(step[n] < 4) => pc'[n] \in {"join", "done"}
      /\ pc'[n] = "join" => event[n].kind = "join"
    BY RemoveStep, ClearStep
<1>3. /\ \A l \in Lists, q \in Players : dict'[l][q] \in {0, dict[l][q]}
      /\ \A l \in Lists, q \in Players : ~Concerns(n, q) => dict'[l][q] = dict[l][q]
    <2>1. CASE Remove(n)
        BY <2>1, RemoveStep DEF Concerns
    <2>2. CASE Clear(n)
        <3>1. event[n].kind = "clear"
            BY <1>1, <2>2, ClearStep, TaskIs
        <3> QED BY <2>2, <3>1, ClearStep DEF Concerns
    <2> QED BY <2>1, <2>2
<1>4. event[n].kind \in {"join", "leave", "clear"} /\ event[n].kind \in Kinds
    BY <1>1, <1>2, TaskIs
<1>5. pc[n] \in Course[event[n].kind]
    BY <1>2 DEF OnCourse, Advance
<1>6. pc'[n] \in Course[event[n].kind]
    <2>1. "done" \in Course[event[n].kind] /\ "join" \in Course["join"]
        BY <1>4, CourseIs
    <2> QED BY <1>2, <1>5, <2>1
<1>7. OnCourse'
    BY <1>2, <1>4, <1>6, CourseStays
<1>8. pc'[n] \notin {"move", "update"}
    BY <1>2
<1>9. Own'
    BY <1>2, <1>3, <1>8, OwnStays
<1>10. Apart(n)
    BY <1>2, <1>3 DEF Apart
<1>11. Started(n)'
    <2>1. step[n] \in 1 .. 4
        BY <1>1 DEF TypeOK
    <2>2. step'[n] # 1 \/ pc'[n] \in {"join", "done"}
        BY <1>2, <2>1
    <2>3. n <= published' /\ event' = event
        BY <1>2 DEF Advance
    <2>4. FirstStep[event[n].kind] \notin {"join", "done"}
        BY <1>4, CourseIs
    <2> QED BY <2>2, <2>3, <2>4 DEF Started
<1> QED BY <1>2, <1>7, <1>9, <1>10, <1>11 DEF Steps

LEMMA MakeRest ==
    ASSUME Inv, OnCourse, Own, NEW n \in Numbers, Join(n) \/ Spawn(n)
    PROVE  Steps(n) /\ OnCourse' /\ Own'
<1>1. TypeOK /\ NotYet
    BY DEF Inv
<1>2. PICK list \in Lists : (Join(n) /\ list = Lobby(n)) \/ (Spawn(n) /\ list = Active(n))
    BY <1>1, EventType
<1>3. /\ Advance(n) /\ History(n) /\ pc[n] \in {"join", "spawn"} /\ pc'[n] = "done"
      /\ UNCHANGED <<step, held>>
      /\ \A o \in Numbers : o # n => data'[o] = data[o]
      /\ \A l \in Lists, q \in Players :
            \/ dict'[l][q] = dict[l][q]
            \/ l = list /\ q = event[n].player /\ dict[l][q] = 0 /\ dict'[l][q] = n
    BY <1>2, MakeStep
<1>4. event[n].kind \in Kinds
    BY <1>1, <1>3, TaskIs
<1>5. "done" \in Course[event[n].kind] /\ FirstStep[event[n].kind] # "done"
    BY <1>4, CourseIs DEF Kinds
<1>6. OnCourse'
    BY <1>3, <1>5, CourseStays DEF OnCourse
<1>7. Own'
    BY <1>3, OwnStays
<1>8. Apart(n)
    BY <1>3 DEF Apart, Concerns
<1>9. Started(n)'
    BY <1>3, <1>5 DEF Started, Advance
<1> QED BY <1>3, <1>6, <1>7, <1>8, <1>9 DEF Steps

LEMMA OtherRest ==
    ASSUME Inv, OnCourse, Own, NEW n \in Numbers,
           Unlobby(n) \/ Take(n) \/ Move(n) \/ Look(n) \/ Update(n)
    PROVE  Steps(n) /\ OnCourse' /\ Own'
<1>1. TypeOK /\ NotYet
    BY DEF Inv
<1>2. event[n].player \in Players /\ Lobby(n) \in Lists /\ Active(n) \in Lists
    BY <1>1, EventType
<1>3. /\ Advance(n) /\ History(n) /\ UNCHANGED step
      /\ \/ pc[n] = "unlobby" /\ pc'[n] = "spawn"
         \/ pc[n] = "take" /\ pc'[n] \in {"done", "move"}
         \/ pc[n] = "look" /\ pc'[n] \in {"unlobby", "update"}
         \/ pc[n] \in {"move", "update"} /\ pc'[n] = "done"
    BY UnlobbyStep, TakeStep, MoveStep, LookStep, UpdateStep
<1>4. event[n].kind \in Kinds
    BY <1>1, <1>3, TaskIs
<1>5. /\ pc[n] = "take" => event[n].kind = "despawn"
      /\ pc[n] = "look" => event[n].kind = "position"
      /\ pc[n] = "unlobby" => event[n].kind \in {"spawn", "position"}
    BY <1>1, <1>3, TaskIs
<1>6. /\ pc'[n] \in Course[event[n].kind]
      /\ pc'[n] # FirstStep[event[n].kind]
    BY <1>3, <1>4, <1>5, CourseIs DEF Kinds
<1>7. OnCourse'
    BY <1>3, <1>6, CourseStays DEF OnCourse
<1>8. /\ \A l \in Lists, q \in Players :
            dict'[l][q] # 0 /\ dict'[l][q] # dict[l][q] =>
                pc[n] = "move" /\ dict'[l][q] = held[n] /\ q = event[n].player
      /\ \A l \in Lists, q \in Players : ~Concerns(n, q) => dict'[l][q] = dict[l][q]
    <2>1. CASE Unlobby(n)
        BY <2>1, UnlobbyStep DEF Concerns
    <2>2. CASE Take(n)
        BY <2>2, TakeStep DEF Concerns
    <2>3. CASE Move(n)
        BY <2>3, MoveStep DEF Concerns
    <2>4. CASE Look(n)
        BY <2>4, LookStep
    <2>5. CASE Update(n)
        BY <2>5, UpdateStep
    <2> QED BY <2>1, <2>2, <2>3, <2>4, <2>5
<1>9. ASSUME pc'[n] \in {"move", "update"}
      PROVE  /\ held'[n] \in Numbers /\ pc[held'[n]] = "done"
             /\ event[held'[n]].player = event[n].player
    <2>1. /\ held'[n] = dict[Active(n)][event[n].player]
          /\ dict[Active(n)][event[n].player] # 0
        BY <1>3, <1>9, UnlobbyStep, TakeStep, MoveStep, LookStep, UpdateStep
    <2>2. held'[n] \in Numbers
        BY <1>1, <1>2, <2>1, EntryType
    <2> QED BY <1>2, <2>1, <2>2 DEF Own, Inv, Owned, ListedIsMade
<1>10. Own'
    BY <1>3, <1>8, <1>9, OwnStays DEF Own
<1>11. Apart(n)
    <2>1. ASSUME NEW o \in Numbers, event[o].player # event[n].player
          PROVE  data'[o] = data[o]
        <3>1. CASE Update(n)
            <4>1. event[held[n]].player = event[n].player
                BY <3>1, UpdateStep DEF Own
            <4> QED BY <2>1, <3>1, <4>1, UpdateStep
        <3>2. CASE ~Update(n)
            BY <3>2, UnlobbyStep, TakeStep, MoveStep, LookStep
        <3> QED BY <3>1, <3>2
    <2> QED BY <1>8, <2>1 DEF Apart, Concerns
<1>12. Started(n)'
    BY <1>3, <1>6 DEF Started, Advance
<1> QED BY <1>3, <1>7, <1>10, <1>11, <1>12 DEF Steps

LEMMA TaskRest ==
    ASSUME Inv, OnCourse, Own, NEW n \in Numbers, Task(n)
    PROVE  Steps(n) /\ OnCourse' /\ Own'
BY RemoveRest, MakeRest, OtherRest DEF Task
-----------------------------------------------------------------------------
(* A step of a task that does not concern the player, and one that is out of order *)

LEMMA IsStays ==
    ASSUME NEW q \in Players, \A l \in Lists : dict'[l][q] = dict[l][q]
    PROVE  \A p : Is(q, p)' <=> Is(q, p)
BY DEF Is

\* What the story of q says depends on what concerns q alone.
Same(q) ==
    /\ UNCHANGED <<published, event, place>>
    /\ settled'[q] = settled[q] /\ tangled'[q] = tangled[q]
    /\ \A l \in Lists : dict'[l][q] = dict[l][q]
    /\ \A n \in Numbers : Concerns(n, q) =>
          pc'[n] = pc[n] /\ step'[n] = step[n] /\ held'[n] = held[n]
    /\ \A o \in Numbers : event[o].player = q => data'[o] = data[o]

LEMMA FresherStays ==
    ASSUME NEW q \in Players, Same(q), NEW o \in Numbers, event[o].player = q
    PROVE  Fresher(q, o)' <=> Fresher(q, o)
<1>1. data'[o] = data[o]
    BY DEF Same
<1>2. \A m \in Numbers : Tells(m, q)' <=> Tells(m, q)
    BY EventsStay DEF Same
<1>3. \A m \in Numbers : Tells(m, q) => pc'[m] = pc[m]
    BY DEF Same, Tells, Concerns
<1> QED BY <1>1, <1>2, <1>3 DEF Fresher

LEMMA StorySame ==
    ASSUME Inv, OnCourse, Own, NEW q \in Players, Same(q), Story(q)
    PROVE  Story(q)'
<1>1. TypeOK /\ NotYet
    BY DEF Inv
<1>2. /\ UNCHANGED <<published, event, place>>
      /\ settled'[q] = settled[q] /\ tangled'[q] = tangled[q]
      /\ \A l \in Lists : dict'[l][q] = dict[l][q]
      /\ \A n \in Numbers : Concerns(n, q) =>
            pc'[n] = pc[n] /\ step'[n] = step[n] /\ held'[n] = held[n]
    BY DEF Same
<1>3. \A n \in Numbers :
          /\ Concerns(n, q)' <=> Concerns(n, q)
          /\ From(n)' = From(n) /\ To(n)' = To(n) /\ Active(n)' = Active(n)
    BY <1>2, EventsStay
<1>4. /\ \A n \in Numbers : Concerns(n, q) => (Started(n)' <=> Started(n))
      /\ \A n \in Numbers : IsNext(n, q)' <=> IsNext(n, q)
      /\ Quiet(q)' <=> Quiet(q)
      /\ Sound(q)' <=> Sound(q)
    BY <1>2, <1>3 DEF Started, IsNext, Quiet, Unfinished, Sound
<1>5. \A p : Is(q, p)' <=> Is(q, p)
    BY <1>2, IsStays
<1>6. Serial(q)'
    BY <1>2, <1>3, <1>4 DEF Serial, Story
<1>7. SettledBy(q)'
    <2>1. settled[q] # 0 => settled[q] \in Numbers
        BY <1>1 DEF TypeOK, Numbers
    <2> QED BY <1>2, <1>3, <2>1 DEF SettledBy, Story
<1>8. Fresh(q)'
    BY <1>2, <1>3, <1>5 DEF Fresh, Story
<1>9. Midways(q)'
    <2> SUFFICES ASSUME NEW n \in Numbers, n <= published, Concerns(n, q), tangled[q] < n
                 PROVE  Midway(n, q)'
        BY <1>2, <1>3 DEF Midways
    <2>1. Midway(n, q)
        BY DEF Story, Midways
    <2>2. pc'[n] = pc[n] /\ step'[n] = step[n] /\ held'[n] = held[n]
        BY <1>2
    <2>3. Removed(n, q)' <=> Removed(n, q)
        BY <1>2, <2>2, ListsAre DEF Removed
    <2>4. Placed(n, q)' <=> Placed(n, q)
        <3>1. pc[n] = "move" => held[n] \in Numbers /\ event[held[n]].player = q
            <4>1. pc[n] = "move" => held[n] \in Numbers
                BY <1>1, PositionAssumption DEF TypeOK, Numbers
            <4>2. pc[n] = "move" => event[n].kind = "despawn"
                BY <1>1, TaskIs
            <4> QED BY <4>1, <4>2 DEF Own, Concerns
        <3>2. pc[n] = "move" => (Fresher(q, held[n])' <=> Fresher(q, held[n]))
            <4>1. ASSUME NEW o \in Numbers, event[o].player = q, held'[n] = o, held[n] = o
                  PROVE  Fresher(q, held[n])' <=> Fresher(q, held[n])
                <5>1. Fresher(q, o)' <=> Fresher(q, o)
                    BY <4>1, FresherStays
                <5> QED BY <4>1, <5>1 DEF Fresher
            <4> QED BY <2>2, <3>1, <4>1
        <3>3. Active(n) \in Lists
            BY <1>1, EventType
        <3>4. dict'[Active(n)'][q] = dict[Active(n)][q]
            BY <1>2, <1>3, <3>3
        <3>5. Is(q, Active(n))' <=> Is(q, Active(n))
            BY <1>2, <1>3 DEF Is
        <3>6. event'[n] = event[n] /\ Is(q, Out)' <=> Is(q, Out)
            BY <1>2, <1>5
        <3> QED BY <1>2, <1>5, <2>2, <3>2, <3>4, <3>5 DEF Placed
    <2> QED BY <1>2, <1>4, <1>5, <2>1, <2>2, <2>3, <2>4 DEF Midway
<1>10. Between(q)'
    <2> SUFFICES ASSUME Sound(q) PROVE
            /\ \A m \in Numbers :
                  m <= published' /\ Concerns(m, q)' /\ ~Started(m)' /\ IsNext(m, q)'
                      => Expected(m, q)'
            /\ Quiet(q)' => Is(q, place[q])'
            /\ Newest(q)'
        BY <1>4 DEF Between
    <2>1. \A m \in Numbers : Expected(m, q)' <=> Expected(m, q)
        BY <1>3, <1>5 DEF Expected
    <2>2. Is(q, place[q])' <=> Is(q, place[q])
        BY <1>2 DEF Is
    <2>3. Newest(q)'
        <3> SUFFICES ASSUME NEW l \in Lists, dict'[l][q] # 0 PROVE Fresher(q, dict[l][q])'
            BY DEF Newest
        <3>1. PICK o \in Numbers : o = dict[l][q] /\ event[o].player = q
            BY <1>1, <1>2, EntryType DEF Own
        <3>2. Fresher(q, o)'
            BY <1>2, <3>1, FresherStays DEF Story, Between, Newest
        <3> QED BY <1>2, <3>1, <3>2 DEF Fresher
    <2> QED BY <1>2, <1>3, <1>4, <2>1, <2>2, <2>3 DEF Story, Between
<1>11. Chain(q)'
    <2>1. \A n \in Numbers, m \in Numbers : Follows(m, n, q)' <=> Follows(m, n, q)
        BY <1>2, <1>3 DEF Follows
    <2>2. \A n \in Numbers : IsLast(n, q)' <=> IsLast(n, q)
        BY <1>2, <1>3 DEF IsLast
    <2> QED BY <1>2, <1>3, <2>1, <2>2 DEF Story, Chain
<1> QED BY <1>6, <1>7, <1>8, <1>9, <1>10, <1>11 DEF Story

LEMMA ApartStep ==
    ASSUME Inv, OnCourse, Own, NEW n \in Numbers, Steps(n),
           NEW q \in Players, ~Concerns(n, q), Story(q)
    PROVE  Story(q)'
<1>1. tangled'[q] = tangled[q] /\ settled'[q] = settled[q]
    BY DEF Steps, History, Overtaken, Learned, Overtakes, Settles
<1>2. Same(q)
    BY <1>1 DEF Steps, Advance, Apart, Same
<1> QED BY <1>2, StorySame

\* A task that has not started is before its first operation.
LEMMA Unstarted ==
    ASSUME OnCourse, NEW n \in Numbers, n <= published, ~Started(n)
    PROVE  /\ pc[n] \notin {"done", "none", "join", "spawn", "move", "update"} /\ step[n] = 1
           /\ pc[n] = "unlobby" => event[n].kind = "spawn"
BY CourseIs DEF OnCourse, Started

LEMMA UnstartedMidway ==
    ASSUME OnCourse, NEW n \in Numbers, n <= published, ~Started(n), NEW q \in Players,
           pc'[n] = pc[n], step'[n] = step[n], UNCHANGED event
    PROVE  Midway(n, q)'
<1>1. /\ pc[n] \notin {"done", "none", "join", "spawn", "move", "update"} /\ step[n] = 1
      /\ pc[n] = "unlobby" => event[n].kind = "spawn"
    BY Unstarted
<1>2. Removed(n, q)'
    BY <1>1 DEF Removed
<1> QED BY <1>1, <1>2 DEF Midway, Placed

\* The tasks of q that are later than one he waits for have not started, unless they
\* were noticed.
LEMMA LaterUnstarted ==
    ASSUME TypeOK, NEW n \in Numbers, n <= published, pc[n] # "done",
           NEW q \in Players, Concerns(n, q), Serial(q),
           NEW m \in Numbers, n < m, Concerns(m, q), tangled[q] < m
    PROVE  ~Started(m)
BY DEF Serial, IsNext

\* A task that overtook another: nothing is known of the player until he is settled again.
LEMMA TangledStep ==
    ASSUME Inv, Inv', OnCourse, OnCourse', NEW n \in Numbers, Steps(n),
           NEW q \in Players, Concerns(n, q), n <= tangled'[q], Story(q)
    PROVE  Story(q)'
<1>1. TypeOK /\ TypeOK'
    BY DEF Inv
<1>2. /\ UNCHANGED <<published, event, place>> /\ n <= published /\ pc[n] # "done"
      /\ \A m \in Numbers : m # n => pc'[m] = pc[m] /\ step'[m] = step[m]
    BY DEF Steps, Advance
<1>3. tangled[q] <= tangled'[q] /\ Learned(n, q)
    BY DEF Steps, History, Overtaken
<1>4. /\ tangled[q] \in Nat /\ tangled'[q] \in Nat /\ settled[q] \in 0 .. MaxEvents
      /\ settled'[q] \in 0 .. MaxEvents /\ n \in Nat /\ n > 0
    BY <1>1 DEF TypeOK, Numbers
<1>5. \A m \in Numbers : Concerns(m, q)' <=> Concerns(m, q)
    BY <1>2, EventsStay
<1>6. ASSUME NEW m \in Numbers, Concerns(m, q), tangled'[q] < m, m <= published
      PROVE  ~Started(m)' /\ ~Started(m)
    <2>1. n < m /\ tangled[q] < m
        BY <1>3, <1>4, <1>6 DEF Numbers
    <2>2. ~Started(m)
        BY <1>1, <1>2, <1>6, <2>1, LaterUnstarted DEF Story
    <2> QED BY <1>2, <1>4, <2>1, <2>2 DEF Started
<1>7. ~Sound(q)'
    <2> SUFFICES ASSUME tangled'[q] < settled'[q] PROVE FALSE
        BY DEF Sound
    <2>1. settled'[q] # n
        BY <1>4
    <2>2. settled'[q] = settled[q]
        BY <1>3, <2>1 DEF Learned
    <2>3. settled[q] \in Numbers
        BY <1>4, <2>2 DEF Numbers
    <2>4. settled[q] <= published /\ Concerns(settled[q], q) /\ pc[settled[q]] = "done"
        BY <2>3 DEF Story, SettledBy, Numbers
    <2>5. ~Started(settled[q])
        BY <1>6, <2>2, <2>3, <2>4
    <2> QED BY <2>3, <2>4, <2>5, Unstarted
<1>8. Serial(q)'
    BY <1>2, <1>5, <1>6 DEF Serial, Started
<1>9. SettledBy(q)'
    <2>1. CASE settled'[q] = settled[q]
        <3>1. settled[q] # 0 => settled[q] \in Numbers
            BY <1>4 DEF Numbers
        <3> QED BY <1>2, <1>5, <2>1, <3>1 DEF SettledBy, Story
    <2>2. CASE settled'[q] = n /\ pc'[n] = "done"
        BY <1>2, <1>5, <2>2 DEF SettledBy
    <2> QED BY <1>3, <2>1, <2>2 DEF Learned
<1>10. Fresh(q)'
    BY <1>4 DEF Fresh
<1>11. Midways(q)'
    <2> SUFFICES ASSUME NEW m \in Numbers, m <= published, Concerns(m, q), tangled'[q] < m
                 PROVE  Midway(m, q)'
        BY <1>2, <1>5 DEF Midways
    <2>1. m # n
        BY <1>4
    <2>2. ~Started(m)
        BY <1>6
    <2> QED BY <1>2, <2>1, <2>2, UnstartedMidway
<1>12. Between(q)'
    BY <1>7 DEF Between
<1>13. Chain(q)'
    <2>1. \A k \in Numbers : From(k)' = From(k) /\ To(k)' = To(k)
        BY <1>2, EventsStay
    <2>2. \A k \in Numbers, m \in Numbers : Follows(m, k, q)' <=> Follows(m, k, q)
        BY <1>2, <1>5 DEF Follows
    <2>3. \A k \in Numbers : IsLast(k, q)' <=> IsLast(k, q)
        BY <1>2, <1>5 DEF IsLast
    <2> QED BY <1>2, <1>5, <2>1, <2>2, <2>3 DEF Story, Chain
<1> QED BY <1>8, <1>9, <1>10, <1>11, <1>12, <1>13 DEF Story
-----------------------------------------------------------------------------
(* A step in order *)

\* What the operation of a task has to see to, when it overtakes none: the task stands
\* as it should, ...
Stands(n, q) == Midway(n, q)'

\* ... nothing is learned without settling the player, ...
Unknown(n, q) ==
    tangled'[q] = 0 /\ settled'[q] = 0 =>
        Is(q, Out)' /\ pc'[n] \notin {"move", "update"}

\* ... a task that is done has put the player where its event says, ...
Arrived(n, q) == Sound(q)' /\ pc'[n] = "done" => Is(q, To(n))'

\* ... and his object is the newest.
Kept(q) == Sound(q)' => Newest(q)'

LEMMA InOrderStep ==
    ASSUME Inv, Inv', OnCourse, OnCourse', NEW n \in Numbers, Steps(n),
           NEW q \in Players, Concerns(n, q), tangled'[q] < n, Story(q),
           Stands(n, q), Unknown(n, q), Arrived(n, q), Kept(q)
    PROVE  Story(q)'
<1>1. TypeOK /\ TypeOK'
    BY DEF Inv
<1>2. /\ UNCHANGED <<published, event, place>> /\ n <= published /\ pc[n] # "done"
      /\ \A m \in Numbers : m # n => pc'[m] = pc[m] /\ step'[m] = step[m]
    BY DEF Steps, Advance
<1>3. /\ tangled[q] \in Nat /\ tangled'[q] \in Nat /\ settled[q] \in 0 .. MaxEvents
      /\ settled'[q] \in 0 .. MaxEvents /\ n \in Nat /\ n > 0
    BY <1>1 DEF TypeOK, Numbers
<1>4. ~Overtakes(n, q) /\ tangled'[q] = tangled[q] /\ Learned(n, q)
    BY <1>3 DEF Steps, History, Overtaken
<1>5. IsNext(n, q)
    <2> SUFFICES ASSUME NEW m \in Numbers, m < n, Concerns(m, q) PROVE pc[m] = "done"
        BY DEF IsNext
    <2>1. m <= published
        BY <1>1, <1>2 DEF TypeOK, Numbers
    <2> QED BY <1>4, <2>1 DEF Overtakes, Unfinished
<1>6. \A m \in Numbers :
          /\ Concerns(m, q)' <=> Concerns(m, q)
          /\ From(m)' = From(m) /\ To(m)' = To(m)
    BY <1>2, EventsStay
<1>7. ASSUME NEW m \in Numbers, Concerns(m, q), m < n
      PROVE  pc[m] = "done" /\ pc'[m] = "done" /\ Started(m)'
    <2>1. pc[m] = "done" /\ m # n /\ m <= published
        BY <1>1, <1>2, <1>3, <1>5, <1>7 DEF IsNext, TypeOK, Numbers
    <2>2. Started(m)
        BY <2>1, Unstarted
    <2> QED BY <1>2, <2>1, <2>2 DEF Started
<1>8. ASSUME NEW m \in Numbers, Concerns(m, q), n < m, m <= published
      PROVE  ~Started(m) /\ ~Started(m)' /\ pc'[m] = pc[m] /\ step'[m] = step[m]
    <2>1. tangled[q] < m /\ m # n
        BY <1>3, <1>4, <1>8 DEF Numbers
    <2>2. ~Started(m)
        BY <1>1, <1>2, <1>8, <2>1, LaterUnstarted DEF Story
    <2> QED BY <1>2, <2>1, <2>2 DEF Started
<1>9. \A m \in Numbers : m < n \/ m = n \/ n < m
    BY <1>3 DEF Numbers
<1>10. IsNext(n, q)'
    BY <1>6, <1>7 DEF IsNext
<1>11. Serial(q)'
    <2> SUFFICES ASSUME NEW m \in Numbers, Concerns(m, q), Started(m)' PROVE IsNext(m, q)'
        BY <1>6 DEF Serial
    <2>1. m <= published
        BY <1>2 DEF Started
    <2>2. m < n \/ m = n
        BY <1>8, <1>9, <2>1
    <2>3. \A k \in Numbers : k < m => k < n
        BY <1>3, <2>2 DEF Numbers
    <2> QED BY <1>6, <1>7, <2>3 DEF IsNext
<1>12. SettledBy(q)'
    <2>1. CASE settled'[q] = settled[q]
        <3>1. settled[q] # 0 => settled[q] \in Numbers
            BY <1>3 DEF Numbers
        <3> QED BY <1>2, <1>6, <2>1, <3>1 DEF SettledBy, Story
    <2>2. CASE settled'[q] = n /\ pc'[n] = "done"
        BY <1>2, <1>6, <2>2 DEF SettledBy
    <2> QED BY <1>4, <2>1, <2>2 DEF Learned
<1>13. Fresh(q)'
    <2> SUFFICES ASSUME tangled'[q] = 0, settled'[q] = 0
                 PROVE  Is(q, Out)' /\ \A m \in Numbers : Concerns(m, q) => pc'[m] \notin {"move", "update"}
        BY <1>6 DEF Fresh
    <2>1. settled[q] = 0
        BY <1>3, <1>4 DEF Learned
    <2>2. \A m \in Numbers : Concerns(m, q) => pc[m] \notin {"move", "update"}
        BY <1>4, <2>1 DEF Story, Fresh
    <2> QED BY <1>2, <2>2 DEF Unknown
<1>14. Midways(q)'
    <2> SUFFICES ASSUME NEW m \in Numbers, m <= published, Concerns(m, q)
                 PROVE  Midway(m, q)'
        BY <1>2, <1>6 DEF Midways
    <2>1. CASE m < n
        BY <1>7, <2>1 DEF Midway, Placed
    <2>2. CASE m = n
        BY <2>2 DEF Stands
    <2>3. CASE n < m
        BY <1>2, <1>8, <2>3, UnstartedMidway
    <2> QED BY <1>9, <2>1, <2>2, <2>3
<1>15. Chain(q)'
    <2>1. \A k \in Numbers, m \in Numbers : Follows(m, k, q)' <=> Follows(m, k, q)
        BY <1>2, <1>6 DEF Follows
    <2>2. \A k \in Numbers : IsLast(k, q)' <=> IsLast(k, q)
        BY <1>2, <1>6 DEF IsLast
    <2> QED BY <1>2, <1>6, <2>1, <2>2 DEF Story, Chain
<1>16. Between(q)'
    <2> SUFFICES ASSUME Sound(q)'
                 PROVE  /\ \A m \in Numbers :
                              m <= published /\ Concerns(m, q) /\ ~Started(m)' /\ IsNext(m, q)'
                                  => Expected(m, q)'
                        /\ Quiet(q)' => Is(q, place[q])'
        BY <1>2, <1>6 DEF Between, Kept
    <2>1. ASSUME NEW m \in Numbers, m <= published, Concerns(m, q), ~Started(m)', IsNext(m, q)'
          PROVE  Expected(m, q)'
        <3>1. n < m
            BY <1>7, <1>9, <2>1 DEF Steps
        <3>2. pc'[n] = "done"
            BY <1>6, <2>1, <3>1 DEF IsNext
        <3>3. Is(q, To(n))'
            BY <3>2 DEF Arrived
        <3>4. ASSUME NEW k \in Numbers, n < k, k < m PROVE ~Concerns(k, q)
            <4> SUFFICES ASSUME Concerns(k, q) PROVE FALSE
                OBVIOUS
            <4>1. k <= published
                BY <1>1, <2>1, <3>4 DEF TypeOK, Numbers
            <4>2. ~Started(k)' /\ pc'[k] = "done"
                BY <1>6, <1>8, <2>1, <3>4, <4>1 DEF IsNext
            <4>3. pc[k] = "done" /\ ~Started(k)
                BY <1>8, <3>4, <4>1, <4>2
            <4> QED BY <4>1, <4>3, Unstarted
        <3>5. Follows(m, n, q)
            BY <2>1, <3>1, <3>4 DEF Follows
        <3>6. To(n) \in From(m)
            BY <1>2, <2>1, <3>5 DEF Story, Chain
        <3> QED BY <1>6, <3>3, <3>6 DEF Expected, Is
    <2>2. ASSUME Quiet(q)' PROVE Is(q, place[q])'
        <3>1. \A m \in Numbers : m <= published /\ Concerns(m, q) => pc'[m] = "done"
            BY <1>2, <1>6, <2>2 DEF Quiet, Unfinished
        <3>2. IsLast(n, q)
            <4> SUFFICES ASSUME NEW k \in Numbers, n < k, k <= published, Concerns(k, q)
                         PROVE  FALSE
                BY DEF IsLast
            <4>1. pc[k] = "done" /\ ~Started(k)
                BY <1>8, <3>1
            <4> QED BY <4>1, Unstarted
        <3>3. place[q] = To(n)
            BY <1>2, <3>2 DEF Story, Chain
        <3>4. Is(q, To(n))'
            BY <1>2, <3>1 DEF Arrived
        <3> QED BY <1>2, <1>6, <3>3, <3>4 DEF Is
    <2> QED BY <2>1, <2>2
<1> QED BY <1>11, <1>12, <1>13, <1>14, <1>15, <1>16 DEF Story

\* What a task in order may rely on.
LEMMA InOrder ==
    ASSUME Inv, Inv', OnCourse, NEW n \in Numbers, Steps(n),
           NEW q \in Players, Concerns(n, q), tangled'[q] < n, Story(q)
    PROVE  /\ Midway(n, q) /\ n <= published /\ UNCHANGED <<published, event>>
           /\ tangled'[q] = tangled[q]
           /\ Sound(q) /\ ~Started(n) => Expected(n, q)
           /\ Sound(q) => Newest(q)
           /\ Sound(q)' => Sound(q) \/ (pc'[n] = "done" /\ Settles(n, q))
           /\ settled'[q] = 0 => settled[q] = 0 /\ ~(pc'[n] = "done" /\ Settles(n, q))
           /\ tangled[q] = 0 /\ ~Sound(q) => Is(q, Out) /\ pc[n] \notin {"move", "update"}
           /\ tangled[q] = 0 /\ settled[q] = 0 => Is(q, Out) /\ pc[n] \notin {"move", "update"}
           /\ \A m \in Numbers : Concerns(m, q) /\ pc'[m] = "done" => m <= n
<1>1. TypeOK /\ TypeOK' /\ NotYet
    BY DEF Inv
<1>2. /\ UNCHANGED <<published, event>> /\ n <= published /\ pc[n] # "done"
      /\ \A m \in Numbers : m # n => pc'[m] = pc[m]
    BY DEF Steps, Advance
<1>3. /\ tangled[q] \in Nat /\ tangled'[q] \in Nat /\ settled[q] \in Nat /\ settled'[q] \in Nat
      /\ n \in Nat /\ n > 0
    BY <1>1 DEF TypeOK, Numbers
<1>4. ~Overtakes(n, q) /\ tangled'[q] = tangled[q] /\ Learned(n, q) /\ Learns(n, q)
    BY <1>3 DEF Steps, History, Overtaken
<1>5. Midway(n, q)
    BY <1>2, <1>4 DEF Story, Midways
<1>6. Sound(q) /\ ~Started(n) => Expected(n, q)
    <2>1. IsNext(n, q)
        <3> SUFFICES ASSUME NEW m \in Numbers, m < n, Concerns(m, q) PROVE pc[m] = "done"
            BY DEF IsNext
        <3>1. m <= published
            BY <1>1, <1>2 DEF TypeOK, Numbers
        <3> QED BY <1>4, <3>1 DEF Overtakes, Unfinished
    <2> QED BY <1>2, <2>1 DEF Story, Between
<1>7. Sound(q)' => Sound(q) \/ (pc'[n] = "done" /\ Settles(n, q))
    BY <1>4 DEF Sound, Learned
<1>8. settled'[q] = 0 => settled[q] = 0 /\ ~(pc'[n] = "done" /\ Settles(n, q))
    BY <1>3, <1>4 DEF Learned, Learns
<1>9. tangled[q] = 0 /\ settled[q] = 0 => Is(q, Out) /\ pc[n] \notin {"move", "update"}
    BY DEF Story, Fresh
<1>10. tangled[q] = 0 /\ ~Sound(q) => settled[q] = 0
    BY <1>3 DEF Sound
<1>11. ASSUME NEW m \in Numbers, Concerns(m, q), pc'[m] = "done" PROVE m <= n
    <2> SUFFICES ASSUME n < m PROVE FALSE
        BY <1>3 DEF Numbers
    <2>1. m # n /\ tangled[q] < m /\ pc[m] = "done"
        BY <1>2, <1>3, <1>4, <1>11 DEF Numbers
    <2>2. m <= published
        BY <1>1, <2>1 DEF NotYet, TypeOK, Numbers
    <2>3. ~Started(m)
        BY <1>1, <1>2, <1>11, <2>1, LaterUnstarted DEF Story
    <2> QED BY <2>1, <2>2, <2>3, Unstarted
<1> QED BY <1>2, <1>4, <1>5, <1>6, <1>7, <1>8, <1>9, <1>10, <1>11 DEF Story, Between

\* The dictionaries lose what they had of q, or keep it.
LEMMA LessIsOut ==
    ASSUME NEW q \in Players, \A l \in Lists : dict'[l][q] \in {0, dict[l][q]}, Is(q, Out)
    PROVE  Is(q, Out)'
BY OutIsNone DEF Is

\* An operation that takes objects out and sets none is at most the end of an event that
\* tells nothing of the player.
LEMMA KeptLess ==
    ASSUME NEW n \in Numbers, NEW q \in Players, Newest(q), UNCHANGED <<data, event>>,
           \A l \in Lists : dict'[l][q] \in {0, dict[l][q]},
           \A m \in Numbers : m # n => pc'[m] = pc[m],
           Tells(n, q) => pc'[n] # "done"
    PROVE  Newest(q)'
<1> SUFFICES ASSUME NEW l \in Lists, dict'[l][q] # 0,
                    NEW m \in Numbers, Tells(m, q), pc'[m] = "done"
             PROVE  m <= data[dict'[l][q]]
    BY DEF Newest, Fresher, Tells
<1>1. dict'[l][q] = dict[l][q] /\ pc[m] = "done"
    OBVIOUS
<1> QED BY <1>1 DEF Newest, Fresher

\* A step that leaves one object of q, which is the newest.
LEMMA KeptOne ==
    ASSUME NEW n \in Numbers, NEW q \in Players, UNCHANGED event,
           NEW list \in Lists, \A l \in Lists : dict'[l][q] # 0 => dict'[l][q] = dict'[list][q],
           data'[dict'[list][q]] = n,
           \A m \in Numbers : Concerns(m, q) /\ pc'[m] = "done" => m <= n
    PROVE  Newest(q)'
<1> SUFFICES ASSUME NEW l \in Lists, dict'[l][q] # 0,
                    NEW m \in Numbers, Tells(m, q), pc'[m] = "done"
             PROVE  m <= data'[dict'[l][q]]
    BY DEF Newest, Fresher, Tells
<1>1. Concerns(m, q)
    BY DEF Tells, Concerns
<1> QED BY <1>1

Sees(n, q) == Stands(n, q) /\ Unknown(n, q) /\ Arrived(n, q) /\ Kept(q)

LEMMA RemoveOrder ==
    ASSUME Inv, Inv', OnCourse, NEW n \in Numbers, Steps(n), Remove(n) \/ Clear(n),
           NEW q \in Players, Concerns(n, q), tangled'[q] < n, Story(q)
    PROVE  Sees(n, q)
<1>1. TypeOK /\ TypeOK' /\ NotYet
    BY DEF Inv
<1>2. /\ pc[n] \in {"remove", "clear"} /\ UNCHANGED <<data, held>>
      /\ step[n] \in 1 .. 4 /\ step'[n] \in 1 .. 4
      /\ step[n] < 4 => pc'[n] = pc[n] /\ step'[n] = step[n] + 1
      /\ ~(step[n] < 4) => step[n] = 4 /\ pc'[n] = IF event[n].kind = "join" THEN "join" ELSE "done"
    <2>1. CASE Remove(n)
        BY <1>1, <2>1, RemoveStep DEF TypeOK
    <2>2. CASE Clear(n)
        <3>1. pc[n] = "clear" /\ event[n].kind = "clear"
            BY <1>1, <2>2, ClearStep, TaskIs
        <3> QED BY <1>1, <2>2, <3>1, ClearStep DEF TypeOK
    <2> QED BY <2>1, <2>2
<1>3. /\ dict'[Order[step[n]]][q] = 0
      /\ \A l \in Lists : l # Order[step[n]] => dict'[l][q] = dict[l][q]
    <2>1. CASE Remove(n)
        <3>1. event[n].kind # "clear"
            BY <1>1, <2>1, RemoveStep, TaskIs
        <3> QED BY <2>1, <3>1, RemoveStep DEF Concerns
    <2>2. CASE Clear(n)
        BY <2>2, ClearStep
    <2> QED BY <2>1, <2>2
<1>4. \A l \in Lists : dict'[l][q] \in {0, dict[l][q]}
    BY <1>3
<1>5. event[n].kind \in {"join", "leave", "clear"}
    BY <1>1, <1>2, TaskIs
<1>6. \A i \in 1 .. 4 : i < step[n] \/ i = step[n] => dict'[Order[i]][q] = 0
    <2>1. \A i \in 1 .. 4 : i < step[n] => dict[Order[i]][q] = 0
        BY <1>2, InOrder DEF Midway, Removed
    <2> QED BY <1>3, <1>4, <2>1, ListsAre
<1>7. step[n] = 4 => Is(q, Out)'
    <2> SUFFICES ASSUME step[n] = 4, NEW l \in Lists PROVE dict'[l][q] = 0
        BY OutIsNone DEF Is
    <2>1. PICK i \in 1 .. 4 : Order[i] = l
        BY OutIsNone
    <2> QED BY <1>6, <2>1
<1>8. Stands(n, q)
    <2>1. CASE step[n] < 4
        <3>1. Removed(n, q)'
            BY <1>2, <1>6, <2>1 DEF Removed
        <3> QED BY <1>2, <2>1, <3>1 DEF Stands, Midway, Placed
    <2>2. CASE ~(step[n] < 4)
        BY <1>2, <1>7, <2>2 DEF Stands, Midway, Placed
    <2> QED BY <2>1, <2>2
<1>9. Unknown(n, q)
    BY <1>2, <1>4, InOrder, LessIsOut DEF Unknown
<1>10. Arrived(n, q)
    <2> SUFFICES ASSUME pc'[n] = "done" PROVE Is(q, To(n))'
        BY DEF Arrived
    <2>1. event[n].kind \in {"leave", "clear"} /\ step[n] = 4
        BY <1>2, <1>5
    <2>2. To(n)' = Out
        BY <2>1, FromTo, InOrder, EventsStay
    <2> QED BY <1>7, <2>1, <2>2 DEF Is
<1>11. Kept(q)
    <2> SUFFICES ASSUME Sound(q)' PROVE Newest(q)'
        BY DEF Kept
    <2>1. CASE pc'[n] = "done"
        <3>1. step[n] = 4
            BY <1>2, <2>1
        <3> QED BY <1>7, <3>1, IsOne, OutIsNone DEF Newest, Is
    <2>2. CASE pc'[n] # "done"
        <3>1. Newest(q) /\ UNCHANGED event
            BY <2>2, InOrder
        <3>2. \A m \in Numbers : m # n => pc'[m] = pc[m]
            BY DEF Steps, Advance
        <3> QED BY <1>2, <1>4, <2>2, <3>1, <3>2, KeptLess
    <2> QED BY <2>1, <2>2
<1> QED BY <1>8, <1>9, <1>10, <1>11 DEF Sees

LEMMA MakeOrder ==
    ASSUME Inv, Inv', OnCourse, NEW n \in Numbers, Steps(n), Join(n) \/ Spawn(n),
           NEW q \in Players, Concerns(n, q), tangled'[q] < n, Story(q)
    PROVE  Sees(n, q)
<1>1. TypeOK /\ TypeOK' /\ NotYet
    BY DEF Inv
<1>2. PICK list \in Lists :
          (Join(n) /\ list = Lobby(n)) \/ (Spawn(n) /\ list = Active(n))
    BY <1>1, EventType
<1>3. /\ pc'[n] = "done" /\ pc[n] \in {"join", "spawn"} /\ data'[n] = n
      /\ Join(n) => pc[n] = "join"
      /\ Spawn(n) => pc[n] = "spawn"
      /\ dict[list][event[n].player] = 0 => dict'[list][event[n].player] = n
      /\ \A l \in Lists, r \in Players :
            \/ dict'[l][r] = dict[l][r]
            \/ l = list /\ r = event[n].player /\ dict[l][r] = 0 /\ dict'[l][r] = n
    BY <1>2, MakeStep
<1>4. /\ Join(n) => event[n].kind = "join"
      /\ Spawn(n) => event[n].kind \in {"spawn", "position"}
    BY <1>1, <1>3, TaskIs
<1>5. event[n].player = q /\ To(n) = list
    BY <1>2, <1>4, FromTo DEF Concerns
<1>6. Sound(q)' \/ Join(n) => Is(q, Out)
    <2>1. CASE Join(n)
        BY <1>3, <2>1, InOrder DEF Midway
    <2>2. CASE Sound(q)' /\ Spawn(n)
        <3>1. Sound(q) \/ tangled[q] = 0
            BY <1>4, <2>2, InOrder DEF Settles
        <3> QED BY <1>3, <2>2, <3>1, InOrder DEF Midway, Placed
    <2> QED BY <1>2, <2>1, <2>2
<1>7. Sound(q)' => dict'[list][q] = n /\ \A l \in Lists : l # list => dict'[l][q] = 0
    <2> SUFFICES ASSUME Sound(q)'
                 PROVE  dict'[list][q] = n /\ \A l \in Lists : l # list => dict'[l][q] = 0
        OBVIOUS
    <2>1. \A l \in Lists : dict[l][q] = 0
        BY <1>6, OutIsNone DEF Is
    <2> QED BY <1>3, <1>5, <2>1
<1>8. n # 0
    BY DEF Numbers
<1>9. Stands(n, q)
    BY <1>3 DEF Stands, Midway, Placed
<1>10. Unknown(n, q)
    <2>1. tangled'[q] = 0 => Settles(n, q)
        BY <1>2, <1>4, InOrder DEF Settles
    <2> QED BY <1>3, <2>1, InOrder DEF Unknown
<1>11. Arrived(n, q)
    <2> SUFFICES ASSUME Sound(q)' PROVE Is(q, To(n))'
        BY DEF Arrived
    <2>1. To(n)' = list
        BY <1>5, InOrder, EventsStay
    <2> QED BY <1>7, <1>8, <2>1 DEF Is
<1>12. Kept(q)
    <2> SUFFICES ASSUME Sound(q)' PROVE Newest(q)'
        BY DEF Kept
    <2>1. /\ \A l \in Lists : dict'[l][q] # 0 => dict'[l][q] = dict'[list][q]
          /\ data'[dict'[list][q]] = n
        BY <1>3, <1>7
    <2>2. UNCHANGED event /\ \A m \in Numbers : Concerns(m, q) /\ pc'[m] = "done" => m <= n
        BY InOrder
    <2> QED BY <2>1, <2>2, KeptOne
<1> QED BY <1>9, <1>10, <1>11, <1>12 DEF Sees

LEMMA UnlobbyOrder ==
    ASSUME Inv, Inv', OnCourse, NEW n \in Numbers, Steps(n), Unlobby(n),
           NEW q \in Players, Concerns(n, q), tangled'[q] < n, Story(q)
    PROVE  Sees(n, q)
<1>1. TypeOK /\ TypeOK' /\ NotYet
    BY DEF Inv
<1>2. /\ pc[n] = "unlobby" /\ pc'[n] = "spawn" /\ UNCHANGED <<data, step, held>>
      /\ dict'[Lobby(n)][event[n].player] = 0
      /\ \A l \in Lists, r \in Players :
            l # Lobby(n) \/ r # event[n].player => dict'[l][r] = dict[l][r]
    BY UnlobbyStep
<1>3. event[n].kind \in {"spawn", "position"} /\ event[n].player = q
    BY <1>1, <1>2, TaskIs DEF Concerns
<1>4. Lobby(n) \in Lists
    BY <1>1, EventType
<1>5. \A l \in Lists : dict'[l][q] \in {0, dict[l][q]}
    BY <1>2, <1>3
<1>6. Sound(q)' => Sound(q)
    BY <1>2, InOrder
<1>7. Sound(q) \/ tangled[q] = 0 => Is(q, Out)'
    <2>1. CASE Sound(q) /\ event[n].kind = "spawn"
        <3>1. ~Started(n)
            <4>1. step[n] = 1
                BY <2>1 DEF OnCourse
            <4>2. FirstStep["spawn"] = "unlobby"
                BY CourseIs
            <4> QED BY <1>2, <2>1, <4>1, <4>2 DEF Started
        <3>2. Is(q, Lobby(n))
            BY <2>1, <3>1, InOrder, FromTo DEF Expected
        <3> QED BY <1>2, <1>3, <1>4, <3>2, OutIsNone DEF Is
    <2>2. CASE (Sound(q) \/ tangled[q] = 0) /\ event[n].kind = "position"
        <3>1. Is(q, Out)
            BY <1>2, <2>2, InOrder DEF Midway, Placed
        <3> QED BY <1>5, <3>1, LessIsOut
    <2>3. CASE ~Sound(q) /\ tangled[q] = 0
        <3>1. Is(q, Out)
            BY <2>3, InOrder
        <3> QED BY <1>5, <3>1, LessIsOut
    <2> QED BY <1>3, <2>1, <2>2, <2>3
<1>8. Stands(n, q)
    <2>1. Sound(q)' \/ tangled'[q] = 0 => Is(q, Out)'
        BY <1>6, <1>7, InOrder
    <2> QED BY <1>2, <2>1 DEF Stands, Midway, Placed
<1>9. Unknown(n, q)
    BY <1>2, <1>5, InOrder, LessIsOut DEF Unknown
<1>10. Arrived(n, q)
    BY <1>2 DEF Arrived
<1>11. Kept(q)
    <2> SUFFICES ASSUME Sound(q)' PROVE Newest(q)'
        BY DEF Kept
    <2>1. Newest(q) /\ UNCHANGED event /\ \A m \in Numbers : m # n => pc'[m] = pc[m]
        BY <1>6, InOrder DEF Steps, Advance
    <2> QED BY <1>2, <1>5, <2>1, KeptLess
<1> QED BY <1>8, <1>9, <1>10, <1>11 DEF Sees

LEMMA TakeOrder ==
    ASSUME Inv, Inv', OnCourse, NEW n \in Numbers, Steps(n), Take(n),
           NEW q \in Players, Concerns(n, q), tangled'[q] < n, Story(q)
    PROVE  Sees(n, q)
<1>1. TypeOK /\ TypeOK' /\ NotYet
    BY DEF Inv
<1>2. /\ pc[n] = "take" /\ UNCHANGED <<data, step>>
      /\ dict[Active(n)][event[n].player] = 0 => pc'[n] = "done"
      /\ dict[Active(n)][event[n].player] # 0 => pc'[n] = "move"
      /\ held'[n] = dict[Active(n)][event[n].player]
      /\ dict'[Active(n)][event[n].player] = 0
      /\ \A l \in Lists, r \in Players :
            l # Active(n) \/ r # event[n].player => dict'[l][r] = dict[l][r]
    BY TakeStep
<1>3. event[n].kind = "despawn" /\ event[n].player = q
    BY <1>1, <1>2, TaskIs DEF Concerns
<1>4. Active(n) \in Lists /\ Lobby(n) \in Lists /\ Active(n) # Lobby(n)
    BY <1>1, EventType
<1>5. \A l \in Lists : dict'[l][q] \in {0, dict[l][q]}
    BY <1>2, <1>3
<1>6. (Sound(q)' <=> Sound(q)) /\ ~Settles(n, q)
    <2>1. ~Settles(n, q)
        BY <1>3 DEF Settles
    <2>2. settled'[q] = settled[q] /\ tangled'[q] = tangled[q]
        BY <2>1, InOrder DEF Steps, History, Learned
    <2> QED BY <2>1, <2>2 DEF Sound
<1>7. Sound(q) => Is(q, Lobby(n)) \/ Is(q, Active(n))
    <2>1. ~Started(n)
        <3>1. step[n] = 1
            BY <1>3 DEF OnCourse
        <3>2. FirstStep["despawn"] = "take"
            BY CourseIs
        <3> QED BY <1>2, <1>3, <3>1, <3>2 DEF Started
    <2> QED BY <1>3, <2>1, InOrder, FromTo DEF Expected
<1>8. pc'[n] = "move" /\ (Sound(q) \/ tangled[q] = 0) =>
          Is(q, Out)' /\ Newest(q) /\ dict[Active(n)][q] # 0
    <2> SUFFICES ASSUME pc'[n] = "move", Sound(q) \/ tangled[q] = 0
                 PROVE  Is(q, Out)' /\ Newest(q) /\ dict[Active(n)][q] # 0
        OBVIOUS
    <2>1. dict[Active(n)][q] # 0
        BY <1>2, <1>3
    <2>2. ~Is(q, Out)
        BY <1>4, <2>1, IsOne
    <2>3. Sound(q)
        BY <2>2, InOrder
    <2>4. Is(q, Active(n))
        BY <1>4, <1>7, <2>1, <2>3, IsOne
    <2>5. Is(q, Out)'
        BY <1>2, <1>3, <1>4, <2>4, OutIsNone DEF Is
    <2> QED BY <2>1, <2>3, <2>5, InOrder
<1>9. Stands(n, q)
    <2>1. CASE pc'[n] = "move"
        <3>1. ASSUME Sound(q) \/ tangled[q] = 0 PROVE Fresher(q, held[n])'
            <4>1. Fresher(q, dict[Active(n)][q])
                BY <1>4, <1>8, <2>1, <3>1 DEF Newest
            <4>2. UNCHANGED <<event, data>> /\ held'[n] = dict[Active(n)][q]
                BY <1>2, <1>3, InOrder
            <4>3. \A m \in Numbers : Tells(m, q) /\ pc'[m] = "done" => pc[m] = "done"
                BY <1>3, InOrder DEF Tells, Steps, Advance
            <4> QED BY <4>1, <4>2, <4>3 DEF Fresher, Tells
        <3>2. Sound(q)' \/ tangled'[q] = 0 => Is(q, Out)' /\ Fresher(q, held[n])'
            BY <1>6, <1>8, <2>1, <3>1, InOrder
        <3> QED BY <2>1, <3>2 DEF Stands, Midway, Placed
    <2>2. CASE pc'[n] = "done"
        BY <2>2 DEF Stands, Midway, Placed
    <2> QED BY <1>2, <2>1, <2>2
<1>10. Unknown(n, q)
    <2> SUFFICES ASSUME tangled'[q] = 0, settled'[q] = 0
                 PROVE  Is(q, Out)' /\ pc'[n] \notin {"move", "update"}
        BY DEF Unknown
    <2>1. Is(q, Out)
        BY InOrder
    <2>2. dict[Active(n)][event[n].player] = 0
        BY <1>3, <1>4, <2>1, IsOne
    <2> QED BY <1>2, <1>5, <2>1, <2>2, LessIsOut
<1>11. Arrived(n, q)
    <2> SUFFICES ASSUME Sound(q), pc'[n] = "done" PROVE Is(q, To(n))'
        BY <1>6 DEF Arrived
    <2>1. dict[Active(n)][q] = 0
        BY <1>2, <1>3
    <2>2. Is(q, Lobby(n))
        BY <1>4, <1>7, <2>1, IsOne
    <2>3. \A l \in Lists : dict'[l][q] = dict[l][q]
        BY <1>2, <1>3, <2>1
    <2>4. To(n)' = Lobby(n)
        BY <1>3, FromTo, InOrder, EventsStay
    <2> QED BY <2>2, <2>3, <2>4 DEF Is
<1>12. Kept(q)
    <2> SUFFICES ASSUME Sound(q) PROVE Newest(q)'
        BY <1>6 DEF Kept
    <2>1. Newest(q) /\ UNCHANGED event /\ \A m \in Numbers : m # n => pc'[m] = pc[m]
        BY InOrder DEF Steps, Advance
    <2>2. ~Tells(n, q)
        BY <1>3 DEF Tells
    <2> QED BY <1>2, <1>5, <2>1, <2>2, KeptLess
<1> QED BY <1>9, <1>10, <1>11, <1>12 DEF Sees

LEMMA MoveOrder ==
    ASSUME Inv, Inv', OnCourse, NEW n \in Numbers, Steps(n), Move(n),
           NEW q \in Players, Concerns(n, q), tangled'[q] < n, Story(q)
    PROVE  Sees(n, q)
<1>1. TypeOK /\ TypeOK' /\ NotYet
    BY DEF Inv
<1>2. /\ pc[n] = "move" /\ pc'[n] = "done" /\ UNCHANGED <<data, step, held>>
      /\ dict[Lobby(n)][event[n].player] = 0 => dict'[Lobby(n)][event[n].player] = held[n]
      /\ \A l \in Lists, r \in Players :
            \/ dict'[l][r] = dict[l][r]
            \/ /\ l = Lobby(n) /\ r = event[n].player
               /\ dict[l][r] = 0 /\ dict'[l][r] = held[n]
    BY MoveStep
<1>3. event[n].kind = "despawn" /\ event[n].player = q
    BY <1>1, <1>2, TaskIs DEF Concerns
<1>4. Lobby(n) \in Lists
    BY <1>1, EventType
<1>5. Sound(q)' => Sound(q)
    BY <1>3, InOrder DEF Settles
<1>6. Sound(q)' =>
          /\ dict'[Lobby(n)][q] = held[n] /\ \A l \in Lists : l # Lobby(n) => dict'[l][q] = 0
          /\ Fresher(q, held[n])
    <2> SUFFICES ASSUME Sound(q)
                 PROVE  /\ dict'[Lobby(n)][q] = held[n]
                        /\ \A l \in Lists : l # Lobby(n) => dict'[l][q] = 0
                        /\ Fresher(q, held[n])
        BY <1>5
    <2>1. Is(q, Out) /\ Fresher(q, held[n])
        BY <1>2, InOrder DEF Midway, Placed
    <2>2. \A l \in Lists : dict[l][q] = 0
        BY <2>1, OutIsNone DEF Is
    <2> QED BY <1>2, <1>3, <1>4, <2>1, <2>2
<1>7. held[n] # 0
    BY <1>1, <1>2 DEF TypeOK
<1>8. Stands(n, q)
    BY <1>2 DEF Stands, Midway, Placed
<1>9. Unknown(n, q)
    BY <1>2, InOrder DEF Unknown
<1>10. Arrived(n, q)
    <2> SUFFICES ASSUME Sound(q)' PROVE Is(q, To(n))'
        BY DEF Arrived
    <2>1. To(n)' = Lobby(n)
        BY <1>3, FromTo, InOrder, EventsStay
    <2> QED BY <1>6, <1>7, <2>1 DEF Is
<1>11. Kept(q)
    <2> SUFFICES ASSUME Sound(q)', NEW l \in Lists, dict'[l][q] # 0,
                        NEW m \in Numbers, Tells(m, q), pc'[m] = "done"
                 PROVE  m <= data[dict'[l][q]]
        BY <1>2, InOrder DEF Kept, Newest, Fresher, Tells
    <2>1. m # n
        BY <1>3 DEF Tells
    <2>2. pc[m] = "done"
        BY <2>1 DEF Steps, Advance
    <2> QED BY <1>6, <2>2 DEF Fresher
<1> QED BY <1>8, <1>9, <1>10, <1>11 DEF Sees

LEMMA LookOrder ==
    ASSUME Inv, Inv', OnCourse, NEW n \in Numbers, Steps(n), Look(n),
           NEW q \in Players, Concerns(n, q), tangled'[q] < n, Story(q)
    PROVE  Sees(n, q)
<1>1. TypeOK /\ TypeOK' /\ NotYet
    BY DEF Inv
<1>2. /\ pc[n] = "look" /\ UNCHANGED <<dict, data, step>>
      /\ dict[Active(n)][event[n].player] = 0 => pc'[n] = "unlobby"
      /\ dict[Active(n)][event[n].player] # 0 => pc'[n] = "update"
      /\ held'[n] = dict[Active(n)][event[n].player]
    BY LookStep
<1>3. event[n].kind = "position" /\ event[n].player = q
    BY <1>1, <1>2, TaskIs DEF Concerns
<1>4. Active(n) \in Lists
    BY <1>1, EventType
<1>5. Sound(q)' => Sound(q)
    BY <1>2, InOrder
<1>6. Sound(q) => Is(q, Active(n))
    <2>1. ~Started(n)
        <3>1. step[n] = 1
            BY <1>3 DEF OnCourse
        <3>2. FirstStep["position"] = "look"
            BY CourseIs
        <3> QED BY <1>2, <1>3, <3>1, <3>2 DEF Started
    <2> QED BY <1>3, <2>1, InOrder, FromTo DEF Expected
<1>7. \A p : Is(q, p)' <=> Is(q, p)
    BY <1>2, IsStays
<1>8. Stands(n, q)
    <2> SUFFICES ASSUME Sound(q) \/ tangled[q] = 0 PROVE Placed(n, q)'
        BY <1>2, <1>5, InOrder DEF Stands, Midway
    <2>1. CASE dict[Active(n)][q] = 0
        <3>1. ~Sound(q)
            BY <1>4, <1>6, <2>1, IsOne
        <3>2. Is(q, Out)'
            BY <1>7, <3>1, InOrder
        <3> QED BY <1>2, <1>3, <2>1, <3>2 DEF Placed
    <2>2. CASE dict[Active(n)][q] # 0
        <3>1. Sound(q)
            BY <1>4, <2>2, InOrder, IsOne
        <3>2. Active(n)' = Active(n)
            BY InOrder, EventsStay
        <3>3. Is(q, Active(n))' /\ held'[n] = dict'[Active(n)'][q]
            BY <1>2, <1>3, <1>6, <3>1, <3>2 DEF Is
        <3> QED BY <1>2, <1>3, <2>2, <3>3 DEF Placed
    <2> QED BY <2>1, <2>2
<1>9. Unknown(n, q)
    <2> SUFFICES ASSUME tangled'[q] = 0, settled'[q] = 0
                 PROVE  Is(q, Out)' /\ pc'[n] \notin {"move", "update"}
        BY DEF Unknown
    <2>1. Is(q, Out)
        BY InOrder
    <2>2. dict[Active(n)][event[n].player] = 0
        BY <1>3, <1>4, <2>1, IsOne
    <2> QED BY <1>2, <1>7, <2>1, <2>2
<1>10. Arrived(n, q)
    BY <1>2 DEF Arrived
<1>11. Kept(q)
    <2> SUFFICES ASSUME Sound(q) PROVE Newest(q)'
        BY <1>5 DEF Kept
    <2>1. Newest(q) /\ UNCHANGED event /\ \A m \in Numbers : m # n => pc'[m] = pc[m]
        BY InOrder DEF Steps, Advance
    <2>2. pc'[n] # "done"
        BY <1>2
    <2> QED BY <1>2, <2>1, <2>2, KeptLess
<1> QED BY <1>8, <1>9, <1>10, <1>11 DEF Sees

LEMMA UpdateOrder ==
    ASSUME Inv, Inv', OnCourse, NEW n \in Numbers, Steps(n), Update(n),
           NEW q \in Players, Concerns(n, q), tangled'[q] < n, Story(q)
    PROVE  Sees(n, q)
<1>1. TypeOK /\ TypeOK' /\ NotYet
    BY DEF Inv
<1>2. /\ pc[n] = "update" /\ pc'[n] = "done" /\ UNCHANGED <<dict, step, held>>
      /\ data'[held[n]] = n
    BY UpdateStep
<1>3. event[n].kind = "position" /\ event[n].player = q
    BY <1>1, <1>2, TaskIs DEF Concerns
<1>4. Active(n) \in Lists
    BY <1>1, EventType
<1>5. Sound(q)' => Is(q, Active(n)) /\ held[n] = dict[Active(n)][q]
    <2>1. Sound(q)' => Sound(q) \/ tangled[q] = 0
        BY <1>3, InOrder DEF Settles
    <2> QED BY <1>2, <2>1, InOrder DEF Midway, Placed
<1>6. Stands(n, q)
    BY <1>2 DEF Stands, Midway, Placed
<1>7. Unknown(n, q)
    BY <1>2, InOrder DEF Unknown
<1>8. Arrived(n, q)
    <2> SUFFICES ASSUME Sound(q)' PROVE Is(q, To(n))'
        BY DEF Arrived
    <2>1. To(n)' = Active(n)
        BY <1>3, FromTo, InOrder, EventsStay
    <2> QED BY <1>2, <1>5, <2>1 DEF Is
<1>9. Kept(q)
    <2> SUFFICES ASSUME Sound(q)' PROVE Newest(q)'
        BY DEF Kept
    <2>1. \A l \in Lists : dict'[l][q] # 0 => dict'[l][q] = dict'[Active(n)][q]
        BY <1>2, <1>4, <1>5, IsOne
    <2>2. data'[dict'[Active(n)][q]] = n
        BY <1>2, <1>5
    <2>3. UNCHANGED event /\ \A m \in Numbers : Concerns(m, q) /\ pc'[m] = "done" => m <= n
        BY InOrder
    <2> QED BY <1>4, <2>1, <2>2, <2>3, KeptOne
<1> QED BY <1>6, <1>7, <1>8, <1>9 DEF Sees

LEMMA TaskStory ==
    ASSUME Inv, Inv', OnCourse, Own, NEW n \in Numbers, Task(n),
           NEW q \in Players, Story(q)
    PROVE  Story(q)'
<1>1. Steps(n) /\ OnCourse'
    BY TaskRest
<1>2. CASE ~Concerns(n, q)
    BY <1>1, <1>2, ApartStep
<1>3. CASE Concerns(n, q) /\ n <= tangled'[q]
    BY <1>1, <1>3, TangledStep
<1>4. CASE Concerns(n, q) /\ tangled'[q] < n
    <2>1. Sees(n, q)
        BY <1>1, <1>4, RemoveOrder, MakeOrder, UnlobbyOrder, TakeOrder, MoveOrder,
           LookOrder, UpdateOrder DEF Task
    <2> QED BY <1>1, <1>4, <2>1, InOrderStep DEF Sees
<1>5. tangled'[q] \in Nat /\ n \in Nat
    BY DEF Inv, TypeOK, Numbers
<1> QED BY <1>2, <1>3, <1>4, <1>5
-----------------------------------------------------------------------------
(* A delivery, and the theorems *)

LEMMA PublishCourse ==
    ASSUME Inv, Inv', OnCourse, Own,
           NEW kind \in Kinds, NEW r \in Players, NEW c \in Coalitions, Publish(kind, r, c),
           NEW n \in Numbers, n = published + 1
    PROVE  /\ OnCourse' /\ Own' /\ published' = n
           /\ event'[n] = [kind |-> kind, player |-> r, country |-> c]
           /\ pc'[n] = FirstStep[kind]
           /\ step[n] = 1
           /\ ~Started(n)'
           /\ \A m \in Numbers : m # n => event'[m] = event[m] /\ pc'[m] = pc[m]
           /\ UNCHANGED <<objectVars, step, held, historyVars>>
<1>1. TypeOK /\ NotYet
    BY DEF Inv
<1>2. /\ published' = n
      /\ UNCHANGED <<objectVars, step, held, historyVars>>
    BY DEF Publish
<1>3. /\ event'[n] = [kind |-> kind, player |-> r, country |-> c]
      /\ \A m \in Numbers : m # n => event'[m] = event[m]
    BY <1>1, <1>2 DEF Publish, TypeOK
<1>4. /\ pc'[n] = FirstStep[kind]
      /\ \A m \in Numbers : m # n => pc'[m] = pc[m]
    BY <1>1, <1>2 DEF Publish, TypeOK
<1>5. published \in Nat /\ ~(n <= published)
    BY <1>1 DEF TypeOK
<1>6. step[n] = 1 /\ pc[n] = "none"
    BY <1>1, <1>2, <1>5 DEF OnCourse, NotYet
<1>7. FirstStep[kind] \in Course[kind] /\ FirstStep[kind] \notin {"move", "update"}
    BY CourseIs
<1>8. OnCourse'
    <2> SUFFICES ASSUME NEW m \in Numbers
                 PROVE  /\ m <= published' => event'[m].kind \in Kinds /\ pc'[m] \in Course[event'[m].kind]
                        /\ step'[m] # 1 =>
                              m <= published' /\ event'[m].kind \in {"join", "leave", "clear"}
        BY DEF OnCourse
    <2>1. CASE m = n
        BY <1>2, <1>3, <1>4, <1>6, <1>7, <2>1
    <2>2. CASE m # n
        <3>1. (m <= published' => m <= published) /\ (m <= published => m <= published')
            BY <1>2, <1>5, <2>2 DEF Numbers
        <3> QED BY <1>2, <1>3, <1>4, <2>2, <3>1 DEF OnCourse
    <2> QED BY <2>1, <2>2
<1>9. Own'
    <2>1. ASSUME NEW l \in Lists, NEW q \in Players, dict'[l][q] # 0
          PROVE  event'[dict'[l][q]].player = q
        <3>1. dict'[l][q] = dict[l][q] /\ dict[l][q] \in Numbers
            BY <1>1, <1>2, <2>1, EntryType
        <3>2. pc[dict[l][q]] = "done"
            BY <2>1, <3>1 DEF Inv, Owned, ListedIsMade
        <3>3. dict[l][q] # n
            BY <1>6, <3>2
        <3> QED BY <1>3, <2>1, <3>1, <3>3 DEF Own
    <2>2. ASSUME NEW m \in Numbers, pc'[m] \in {"move", "update"}
          PROVE  event'[held'[m]].player = event'[m].player /\ pc'[held'[m]] = "done"
        <3>1. m # n
            BY <1>4, <1>7, <2>2
        <3>2. pc[m] \in {"move", "update"} /\ held'[m] = held[m]
            BY <1>2, <1>4, <2>2, <3>1
        <3>3. held[m] \in Numbers
            BY <1>1, <3>2, PositionAssumption DEF TypeOK, Numbers
        <3>4. pc[held[m]] = "done" /\ event[held[m]].player = event[m].player
            BY <3>2 DEF Own
        <3>5. held[m] # n
            BY <1>6, <3>4
        <3> QED BY <1>3, <1>4, <3>1, <3>2, <3>3, <3>4, <3>5
    <2> QED BY <2>1, <2>2 DEF Own
<1>10. ~Started(n)'
    BY <1>2, <1>3, <1>4, <1>6 DEF Started
<1> QED BY <1>2, <1>3, <1>4, <1>6, <1>8, <1>9, <1>10

\* An event finds the player where the game had him, and puts him where it has him now.
LEMMA MovesPlace ==
    ASSUME TypeOK, NEW kind \in Kinds, NEW r \in Players, NEW c \in Coalitions,
           Moves(kind, r, c), NEW n \in Numbers,
           event'[n] = [kind |-> kind, player |-> r, country |-> c],
           NEW q \in Players
    PROVE  /\ Concerns(n, q)' => place[q] \in From(n)' /\ place'[q] = To(n)'
           /\ ~Concerns(n, q)' => place'[q] = place[q]
<1>1. /\ event'[n].kind = kind /\ event'[n].player = r
      /\ Lobby(n)' = <<"lobby", c>> /\ Active(n)' = <<"active", c>>
    BY DEF Lobby, Active
<1>2. place[q] \in Lists \cup {Out}
    BY DEF TypeOK
<1>3. /\ kind = "join" => From(n)' = {Out} /\ To(n)' = <<"lobby", c>>
      /\ kind = "leave" => From(n)' = {<<"lobby", c>>, <<"active", c>>} /\ To(n)' = Out
      /\ kind = "spawn" => From(n)' = {<<"lobby", c>>} /\ To(n)' = <<"active", c>>
      /\ kind = "despawn" =>
            From(n)' = {<<"lobby", c>>, <<"active", c>>} /\ To(n)' = <<"lobby", c>>
      /\ kind = "position" => From(n)' = {<<"active", c>>} /\ To(n)' = <<"active", c>>
      /\ kind = "clear" => From(n)' = Lists \cup {Out} /\ To(n)' = Out
    BY <1>1 DEF From, To
<1>4. Concerns(n, q)' <=> (kind = "clear" \/ r = q)
    BY <1>1 DEF Concerns
<1> QED BY <1>2, <1>3, <1>4 DEF Moves, TypeOK, Kinds

LEMMA PublishStory ==
    ASSUME Inv, Inv', OnCourse, Own,
           NEW kind \in Kinds, NEW r \in Players, NEW c \in Coalitions, Publish(kind, r, c),
           NEW q \in Players, Story(q)
    PROVE  Story(q)'
<1>1. TypeOK /\ TypeOK' /\ NotYet
    BY DEF Inv
<1>0. PICK n \in Numbers : n = published + 1
    BY <1>1, PositionAssumption DEF Publish, TypeOK, Numbers
<1>2. /\ OnCourse' /\ published' = n /\ step[n] = 1
      /\ event'[n] = [kind |-> kind, player |-> r, country |-> c]
      /\ pc'[n] = FirstStep[kind]
      /\ \A m \in Numbers : m # n => event'[m] = event[m] /\ pc'[m] = pc[m]
      /\ UNCHANGED <<objectVars, step, held, historyVars>>
    BY <1>0, PublishCourse
<1>3. ~Started(n)'
    BY <1>0, PublishCourse
<1>4. published \in Nat /\ pc[n] = "none" /\ pc'[n] \notin {"done", "none", "move", "update"}
    <2>1. published \in Nat
        BY <1>1 DEF TypeOK
    <2>2. pc[n] = "none"
        BY <1>0, <1>1, <2>1 DEF NotYet
    <2> QED BY <1>2, <2>1, <2>2, CourseIs
<1>5. n > published
    BY <1>0, <1>4
<1>6. /\ Concerns(n, q)' => place[q] \in From(n)' /\ place'[q] = To(n)'
      /\ ~Concerns(n, q)' => place'[q] = place[q]
    BY <1>1, <1>2, MovesPlace DEF Publish
<1>7. \A m \in Numbers : m <= published' <=> m <= published \/ m = n
    BY <1>0, <1>2, <1>4 DEF Numbers
<1>8. ASSUME NEW m \in Numbers, m # n
      PROVE  /\ Concerns(m, q)' <=> Concerns(m, q)
             /\ Tells(m, q)' <=> Tells(m, q)
             /\ From(m)' = From(m) /\ To(m)' = To(m) /\ Active(m)' = Active(m)
             /\ Started(m)' <=> Started(m)
    <2>1. event'[m] = event[m] /\ pc'[m] = pc[m] /\ step'[m] = step[m]
        BY <1>2, <1>8
    <2>2. m <= published' <=> m <= published
        BY <1>7, <1>8
    <2> QED BY <2>1, <2>2, EventsStay DEF Started
<1>9. \A m \in Numbers : m <= published => m # n
    BY <1>4, <1>5 DEF Numbers
<1>10. \A m \in Numbers, k \in Numbers : m <= published /\ k < m => k <= published
    BY <1>4 DEF Numbers
<1>11. \A m \in Numbers : m <= published => (IsNext(m, q)' <=> IsNext(m, q))
    BY <1>2, <1>8, <1>9, <1>10 DEF IsNext
<1>12. (Sound(q)' <=> Sound(q)) /\ \A p : Is(q, p)' <=> Is(q, p)
    BY <1>2 DEF Sound, Is
<1>13. \A o : Fresher(q, o)' <=> Fresher(q, o)
    BY <1>2, <1>4, <1>8 DEF Fresher
<1>14. Serial(q)'
    BY <1>2, <1>3, <1>7, <1>8, <1>9, <1>11 DEF Serial, Story, Started
<1>15. SettledBy(q)'
    <2>1. settled[q] # 0 => settled[q] \in Numbers
        BY <1>1 DEF TypeOK, Numbers
    <2> QED BY <1>2, <1>7, <1>8, <1>9, <2>1 DEF SettledBy, Story
<1>16. Fresh(q)'
    BY <1>2, <1>4, <1>8, <1>12 DEF Fresh, Story
<1>17. Midways(q)'
    <2> SUFFICES ASSUME NEW m \in Numbers, m <= published', Concerns(m, q)', tangled[q] < m
                 PROVE  Midway(m, q)'
        BY <1>2 DEF Midways
    <2>1. CASE m = n
        <3>1. pc'[n] \notin {"done", "none", "join", "spawn", "move", "update"}
            BY <1>2, CourseIs
        <3>2. pc'[n] = "unlobby" => event'[n].kind = "spawn"
            <4>1. FirstStep[kind] = "unlobby" => kind = "spawn"
                BY CourseIs
            <4>2. event'[n].kind = kind /\ pc'[n] = FirstStep[kind]
                BY <1>2
            <4> QED BY <4>1, <4>2
        <3>3. step'[n] = 1
            BY <1>2
        <3>4. Removed(n, q)'
            BY <3>3 DEF Removed
        <3> QED BY <2>1, <3>1, <3>2, <3>4 DEF Midway, Placed
    <2>2. CASE m # n
        <3>1. Midway(m, q)
            BY <1>7, <1>8, <2>2 DEF Story, Midways
        <3>2. event'[m] = event[m] /\ pc'[m] = pc[m] /\ Active(m)' = Active(m)
            BY <1>2, <1>8, <2>2
        <3>3. Removed(m, q)' <=> Removed(m, q)
            BY <1>2 DEF Removed
        <3>4. Is(q, Active(m))' <=> Is(q, Active(m))
            BY <1>2, <3>2 DEF Is
        <3>5. Fresher(q, held[m])' <=> Fresher(q, held[m])
            BY <1>2, <1>4, <1>8 DEF Fresher
        <3>6. Placed(m, q)' <=> Placed(m, q)
            BY <1>2, <1>12, <3>2, <3>4, <3>5 DEF Placed
        <3> QED BY <1>2, <1>12, <3>1, <3>2, <3>3, <3>6 DEF Midway
    <2> QED BY <2>1, <2>2
<1>18. Quiet(q)' => Quiet(q) /\ ~Concerns(n, q)'
    BY <1>2, <1>4, <1>7, <1>8, <1>9 DEF Quiet, Unfinished
<1>19. Between(q)'
    <2> SUFFICES ASSUME Sound(q)
                 PROVE  /\ \A m \in Numbers :
                              m <= published' /\ Concerns(m, q)' /\ ~Started(m)' /\ IsNext(m, q)'
                                  => Expected(m, q)'
                        /\ Quiet(q)' => Is(q, place[q])'
                        /\ Newest(q)'
        BY <1>12 DEF Between
    <2>1. ASSUME NEW m \in Numbers, m <= published', Concerns(m, q)', ~Started(m)', IsNext(m, q)'
          PROVE  Expected(m, q)'
        <3>1. CASE m = n
            <4>1. ASSUME NEW k \in Numbers, k <= published, Concerns(k, q) PROVE pc[k] = "done"
                <5>1. k < n
                    BY <1>0, <1>4, <4>1 DEF Numbers
                <5> QED BY <1>2, <1>8, <1>9, <2>1, <3>1, <4>1, <5>1 DEF IsNext
            <4>2. Quiet(q)
                BY <4>1 DEF Quiet, Unfinished
            <4>3. Is(q, place[q])
                BY <4>2 DEF Story, Between
            <4>4. place[q] \in From(n)'
                BY <1>6, <2>1, <3>1
            <4>5. \E p \in From(n)' : Is(q, p)'
                BY <1>12, <4>3, <4>4
            <4> QED BY <3>1, <4>5 DEF Expected
        <3>2. CASE m # n
            <4>1. m <= published
                BY <1>7, <2>1, <3>2
            <4>2. Expected(m, q)
                BY <1>8, <1>11, <2>1, <3>2, <4>1 DEF Story, Between
            <4> QED BY <1>8, <1>12, <3>2, <4>2 DEF Expected
        <3> QED BY <3>1, <3>2
    <2>2. ASSUME Quiet(q)' PROVE Is(q, place[q])'
        <3>1. Is(q, place[q]) /\ place'[q] = place[q]
            BY <1>6, <1>18, <2>2 DEF Story, Between
        <3> QED BY <1>2, <3>1 DEF Is
    <2>3. Newest(q)'
        <3>1. Newest(q)
            BY DEF Story, Between
        <3> QED BY <1>2, <1>4, <1>8, <3>1 DEF Newest, Fresher
    <2> QED BY <2>1, <2>2, <2>3
<1>20. Chain(q)'
    <2> SUFFICES ASSUME NEW k \in Numbers, k <= published', Concerns(k, q)'
                 PROVE  /\ IsLast(k, q)' => place'[q] = To(k)'
                        /\ \A m \in Numbers :
                              m <= published' /\ Follows(m, k, q)' => To(k)' \in From(m)'
        BY DEF Chain
    <2>1. CASE k = n
        <3>1. place'[q] = To(k)'
            BY <1>6, <2>1
        <3>2. \A m \in Numbers : m <= published' => ~(k < m)
            BY <1>0, <1>4, <1>7, <2>1 DEF Numbers
        <3> QED BY <3>1, <3>2 DEF Follows
    <2>2. CASE k # n
        <3>1. k <= published /\ Concerns(k, q) /\ To(k)' = To(k)
            BY <1>7, <1>8, <2>2
        <3>2. k < n
            BY <1>0, <1>4, <3>1 DEF Numbers
        <3>3. IsLast(k, q) => place[q] = To(k)
            BY <3>1 DEF Story, Chain
        <3>4. ASSUME IsLast(k, q)' PROVE place'[q] = To(k)
            <4>1. IsLast(k, q)
                BY <1>7, <1>8, <1>9, <3>4 DEF IsLast
            <4>2. ~Concerns(n, q)'
                BY <1>2, <1>7, <3>2, <3>4 DEF IsLast
            <4> QED BY <1>6, <3>3, <4>1, <4>2
        <3>5. ASSUME NEW m \in Numbers, m <= published', Follows(m, k, q)'
              PROVE  To(k) \in From(m)'
            <4>1. CASE m = n
                <5>1. IsLast(k, q)
                    <6> SUFFICES ASSUME NEW j \in Numbers, k < j, j <= published, Concerns(j, q)
                                 PROVE  FALSE
                        BY DEF IsLast
                    <6>1. j < n
                        BY <1>0, <1>4 DEF Numbers
                    <6> QED BY <1>8, <1>9, <3>5, <4>1, <6>1 DEF Follows
                <5> QED BY <1>6, <3>3, <3>5, <4>1, <5>1 DEF Follows
            <4>2. CASE m # n
                <5>1. m <= published
                    BY <1>7, <3>5, <4>2
                <5>2. Follows(m, k, q)
                    BY <1>8, <1>9, <1>10, <3>5, <5>1 DEF Follows
                <5> QED BY <1>8, <3>1, <4>2, <5>1, <5>2 DEF Story, Chain
            <4> QED BY <4>1, <4>2
        <3> QED BY <3>1, <3>4, <3>5
    <2> QED BY <2>1, <2>2
<1> QED BY <1>14, <1>15, <1>16, <1>17, <1>19, <1>20 DEF Story

LEMMA InitTold == Init => Told
<1> SUFFICES ASSUME Init PROVE Told
    OBVIOUS
<1>1. Inv
    BY InitInv
<1>2. /\ \A l \in Lists, q \in Players : dict[l][q] = 0
      /\ \A n \in Numbers : pc[n] = "none" /\ step[n] = 1 /\ ~(n <= published)
      /\ \A q \in Players : settled[q] = 0 /\ tangled[q] = 0
    BY DEF Init, Numbers
<1>3. OnCourse
    BY <1>2 DEF OnCourse
<1>4. Own
    BY <1>2 DEF Own
<1>5. ASSUME NEW q \in Players PROVE Story(q)
    <2>1. Serial(q)
        BY <1>2 DEF Serial, Started
    <2>2. SettledBy(q)
        BY <1>2 DEF SettledBy
    <2>3. Fresh(q)
        BY <1>2, OutIsNone DEF Fresh, Is
    <2>4. Midways(q) /\ Chain(q)
        BY <1>2 DEF Midways, Chain
    <2>5. ~Sound(q)
        BY <1>2 DEF Sound
    <2> QED BY <2>1, <2>2, <2>3, <2>4, <2>5 DEF Story, Between
<1> QED BY <1>1, <1>3, <1>4, <1>5 DEF Told

LEMMA NextTold == Told /\ [Next]_vars => Told'
<1> SUFFICES ASSUME Told, [Next]_vars PROVE Told'
    OBVIOUS
<1>1. Inv /\ Inv' /\ OnCourse /\ Own /\ \A q \in Players : Story(q)
    BY NextInv DEF Told
<1>2. CASE \E kind \in Kinds, r \in Players, c \in Coalitions : Publish(kind, r, c)
    <2>1. PICK n \in Numbers : n = published + 1
        BY <1>1, <1>2, PositionAssumption DEF Publish, Inv, TypeOK, Numbers
    <2>2. OnCourse' /\ Own'
        BY <1>1, <1>2, <2>1, PublishCourse
    <2> QED BY <1>1, <1>2, <2>2, PublishStory DEF Told
<1>3. CASE \E n \in Numbers : Task(n)
    BY <1>1, <1>3, TaskRest, TaskStory DEF Told
<1>4. CASE UNCHANGED vars
    <2>1. OnCourse' /\ Own'
        BY <1>1, <1>4 DEF OnCourse, Own
    <2>2. \A q \in Players : Same(q)
        BY <1>4 DEF Same
    <2> QED BY <1>1, <2>1, <2>2, StorySame DEF Told
<1> QED BY <1>2, <1>3, <1>4 DEF Next, Task

LEMMA AlwaysTold == Spec => []Told
BY InitTold, NextTold, PTL DEF Spec

\* For every number of players and deliveries and every interleaving of the tasks: a
\* player whose events are handled, none of them overtaken since he was settled, is in
\* the list the game has him in and in no other (HandleJoin, HandleSpawn, MoveToLobby,
\* HandlePosition, HandleLeave, HandleClear).
THEOREM PlacesAreRight == Spec => []PlaceIsRight
<1>1. Told => PlaceIsRight
    <2> SUFFICES ASSUME Told, NEW q \in Players, Settled(q)
                 PROVE  Where(q) = IF place[q] = Out THEN {} ELSE {place[q]}
        BY DEF PlaceIsRight
    <2>1. Is(q, place[q])
        <3>1. settled[q] \in Nat /\ tangled[q] \in Nat
            BY DEF Told, Inv, TypeOK
        <3> QED BY <3>1 DEF Told, Story, Between, Settled, Sound
    <2>2. place[q] \in Lists \cup {Out}
        BY DEF Told, Inv, TypeOK
    <2>3. Where(q) = {l \in Lists : l = place[q]}
        BY <2>1 DEF Where, Is
    <2> QED BY <2>2, <2>3, OutIsNone
<1> QED BY AlwaysTold, <1>1, PTL

\* In that case his object carries what the last of his events said, whichever task made
\* it: TryAdd met no older one (HandleJoin, HandleSpawn, HandlePosition).
THEOREM DataIsNewest == Spec => []DataIsFresh
<1>1. Told => DataIsFresh
    <2> SUFFICES ASSUME Told, NEW q \in Players, Settled(q), place[q] # Out,
                        NEW n \in 1 .. published, Tells(n, q)
                 PROVE  n <= data[dict[place[q]][q]]
        BY DEF DataIsFresh
    <2>1. TypeOK
        BY DEF Told, Inv
    <2>2. n \in Numbers /\ n <= published
        <3>1. published \in 0 .. MaxEvents
            BY <2>1 DEF TypeOK
        <3> QED BY <3>1, PositionAssumption DEF Numbers
    <2>3. pc[n] = "done"
        <3>1. Concerns(n, q)
            BY DEF Tells, Concerns
        <3> QED BY <2>2, <3>1 DEF Settled, Quiet, Unfinished
    <2>4. Sound(q) /\ Quiet(q)
        BY <2>1 DEF Settled, Sound, TypeOK
    <2>5. Is(q, place[q]) /\ Newest(q)
        BY <2>4 DEF Told, Story, Between
    <2>6. place[q] \in Lists
        BY <2>1 DEF TypeOK
    <2>7. dict[place[q]][q] # 0
        BY <2>5, <2>6 DEF Is
    <2> QED BY <2>2, <2>3, <2>5, <2>6, <2>7 DEF Newest, Fresher
<1> QED BY AlwaysTold, <1>1, PTL
=============================================================================
