---------------------------- MODULE SettingsPage ----------------------------
(***************************************************************************)
(* The settings of a bot in the web interface: BotSettings.vue with its    *)
(* fields (SettingsField.vue, SettingsPassword.vue), and the settings on   *)
(* the server.  The page has no save button: every field is watched by a   *)
(* debounced function of its own that sends its value.  A function goes on *)
(* after the page is left, and takes the bot it writes to from the address *)
(* at the moment it fires.  Requests overlap, and their answers come in    *)
(* any order.  The page is not the only one that writes: others set the    *)
(* bot's settings too, and a bot that connects puts the hash of a password *)
(* in its place.                                                           *)
(***************************************************************************)
EXTENDS Integers, FiniteSets

CONSTANTS
    Bot,         \* bots on the server
    Away,        \* an address that names no bot
    Text,        \* fields whose value is a string
    Other,       \* all other fields
    Pw, Hashed, AutoHash,   \* the fields of a password (ConfPassword)
    Values,      \* 0 is empty, off; 1 is on
    Given,       \* what the settings of the bots may be at first
    Expert,      \* the fields only an expert is shown
    None,
    MaxClicks,   \* bound: what the user does
    MaxTrouble   \* bound: requests that fail, and what others write

Field == Text \cup Other

ASSUME SettingsAssumption == /\ Away \notin Bot /\ None \notin Values /\ {0, 1} \subseteq Values
                             /\ Text \cap Other = {} /\ IsFiniteSet(Text \cup Other)
                             /\ Given \subseteq [Bot -> [Field -> Values]]
                             /\ Pw \in Text /\ {Hashed, AutoHash} \subseteq Other
                             /\ Expert \subseteq Text \cup Other

VARIABLES
    conf,        \* the server: bot -> field -> value
    route,       \* the bot in the address
    page,        \* BotSettings: [open, of, model, stale], model None until loaded
    level,       \* filter.level, kept in localStorage
    debounce,    \* field -> [on, last] of the page
    orphans,     \* <<field, value>> of functions whose page is left
    calls,       \* requests whose continuation has not run
    issued,      \* field -> the number of the newest request to set it
    wish,        \* what was wanted last: bot -> field -> value
    lost,        \* <<bot, field>> that need not be as wanted, for a reason
    clicks, trouble

vars == <<conf, route, page, level, debounce, orphans, calls, issued, wish, lost,
          clicks, trouble>>

Hash == {Hashed, AutoHash}
Choices(f) == IF f \in Hash THEN {0, 1} ELSE Values
Idle == [on |-> FALSE, last |-> None]
Quiet == [f \in Field |-> Idle]
Closed == [open |-> FALSE, of |-> Away, model |-> None, stale |-> {}]
Visible(f) == f \in Expert => level = "expert"

\* Fields of bot b with a value that is still to be sent, or is on its way.
Left == {e[1] : e \in orphans}
Pending == {f \in Field : debounce[f].last # None} \cup Left
Underway(b) == {c.field : c \in {d \in calls : d.kind = "set" /\ d.bot = b}}
Unsettled(b) == Pending \cup Underway(b)

\* Fields of bot b that will get another value of the user.
Awaited(b) == (IF b = route THEN Pending ELSE {}) \cup
              {c.field : c \in {d \in calls : d.kind = "set" /\ d.state = "sent" /\ d.bot = b}}

-----------------------------------------------------------------------------
(* Requests.                                                               *)

Request(n, kind, b, f, v) == [n |-> n, kind |-> kind, bot |-> b, field |-> f, val |-> v,
                              state |-> "sent", res |-> None, stale |-> {}]

Get(b) == Request(0, "get", b, None, None)

\* sendValue for the fields F with the values of m, to the bot the address names.
Send(F, m) ==
    /\ issued' = [f \in Field |-> IF f \in F THEN issued[f] + 1 ELSE issued[f]]
    /\ calls' = calls \cup {Request(issued[f] + 1, "set", route, f, m[f]) : f \in F}

-----------------------------------------------------------------------------
(* The user.                                                               *)

Click == /\ clicks < MaxClicks
         /\ clicks' = clicks + 1
         /\ UNCHANGED <<conf, trouble>>

\* created(): a new page asks for the settings of the bot.
Opened(b) == /\ page' = [Closed EXCEPT !.open = TRUE, !.of = b]
             /\ calls' = calls \cup {Get(b)}
             /\ UNCHANGED issued

\* The address changes.  From the settings of one bot to those of another the
\* router keeps the page, and what it shows; when the page is left its
\* debounced functions stay.  What they still hold goes astray.
Go(b, open) ==
    /\ Click
    /\ b # route \/ open # page.open
    /\ b = Away => ~open
    /\ route' = b
    /\ lost' = IF b = route THEN lost ELSE lost \cup ({b, route} \X Pending)
    /\ \/ /\ open /\ ~page.open
          /\ Opened(b)
          /\ UNCHANGED <<debounce, orphans>>
       \/ /\ ~open /\ page.open
          /\ page' = Closed
          /\ debounce' = Quiet
          /\ orphans' = orphans \cup {<<f, debounce[f].last>> :
                                         f \in {g \in Field : debounce[g].last # None}}
          /\ calls' = {c \in calls : c.kind = "set"}
          /\ UNCHANGED issued
       \/ /\ open = page.open
          /\ UNCHANGED <<page, debounce, orphans, calls, issued>>
    /\ UNCHANGED <<level, wish>>

SetLevel(l) == /\ Click
               /\ l # level
               /\ level' = l
               /\ UNCHANGED <<route, page, debounce, orphans, calls, issued, wish, lost>>

\* Mutant: a value that comes during the pause is dropped (no trailing call).
ChangedLeading(m, F) ==
    \E now \in SUBSET {f \in F \cap Other : ~debounce[f].on} :
        /\ Send(now, m)
        /\ debounce' = [f \in Field |->
              IF f \notin F THEN debounce[f]
              ELSE [on |-> TRUE, last |-> IF f \in Other THEN None ELSE m[f]]]

\* The model's fields become those of m.  The watch of each changed field
\* calls its debounced function: that of a string waits, any other sends the
\* first value at once, unless it has just sent another, and waits with the
\* values after it.
Changed(m, F) ==
    \E now \in SUBSET {f \in F \cap Other : ~debounce[f].on} :
        /\ Send(now, m)
        /\ debounce' = [f \in Field |->
              IF f \notin F THEN debounce[f]
              ELSE [on |-> TRUE, last |-> IF f \in now THEN None ELSE m[f]]]

\* The user sets a field.  A new password is not hashed yet (notify).  A value
\* that still waits from a page he has left may be sent after the new one.
Edit(f, v) ==
    /\ Click
    /\ page.open /\ page.model # None
    /\ Visible(f)
    /\ v # page.model[f]
    /\ LET m == [g \in Field |-> IF g = f THEN v
                                 ELSE IF f = Pw /\ g \in Hash THEN 0
                                 ELSE page.model[g]]
           F == {g \in Field : m[g] # page.model[g]}
           free == F \ Unsettled(route)
       IN  /\ Changed(m, F)
           /\ page' = [page EXCEPT !.model = m, !.stale = @ \ F]
           /\ wish' = [wish EXCEPT ![route] =
                          [g \in Field |-> IF g \in F THEN m[g] ELSE @[g]]]
           /\ lost' = IF page.of = route
                      THEN (lost \ ({route} \X free)) \cup ({route} \X (F \cap Left))
                      ELSE lost \cup ({page.of, route} \X F)
    /\ UNCHANGED <<route, level, orphans>>

User == \/ \E b \in Bot \cup {Away}, open \in BOOLEAN : Go(b, open)
        \/ \E l \in {"simple", "expert"} : SetLevel(l)
        \/ \E f \in Field : \E v \in Choices(f) : Edit(f, v)

-----------------------------------------------------------------------------
(* The timers.                                                             *)

\* Mutants: the value is not sent; it is kept.
FireForgets(f) ==
    /\ debounce[f].on
    /\ debounce' = [debounce EXCEPT ![f] = Idle]
    /\ UNCHANGED <<conf, route, page, level, orphans, calls, issued, wish, lost, clicks, trouble>>

FireKept(f) ==
    /\ debounce[f].on
    /\ debounce' = [debounce EXCEPT ![f].on = FALSE]
    /\ LET F == IF debounce[f].last = None THEN {} ELSE {f}
       IN  Send(F, [g \in F |-> debounce[g].last])
    /\ UNCHANGED <<conf, route, page, level, orphans, wish, lost, clicks, trouble>>

\* The pause of a field is over: the last value is sent, if there is one.
Fire(f) ==
    /\ debounce[f].on
    /\ debounce' = [debounce EXCEPT ![f] = Idle]
    /\ LET F == IF debounce[f].last = None THEN {} ELSE {f}
       IN  Send(F, [g \in F |-> debounce[g].last])
    /\ UNCHANGED <<conf, route, page, level, orphans, wish, lost, clicks, trouble>>

\* The same, after the page is left.
FireOrphan(e) ==
    /\ orphans' = orphans \ {e}
    /\ Send({e[1]}, [g \in {e[1]} |-> e[2]])
    /\ UNCHANGED <<conf, route, page, level, debounce, wish, lost, clicks, trouble>>

-----------------------------------------------------------------------------
(* The server, and the continuations of the page.                          *)

Answered(c, d) == calls' = (calls \ {c}) \cup {d}
After(c) == [conf EXCEPT ![c.bot][c.field] = c.val]

\* An older value of the same field comes later.
Overtakes(c) == \E d \in calls : /\ d.kind = "set" /\ d.state = "sent" /\ d.n < c.n
                                 /\ d.bot = c.bot /\ d.field = c.field

Serve(c) ==
    /\ c.state = "sent"
    /\ \/ /\ c.bot = Away
          /\ Answered(c, [c EXCEPT !.state = "failed"])
          /\ UNCHANGED <<conf, lost>>
       \/ /\ c.kind = "get"
          /\ Answered(c, [c EXCEPT !.state = "ok", !.res = conf[c.bot],
                                   !.stale = Unsettled(c.bot)])
          /\ UNCHANGED <<conf, lost>>
       \/ /\ c.kind = "set" /\ c.bot # Away
          /\ conf' = After(c)
          /\ lost' = IF Overtakes(c) THEN lost \cup {<<c.bot, c.field>>} ELSE lost
          /\ Answered(c, [c EXCEPT !.state = "ok"])
    /\ UNCHANGED <<route, page, level, debounce, orphans, issued, wish, clicks, trouble>>

\* A request fails: it is not carried out, or its answer is lost, or the
\* value was set but could not be saved.
Fail(c) ==
    /\ trouble < MaxTrouble
    /\ trouble' = trouble + 1
    /\ c.state = "sent" /\ c.bot # Away
    /\ conf' \in {conf} \cup (IF c.kind = "set" THEN {After(c)} ELSE {})
    /\ lost' = IF c.kind = "set" THEN lost \cup {<<c.bot, c.field>>} ELSE lost
    /\ Answered(c, [c EXCEPT !.state = "failed"])
    /\ UNCHANGED <<route, page, level, debounce, orphans, issued, wish, clicks>>

\* The continuations: "Saved" and the errors are toasts.  Without an answer
\* the fields stay empty and unwatched.
Resume(c) ==
    /\ c.state \in {"ok", "failed"}
    /\ calls' = calls \ {c}
    /\ page' = IF c.kind = "get" /\ c.state = "ok"
               THEN [page EXCEPT !.model = c.res, !.stale = c.stale, !.of = c.bot] ELSE page
    /\ issued' = [f \in Field |-> IF \E d \in calls' : d.field = f THEN issued[f] ELSE 0]
    /\ UNCHANGED <<conf, route, level, debounce, orphans, wish, lost, clicks, trouble>>

-----------------------------------------------------------------------------
(* Whoever else writes.                                                    *)

\* The settings of b become m.  A field the user's value is still to come for
\* will be as he wants it; for the others this is what was wanted last, and
\* neither the page nor an answer on its way knows of it.
Written(b, m) ==
    LET F == {f \in Field : m[f] # conf[b][f]} \ Awaited(b)
        Tell(x, here) == IF here THEN [x EXCEPT !.stale = @ \cup F] ELSE x
    IN  /\ trouble < MaxTrouble
        /\ trouble' = trouble + 1
        /\ conf' = [conf EXCEPT ![b] = m]
        /\ wish' = [wish EXCEPT ![b] = [f \in Field |-> IF f \in F THEN m[f] ELSE @[f]]]
        /\ page' = Tell(page, page.of = b)
        /\ calls' = {Tell(c, c.kind = "get" /\ c.state = "ok" /\ c.bot = b) : c \in calls}
        /\ UNCHANGED <<route, level, debounce, orphans, issued, lost, clicks>>

\* Another page, or a command in the chat: settings set, settings bot set.
Foreign(b) == \E f \in Field : \E v \in Choices(f) \ {conf[b][f]} :
                  Written(b, [conf[b] EXCEPT ![f] = v])

\* A bot that connects reads its password (ConfPassword.Get), and hashes it if
\* it shall.
HashOnRead(b) ==
    /\ conf[b][Pw] # 0 /\ conf[b][AutoHash] = 1 /\ conf[b][Hashed] = 0
    /\ \E h \in Choices(Pw) \ {0, conf[b][Pw]} :
          Written(b, [conf[b] EXCEPT ![Pw] = h, ![Hashed] = 1])

-----------------------------------------------------------------------------
\* The user has just opened the settings of a bot.
Init ==
    /\ conf \in Given
    /\ route \in Bot /\ page = [Closed EXCEPT !.open = TRUE, !.of = route]
    /\ level \in {"simple", "expert"}
    /\ debounce = Quiet /\ orphans = {}
    /\ calls = {Get(route)} /\ issued = [f \in Field |-> 0]
    /\ wish = conf /\ lost = {}
    /\ clicks = 0 /\ trouble = 0

Next == \/ User
        \/ \E f \in Field : Fire(f)
        \/ \E e \in orphans : FireOrphan(e)
        \/ \E c \in calls : Serve(c) \/ Fail(c) \/ Resume(c)
        \/ \E b \in Bot : Foreign(b) \/ HashOnRead(b)

Spec == Init /\ [][Next]_vars

-----------------------------------------------------------------------------
(* Properties.                                                             *)

\* Every part of the state has its type; a debounced function that waits holds
\* a value only while its timer runs, and that of a string always does.
TypeOK ==
    /\ \A b \in Bot, f \in Field : conf[b][f] \in Values /\ wish[b][f] \in Values
    /\ route \in Bot \cup {Away}
    /\ \A f \in Field : /\ debounce[f].last \in Values \cup {None}
                        /\ ~debounce[f].on => debounce[f].last = None
                        /\ f \in Text /\ debounce[f].on => debounce[f].last # None
    /\ \A e \in orphans : e[2] \in Values
    /\ ~page.open => page = Closed /\ debounce = Quiet

\* When nothing is waiting or under way, every setting of every bot is what
\* was wanted last: the pauses of the fields lose no edit and write no bot but
\* the one that was edited, also when the user has left the page meanwhile,
\* and what somebody else (or the hash on read) wrote stays unless the user's
\* edit comes after it.  The exceptions: a request failed, two requests for
\* the field changed places, the address went to another bot while a value
\* waited, the fields showed another bot's settings, or the field was edited
\* again while its value of a page he had left was still waiting.
EditsArrive ==
    \A b \in Bot : \A f \in Field \ Unsettled(b) :
        <<b, f>> \notin lost => conf[b][f] = wish[b][f]

\* The fields show the settings of the bot in the address, as far as they do
\* not wait to be sent, with the same exceptions, and two others: the settings
\* were fetched while a value of the page before was still under way, or
\* somebody else (or the hash on read) has written the field since then.
ShownIsSaved ==
    page.open /\ page.model # None /\ page.of = route =>
        \A f \in Field \ (Unsettled(route) \cup page.stale) :
            <<route, f>> \notin lost => page.model[f] = conf[route][f]

\* Not a property of this code: a password that the bot has as it is shown,
\* and that is shown as plain, is plain for the bot.  An edit of the password
\* sends the flags that change on the page: a hashed that the bot has set since
\* the page was fetched is left, and the new password is taken for a hash.
NewPasswordIsPlain ==
    page.open /\ page.model # None /\ page.of = route /\ Unsettled(route) = {} =>
        (conf[route][Pw] = page.model[Pw] /\ page.model[Hashed] = 0 => conf[route][Hashed] = 0)

=============================================================================
