-------------------------------- MODULE Site --------------------------------
(***************************************************************************)
(* The pages of the web interface that poll, and the router between them:  *)
(* the login (Home.vue), the infoboard (Overview.vue), the list of bots    *)
(* (Bots.vue) and the server tree (ServerTree.vue with its nodes).  A page *)
(* that is left is destroyed and its ticker (Timer.ts) stopped; but the    *)
(* answers to its requests still come, and their continuations still run.  *)
(* Every visit to a page is an instance of its own.                        *)
(***************************************************************************)
EXTENDS Integers, FiniteSets

CONSTANTS
    Bot, Channel,
    Cred,        \* what may be typed as a login
    Good,        \* the logins the server accepts
    Anonymous,
    None,
    First, Later, \* bound: the page the user begins with, and those he goes to
    MaxVisits,   \* bound: pages the user opens
    MaxClicks,   \* bound: what else he does
    BotClicks,   \* bound: the same when he begins with the list of bots
    MaxCalls,    \* bound: requests under way at one time
    MaxTrouble   \* bound: failed requests and what others do

ASSUME SiteAssumption == /\ Good \subseteq Cred /\ Anonymous \notin Cred
                         /\ First \cup Later \subseteq {"home", "overview", "bots", "server"}
                         /\ MaxVisits \in Nat \ {0} /\ MaxCalls \in Nat \ {0}
                         /\ MaxClicks \in Nat /\ BotClicks \in Nat /\ MaxTrouble \in Nat
                         /\ IsFiniteSet(Bot) /\ Channel # {} /\ None \notin BOOLEAN

VARIABLES
    bots,        \* BotManager and the configurations: bot -> [stat, named, id]
    tree,        \* the bot of the server tree: [chan, mode, subs]
    time, moved, \* changes of bots so far; the last one that gave an id
    auth,        \* Get.AuthData
    inst,        \* visit -> [page, ticker, has, shown, at, newest, excused, failed]
    cur,         \* the visit that is open
    calls,       \* requests whose continuation has not run
    hit,         \* the last bot stopped: [right, stale]
    clicks, trouble

server == <<bots, tree, time, moved>>
vars == <<server, auth, inst, cur, calls, hit, clicks, trouble>>

Visit == 1 .. MaxVisits
Id == 1 .. Cardinality(Bot)
Status == {"none", "offline", "connecting", "connected"}
Running == {"connecting", "connected"}

\* newest is the state of the server the page has been told of at best, at the
\* one it shows; excused says that this may be wrong for a reason, failed that
\* an error has stopped the polling.
Blank == [page |-> None, ticker |-> FALSE, has |-> FALSE, shown |-> None, at |-> 0, newest |-> 0,
          excused |-> TRUE, failed |-> FALSE]
\* Mutant: the tree has to be refreshed by hand.
PageStill(page) == [Blank EXCEPT !.page = page,
                                 !.ticker = page = "overview",
                                 !.shown = IF page = "home" THEN FALSE ELSE None,
                                 !.excused = page # "home"]
Page(page) == [Blank EXCEPT !.page = page,
                            !.ticker = page \in {"overview", "server"},
                            !.shown = IF page = "home" THEN FALSE ELSE None,
                            !.excused = page # "home"]
\* destroyed(): of what a page holds only hasConnectingBots is read again.
Left(x) == [Blank EXCEPT !.page = x.page, !.has = x.has]
Of(i) == {c \in calls : c.visit = i}

-----------------------------------------------------------------------------
(* Requests.                                                               *)

Free == CHOOSE n \in 1 .. MaxCalls : \A c \in calls : c.n # n

Request(n, i, kind, arg) == [n |-> n, visit |-> i, kind |-> kind, arg |-> arg,
                             state |-> "sent", res |-> None, at |-> 0]

Ask(i, kind, arg) == /\ Cardinality(calls) < MaxCalls
                     /\ calls' = calls \cup {Request(Free, i, kind, arg)}

\* The continuation of c makes another request.
AskNext(c, kind) == calls' = (calls \ {c}) \cup {Request(c.n, c.visit, kind, None)}

-----------------------------------------------------------------------------
(* Pages.                                                                  *)

\* created() of a page, after destroyed() of the one before: the infoboard and
\* the tree start their tickers, the login sends what is stored.
Open(page) ==
    /\ cur < MaxVisits
    /\ cur' = cur + 1
    /\ inst' = [inst EXCEPT ![cur] = Left(@), ![cur + 1] = Page(page)]
    /\ IF page \in {"bots", "server"} THEN Ask(cur + 1, "refresh", None)
       ELSE IF page = "home" /\ auth # Anonymous THEN Ask(cur + 1, "login", auth)
       ELSE UNCHANGED calls
    /\ UNCHANGED <<server, auth, hit, clicks, trouble>>

Connecting(list) == \E b \in Bot : list[b].stat = "connecting"

\* The interval of visit i: the list of bots stops it when no bot connects.
Tick(i) ==
    /\ inst[i].ticker
    /\ IF inst[i].page = "bots" /\ ~inst[i].has
       THEN inst' = [inst EXCEPT ![i].ticker = FALSE] /\ UNCHANGED calls
       ELSE Ask(i, "tick", None) /\ UNCHANGED inst
    /\ UNCHANGED <<server, auth, cur, hit, clicks, trouble>>

-----------------------------------------------------------------------------
(* The user, on the page that is open.                                     *)

Click(page) == /\ clicks < IF inst[1].page = "bots" THEN BotClicks ELSE MaxClicks
               /\ clicks' = clicks + 1
               /\ inst[cur].page = page
               /\ UNCHANGED <<server, cur, hit, trouble>>

\* Mutant: the request is made before the new login is in force.
TypeLate(cred) ==
    /\ Click("home")
    /\ cred # auth
    /\ auth' = cred
    /\ Cardinality(calls) < MaxCalls
    /\ calls' = calls \cup {[Request(Free, cur, "login", auth) EXCEPT !.at = clicks']}
    /\ UNCHANGED inst
\* watch authStr: the new login is in force at once, and is then tried.
Type(cred) ==
    /\ Click("home")
    /\ cred # auth
    /\ auth' = cred
    /\ Cardinality(calls) < MaxCalls
    /\ calls' = calls \cup {[Request(Free, cur, "login", cred) EXCEPT !.at = clicks']}
    /\ UNCHANGED inst

\* startBot, stopBot, connectBot, createBot, deleteBot and editBotServer, as
\* far as the row of b offers them.  A running bot is stopped by its id.
BotClick(kind, b) ==
    /\ Click("bots")
    /\ inst[cur].shown # None
    /\ LET row == inst[cur].shown[b]
       IN  /\ CASE kind \in {"start", "edit"} -> row.stat = "offline"
                [] kind = "stop"              -> row.stat \in Running
                [] kind = "delete"            -> row.stat # "none" /\ row.named
                [] kind \in {"create", "connect"} -> row.stat = "none"
           /\ Ask(cur, kind, [bot |-> b, id |-> row.id, seen |-> inst[cur].at])
    /\ UNCHANGED <<inst, auth>>

\* changeChannel, whisperHere, stopWhisperHere and voiceHere.  Whether the
\* mode is changed besides depends on the mode that is shown.
PlayingHere(t, ch) == t.mode = "whisper" /\ ch \in t.subs

TreeClick(kind, ch) ==
    /\ Click("server")
    /\ inst[cur].shown # None
    /\ LET t == inst[cur].shown
       IN  /\ CASE kind = "move"    -> ch # t.chan
                [] kind = "whisper" -> ~PlayingHere(t, ch)
                [] kind = "quiet"   -> PlayingHere(t, ch)
                [] kind = "voice"   -> TRUE
           /\ Ask(cur, kind, [chan |-> ch, switch |-> t.mode # "whisper"])
    /\ UNCHANGED <<inst, auth>>

BotKind == {"start", "edit", "stop", "delete", "create", "connect"}
TreeKind == {"move", "whisper", "quiet", "voice"}

User == \/ \E page \in Later : Open(page)
        \/ \E cred \in Cred : Type(cred)
        \/ \E kind \in BotKind, b \in Bot : BotClick(kind, b)
        \/ \E kind \in TreeKind, ch \in Channel : TreeClick(kind, ch)

-----------------------------------------------------------------------------
(* The server.                                                             *)

\* Mutant: the slot of a stopped bot is not given back.
StoppedStays(r) == [r EXCEPT !.stat = IF r.named THEN "offline" ELSE "none"]
Stopped(r) == [r EXCEPT !.stat = IF r.named THEN "offline" ELSE "none", !.id = 0]
Holder(id) == {b \in Bot : bots[b].id = id /\ id # 0}

\* Mutant: the first slot is taken, whether it is free or not.
StartedFirst(r) == [r EXCEPT !.stat = "connecting", !.id = 1]
\* GetFreeId: the first id no bot has.
Started(r) ==
    [r EXCEPT !.stat = "connecting",
              !.id = CHOOSE n \in Id : /\ Holder(n) = {}
                                       /\ \A m \in 1 .. n - 1 : Holder(m) # {}]

\* Commands the server refuses.
Refused(c) ==
    \/ c.kind = "start" /\ bots[c.arg.bot].stat = "none"
    \/ c.kind = "create" /\ bots[c.arg.bot].named
    \/ c.kind = "stop" /\ Holder(c.arg.id) = {}
    \/ c.kind = "edit" /\ ~bots[c.arg.bot].named
    \/ c.kind = "login" /\ c.arg \notin Good

\* A bot that runs is not started again.  A running bot whose configuration
\* is deleted runs on without a name.
BotsAfter(c) ==
    CASE c.kind = "start" /\ bots[c.arg.bot].stat = "offline" ->
            [bots EXCEPT ![c.arg.bot] = Started(@)]
      [] c.kind = "connect" /\ bots[c.arg.bot].stat = "none" ->
            [bots EXCEPT ![c.arg.bot] = Started(@)]
      [] c.kind = "stop" -> [b \in Bot |-> IF b \in Holder(c.arg.id) THEN Stopped(bots[b]) ELSE bots[b]]
      [] c.kind = "create" /\ bots[c.arg.bot].stat = "none" ->
            [bots EXCEPT ![c.arg.bot].named = TRUE, ![c.arg.bot].stat = "offline"]
      [] c.kind = "delete" ->
            [bots EXCEPT ![c.arg.bot].named = FALSE,
                         ![c.arg.bot].stat = IF @ = "offline" THEN "none" ELSE @]
      [] OTHER -> bots

TreeAfter(c) ==
    CASE c.kind = "move"    -> [tree EXCEPT !.chan = c.arg.chan]
      [] c.kind = "whisper" -> [tree EXCEPT !.mode = IF c.arg.switch THEN "whisper" ELSE @,
                                            !.subs = @ \cup {c.arg.chan}]
      [] c.kind = "quiet"   -> [tree EXCEPT !.subs = @ \ {c.arg.chan}]
      [] c.kind = "voice"   -> [tree EXCEPT !.mode = "voice"]
      [] OTHER              -> tree

\* The state of the server becomes b and t.
Becomes(b, t) ==
    /\ bots' = b /\ tree' = t
    /\ time' = IF b = bots THEN time ELSE time + 1
    /\ moved' = IF \E x \in Bot : b[x].id \notin {0, bots[x].id} THEN time' ELSE moved

\* Nobody tells the pages, but for the one of visit i that made the change.
Surprised(i) == [j \in Visit |-> IF j = i THEN inst[j] ELSE [inst[j] EXCEPT !.excused = TRUE]]

Answered(c, d) == calls' = (calls \ {c}) \cup {d}

Serve(c) ==
    /\ c.state = "sent"
    /\ \/ /\ Refused(c)
          /\ Answered(c, [c EXCEPT !.state = "failed"])
          /\ UNCHANGED <<server, hit, inst>>
       \/ /\ ~Refused(c)
          /\ Becomes(BotsAfter(c), TreeAfter(c))
          /\ hit' = IF c.kind = "stop"
                    THEN [right |-> Holder(c.arg.id) = {c.arg.bot}, stale |-> c.arg.seen < moved]
                    ELSE hit
          /\ inst' = IF time' = time THEN inst ELSE Surprised(c.visit)
          /\ Answered(c, [c EXCEPT !.state = "ok",
                !.res = IF c.kind \notin {"refresh", "tick"} THEN None
                        ELSE CASE inst[c.visit].page = "bots"   -> bots
                               [] inst[c.visit].page = "server" -> tree
                               [] OTHER                         -> None,
                !.at = IF c.kind = "login" THEN @ ELSE time'])
    /\ UNCHANGED <<auth, cur, clicks, trouble>>

\* A bot has connected, or has given up.  Nothing makes it do either: the lists
\* of pauses between two tries end in "repeat last".
Resolve(b) ==
    /\ bots[b].stat = "connecting"
    /\ \E r \in {[bots[b] EXCEPT !.stat = "connected"], Stopped(bots[b])} :
          Becomes([bots EXCEPT ![b] = r], tree)
    /\ UNCHANGED <<auth, inst, cur, calls, hit, clicks, trouble>>

Trouble == trouble < MaxTrouble /\ trouble' = trouble + 1 /\ UNCHANGED <<auth, cur, clicks>>

\* A request fails, before or after the server has carried it out.
Fail(c) ==
    /\ Trouble
    /\ c.state = "sent"
    /\ \/ UNCHANGED server
       \/ ~Refused(c) /\ Becomes(BotsAfter(c), TreeAfter(c))
    /\ Answered(c, [c EXCEPT !.state = "lost"])
    /\ inst' = Surprised(0)
    /\ UNCHANGED hit

\* A bot that has lost its connection keeps its slot while it connects again.
Lost(r) == [r EXCEPT !.stat = "connecting"]

\* Somebody else starts, stops or moves a bot, or a bot loses its connection
\* and stops (by default when it is kicked) or connects again.
Foreign ==
    /\ Trouble
    /\ \/ \E b \in Bot : bots[b].stat = "offline" /\ Becomes([bots EXCEPT ![b] = Started(@)], tree)
       \/ \E b \in Bot : bots[b].stat \in Running /\ Becomes([bots EXCEPT ![b] = Stopped(@)], tree)
       \/ \E b \in Bot : bots[b].stat = "connected" /\ Becomes([bots EXCEPT ![b] = Lost(@)], tree)
       \/ \E ch \in Channel \ {tree.chan} : inst[cur].page = "server" /\ Becomes(bots, [tree EXCEPT !.chan = ch])
    /\ inst' = Surprised(0)
    /\ UNCHANGED <<calls, hit>>

-----------------------------------------------------------------------------
(* The continuations.  They do not ask whether their page is still open.   *)

Done(c) == calls' = calls \ {c}

\* An answer is shown whatever came before it; fresh ones put things right.
Told(c) ==
  LET x == inst[c.visit]
  IN  IF c.visit # cur THEN x
      ELSE [x EXCEPT !.shown = c.res,
                     !.at = c.at,
                     !.newest = IF c.at > @ THEN c.at ELSE @,
                     !.excused = IF c.at = time /\ Of(c.visit) = {c} THEN FALSE
                                 ELSE @ \/ c.at < x.newest]

\* Mutants: the list does not start the ticker; hasConnectingBots is not reset.
BotsDoneLazy(c) ==
    /\ inst[c.visit].page = "bots" /\ c.kind \in {"refresh", "tick"}
    /\ Done(c)
    /\ LET ok == c.state = "ok"
           has == IF ok THEN Connecting(c.res) ELSE inst[c.visit].has
           x == IF ok THEN Told(c) ELSE inst[c.visit]
       IN  inst' = [inst EXCEPT ![c.visit] =
              [x EXCEPT !.has = has, !.ticker = @ /\ (has \/ c.kind # "tick")]]
BotsDoneSticky(c) ==
    /\ inst[c.visit].page = "bots" /\ c.kind \in {"refresh", "tick"}
    /\ Done(c)
    /\ LET ok == c.state = "ok"
           has == inst[c.visit].has \/ (ok /\ Connecting(c.res))
           x == IF ok THEN Told(c) ELSE inst[c.visit]
       IN  inst' = [inst EXCEPT ![c.visit] =
              [x EXCEPT !.has = has,
                        !.ticker = (@ \/ (ok /\ has)) /\ (has \/ c.kind # "tick")]]
\* refresh of Bots.vue; a tick's continuation looks at hasConnectingBots.
BotsDone(c) ==
    /\ inst[c.visit].page = "bots" /\ c.kind \in {"refresh", "tick"}
    /\ Done(c)
    /\ LET ok == c.state = "ok"
           has == IF ok THEN Connecting(c.res) ELSE inst[c.visit].has
           x == IF ok THEN Told(c) ELSE inst[c.visit]
       IN  inst' = [inst EXCEPT ![c.visit] =
              [x EXCEPT !.has = has,
                        !.ticker = (@ \/ (ok /\ has)) /\ (has \/ c.kind # "tick")]]

\* refresh of Overview.vue starts the ticker again, or stops it.
OverviewDone(c) ==
    /\ inst[c.visit].page = "overview" /\ c.kind = "tick"
    /\ Done(c)
    /\ inst' = [inst EXCEPT ![c.visit].ticker = (c.state = "ok")]

\* refresh of ServerTree.vue; an error stops the ticker.
TreeDone(c) ==
    /\ inst[c.visit].page = "server" /\ c.kind \in {"refresh", "tick"}
    /\ Done(c)
    /\ inst' = [inst EXCEPT ![c.visit] = IF c.state = "ok" THEN Told(c)
                                         ELSE [@ EXCEPT !.ticker = FALSE, !.failed = TRUE]]

\* Mutant: a command of the list of bots is not followed by a refresh.
CommandDoneOnly(c) ==
    /\ c.kind \in BotKind \cup TreeKind
    /\ \/ /\ c.state = "ok" /\ c.kind \in TreeKind
          /\ AskNext(c, "refresh")
          /\ inst' = [inst EXCEPT ![c.visit].ticker = TRUE, ![c.visit].failed = FALSE]
       \/ /\ c.state # "ok" \/ c.kind \in BotKind
          /\ Done(c)
          /\ UNCHANGED inst
\* A command is followed by a refresh; meta.refresh of the tree starts the
\* ticker again besides.
CommandDone(c) ==
    /\ c.kind \in BotKind \cup TreeKind
    /\ \/ /\ c.state = "ok"
          /\ AskNext(c, "refresh")
          /\ inst' = IF c.kind \notin TreeKind THEN inst
                     ELSE [inst EXCEPT ![c.visit].ticker = TRUE, ![c.visit].failed = FALSE]
       \/ /\ c.state # "ok"
          /\ Done(c)
          /\ UNCHANGED inst

\* logged_in, and "Auth failed".
LoginDone(c) ==
    /\ c.kind = "login"
    /\ Done(c)
    /\ LET x == inst[c.visit]
       IN  inst' = [inst EXCEPT ![c.visit] =
              [x EXCEPT !.shown = (c.state = "ok"),
                        !.newest = IF c.at > @ THEN c.at ELSE @,
                        !.excused = c.at < x.newest \/ c.state = "lost"]]

Resume(c) ==
    /\ c.state # "sent"
    /\ BotsDone(c) \/ OverviewDone(c) \/ TreeDone(c) \/ CommandDone(c) \/ LoginDone(c)
    /\ UNCHANGED <<server, auth, cur, hit, clicks, trouble>>

-----------------------------------------------------------------------------
\* A page is opened at any moment.  Bound: only the list of bots finds any, none
\* or all of them with a name and at most one running.
Init ==
    /\ cur = 1
    /\ \E page \in First :
          /\ inst = [i \in Visit |-> IF i = 1 THEN Page(page) ELSE Blank]
          /\ auth \in IF page = "home" THEN Cred \cup {Anonymous} ELSE {Anonymous}
          /\ calls = IF page \in {"bots", "server"} THEN {Request(1, 1, "refresh", None)}
                     ELSE IF page = "home" /\ auth # Anonymous THEN {Request(1, 1, "login", auth)}
                     ELSE {}
          /\ \E on \in SUBSET {CHOOSE b \in Bot : TRUE}, named \in {{}, Bot} :
                /\ page # "bots" => on = {} /\ named = {}
                /\ bots = [b \in Bot |-> [stat |-> IF b \in on THEN "connecting"
                                                 ELSE IF b \in named THEN "offline" ELSE "none",
                                        named |-> b \in named,
                                        id |-> IF b \in on THEN 1 ELSE 0]]
    /\ tree = [chan |-> CHOOSE ch \in Channel : TRUE, mode |-> "voice", subs |-> {}]
    /\ time = 0 /\ moved = 0
    /\ hit = [right |-> TRUE, stale |-> FALSE]
    /\ clicks = 0 /\ trouble = 0

Next == \/ User
        \/ \E i \in Visit : Tick(i)
        \/ \E c \in calls : Serve(c) \/ Fail(c) \/ Resume(c)
        \/ \E b \in Bot : Resolve(b)
        \/ Foreign

\* Intervals fire and requests are answered.  A bot may connect for ever.
Fairness ==
    /\ \A i \in Visit : WF_vars(Tick(i))
    /\ \A n \in 1 .. MaxCalls : WF_vars(\E c \in calls : c.n = n /\ (Serve(c) \/ Resume(c)))

Spec == Init /\ [][Next]_vars /\ Fairness

-----------------------------------------------------------------------------
(* Properties.                                                             *)

\* Every part of the state has its type; the bots that run, and they alone,
\* have ids, and no two the same.
TypeOK ==
    /\ \A b \in Bot : /\ bots[b].stat \in Status
                      /\ (bots[b].id # 0) = (bots[b].stat \in Running)
                      /\ Cardinality(Holder(bots[b].id)) <= 1
    /\ tree.chan \in Channel /\ tree.subs \subseteq Channel
    /\ auth \in Cred \cup {Anonymous} /\ cur \in Visit
    /\ \A i \in Visit : inst[i].ticker \in BOOLEAN /\ inst[i].at <= inst[i].newest
    /\ \A c, d \in calls : c.n = d.n => c = d

\* As long as the list of bots shows one that is connecting, its ticker runs,
\* in whatever order the answers of the ticker, of the commands and of the
\* first request come.
ConnectingIsPolled ==
    /\ inst[cur].page = "bots" /\ inst[cur].shown # None
    /\ Connecting(inst[cur].shown)
    => inst[cur].ticker

\* A click on "Stop" stops the bot of that row, unless an id has been given to
\* a bot since the list was made.
WrongBotHasCause == hit.right \/ hit.stale

\* A list of bots that is neither polled nor asked for shows the bots as they
\* are, unless an old answer overtook a newer one, a request failed, or someone
\* else, also the page before, has changed them since.
ListRight ==
    /\ inst[cur].page = "bots" /\ ~inst[cur].ticker
    /\ Of(cur) = {} /\ ~inst[cur].excused
    => inst[cur].shown = bots

\* When no login is being tried, the page says of the login in force whether
\* the server accepts it, unless a try was lost or an old one answered last.
LoginRight ==
    inst[cur].page = "home" /\ Of(cur) = {} /\ ~inst[cur].excused
        => inst[cur].shown = (auth \in Good)

\* The list of bots polls while a bot connects, which may be for ever, but not
\* in vain: once none does, all polling ends, unless one connects again.  This
\* holds also for the ticker that a late answer has started on a page that is
\* left.
Polling == \E i \in Visit : inst[i].page = "bots" /\ inst[i].ticker
PolledInVain == Polling /\ ~Connecting(bots)
PollingEnds == PolledInVain ~> ~PolledInVain

\* A tree that is open comes to show the bot as it is, as long as no error has
\* stopped the polling.
Outdated == LET x == inst[cur] IN x.page = "server" /\ ~x.failed /\ x.shown # tree
TreeFollowed == Outdated ~> ~Outdated

=============================================================================
